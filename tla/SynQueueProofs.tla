--------------------------- MODULE SynQueueProofs ---------------------------
(***************************************************************************)
(* What TLAPS proves of SynQueue for every number of threads, messages and *)
(* slots.  The counting lemmas say how a step of one thread changes the    *)
(* number of threads in a set of program points; the inductive invariant   *)
(* follows from them by arithmetic.                                        *)
(***************************************************************************)
EXTENDS SynQueue, FiniteSetTheorems, TLAPS

USE ThreadsAssumption, MaxSizeAssumption

(* The threads of S that are, according to f, at one of the labels of L.   *)
Count(f, S, L) == Cardinality({t \in S : f[t] \in L})

(* The number of threads at given program points is a natural number.      *)
LEMMA CountType ==
  ASSUME NEW f, NEW S, IsFiniteSet(S), NEW L
  PROVE  Count(f, S, L) \in Nat
<1> {t \in S : f[t] \in L} \subseteq S
  OBVIOUS
<1> QED BY FS_Subset, FS_CardinalityType DEF Count

(* Nobody at the points, nobody counted.                                   *)
LEMMA CountNone ==
  ASSUME NEW f, NEW S, NEW L, \A t \in S : f[t] \notin L
  PROVE  Count(f, S, L) = 0
<1> {t \in S : f[t] \in L} = {}
  OBVIOUS
<1> QED BY FS_EmptySet DEF Count

(* Fewer program points, fewer threads.                                    *)
LEMMA CountMonotone ==
  ASSUME NEW f, NEW S, IsFiniteSet(S), NEW L, NEW M, L \subseteq M
  PROVE  Count(f, S, L) <= Count(f, S, M)
<1> DEFINE A == {t \in S : f[t] \in L}
           B == {t \in S : f[t] \in M}
<1>1. A \subseteq B /\ B \subseteq S
  OBVIOUS
<1>2. IsFiniteSet(B)
  BY <1>1, FS_Subset
<1> QED BY <1>1, <1>2, FS_Subset DEF Count

(* A thread of S at one of the points is counted.                          *)
LEMMA CountPositive ==
  ASSUME NEW f, NEW S, IsFiniteSet(S), NEW t \in S, NEW L, f[t] \in L
  PROVE  Count(f, S, L) >= 1
<1> DEFINE A == {x \in S : f[x] \in L}
<1>1. IsFiniteSet(A) /\ t \in A
  BY FS_Subset
<1> HIDE DEF A
<1>2. Cardinality(A) \in Nat /\ Cardinality(A) # 0
  BY <1>1, FS_CardinalityType, FS_EmptySet
<1>3. Cardinality(A) >= 1
  BY <1>2
<1> QED BY <1>3 DEF Count, A

(* No thread of S moves: the count stays.                                  *)
LEMMA CountSame ==
  ASSUME NEW f, NEW g, NEW S, \A x \in S : g[x] = f[x], NEW L
  PROVE  Count(g, S, L) = Count(f, S, L)
<1> {x \in S : g[x] \in L} = {x \in S : f[x] \in L}
  OBVIOUS
<1> QED BY DEF Count

(* A thread t of S moves from f[t] to g[t].                                *)
LEMMA CountMove ==
  ASSUME NEW f, NEW g, NEW S, IsFiniteSet(S), NEW t \in S,
         \A x \in S \ {t} : g[x] = f[x], NEW L
  PROVE  /\ g[t] \in L /\ f[t] \notin L => Count(g, S, L) = Count(f, S, L) + 1
         /\ g[t] \notin L /\ f[t] \in L => Count(g, S, L) = Count(f, S, L) - 1
         /\ (g[t] \in L <=> f[t] \in L) => Count(g, S, L) = Count(f, S, L)
<1> DEFINE A == {x \in S : f[x] \in L}
           B == {x \in S : g[x] \in L}
<1>1. Count(f, S, L) = Cardinality(A) /\ Count(g, S, L) = Cardinality(B)
  BY Zenon DEF Count
<1>2. IsFiniteSet(A) /\ A \subseteq S /\ B \subseteq S
  BY FS_Subset
<1>3. g[t] \in L /\ f[t] \notin L => B = A \cup {t} /\ t \notin A
  OBVIOUS
<1>4. g[t] \notin L /\ f[t] \in L => B = A \ {t} /\ t \in A
  OBVIOUS
<1>5. (g[t] \in L <=> f[t] \in L) => B = A
  OBVIOUS
<1> HIDE DEF A, B
<1>6. /\ Cardinality(A \cup {t}) = IF t \in A THEN Cardinality(A) ELSE Cardinality(A) + 1
      /\ Cardinality(A \ {t}) = IF t \in A THEN Cardinality(A) - 1 ELSE Cardinality(A)
  BY <1>2, FS_AddElement, FS_RemoveElement
<1> QED BY <1>1, <1>3, <1>4, <1>5, <1>6
-----------------------------------------------------------------------------
(* The four counts the invariant speaks of: producers and consumers that   *)
(* hold a token, and those whose message is, or is still, in the deque.    *)
PTokAt  == {"lock", "push", "unlock", "post"}
CTokAt  == {"lock", "read", "pop", "unlock", "post"}
PReadAt == {"unlock", "post"}
CReadAt == {"lock", "read", "pop"}
PTok(f)  == Count(f, Producers, PTokAt)
CTok(f)  == Count(f, Consumers, CTokAt)
PRead(f) == Count(f, Producers, PReadAt)
CRead(f) == Count(f, Consumers, CReadAt)

(* The counts are numbers, and the second pair is part of the first.       *)
LEMMA CountsType ==
  ASSUME NEW f
  PROVE  /\ PTok(f) \in Nat /\ CTok(f) \in Nat /\ PRead(f) \in Nat /\ CRead(f) \in Nat
         /\ PRead(f) <= PTok(f) /\ CRead(f) <= CTok(f)
<1>1. PTok(f) \in Nat /\ CTok(f) \in Nat /\ PRead(f) \in Nat /\ CRead(f) \in Nat
  BY CountType DEF PTok, CTok, PRead, CRead
<1>2. PRead(f) <= PTok(f) /\ CRead(f) <= CTok(f)
  BY CountMonotone DEF PTok, CTok, PRead, CRead, PTokAt, CTokAt, PReadAt, CReadAt
<1> QED BY <1>1, <1>2

(* Conservation bounds both semaphores, and with them the deque.           *)
LEMMA TokenBounds ==
  ASSUME NEW f, NEW sw \in Nat, NEW sr \in Nat, NEW n \in Nat,
         sw + sr + PTok(f) + CTok(f) = MaxSize - 1,
         n <= sr + PRead(f) + CRead(f)
  PROVE  sw \in 0 .. MaxSize - 1 /\ sr \in 0 .. MaxSize - 1 /\ n <= MaxSize - 1
BY CountsType

(* A producer moves  to another program point.                               *)
LEMMA ProducerMove ==
  ASSUME NEW f, NEW g, NEW p \in Producers,
         \A x \in Threads \ {p} : g[x] = f[x]
  PROVE  /\ g[p] \in PTokAt /\ f[p] \notin PTokAt => PTok(g) = PTok(f) + 1
         /\ g[p] \notin PTokAt /\ f[p] \in PTokAt => PTok(g) = PTok(f) - 1
         /\ (g[p] \in PTokAt <=> f[p] \in PTokAt) => PTok(g) = PTok(f)
         /\ g[p] \in PReadAt /\ f[p] \notin PReadAt => PRead(g) = PRead(f) + 1
         /\ g[p] \notin PReadAt /\ f[p] \in PReadAt => PRead(g) = PRead(f) - 1
         /\ (g[p] \in PReadAt <=> f[p] \in PReadAt) => PRead(g) = PRead(f)
         /\ CTok(g) = CTok(f) /\ CRead(g) = CRead(f)
<1>1. /\ \A x \in Producers \ {p} : g[x] = f[x]
      /\ \A x \in Consumers : g[x] = f[x]
  BY DEF Threads
<1>2. CTok(g) = CTok(f) /\ CRead(g) = CRead(f)
  BY <1>1, CountSame DEF CTok, CRead
<1>3. /\ g[p] \in PTokAt /\ f[p] \notin PTokAt => PTok(g) = PTok(f) + 1
      /\ g[p] \notin PTokAt /\ f[p] \in PTokAt => PTok(g) = PTok(f) - 1
      /\ (g[p] \in PTokAt <=> f[p] \in PTokAt) => PTok(g) = PTok(f)
  BY <1>1, CountMove DEF PTok
<1>4. /\ g[p] \in PReadAt /\ f[p] \notin PReadAt => PRead(g) = PRead(f) + 1
      /\ g[p] \notin PReadAt /\ f[p] \in PReadAt => PRead(g) = PRead(f) - 1
      /\ (g[p] \in PReadAt <=> f[p] \in PReadAt) => PRead(g) = PRead(f)
  BY <1>1, CountMove DEF PRead
<1> QED BY <1>2, <1>3, <1>4

(* A consumer moves  to another program point.                               *)
LEMMA ConsumerMove ==
  ASSUME NEW f, NEW g, NEW c \in Consumers,
         \A x \in Threads \ {c} : g[x] = f[x]
  PROVE  /\ g[c] \in CTokAt /\ f[c] \notin CTokAt => CTok(g) = CTok(f) + 1
         /\ g[c] \notin CTokAt /\ f[c] \in CTokAt => CTok(g) = CTok(f) - 1
         /\ (g[c] \in CTokAt <=> f[c] \in CTokAt) => CTok(g) = CTok(f)
         /\ g[c] \in CReadAt /\ f[c] \notin CReadAt => CRead(g) = CRead(f) + 1
         /\ g[c] \notin CReadAt /\ f[c] \in CReadAt => CRead(g) = CRead(f) - 1
         /\ (g[c] \in CReadAt <=> f[c] \in CReadAt) => CRead(g) = CRead(f)
         /\ PTok(g) = PTok(f) /\ PRead(g) = PRead(f)
<1>1. /\ \A x \in Consumers \ {c} : g[x] = f[x]
      /\ \A x \in Producers : g[x] = f[x]
  BY DEF Threads
<1>2. PTok(g) = PTok(f) /\ PRead(g) = PRead(f)
  BY <1>1, CountSame DEF PTok, PRead
<1>3. /\ g[c] \in CTokAt /\ f[c] \notin CTokAt => CTok(g) = CTok(f) + 1
      /\ g[c] \notin CTokAt /\ f[c] \in CTokAt => CTok(g) = CTok(f) - 1
      /\ (g[c] \in CTokAt <=> f[c] \in CTokAt) => CTok(g) = CTok(f)
  BY <1>1, CountMove DEF CTok
<1>4. /\ g[c] \in CReadAt /\ f[c] \notin CReadAt => CRead(g) = CRead(f) + 1
      /\ g[c] \notin CReadAt /\ f[c] \in CReadAt => CRead(g) = CRead(f) - 1
      /\ (g[c] \in CReadAt <=> f[c] \in CReadAt) => CRead(g) = CRead(f)
  BY <1>1, CountMove DEF CRead
<1> QED BY <1>2, <1>3, <1>4

-----------------------------------------------------------------------------
(***************************************************************************)
(* The inductive invariant.  Tokens is the arithmetic: conservation, and a *)
(* token for every message in the deque.  Shape is the rest: the types,    *)
(* the mutex with at most one holder, and the head a consumer has seen     *)
(* under the mutex still there when it pops, without which the pop would   *)
(* not shorten the deque.                                                  *)
(***************************************************************************)
Tokens(sw, sr, n, f) == /\ sw \in Nat /\ sr \in Nat
                        /\ sw + sr + PTok(f) + CTok(f) = MaxSize - 1
                        /\ n <= sr + PRead(f) + CRead(f)
                        /\ "other" \notin Pris => n >= sr + PRead(f) + CRead(f)

MutexInv == \A t \in Threads :
              pc[t] \in {"push", "read", "pop", "unlock"} => mutex = t
PopInv == \A c \in Consumers :
            pc[c] = "pop" => queue # <<>> /\ pMsg[c] = Head(queue)
ArgInv == \A p \in Producers : pc[p] \in {"wait", "lock", "push"} => pMsg[p] \in Msgs

Types == /\ mutex \in Threads \cup {Nobody}
         /\ queue \in Seq(Msgs)
         /\ pc \in [Threads -> ProducerLabels \cup ConsumerLabels]
         /\ \A p \in Producers : pc[p] \in ProducerLabels
         /\ \A c \in Consumers : pc[c] \in ConsumerLabels
         /\ pMsg \in [Threads -> Msgs \cup {NULL}]
         /\ pri \in [Producers -> {"none"} \cup Pris]
         /\ live \subseteq Msgs

Shape == Types /\ MutexInv /\ PopInv /\ ArgInv

IInv == Shape /\ Tokens(semWrite, semRead, Len(queue), pc)

(* The arithmetic is what the properties of the module say.                *)
LEMMA IInvImplies == IInv => TypeOK /\ TokenConservation /\ QueueBacked
<1> SUFFICES ASSUME IInv PROVE TypeOK /\ TokenConservation /\ QueueBacked
  OBVIOUS
<1>1. Len(queue) \in Nat
  BY DEF IInv, Shape, Types
<1>2. /\ semWrite \in 0 .. MaxSize - 1 /\ semRead \in 0 .. MaxSize - 1
      /\ Len(queue) <= MaxSize - 1
  BY <1>1, TokenBounds DEF IInv, Tokens
<1>3. TypeOK
  BY <1>2 DEF TypeOK, IInv, Shape, Types
<1>4. TokenConservation
  BY DEF IInv, Tokens, TokenConservation, At, PTok, CTok, PTokAt, CTokAt, Count
<1>5. ReadTokens = semRead + PRead(pc) + CRead(pc)
  BY DEF ReadTokens, At, PRead, CRead, PReadAt, CReadAt, Count
<1>6. QueueBacked
  BY <1>2, <1>5 DEF QueueBacked, IInv, Tokens
<1> QED BY <1>3, <1>4, <1>6

(* The constructor establishes the invariant: no thread is at work.        *)
LEMMA InitIInv == Init => IInv
<1> SUFFICES ASSUME Init PROVE IInv
  OBVIOUS
<1>1. Shape
  BY DEF Init, Shape, Types, MutexInv, PopInv, ArgInv, ProducerLabels, ConsumerLabels, Threads
<1>2. \A S, L : S \subseteq Threads /\ "idle" \notin L => {t \in S : pc[t] \in L} = {}
  BY DEF Init
<1>3. PTok(pc) = 0 /\ CTok(pc) = 0 /\ PRead(pc) = 0 /\ CRead(pc) = 0
  <2>1. Producers \subseteq Threads /\ Consumers \subseteq Threads
    BY DEF Threads
  <2> QED BY <2>1, <1>2, FS_EmptySet DEF PTok, CTok, PRead, CRead, PTokAt, CTokAt, PReadAt, CReadAt, Count
<1>4. Tokens(semWrite, semRead, Len(queue), pc)
  BY <1>3 DEF Init, Tokens
<1> QED BY <1>1, <1>4 DEF IInv

(* What the two overloads of put do to the deque.                          *)
LEMMA PushedProperties ==
  ASSUME NEW q \in Seq(Msgs), NEW m \in Msgs, NEW k
  PROVE  /\ Pushed(q, m, k) \in Seq(Msgs)
         /\ Len(Pushed(q, m, k)) <= Len(q) + 1
         /\ k \in {"none", "high"} => Len(Pushed(q, m, k)) = Len(q) + 1
<1>1. CASE k = "none"
  BY <1>1 DEF Pushed
<1>2. CASE k = "high"
  <2>1. Pushed(q, m, k) = <<m>> \o q
    BY <1>2 DEF Pushed
  <2> QED BY <2>1
<1>3. CASE k \notin {"none", "high"}
  BY <1>3 DEF Pushed
<1> QED BY <1>1, <1>2, <1>3

(* A step of a producer keeps the arithmetic.                              *)
LEMMA PutTokens ==
  ASSUME IInv, NEW p \in Producers,
         (\E m \in Msgs, k \in Pris : PutCall(p, m, k)) \/ PutStep(p)
  PROVE  Tokens(semWrite', semRead', Len(queue'), pc')
<1>1. /\ semWrite \in Nat /\ semRead \in Nat /\ Len(queue) \in Nat
      /\ semWrite + semRead + PTok(pc) + CTok(pc) = MaxSize - 1
      /\ Len(queue) <= semRead + PRead(pc) + CRead(pc)
      /\ "other" \notin Pris => Len(queue) >= semRead + PRead(pc) + CRead(pc)
      /\ pc \in [Threads -> ProducerLabels \cup ConsumerLabels] /\ queue \in Seq(Msgs)
  BY DEF IInv, Shape, Types, Tokens
<1>2. PTok(pc) \in Nat /\ CTok(pc) \in Nat /\ PRead(pc) \in Nat /\ CRead(pc) \in Nat
  BY CountsType
<1>0. /\ semWrite \in Nat /\ semRead \in Nat /\ Len(queue) \in Nat /\ MaxSize \in Nat
      /\ semWrite + semRead + PTok(pc) + CTok(pc) = MaxSize - 1
      /\ Len(queue) <= semRead + PRead(pc) + CRead(pc)
      /\ "other" \notin Pris => Len(queue) >= semRead + PRead(pc) + CRead(pc)
  BY <1>1, MaxSizeAssumption
<1>3. CASE \E m \in Msgs, k \in Pris : PutCall(p, m, k)
  <2>1. pc[p] = "idle" /\ pc'[p] = "wait" /\ (\A x \in Threads \ {p} : pc'[x] = pc[x])
        /\ UNCHANGED <<semWrite, semRead, queue>>
    BY <1>1, <1>3 DEF PutCall, Goto, Threads
  <2>9. /\ PTok(pc') = PTok(pc) /\ PRead(pc') = PRead(pc)
        /\ CTok(pc') = CTok(pc) /\ CRead(pc') = CRead(pc)
    BY <2>1, <1>1, ProducerMove DEF PTokAt, PReadAt
  <2>10. semWrite' = semWrite /\ semRead' = semRead /\ Len(queue') = Len(queue)
    BY <2>1
  <2> QED BY <2>10, <2>9, <1>0, <1>2 DEF Tokens
<1>4. CASE PutWait(p)
  <2>1. pc[p] = "wait" /\ pc'[p] = "lock" /\ (\A x \in Threads \ {p} : pc'[x] = pc[x]) /\ semWrite > 0
        /\ semWrite' = semWrite - 1 /\ UNCHANGED <<semRead, queue>>
    BY <1>1, <1>4 DEF PutWait, Goto, Threads
  <2>9. /\ PTok(pc') = PTok(pc) + 1 /\ PRead(pc') = PRead(pc)
        /\ CTok(pc') = CTok(pc) /\ CRead(pc') = CRead(pc)
    BY <2>1, <1>1, ProducerMove DEF PTokAt, PReadAt
  <2>10. semWrite' = semWrite - 1 /\ semRead' = semRead /\ semWrite > 0 /\ Len(queue') = Len(queue)
    BY <2>1
  <2> QED BY <2>10, <2>9, <1>0, <1>2 DEF Tokens
<1>5. CASE PutLock(p)
  <2>1. pc[p] = "lock" /\ pc'[p] = "push" /\ (\A x \in Threads \ {p} : pc'[x] = pc[x])
        /\ UNCHANGED <<semWrite, semRead, queue>>
    BY <1>1, <1>5 DEF PutLock, Lock, Goto, Threads
  <2>9. /\ PTok(pc') = PTok(pc) /\ PRead(pc') = PRead(pc)
        /\ CTok(pc') = CTok(pc) /\ CRead(pc') = CRead(pc)
    BY <2>1, <1>1, ProducerMove DEF PTokAt, PReadAt
  <2>10. semWrite' = semWrite /\ semRead' = semRead /\ Len(queue') = Len(queue)
    BY <2>1
  <2> QED BY <2>10, <2>9, <1>0, <1>2 DEF Tokens
<1>6. CASE PutPush(p)
  <2>1. pc[p] = "push" /\ pc'[p] = "unlock" /\ (\A x \in Threads \ {p} : pc'[x] = pc[x])
        /\ queue' = Pushed(queue, pMsg[p], pri[p]) /\ UNCHANGED <<semWrite, semRead>>
    BY <1>1, <1>6 DEF PutPush, Goto, Threads
  <2>2. pMsg[p] \in Msgs
    BY <2>1 DEF IInv, Shape, Types, ArgInv
  <2>3. Len(queue') \in Nat /\ Len(queue') <= Len(queue) + 1
    BY <2>1, <2>2, <1>1, PushedProperties
  <2>4. "other" \notin Pris => Len(queue') = Len(queue) + 1
    <3>1. "other" \notin Pris => pri[p] \in {"none", "high"}
      <4>1. pri[p] \in {"none"} \cup Pris
        BY DEF IInv, Shape, Types
      <4> QED BY <4>1, PrisAssumption, Zenon
    <3>2. queue \in Seq(Msgs) /\ queue' = Pushed(queue, pMsg[p], pri[p])
      BY <1>1, <2>1
    <3> QED BY <2>2, <3>1, <3>2, PushedProperties
  <2>9. /\ PTok(pc') = PTok(pc) /\ PRead(pc') = PRead(pc) + 1
        /\ CTok(pc') = CTok(pc) /\ CRead(pc') = CRead(pc)
    BY <2>1, <1>1, ProducerMove DEF PTokAt, PReadAt
  <2>10. semWrite' = semWrite /\ semRead' = semRead
    BY <2>1
  <2>11. semWrite' \in Nat /\ semRead' \in Nat /\ semWrite' + semRead' + PTok(pc') + CTok(pc') = MaxSize - 1
    BY <2>10, <2>9, <1>0, <1>2
  <2>12. semRead' + PRead(pc') + CRead(pc') = semRead + PRead(pc) + CRead(pc) + 1
    BY <2>10, <2>9, <1>0, <1>2
  <2>13. PICK k \in Nat, n \in Nat : k = Len(queue) /\ n = Len(queue')
    BY <2>3, <1>0
  <2>14. /\ n <= semRead' + PRead(pc') + CRead(pc')
         /\ "other" \notin Pris => n >= semRead' + PRead(pc') + CRead(pc')
    <3>1. n <= semRead' + PRead(pc') + CRead(pc')
      BY <2>3, <2>12, <2>13, <1>0, <1>2
    <3>2. ASSUME "other" \notin Pris PROVE n >= semRead' + PRead(pc') + CRead(pc')
      BY <3>2, <2>4, <2>12, <2>13, <1>0, <1>2
    <3> QED BY <3>1, <3>2
  <2> QED BY <2>11, <2>13, <2>14 DEF Tokens
<1>7. CASE PutUnlock(p)
  <2>1. pc[p] = "unlock" /\ pc'[p] = "post" /\ (\A x \in Threads \ {p} : pc'[x] = pc[x])
        /\ UNCHANGED <<semWrite, semRead, queue>>
    BY <1>1, <1>7 DEF PutUnlock, Unlock, Goto, Threads
  <2>9. /\ PTok(pc') = PTok(pc) /\ PRead(pc') = PRead(pc)
        /\ CTok(pc') = CTok(pc) /\ CRead(pc') = CRead(pc)
    BY <2>1, <1>1, ProducerMove DEF PTokAt, PReadAt
  <2>10. semWrite' = semWrite /\ semRead' = semRead /\ Len(queue') = Len(queue)
    BY <2>1
  <2> QED BY <2>10, <2>9, <1>0, <1>2 DEF Tokens
<1>8. CASE PutPost(p)
  <2>1. pc[p] = "post" /\ pc'[p] = "idle" /\ (\A x \in Threads \ {p} : pc'[x] = pc[x])
        /\ semRead' = semRead + 1 /\ UNCHANGED <<semWrite, queue>>
    BY <1>1, <1>8 DEF PutPost, Goto, Threads
  <2>9. /\ PTok(pc') = PTok(pc) - 1 /\ PRead(pc') = PRead(pc) - 1
        /\ CTok(pc') = CTok(pc) /\ CRead(pc') = CRead(pc)
    BY <2>1, <1>1, ProducerMove DEF PTokAt, PReadAt
  <2>10. semWrite' = semWrite /\ semRead' = semRead + 1 /\ Len(queue') = Len(queue)
    BY <2>1
  <2>11. semWrite' \in Nat /\ semRead' \in Nat /\ semWrite' + semRead' + PTok(pc') + CTok(pc') = MaxSize - 1
    BY <2>10, <2>9, <1>0, <1>2
  <2>12. semRead' + PRead(pc') + CRead(pc') = semRead + PRead(pc) + CRead(pc)
    BY <2>10, <2>9, <1>0, <1>2
  <2> QED BY <2>10, <2>11, <2>12, <1>0 DEF Tokens
<1> QED BY <1>3, <1>4, <1>5, <1>6, <1>7, <1>8 DEF PutStep

(* A step of a consumer keeps the arithmetic; the pop shortens the deque.  *)
LEMMA GetTokens ==
  ASSUME IInv, NEW c \in Consumers, GetStep(c)
  PROVE  Tokens(semWrite', semRead', Len(queue'), pc')
<1>1. /\ semWrite \in Nat /\ semRead \in Nat /\ Len(queue) \in Nat
      /\ semWrite + semRead + PTok(pc) + CTok(pc) = MaxSize - 1
      /\ Len(queue) <= semRead + PRead(pc) + CRead(pc)
      /\ "other" \notin Pris => Len(queue) >= semRead + PRead(pc) + CRead(pc)
      /\ pc \in [Threads -> ProducerLabels \cup ConsumerLabels] /\ queue \in Seq(Msgs)
  BY DEF IInv, Shape, Types, Tokens
<1>2. PTok(pc) \in Nat /\ CTok(pc) \in Nat /\ PRead(pc) \in Nat /\ CRead(pc) \in Nat
  BY CountsType
<1>0. /\ semWrite \in Nat /\ semRead \in Nat /\ Len(queue) \in Nat /\ MaxSize \in Nat
      /\ semWrite + semRead + PTok(pc) + CTok(pc) = MaxSize - 1
      /\ Len(queue) <= semRead + PRead(pc) + CRead(pc)
      /\ "other" \notin Pris => Len(queue) >= semRead + PRead(pc) + CRead(pc)
  BY <1>1, MaxSizeAssumption
<1>3. CASE GetCall(c)
  <2>1. pc[c] = "idle" /\ pc'[c] = "wait" /\ (\A x \in Threads \ {c} : pc'[x] = pc[x])
        /\ UNCHANGED <<semWrite, semRead, queue>>
    BY <1>1, <1>3 DEF GetCall, Goto, Threads
  <2>9. /\ CTok(pc') = CTok(pc) /\ CRead(pc') = CRead(pc)
        /\ PTok(pc') = PTok(pc) /\ PRead(pc') = PRead(pc)
    BY <2>1, <1>1, ConsumerMove DEF CTokAt, CReadAt
  <2>10. semWrite' = semWrite /\ semRead' = semRead /\ Len(queue') = Len(queue)
    BY <2>1
  <2> QED BY <2>10, <2>9, <1>0, <1>2 DEF Tokens
<1>4. CASE GetWait(c)
  <2>1. pc[c] = "wait" /\ pc'[c] = "lock" /\ (\A x \in Threads \ {c} : pc'[x] = pc[x]) /\ semRead > 0
        /\ semRead' = semRead - 1 /\ UNCHANGED <<semWrite, queue>>
    BY <1>1, <1>4 DEF GetWait, Goto, Threads
  <2>9. /\ CTok(pc') = CTok(pc) + 1 /\ CRead(pc') = CRead(pc) + 1
        /\ PTok(pc') = PTok(pc) /\ PRead(pc') = PRead(pc)
    BY <2>1, <1>1, ConsumerMove DEF CTokAt, CReadAt
  <2>2. semRead' \in Nat /\ semRead' = semRead - 1 /\ semWrite' = semWrite /\ queue' = queue
    BY <2>1, <1>1
  <2>3. semWrite' + semRead' + PTok(pc') + CTok(pc') = MaxSize - 1
    BY <2>2, <2>9, <1>1, <1>2
  <2>4. Len(queue') <= semRead' + PRead(pc') + CRead(pc')
    BY <2>2, <2>9, <1>1, <1>2
  <2>5. "other" \notin Pris => Len(queue') >= semRead' + PRead(pc') + CRead(pc')
    BY <2>2, <2>9, <1>1, <1>2
  <2> QED BY <2>2, <2>3, <2>4, <2>5, <1>1 DEF Tokens
<1>5. CASE GetLock(c)
  <2>1. pc[c] = "lock" /\ pc'[c] = "read" /\ (\A x \in Threads \ {c} : pc'[x] = pc[x])
        /\ UNCHANGED <<semWrite, semRead, queue>>
    BY <1>1, <1>5 DEF GetLock, Lock, Goto, Threads
  <2>9. /\ CTok(pc') = CTok(pc) /\ CRead(pc') = CRead(pc)
        /\ PTok(pc') = PTok(pc) /\ PRead(pc') = PRead(pc)
    BY <2>1, <1>1, ConsumerMove DEF CTokAt, CReadAt
  <2>10. semWrite' = semWrite /\ semRead' = semRead /\ Len(queue') = Len(queue)
    BY <2>1
  <2> QED BY <2>10, <2>9, <1>0, <1>2 DEF Tokens
<1>6. CASE GetRead(c) /\ queue # <<>>
  <2>1. pc[c] = "read" /\ pc'[c] = "pop" /\ (\A x \in Threads \ {c} : pc'[x] = pc[x])
        /\ UNCHANGED <<semWrite, semRead, queue>>
    BY <1>1, <1>6 DEF GetRead, Goto, Threads
  <2>9. /\ CTok(pc') = CTok(pc) /\ CRead(pc') = CRead(pc)
        /\ PTok(pc') = PTok(pc) /\ PRead(pc') = PRead(pc)
    BY <2>1, <1>1, ConsumerMove DEF CTokAt, CReadAt
  <2>10. semWrite' = semWrite /\ semRead' = semRead /\ Len(queue') = Len(queue)
    BY <2>1
  <2> QED BY <2>10, <2>9, <1>0, <1>2 DEF Tokens
<1>7. CASE GetRead(c) /\ queue = <<>>
  <2>1. pc[c] = "read" /\ pc'[c] = "unlock" /\ (\A x \in Threads \ {c} : pc'[x] = pc[x])
        /\ UNCHANGED <<semWrite, semRead, queue>> /\ Len(queue) = 0
    BY <1>1, <1>7 DEF GetRead, Goto, Threads
  <2>9. /\ CTok(pc') = CTok(pc) /\ CRead(pc') = CRead(pc) - 1
        /\ PTok(pc') = PTok(pc) /\ PRead(pc') = PRead(pc)
    BY <2>1, <1>1, ConsumerMove DEF CTokAt, CReadAt
  <2>2. CRead(pc) >= 1
    BY <2>1, CountPositive DEF CRead, CReadAt
  <2>3. "other" \in Pris
    BY <2>1, <2>2, <1>1, <1>2
  <2>10. semWrite' = semWrite /\ semRead' = semRead /\ Len(queue') = Len(queue) /\ Len(queue) = 0
    BY <2>1
  <2>11. semWrite' \in Nat /\ semRead' \in Nat /\ semWrite' + semRead' + PTok(pc') + CTok(pc') = MaxSize - 1
    BY <2>10, <2>9, <1>0, <1>2
  <2>12. Len(queue') = 0 /\ 0 <= semRead' + PRead(pc') + CRead(pc')
    BY <2>10, <2>2, <2>9, <1>0, <1>2
  <2> QED BY <2>3, <2>11, <2>12 DEF Tokens
<1>8. CASE GetPop(c)
  <2>1. pc[c] = "pop" /\ pc'[c] = "unlock" /\ (\A x \in Threads \ {c} : pc'[x] = pc[x]) /\ queue # <<>>
        /\ queue' = Tail(queue) /\ UNCHANGED <<semWrite, semRead>>
    BY <1>1, <1>8 DEF GetPop, Goto, IInv, Shape, Types, PopInv, Threads
  <2>2. Len(queue') = Len(queue) - 1 /\ Len(queue') \in Nat
    BY <2>1, <1>1
  <2>9. /\ CTok(pc') = CTok(pc) /\ CRead(pc') = CRead(pc) - 1
        /\ PTok(pc') = PTok(pc) /\ PRead(pc') = PRead(pc)
    BY <2>1, <1>1, ConsumerMove DEF CTokAt, CReadAt
  <2>10. semWrite' = semWrite /\ semRead' = semRead
    BY <2>1
  <2> QED BY <2>10, <2>2, <2>9, <1>0, <1>2 DEF Tokens
<1>9. CASE GetUnlock(c)
  <2>1. pc[c] = "unlock" /\ pc'[c] = "post" /\ (\A x \in Threads \ {c} : pc'[x] = pc[x])
        /\ UNCHANGED <<semWrite, semRead, queue>>
    BY <1>1, <1>9 DEF GetUnlock, Unlock, Goto, Threads
  <2>9. /\ CTok(pc') = CTok(pc) /\ CRead(pc') = CRead(pc)
        /\ PTok(pc') = PTok(pc) /\ PRead(pc') = PRead(pc)
    BY <2>1, <1>1, ConsumerMove DEF CTokAt, CReadAt
  <2>10. semWrite' = semWrite /\ semRead' = semRead /\ Len(queue') = Len(queue)
    BY <2>1
  <2> QED BY <2>10, <2>9, <1>0, <1>2 DEF Tokens
<1>10. CASE GetPost(c)
  <2>1. pc[c] = "post" /\ pc'[c] = "held" /\ (\A x \in Threads \ {c} : pc'[x] = pc[x])
        /\ semWrite' = semWrite + 1 /\ UNCHANGED <<semRead, queue>>
    BY <1>1, <1>10 DEF GetPost, Goto, Threads
  <2>9. /\ CTok(pc') = CTok(pc) - 1 /\ CRead(pc') = CRead(pc)
        /\ PTok(pc') = PTok(pc) /\ PRead(pc') = PRead(pc)
    BY <2>1, <1>1, ConsumerMove DEF CTokAt, CReadAt
  <2>10. semWrite' = semWrite + 1 /\ semRead' = semRead /\ Len(queue') = Len(queue)
    BY <2>1
  <2> QED BY <2>10, <2>9, <1>0, <1>2 DEF Tokens
<1>11. CASE Release(c)
  <2>1. pc[c] = "held" /\ pc'[c] = "idle" /\ (\A x \in Threads \ {c} : pc'[x] = pc[x])
        /\ UNCHANGED <<semWrite, semRead, queue>>
    BY <1>1, <1>11 DEF Release, Goto, Threads
  <2>9. /\ CTok(pc') = CTok(pc) /\ CRead(pc') = CRead(pc)
        /\ PTok(pc') = PTok(pc) /\ PRead(pc') = PRead(pc)
    BY <2>1, <1>1, ConsumerMove DEF CTokAt, CReadAt
  <2>10. semWrite' = semWrite /\ semRead' = semRead /\ Len(queue') = Len(queue)
    BY <2>1
  <2> QED BY <2>10, <2>9, <1>0, <1>2 DEF Tokens
<1> QED BY <1>3, <1>4, <1>5, <1>6, <1>7, <1>8, <1>9, <1>10, <1>11 DEF GetStep

(* A step of a producer keeps the rest of the invariant.                    *)
LEMMA PutShape ==
  ASSUME Shape, NEW p \in Producers,
         (\E m \in Msgs, k \in Pris : PutCall(p, m, k)) \/ PutStep(p)
  PROVE  Shape'
<1>1. p \in Threads
  BY DEF Threads
<1>2. CASE \E m \in Msgs, k \in Pris : PutCall(p, m, k)
  <2>1. Types'
    BY <1>1, <1>2 DEF Shape, Types, PutCall, Goto, ProducerLabels, ConsumerLabels
  <2>2. MutexInv'
    BY <1>1, <1>2 DEF Shape, Types, MutexInv, PutCall, Goto, Threads
  <2>3. PopInv' /\ ArgInv'
    BY <1>1, <1>2 DEF Shape, Types, MutexInv, PopInv, ArgInv, PutCall, Goto, Threads
  <2> QED BY <2>1, <2>2, <2>3 DEF Shape
<1>3. CASE PutWait(p)
  <2>1. Types'
    BY <1>1, <1>3 DEF Shape, Types, PutWait, Goto, ProducerLabels, ConsumerLabels
  <2>2. MutexInv'
    BY <1>1, <1>3 DEF Shape, Types, MutexInv, PutWait, Goto, Threads
  <2>3. PopInv' /\ ArgInv'
    BY <1>1, <1>3 DEF Shape, Types, MutexInv, PopInv, ArgInv, PutWait, Goto, Threads
  <2> QED BY <2>1, <2>2, <2>3 DEF Shape
<1>4. CASE PutLock(p)
  <2>1. Types'
    BY <1>1, <1>4 DEF Shape, Types, PutLock, Lock, Goto, ProducerLabels, ConsumerLabels
  <2>2. MutexInv'
    BY <1>1, <1>4 DEF Shape, Types, MutexInv, PutLock, Lock, Goto, Threads
  <2>3. PopInv' /\ ArgInv'
    BY <1>1, <1>4 DEF Shape, Types, MutexInv, PopInv, ArgInv, PutLock, Lock, Goto, Threads
  <2> QED BY <2>1, <2>2, <2>3 DEF Shape
<1>5. CASE PutPush(p)
  <2>1. Types'
    BY <1>1, <1>5, PushedProperties DEF Shape, Types, ArgInv, PutPush, Goto, ProducerLabels, ConsumerLabels
  <2>2. MutexInv'
    BY <1>1, <1>5 DEF Shape, Types, MutexInv, PutPush, Goto, Threads
  <2>3. PopInv' /\ ArgInv'
    BY <1>1, <1>5 DEF Shape, Types, MutexInv, PopInv, ArgInv, PutPush, Goto, Threads
  <2> QED BY <2>1, <2>2, <2>3 DEF Shape
<1>6. CASE PutUnlock(p)
  <2>1. Types'
    BY <1>1, <1>6 DEF Shape, Types, PutUnlock, Unlock, Goto, ProducerLabels, ConsumerLabels
  <2>2. MutexInv'
    BY <1>1, <1>6 DEF Shape, Types, MutexInv, PutUnlock, Unlock, Goto, Threads
  <2>3. PopInv' /\ ArgInv'
    BY <1>1, <1>6 DEF Shape, Types, MutexInv, PopInv, ArgInv, PutUnlock, Unlock, Goto, Threads
  <2> QED BY <2>1, <2>2, <2>3 DEF Shape
<1>7. CASE PutPost(p)
  <2>1. Types'
    BY <1>1, <1>7 DEF Shape, Types, PutPost, Goto, ProducerLabels, ConsumerLabels
  <2>2. MutexInv'
    BY <1>1, <1>7 DEF Shape, Types, MutexInv, PutPost, Goto, Threads
  <2>3. PopInv' /\ ArgInv'
    BY <1>1, <1>7 DEF Shape, Types, MutexInv, PopInv, ArgInv, PutPost, Goto, Threads
  <2> QED BY <2>1, <2>2, <2>3 DEF Shape
<1> QED BY <1>2, <1>3, <1>4, <1>5, <1>6, <1>7 DEF PutStep

(* A step of a consumer keeps the rest of the invariant.                    *)
LEMMA GetShape ==
  ASSUME Shape, NEW c \in Consumers,
         GetStep(c)
  PROVE  Shape'
<1>1. c \in Threads
  BY DEF Threads
<1>2. CASE GetCall(c)
  <2>1. Types'
    BY <1>1, <1>2 DEF Shape, Types, GetCall, Goto, ProducerLabels, ConsumerLabels
  <2>2. MutexInv'
    BY <1>1, <1>2 DEF Shape, Types, MutexInv, GetCall, Goto, Threads
  <2>3. PopInv' /\ ArgInv'
    BY <1>1, <1>2 DEF Shape, Types, MutexInv, PopInv, ArgInv, GetCall, Goto, Threads
  <2> QED BY <2>1, <2>2, <2>3 DEF Shape
<1>3. CASE GetWait(c)
  <2>1. Types'
    BY <1>1, <1>3 DEF Shape, Types, GetWait, Goto, ProducerLabels, ConsumerLabels
  <2>2. MutexInv'
    BY <1>1, <1>3 DEF Shape, Types, MutexInv, GetWait, Goto, Threads
  <2>3. PopInv' /\ ArgInv'
    BY <1>1, <1>3 DEF Shape, Types, MutexInv, PopInv, ArgInv, GetWait, Goto, Threads
  <2> QED BY <2>1, <2>2, <2>3 DEF Shape
<1>4. CASE GetLock(c)
  <2>1. Types'
    BY <1>1, <1>4 DEF Shape, Types, GetLock, Lock, Goto, ProducerLabels, ConsumerLabels
  <2>2. MutexInv'
    BY <1>1, <1>4 DEF Shape, Types, MutexInv, GetLock, Lock, Goto, Threads
  <2>3. PopInv' /\ ArgInv'
    BY <1>1, <1>4 DEF Shape, Types, MutexInv, PopInv, ArgInv, GetLock, Lock, Goto, Threads
  <2> QED BY <2>1, <2>2, <2>3 DEF Shape
<1>5. CASE GetRead(c)
  <2>1. Types'
    <3>1. pMsg' \in [Threads -> Msgs \cup {NULL}]
      <4>1. CASE queue = <<>>
        BY <1>5, <4>1 DEF Shape, Types, GetRead
      <4>2. CASE queue # <<>>
        <5>1. Head(queue) \in Msgs
          BY <4>2 DEF Shape, Types
        <5> QED BY <1>1, <1>5, <4>2, <5>1 DEF Shape, Types, GetRead
      <4> QED BY <4>1, <4>2
    <3>2. /\ pc' \in [Threads -> ProducerLabels \cup ConsumerLabels]
          /\ \A p \in Producers : pc'[p] \in ProducerLabels
          /\ \A d \in Consumers : pc'[d] \in ConsumerLabels
      <4>1. PICK l \in {"pop", "unlock"} : pc' = [pc EXCEPT ![c] = l]
        BY <1>5 DEF GetRead, Goto
      <4>2. l \in ConsumerLabels
        BY DEF ConsumerLabels
      <4> QED BY <1>1, <4>1, <4>2 DEF Shape, Types
    <3> QED BY <1>5, <3>1, <3>2 DEF Shape, Types, GetRead
  <2>2. MutexInv'
    BY <1>1, <1>5 DEF Shape, Types, MutexInv, GetRead, Goto, Threads
  <2>3. PopInv' /\ ArgInv'
    BY <1>1, <1>5 DEF Shape, Types, MutexInv, PopInv, ArgInv, GetRead, Goto, Threads
  <2> QED BY <2>1, <2>2, <2>3 DEF Shape
<1>6. CASE GetPop(c)
  <2>1. Types'
    <3>1. Tail(queue) \in Seq(Msgs)
      BY <1>6 DEF Shape, Types, PopInv, GetPop
    <3> QED BY <1>1, <1>6, <3>1 DEF Shape, Types, GetPop, Goto, ProducerLabels, ConsumerLabels
  <2>2. MutexInv'
    BY <1>1, <1>6 DEF Shape, Types, MutexInv, GetPop, Goto, Threads
  <2>3. PopInv' /\ ArgInv'
    BY <1>1, <1>6 DEF Shape, Types, MutexInv, PopInv, ArgInv, GetPop, Goto, Threads
  <2> QED BY <2>1, <2>2, <2>3 DEF Shape
<1>7. CASE GetUnlock(c)
  <2>1. Types'
    BY <1>1, <1>7 DEF Shape, Types, GetUnlock, Unlock, Goto, ProducerLabels, ConsumerLabels
  <2>2. MutexInv'
    BY <1>1, <1>7 DEF Shape, Types, MutexInv, GetUnlock, Unlock, Goto, Threads
  <2>3. PopInv' /\ ArgInv'
    BY <1>1, <1>7 DEF Shape, Types, MutexInv, PopInv, ArgInv, GetUnlock, Unlock, Goto, Threads
  <2> QED BY <2>1, <2>2, <2>3 DEF Shape
<1>8. CASE GetPost(c)
  <2>1. Types'
    BY <1>1, <1>8 DEF Shape, Types, GetPost, Goto, ProducerLabels, ConsumerLabels
  <2>2. MutexInv'
    BY <1>1, <1>8 DEF Shape, Types, MutexInv, GetPost, Goto, Threads
  <2>3. PopInv' /\ ArgInv'
    BY <1>1, <1>8 DEF Shape, Types, MutexInv, PopInv, ArgInv, GetPost, Goto, Threads
  <2> QED BY <2>1, <2>2, <2>3 DEF Shape
<1>9. CASE Release(c)
  <2>1. Types'
    BY <1>1, <1>9 DEF Shape, Types, Release, Goto, ProducerLabels, ConsumerLabels
  <2>2. MutexInv'
    BY <1>1, <1>9 DEF Shape, Types, MutexInv, Release, Goto, Threads
  <2>3. PopInv' /\ ArgInv'
    BY <1>1, <1>9 DEF Shape, Types, MutexInv, PopInv, ArgInv, Release, Goto, Threads
  <2> QED BY <2>1, <2>2, <2>3 DEF Shape
<1> QED BY <1>2, <1>3, <1>4, <1>5, <1>6, <1>7, <1>8, <1>9 DEF GetStep

(* Every step of every thread keeps the invariant.                         *)
LEMMA NextIInv == IInv /\ [Next]_vars => IInv'
<1> SUFFICES ASSUME IInv, [Next]_vars PROVE IInv'
  OBVIOUS
<1>1. ASSUME NEW p \in Producers,
             (\E m \in Msgs, k \in Pris : PutCall(p, m, k)) \/ PutStep(p)
      PROVE  IInv'
  BY <1>1, PutShape, PutTokens DEF IInv
<1>2. ASSUME NEW c \in Consumers, GetStep(c) PROVE IInv'
  BY <1>2, GetShape, GetTokens DEF IInv
<1>3. CASE UNCHANGED vars
  BY <1>3 DEF vars, IInv, Shape, Types, MutexInv, PopInv, ArgInv, Tokens,
              PTok, CTok, PRead, CRead, Count
<1> QED BY <1>1, <1>2, <1>3 DEF Next

(***************************************************************************)
(* For every number of threads, messages and slots, and for every priority *)
(* put is called with: the types hold, the tokens made by the constructor  *)
(* are conserved, and the deque never outgrows them (synqueue_t.h:23-73).  *)
(***************************************************************************)
THEOREM QueueInvariant == Spec => [](TypeOK /\ TokenConservation /\ QueueBacked)
<1>1. Init => IInv
  BY InitIInv
<1>2. IInv /\ [Next]_vars => IInv'
  BY NextIInv
<1>3. IInv => TypeOK /\ TokenConservation /\ QueueBacked
  BY IInvImplies
<1> QED BY <1>1, <1>2, <1>3, PTL DEF Spec

(* No message is ever queued without its token (synqueue_t.h:36-42).       *)
COROLLARY DequeWithinTokens == Spec => []QueueBacked
BY QueueInvariant, PTL

(* A consumer past sem_wait and before the pop is itself counted among     *)
(* those for whom a message is queued.                                     *)
LEMMA IInvFinds ==
  ASSUME "other" \notin Pris
  PROVE  IInv => GetFindsMessage
<1> SUFFICES ASSUME IInv, NEW c \in Consumers, pc[c] \in {"read", "pop"}
             PROVE  queue # <<>>
  BY DEF GetFindsMessage
<1>1. CRead(pc) >= 1
  BY CountPositive DEF CRead, CReadAt
<1>2. Len(queue) >= semRead + PRead(pc) + CRead(pc) /\ semRead \in Nat
  BY DEF IInv, Tokens
<1>3. PRead(pc) \in Nat /\ CRead(pc) \in Nat
  BY CountsType
<1>4. Len(queue) # 0
  BY <1>1, <1>2, <1>3 DEF IInv, Shape, Types
<1> QED BY <1>4

(***************************************************************************)
(* When put is called with no priority that queues nothing, a consumer     *)
(* past sem_wait always finds a message: the NULL branch of get()          *)
(* (synqueue_t.h:65) is dead.  The tokens count the messages exactly, and  *)
(* the consumer holds one of them.                                         *)
(***************************************************************************)
THEOREM GetNeverEmpty ==
  ASSUME "other" \notin Pris
  PROVE  Spec => []GetFindsMessage
<1>1. Init => IInv
  BY InitIInv
<1>2. IInv /\ [Next]_vars => IInv'
  BY NextIInv
<1>3. IInv => GetFindsMessage
  BY IInvFinds
<1> QED BY <1>1, <1>2, <1>3, PTL DEF Spec
-----------------------------------------------------------------------------
(***************************************************************************)
(* Who holds a message.  Elements of the deque are pairwise distinct and   *)
(* in nobody's hands, but for the consumer between the read and the pop,   *)
(* which is alone there because of the mutex; a thread that is not at work *)
(* on a message holds none, so that no step overwrites the only pointer to *)
(* one.                                                                    *)
(***************************************************************************)
Distinct == \A i, j \in 1 .. Len(queue) : queue[i] = queue[j] => i = j
Queued == \A i \in 1 .. Len(queue) :
            /\ queue[i] \in live
            /\ \A t \in Threads : pMsg[t] = queue[i] => pc[t] = "pop"
InHand == \A t \in Threads : pMsg[t] # NULL =>
            pMsg[t] \in live /\ \A u \in Threads : pMsg[u] = pMsg[t] => u = t
EmptyHanded == /\ \A t \in Threads : pc[t] = "idle" => pMsg[t] = NULL
               /\ \A p \in Producers : pc[p] \in {"unlock", "post"} => pMsg[p] = NULL
               /\ \A c \in Consumers : pc[c] \in {"wait", "lock", "read"} => pMsg[c] = NULL
Kept == \A m \in live : \/ \E i \in 1 .. Len(queue) : queue[i] = m
                        \/ \E t \in Threads : pMsg[t] = m /\ pc[t] # "pop"

Hold == /\ Distinct /\ Queued /\ InHand /\ EmptyHanded
        /\ "other" \notin Pris => Kept

(* put with a known priority inserts its message at some place and moves   *)
(* the others apart.                                                       *)
LEMMA PushedElements ==
  ASSUME NEW q \in Seq(Msgs), NEW m \in Msgs, NEW k
  PROVE  \/ Pushed(q, m, k) = q /\ k \notin {"none", "high"}
         \/ \E at \in 1 .. Len(q) + 1 :
              /\ Len(Pushed(q, m, k)) = Len(q) + 1
              /\ Pushed(q, m, k)[at] = m
              /\ \A i \in 1 .. at - 1 : Pushed(q, m, k)[i] = q[i]
              /\ \A i \in at + 1 .. Len(q) + 1 : Pushed(q, m, k)[i] = q[i - 1]
<1>1. CASE k = "none"
  <2>1. Pushed(q, m, k) = Append(q, m)
    BY <1>1 DEF Pushed
  <2>2. /\ Len(Append(q, m)) = Len(q) + 1 /\ Append(q, m)[Len(q) + 1] = m
        /\ \A i \in 1 .. Len(q) : Append(q, m)[i] = q[i]
        /\ Len(q) \in Nat
    OBVIOUS
  <2> QED BY <2>1, <2>2
<1>2. CASE k = "high"
  <2>1. Pushed(q, m, k) = <<m>> \o q
    BY <1>2 DEF Pushed
  <2>2. /\ Len(<<m>> \o q) = Len(q) + 1 /\ (<<m>> \o q)[1] = m
        /\ \A i \in 2 .. Len(q) + 1 : (<<m>> \o q)[i] = q[i - 1]
        /\ Len(q) \in Nat
    OBVIOUS
  <2>3. PICK n \in Nat : n = Len(q)
    BY <2>2
  <2>4. PICK r : r = Pushed(q, m, k)
    OBVIOUS
  <2>5. /\ Len(r) = n + 1 /\ r[1] = m /\ 1 \in 1 .. n + 1
        /\ \A i \in 1 .. 1 - 1 : r[i] = q[i]
        /\ \A i \in 1 + 1 .. n + 1 : r[i] = q[i - 1]
    BY <2>1, <2>2, <2>3, <2>4
  <2> QED BY <2>3, <2>4, <2>5
<1>3. CASE k \notin {"none", "high"}
  BY <1>3 DEF Pushed
<1> QED BY <1>1, <1>2, <1>3

LEMMA HoldInit == Init => Hold
BY DEF Init, Hold, Distinct, Queued, InHand, EmptyHanded, Kept, Threads

(* A thread that only moves on, and not from or to the pop. *)
LEMMA HoldMove ==
  ASSUME IInv, Hold, NEW t \in Threads, UNCHANGED <<queue, pMsg, live>>,
         \A u \in Threads \ {t} : pc'[u] = pc[u],
         pc[t] # "pop", pc'[t] # "pop",
         pc'[t] = "idle" => pMsg[t] = NULL,
         t \in Producers /\ pc'[t] \in {"unlock", "post"} => pMsg[t] = NULL,
         t \in Consumers /\ pc'[t] \in {"wait", "lock", "read"} => pMsg[t] = NULL
  PROVE  Hold'
<1>1. Distinct'
  BY DEF Hold, Distinct
<1>2. Queued' /\ InHand'
  BY DEF Hold, Queued, InHand
<1>3. EmptyHanded'
  BY DEF Hold, EmptyHanded, Threads
<1>4. Kept => Kept'
  BY DEF Kept
<1> QED BY <1>1, <1>2, <1>3, <1>4 DEF Hold

LEMMA PutHold ==
  ASSUME IInv, Hold, NEW p \in Producers,
         (\E m \in Msgs, k \in Pris : PutCall(p, m, k)) \/ PutStep(p)
  PROVE  Hold'
<1>1. /\ pc \in [Threads -> ProducerLabels \cup ConsumerLabels]
      /\ pMsg \in [Threads -> Msgs \cup {NULL}] /\ queue \in Seq(Msgs) /\ Len(queue) \in Nat
      /\ p \in Threads /\ p \notin Consumers
  BY DEF IInv, Shape, Types, Threads
<1>2. ASSUME NEW m \in Msgs, NEW k \in Pris, PutCall(p, m, k) PROVE Hold'
  <2>1. /\ pc[p] = "idle" /\ pc'[p] = "wait" /\ m \notin live /\ live' = live \cup {m}
        /\ pMsg'[p] = m /\ queue' = queue
        /\ \A u \in Threads \ {p} : pc'[u] = pc[u] /\ pMsg'[u] = pMsg[u]
    BY <1>1, <1>2 DEF PutCall, Goto
  <2>2. pMsg[p] = NULL /\ m # NULL
    BY <1>1, <2>1, MsgsAssumption DEF Hold, EmptyHanded
  <2>3. Distinct' /\ Queued'
    BY <2>1 DEF Hold, Distinct, Queued
  <2>4. InHand'
    BY <2>1, <2>2 DEF Hold, InHand
  <2>5. EmptyHanded'
    BY <1>1, <2>1 DEF Hold, EmptyHanded, Threads
  <2>6. Kept => Kept'
    BY <1>1, <2>1, <2>2, MsgsAssumption DEF Kept, IInv, Shape, Types
  <2> QED BY <2>3, <2>4, <2>5, <2>6 DEF Hold
<1>3. CASE PutWait(p) \/ PutLock(p)
  <2>1. /\ UNCHANGED <<queue, pMsg, live>> /\ pc[p] \in {"wait", "lock"}
        /\ pc'[p] \in {"lock", "push"} /\ \A u \in Threads \ {p} : pc'[u] = pc[u]
    BY <1>1, <1>3 DEF PutWait, PutLock, Lock, Goto
  <2> QED BY <1>1, <2>1, HoldMove
<1>4. CASE PutUnlock(p) \/ PutPost(p)
  <2>1. /\ UNCHANGED <<queue, pMsg, live>> /\ pc[p] \in {"unlock", "post"}
        /\ pc'[p] \in {"post", "idle"} /\ \A u \in Threads \ {p} : pc'[u] = pc[u]
    BY <1>1, <1>4 DEF PutUnlock, PutPost, Unlock, Goto
  <2>2. pMsg[p] = NULL
    BY <2>1 DEF Hold, EmptyHanded
  <2> QED BY <1>1, <2>1, <2>2, HoldMove
<1>5. CASE PutPush(p)
  <2> DEFINE m == pMsg[p]
             n == Len(queue)
  <2>1. /\ pc[p] = "push" /\ pc'[p] = "unlock" /\ live' = live
        /\ queue' = Pushed(queue, m, pri[p]) /\ pMsg'[p] = NULL
        /\ \A u \in Threads \ {p} : pc'[u] = pc[u] /\ pMsg'[u] = pMsg[u]
    BY <1>1, <1>5 DEF PutPush, Goto
  <2>2. m \in Msgs /\ m # NULL /\ m \in live /\ \A u \in Threads \ {p} : pMsg[u] # m
    BY <1>1, <2>1, MsgsAssumption DEF IInv, Shape, ArgInv, Hold, InHand
  <2>3. \A i \in 1 .. n : queue[i] # m
    BY <1>1, <2>1 DEF Hold, Queued
  <2>4. InHand'
    BY <2>1 DEF Hold, InHand
  <2>5. EmptyHanded'
    BY <1>1, <2>1 DEF Hold, EmptyHanded, Threads
  <2>6. CASE queue' = queue /\ pri[p] \notin {"none", "high"}
    <3>1. "other" \in Pris
      <4>1. pri[p] \in {"none"} \cup Pris
        BY DEF IInv, Shape, Types
      <4> QED BY <2>6, <4>1, PrisAssumption, Zenon
    <3>2. Distinct' /\ Queued'
      BY <1>1, <2>1, <2>6, MsgsAssumption DEF Hold, Distinct, Queued
    <3> QED BY <2>4, <2>5, <3>1, <3>2 DEF Hold
  <2>7. ASSUME NEW at \in 1 .. n + 1, Len(queue') = n + 1, queue'[at] = m,
               \A i \in 1 .. at - 1 : queue'[i] = queue[i],
               \A i \in at + 1 .. n + 1 : queue'[i] = queue[i - 1]
        PROVE  Hold'
    <3> DEFINE was(i) == IF i < at THEN i ELSE i - 1
    <3>1. \A i \in 1 .. n + 1 : i # at => was(i) \in 1 .. n /\ queue'[i] = queue[was(i)]
      BY <1>1, <2>7
    <3>2. \A i, j \in 1 .. n + 1 : i # at /\ j # at /\ was(i) = was(j) => i = j
      BY <1>1
    <3>3. \A i \in 1 .. n : \E j \in 1 .. n + 1 : j # at /\ queue'[j] = queue[i]
      <4> TAKE i \in 1 .. n
      <4>1. CASE i < at
        BY <1>1, <2>7, <4>1
      <4>2. CASE i >= at
        <5>1. i + 1 \in at + 1 .. n + 1 /\ queue'[i + 1] = queue[i + 1 - 1] /\ i + 1 - 1 = i
          BY <1>1, <2>7, <4>2
        <5> QED BY <1>1, <5>1
      <4> QED BY <1>1, <4>1, <4>2
    <3> HIDE DEF was, m
    <3>4. Distinct'
      <4> SUFFICES ASSUME NEW i \in 1 .. n + 1, NEW j \in 1 .. n + 1, queue'[i] = queue'[j]
                   PROVE  i = j
        BY <2>7 DEF Distinct
      <4>1. CASE i # at /\ j # at
        BY <3>1, <3>2, <4>1 DEF Hold, Distinct
      <4>2. CASE i = at \/ j = at
        BY <2>3, <2>7, <3>1, <4>2
      <4> QED BY <4>1, <4>2
    <3>5. Queued'
      <4> SUFFICES ASSUME NEW i \in 1 .. n + 1
                   PROVE  /\ queue'[i] \in live
                          /\ \A t \in Threads : pMsg'[t] = queue'[i] => pc'[t] = "pop"
        BY <2>1, <2>7 DEF Queued
      <4>1. CASE i = at
        BY <2>1, <2>2, <2>7, <4>1, <1>1
      <4>2. CASE i # at
        <5>1. was(i) \in 1 .. n /\ queue'[i] = queue[was(i)] /\ queue[was(i)] \in Msgs
          BY <1>1, <3>1, <4>2
        <5> QED BY <1>1, <2>1, <5>1, MsgsAssumption DEF Hold, Queued
      <4> QED BY <4>1, <4>2
    <3>6. Kept => Kept'
      <4> SUFFICES ASSUME Kept, NEW x \in live
                   PROVE  \/ \E i \in 1 .. n + 1 : queue'[i] = x
                          \/ \E t \in Threads : pMsg'[t] = x /\ pc'[t] # "pop"
        BY <2>1, <2>7 DEF Kept
      <4>1. CASE \E i \in 1 .. n : queue[i] = x
        BY <3>3, <4>1
      <4>2. CASE x = m
        BY <2>7, <4>2
      <4>3. CASE \E t \in Threads \ {p} : pMsg[t] = x /\ pc[t] # "pop"
        BY <2>1, <4>3
      <4> QED BY <4>1, <4>2, <4>3 DEF Kept, m
    <3> QED BY <2>4, <2>5, <3>4, <3>5, <3>6 DEF Hold
  <2>8. \/ queue' = queue /\ pri[p] \notin {"none", "high"}
        \/ \E at \in 1 .. n + 1 :
             /\ Len(queue') = n + 1 /\ queue'[at] = m
             /\ \A i \in 1 .. at - 1 : queue'[i] = queue[i]
             /\ \A i \in at + 1 .. n + 1 : queue'[i] = queue[i - 1]
    <3> HIDE DEF m
    <3>1. queue \in Seq(Msgs) /\ m \in Msgs
      BY <1>1, <2>2
    <3>2. \/ Pushed(queue, m, pri[p]) = queue /\ pri[p] \notin {"none", "high"}
          \/ \E at \in 1 .. Len(queue) + 1 :
               /\ Len(Pushed(queue, m, pri[p])) = Len(queue) + 1
               /\ Pushed(queue, m, pri[p])[at] = m
               /\ \A i \in 1 .. at - 1 : Pushed(queue, m, pri[p])[i] = queue[i]
               /\ \A i \in at + 1 .. Len(queue) + 1 :
                    Pushed(queue, m, pri[p])[i] = queue[i - 1]
      BY <3>1, PushedElements
    <3>3. queue' = Pushed(queue, m, pri[p])
      BY <2>1
    <3> QED BY <3>2, <3>3, Zenon
  <2> HIDE DEF m, n
  <2> QED BY <2>6, <2>7, <2>8, Zenon
<1> QED BY <1>2, <1>3, <1>4, <1>5 DEF PutStep

LEMMA GetHold ==
  ASSUME IInv, Hold, NEW c \in Consumers, GetStep(c)
  PROVE  Hold'
<1>1. /\ pc \in [Threads -> ProducerLabels \cup ConsumerLabels]
      /\ pMsg \in [Threads -> Msgs \cup {NULL}] /\ queue \in Seq(Msgs) /\ Len(queue) \in Nat
      /\ c \in Threads /\ c \notin Producers
  BY DEF IInv, Shape, Types, Threads
<1>2. CASE GetCall(c) \/ GetWait(c) \/ GetLock(c)
  <2>1. /\ UNCHANGED <<queue, pMsg, live>> /\ pc[c] \in {"idle", "wait", "lock"}
        /\ pc'[c] \in {"wait", "lock", "read"} /\ \A u \in Threads \ {c} : pc'[u] = pc[u]
    BY <1>1, <1>2 DEF GetCall, GetWait, GetLock, Lock, Goto
  <2>2. pMsg[c] = NULL
    BY <1>1, <2>1 DEF Hold, EmptyHanded
  <2> QED BY <1>1, <2>1, <2>2, HoldMove
<1>3. CASE GetUnlock(c) \/ GetPost(c)
  <2>1. /\ UNCHANGED <<queue, pMsg, live>> /\ pc[c] \in {"unlock", "post"}
        /\ pc'[c] \in {"post", "held"} /\ \A u \in Threads \ {c} : pc'[u] = pc[u]
    BY <1>1, <1>3 DEF GetUnlock, GetPost, Unlock, Goto
  <2> QED BY <1>1, <2>1, HoldMove
<1>4. CASE GetRead(c)
  <2>1. CASE queue = <<>>
    <3>1. /\ UNCHANGED <<queue, pMsg, live>> /\ pc[c] = "read" /\ pc'[c] = "unlock"
          /\ \A u \in Threads \ {c} : pc'[u] = pc[u]
      BY <1>1, <1>4, <2>1 DEF GetRead, Goto
    <3> QED BY <1>1, <3>1, HoldMove
  <2>2. CASE queue # <<>>
    <3>1. /\ pc[c] = "read" /\ pc'[c] = "pop" /\ UNCHANGED <<queue, live>>
          /\ pMsg'[c] = Head(queue)
          /\ \A u \in Threads \ {c} : pc'[u] = pc[u] /\ pMsg'[u] = pMsg[u]
      BY <1>1, <1>4, <2>2 DEF GetRead, Goto
    <3>2. Head(queue) = queue[1] /\ 1 \in 1 .. Len(queue) /\ pMsg[c] = NULL
      BY <1>1, <2>2, <3>1 DEF Hold, EmptyHanded
    <3>3. \A u \in Threads \ {c} : pMsg[u] # queue[1]
      <4>1. \A u \in Threads : pc[u] = "pop" => u = c
        BY <1>1, <3>1 DEF IInv, Shape, MutexInv
      <4>2. pc[c] # "pop"
        BY <3>1
      <4> QED BY <3>2, <4>1, <4>2 DEF Hold, Queued
    <3>4. Distinct' /\ Queued'
      BY <1>1, <3>1 DEF Hold, Distinct, Queued
    <3>5. InHand'
      BY <3>1, <3>2, <3>3 DEF Hold, InHand, Queued
    <3>6. EmptyHanded'
      BY <1>1, <3>1 DEF Hold, EmptyHanded, Threads
    <3>7. Kept => Kept'
      BY <1>1, <3>1, <3>2, MsgsAssumption DEF Kept, IInv, Shape, Types
    <3> QED BY <3>4, <3>5, <3>6, <3>7 DEF Hold
  <2> QED BY <2>1, <2>2
<1>5. CASE GetPop(c)
  <2>1. /\ pc[c] = "pop" /\ pc'[c] = "unlock" /\ UNCHANGED <<pMsg, live>>
        /\ queue' = Tail(queue) /\ \A u \in Threads \ {c} : pc'[u] = pc[u]
    BY <1>1, <1>5 DEF GetPop, Goto
  <2>2. queue # <<>> /\ pMsg[c] = queue[1]
    BY <1>1, <2>1 DEF IInv, Shape, PopInv
  <2>3. /\ Len(queue') = Len(queue) - 1 /\ Len(queue) >= 1
        /\ \A i \in 1 .. Len(queue) - 1 : queue'[i] = queue[i + 1]
    BY <1>1, <2>1, <2>2
  <2>4. \A i \in 1 .. Len(queue) - 1 : i + 1 \in 1 .. Len(queue) /\ i + 1 # 1
    BY <1>1
  <2>5. Distinct'
    <3> SUFFICES ASSUME NEW i \in 1 .. Len(queue) - 1, NEW j \in 1 .. Len(queue) - 1,
                        queue'[i] = queue'[j]
                 PROVE  i = j
      BY <2>3 DEF Distinct
    <3>1. i + 1 = j + 1
      BY <2>3, <2>4 DEF Hold, Distinct
    <3> QED BY <3>1, <1>1
  <2>6. Queued'
    <3> SUFFICES ASSUME NEW i \in 1 .. Len(queue) - 1
                 PROVE  /\ queue'[i] \in live
                        /\ \A t \in Threads : pMsg[t] = queue'[i] => pc'[t] = "pop"
      BY <2>1, <2>3 DEF Queued
    <3>1. queue'[i] = queue[i + 1] /\ i + 1 \in 1 .. Len(queue) /\ 1 \in 1 .. Len(queue) /\ i + 1 # 1
      BY <1>1, <2>3, <2>4
    <3>2. queue[i + 1] # pMsg[c]
      BY <2>2, <3>1 DEF Hold, Distinct
    <3> QED BY <2>1, <3>1, <3>2 DEF Hold, Queued
  <2>7. InHand'
    BY <2>1 DEF Hold, InHand
  <2>8. EmptyHanded'
    BY <1>1, <2>1 DEF Hold, EmptyHanded, Threads
  <2>9. Kept => Kept'
    <3> SUFFICES ASSUME Kept, NEW x \in live
                 PROVE  \/ \E i \in 1 .. Len(queue) - 1 : queue'[i] = x
                        \/ \E t \in Threads : pMsg[t] = x /\ pc'[t] # "pop"
      BY <2>1, <2>3 DEF Kept
    <3>1. CASE \E t \in Threads : pMsg[t] = x /\ pc[t] # "pop"
      BY <2>1, <3>1
    <3>2. ASSUME NEW i \in 1 .. Len(queue), queue[i] = x, i # 1
          PROVE  \E j \in 1 .. Len(queue) - 1 : queue'[j] = x
      <4>1. i - 1 \in 1 .. Len(queue) - 1 /\ i - 1 + 1 = i
        BY <1>1, <3>2
      <4> QED BY <2>3, <3>2, <4>1
    <3>3. CASE queue[1] = x
      BY <1>1, <2>1, <2>2, <3>3
    <3> QED BY <3>1, <3>2, <3>3 DEF Kept
  <2> QED BY <2>5, <2>6, <2>7, <2>8, <2>9 DEF Hold
<1>6. CASE Release(c)
  <2>1. /\ pc[c] = "held" /\ pc'[c] = "idle" /\ queue' = queue
        /\ live' = live \ {pMsg[c]} /\ pMsg'[c] = NULL
        /\ \A u \in Threads \ {c} : pc'[u] = pc[u] /\ pMsg'[u] = pMsg[u]
    BY <1>1, <1>6 DEF Release, Goto
  <2>2. \A i \in 1 .. Len(queue) : queue[i] # pMsg[c] /\ queue[i] # NULL
    BY <1>1, <2>1, MsgsAssumption DEF Hold, Queued
  <2>3. Distinct' /\ Queued'
    BY <1>1, <2>1, <2>2 DEF Hold, Distinct, Queued
  <2>4. InHand'
    BY <1>1, <2>1 DEF Hold, InHand
  <2>5. EmptyHanded'
    BY <1>1, <2>1 DEF Hold, EmptyHanded, Threads
  <2>6. Kept => Kept'
    <3> SUFFICES ASSUME Kept, NEW x \in live, x # pMsg[c]
                 PROVE  \/ \E i \in 1 .. Len(queue) : queue[i] = x
                        \/ \E t \in Threads : pMsg'[t] = x /\ pc'[t] # "pop"
      BY <2>1 DEF Kept
    <3> QED BY <2>1 DEF Kept
  <2> QED BY <2>3, <2>4, <2>5, <2>6 DEF Hold
<1> QED BY <1>2, <1>3, <1>4, <1>5, <1>6 DEF GetStep

LEMMA HoldNext == IInv /\ Hold /\ [Next]_vars => Hold'
<1> SUFFICES ASSUME IInv, Hold, [Next]_vars PROVE Hold'
  OBVIOUS
<1>1. CASE UNCHANGED vars
  BY <1>1 DEF vars, Hold, Distinct, Queued, InHand, EmptyHanded, Kept
<1> QED BY <1>1, PutHold, GetHold DEF Next

LEMMA QueueHolds == Spec => [](IInv /\ Hold)
<1>1. Init => IInv /\ Hold
  BY InitIInv, HoldInit
<1>2. IInv /\ Hold /\ [Next]_vars => (IInv /\ Hold)'
  BY NextIInv, HoldNext
<1> QED BY <1>1, <1>2, PTL DEF Spec

LEMMA HoldImplies == IInv /\ Hold => SoleOwner /\ ("other" \notin Pris => NoLeak)
<1> SUFFICES ASSUME IInv, Hold PROVE SoleOwner /\ ("other" \notin Pris => NoLeak)
  OBVIOUS
<1>1. queue \in Seq(Msgs) /\ DOMAIN queue = 1 .. Len(queue)
  BY DEF IInv, Shape, Types
<1>2. \A m : m \in Range(queue) <=> \E i \in 1 .. Len(queue) : queue[i] = m
  BY <1>1 DEF Range
<1>3. SoleOwner
  <2>1. \A i, j \in DOMAIN queue : queue[i] = queue[j] => i = j
    BY <1>1 DEF Hold, Distinct
  <2>2. \A m \in Range(queue) : m \in live /\ Owners(m) = {}
    BY <1>2 DEF Hold, Queued, Owners
  <2>3. \A m \in Msgs : \A t, u \in Owners(m) : t = u
    BY MsgsAssumption DEF Hold, InHand, Owners
  <2> QED BY <2>1, <2>2, <2>3 DEF SoleOwner
<1>4. Kept => NoLeak
  BY <1>2 DEF Kept, NoLeak, Owners
<1> QED BY <1>3, <1>4 DEF Hold

(***************************************************************************)
(* Whatever the number of threads and slots and whatever priorities are    *)
(* used: no message is twice in the queue, in two hands, or in the queue   *)
(* and in a hand (synqueue_t.h:36-42, 63-70).                              *)
(***************************************************************************)
THEOREM OneOwner == Spec => []SoleOwner
BY QueueHolds, HoldImplies, PTL

(* With the priorities put knows, no message is ever lost (lines 48-51).   *)
THEOREM NothingDropped == ASSUME "other" \notin Pris PROVE Spec => []NoLeak
<1>1. IInv /\ Hold => NoLeak
  BY HoldImplies
<1> QED BY <1>1, QueueHolds, PTL
-----------------------------------------------------------------------------
(***************************************************************************)
(* The refinement.  A thread's stage is called up to the push or the pop   *)
(* and done from there on; every other step is invisible above.            *)
(***************************************************************************)
aStage == [t \in Threads |-> StageOf(pc[t])]
aVal == [t \in Threads |-> IF pc[t] = "pop" THEN NULL ELSE pMsg[t]]
aEnd == [p \in Producers |-> EndOf(pri[p])]

LEMMA Stages == /\ StageOf("idle") = "idle"
                /\ \A l \in {"wait", "lock", "push", "read", "pop"} : StageOf(l) = "called"
                /\ \A l \in {"unlock", "post", "held"} : StageOf(l) = "done"
BY DEF StageOf

(* What is seen above of a step of thread t. *)
LEMMA Seen ==
  ASSUME NEW t \in Threads,
         \A u \in Threads \ {t} : pc'[u] = pc[u] /\ pMsg'[u] = pMsg[u]
  PROVE  /\ aStage' = [aStage EXCEPT ![t] = StageOf(pc'[t])]
         /\ aVal' = [aVal EXCEPT ![t] = IF pc'[t] = "pop" THEN NULL ELSE pMsg'[t]]
         /\ aStage[t] = StageOf(pc[t])
         /\ aVal[t] = IF pc[t] = "pop" THEN NULL ELSE pMsg[t]
BY DEF aStage, aVal

(* Steps between the instants. *)
LEMMA Unseen ==
  ASSUME NEW t \in Threads, UNCHANGED <<queue, pri>>,
         \A u \in Threads \ {t} : pc'[u] = pc[u] /\ pMsg'[u] = pMsg[u],
         StageOf(pc'[t]) = StageOf(pc[t]),
         (IF pc'[t] = "pop" THEN NULL ELSE pMsg'[t]) = (IF pc[t] = "pop" THEN NULL ELSE pMsg[t])
  PROVE  UNCHANGED Abs!vars
<1>1. aStage' = aStage /\ aVal' = aVal /\ aEnd' = aEnd
  BY DEF aStage, aVal, aEnd
<1> QED BY <1>1 DEF Abs!vars, aStage, aVal, aEnd

LEMMA PutRefines ==
  ASSUME "other" \notin Pris, IInv, IInv', Hold, NEW p \in Producers,
         (\E m \in Msgs, k \in Pris : PutCall(p, m, k)) \/ PutStep(p)
  PROVE  Abs!Next \/ UNCHANGED Abs!vars
<1>1. /\ pc \in [Threads -> ProducerLabels \cup ConsumerLabels]
      /\ pMsg \in [Threads -> Msgs \cup {NULL}] /\ queue \in Seq(Msgs) /\ Len(queue) \in Nat
      /\ p \in Threads /\ pri \in [Producers -> {"none"} \cup Pris]
  BY DEF IInv, Shape, Types, Threads
<1>2. ASSUME NEW m \in Msgs, NEW k \in Pris, PutCall(p, m, k) PROVE Abs!Next
  <2>1. /\ pc[p] = "idle" /\ pc'[p] = "wait" /\ m \notin live /\ pMsg'[p] = m /\ queue' = queue
        /\ pri' = [pri EXCEPT ![p] = k]
        /\ \A u \in Threads \ {p} : pc'[u] = pc[u] /\ pMsg'[u] = pMsg[u]
    BY <1>1, <1>2 DEF PutCall, Goto
  <2>2. aStage[p] = "idle" /\ aStage' = [aStage EXCEPT ![p] = "called"]
        /\ aVal' = [aVal EXCEPT ![p] = m]
    BY <1>1, <2>1, Seen, Stages
  <2>3. aEnd' = [aEnd EXCEPT ![p] = EndOf(k)]
    BY <1>1, <2>1 DEF aEnd
  <2>4. m \notin Range(queue) /\ m \notin Range(aVal)
    <3>1. \A i \in 1 .. Len(queue) : queue[i] # m
      BY <2>1 DEF Hold, Queued
    <3>2. \A t \in Threads : aVal[t] # m
      BY <1>1, <2>1, MsgsAssumption DEF Hold, InHand, aVal
    <3>3. DOMAIN queue = 1 .. Len(queue) /\ DOMAIN aVal = Threads
      BY <1>1 DEF aVal
    <3> QED BY <3>1, <3>2, <3>3 DEF Range
  <2>5. EndOf(k) \in {EndOf(x) : x \in Pris}
    OBVIOUS
  <2>6. Abs!PutCall(p, m, EndOf(k))
    BY <2>1, <2>2, <2>3, <2>4 DEF Abs!PutCall, Abs!InUse, Abs!Range, Range, aStage, aVal, aEnd
  <2> QED BY <2>5, <2>6 DEF Abs!Next
<1>3. CASE PutWait(p) \/ PutLock(p) \/ PutUnlock(p)
  <2>1. /\ UNCHANGED <<queue, pri, pMsg>> /\ \A u \in Threads \ {p} : pc'[u] = pc[u]
        /\ \/ pc[p] \in {"wait", "lock"} /\ pc'[p] \in {"lock", "push"}
           \/ pc[p] = "unlock" /\ pc'[p] = "post"
    BY <1>1, <1>3 DEF PutWait, PutLock, PutUnlock, Lock, Unlock, Goto
  <2>2. StageOf(pc'[p]) = StageOf(pc[p]) /\ pc[p] # "pop" /\ pc'[p] # "pop"
    BY <2>1, Stages
  <2> QED BY <1>1, <2>1, <2>2, Unseen
<1>4. CASE PutPush(p)
  <2>1. /\ pc[p] = "push" /\ pc'[p] = "unlock" /\ pMsg'[p] = NULL /\ pri' = pri
        /\ queue' = Pushed(queue, pMsg[p], pri[p]) /\ pMsg[p] \in Msgs
        /\ \A u \in Threads \ {p} : pc'[u] = pc[u] /\ pMsg'[u] = pMsg[u]
    BY <1>1, <1>4 DEF PutPush, Goto, IInv, Shape, ArgInv
  <2>2. /\ aStage[p] = "called" /\ aVal[p] = pMsg[p]
        /\ aStage' = [aStage EXCEPT ![p] = "done"] /\ aVal' = [aVal EXCEPT ![p] = NULL]
    BY <1>1, <2>1, Seen, Stages
  <2>3. aEnd' = aEnd /\ aEnd[p] = EndOf(pri[p])
    BY <2>1 DEF aEnd
  <2>4. pri[p] \in {"none", "high"}
    <3>1. pri[p] \in {"none"} \cup Pris
      BY <1>1
    <3> QED BY <3>1, PrisAssumption, Zenon
  <2>5. /\ pri[p] = "high" => EndOf(pri[p]) = "front" /\ queue' = <<pMsg[p]>> \o queue
        /\ pri[p] = "none" => EndOf(pri[p]) # "front" /\ queue' = Append(queue, pMsg[p])
    BY <2>1 DEF EndOf, Pushed
  <2>6. Len(queue) < MaxSize - 1
    <3>1. Len(queue') = Len(queue) + 1
      BY <1>1, <2>1, <2>4, PushedProperties
    <3>2. Len(queue') <= MaxSize - 1
      <4>1. /\ Len(queue') \in Nat
            /\ Tokens(semWrite', semRead', Len(queue'), pc')
        BY DEF IInv, Shape, Types
      <4> QED BY <4>1, TokenBounds DEF Tokens
    <3> QED BY <1>1, <3>1, <3>2
  <2>7. Abs!PutEffect(p)
    BY <2>2, <2>3, <2>4, <2>5, <2>6 DEF Abs!PutEffect, aStage, aVal, aEnd
  <2> QED BY <2>7 DEF Abs!Next
<1>5. CASE PutPost(p)
  <2>1. /\ pc[p] = "post" /\ pc'[p] = "idle" /\ UNCHANGED <<queue, pMsg>>
        /\ pri' = [pri EXCEPT ![p] = "none"] /\ \A u \in Threads \ {p} : pc'[u] = pc[u]
    BY <1>1, <1>5 DEF PutPost, Goto
  <2>2. aStage[p] = "done" /\ aStage' = [aStage EXCEPT ![p] = "idle"]
    BY <1>1, <2>1, Seen, Stages
  <2>3. aVal' = aVal
    BY <2>1 DEF aVal
  <2>4. aEnd' = [aEnd EXCEPT ![p] = "back"]
    BY <1>1, <2>1 DEF aEnd, EndOf
  <2>5. Abs!PutReturn(p)
    BY <2>1, <2>2, <2>3, <2>4 DEF Abs!PutReturn, aStage, aVal, aEnd
  <2> QED BY <2>5 DEF Abs!Next
<1> QED BY <1>2, <1>3, <1>4, <1>5 DEF PutStep

LEMMA GetRefines ==
  ASSUME "other" \notin Pris, IInv, Hold, NEW c \in Consumers, GetStep(c)
  PROVE  Abs!Next \/ UNCHANGED Abs!vars
<1>1. /\ pc \in [Threads -> ProducerLabels \cup ConsumerLabels]
      /\ pMsg \in [Threads -> Msgs \cup {NULL}] /\ queue \in Seq(Msgs) /\ c \in Threads
  BY DEF IInv, Shape, Types, Threads
<1>2. CASE GetCall(c)
  <2>1. /\ pc[c] = "idle" /\ pc'[c] = "wait" /\ UNCHANGED <<queue, pMsg, pri>>
        /\ \A u \in Threads \ {c} : pc'[u] = pc[u]
    BY <1>1, <1>2 DEF GetCall, Goto
  <2>2. aStage[c] = "idle" /\ aStage' = [aStage EXCEPT ![c] = "called"]
    BY <1>1, <2>1, Seen, Stages
  <2>3. aVal' = aVal /\ aEnd' = aEnd
    BY <2>1 DEF aVal, aEnd
  <2>4. Abs!GetCall(c)
    BY <2>1, <2>2, <2>3 DEF Abs!GetCall, aStage, aVal, aEnd
  <2> QED BY <2>4 DEF Abs!Next
<1>3. CASE GetWait(c) \/ GetLock(c) \/ GetUnlock(c) \/ GetPost(c)
  <2>1. /\ UNCHANGED <<queue, pri, pMsg>> /\ \A u \in Threads \ {c} : pc'[u] = pc[u]
        /\ \/ pc[c] \in {"wait", "lock"} /\ pc'[c] \in {"lock", "read"}
           \/ pc[c] \in {"unlock", "post"} /\ pc'[c] \in {"post", "held"}
    BY <1>1, <1>3 DEF GetWait, GetLock, GetUnlock, GetPost, Lock, Unlock, Goto
  <2>2. StageOf(pc'[c]) = StageOf(pc[c]) /\ pc[c] # "pop" /\ pc'[c] # "pop"
    BY <2>1, Stages
  <2> QED BY <1>1, <2>1, <2>2, Unseen
(* The front is read but not yet taken: seen above, nothing happened. *)
<1>4. CASE GetRead(c)
  <2>1. pc[c] = "read" /\ queue # <<>> /\ pMsg[c] = NULL
    BY <1>4, IInvFinds DEF GetRead, GetFindsMessage, Hold, EmptyHanded
  <2>2. /\ pc'[c] = "pop" /\ UNCHANGED <<queue, pri>>
        /\ \A u \in Threads \ {c} : pc'[u] = pc[u] /\ pMsg'[u] = pMsg[u]
    BY <1>1, <1>4, <2>1 DEF GetRead, Goto
  <2>3. StageOf(pc'[c]) = StageOf(pc[c])
    BY <2>1, <2>2, Stages
  <2> QED BY <1>1, <2>1, <2>2, <2>3, Unseen
<1>5. CASE GetPop(c)
  <2>1. /\ pc[c] = "pop" /\ pc'[c] = "unlock" /\ queue' = Tail(queue) /\ UNCHANGED <<pMsg, pri>>
        /\ queue # <<>> /\ pMsg[c] = Head(queue)
        /\ \A u \in Threads \ {c} : pc'[u] = pc[u]
    BY <1>1, <1>5 DEF GetPop, Goto, IInv, Shape, PopInv
  <2>2. /\ aStage[c] = "called" /\ aStage' = [aStage EXCEPT ![c] = "done"]
        /\ aVal' = [aVal EXCEPT ![c] = Head(queue)]
    BY <1>1, <2>1, Seen, Stages
  <2>3. aEnd' = aEnd
    BY <2>1 DEF aEnd
  <2>4. Abs!GetEffect(c)
    BY <2>1, <2>2, <2>3 DEF Abs!GetEffect, aStage, aVal, aEnd
  <2> QED BY <2>4 DEF Abs!Next
<1>6. CASE Release(c)
  <2>1. /\ pc[c] = "held" /\ pc'[c] = "idle" /\ pMsg'[c] = NULL /\ UNCHANGED <<queue, pri>>
        /\ \A u \in Threads \ {c} : pc'[u] = pc[u] /\ pMsg'[u] = pMsg[u]
    BY <1>1, <1>6 DEF Release, Goto
  <2>2. /\ aStage[c] = "done" /\ aStage' = [aStage EXCEPT ![c] = "idle"]
        /\ aVal' = [aVal EXCEPT ![c] = NULL]
    BY <1>1, <2>1, Seen, Stages
  <2>3. aEnd' = aEnd
    BY <2>1 DEF aEnd
  <2>4. Abs!Release(c)
    BY <2>1, <2>2, <2>3 DEF Abs!Release, aStage, aVal, aEnd
  <2> QED BY <2>4 DEF Abs!Next
<1> QED BY <1>2, <1>3, <1>4, <1>5, <1>6 DEF GetStep

(***************************************************************************)
(* With the priorities put knows, the semaphores and the mutex implement   *)
(* the abstract deque: capacity, order at both ends and single delivery    *)
(* are those of BoundedDeque (synqueue_t.h:23-73).                         *)
(***************************************************************************)
THEOREM QueueRefinesDeque ==
  ASSUME "other" \notin Pris
  PROVE  Spec => ImplementsDeque
<1>1. Init => Abs!Init
  <2> SUFFICES ASSUME Init PROVE Abs!Init
    OBVIOUS
  <2>1. aStage = [t \in Threads |-> "idle"]
    BY Stages DEF Init, aStage
  <2>2. aVal = [t \in Threads |-> NULL] /\ aEnd = [p \in Producers |-> "back"]
    BY DEF Init, aVal, aEnd, EndOf
  <2> QED BY <2>1, <2>2 DEF Init, Abs!Init, aStage, aVal, aEnd, Threads
<1>2. IInv /\ Hold /\ IInv' /\ [Next]_vars => [Abs!Next]_(Abs!vars)
  <2> SUFFICES ASSUME IInv, Hold, IInv', [Next]_vars
               PROVE  Abs!Next \/ UNCHANGED Abs!vars
    OBVIOUS
  <2>1. CASE UNCHANGED vars
    BY <2>1 DEF vars, Abs!vars
  <2> QED BY <2>1, PutRefines, GetRefines DEF Next
<1> QED BY <1>1, <1>2, QueueHolds, PTL DEF Spec, ImplementsDeque, Abs!Spec
=============================================================================
