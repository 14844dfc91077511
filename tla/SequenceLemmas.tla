--------------------------- MODULE SequenceLemmas ---------------------------
(***************************************************************************)
(* Facts about sequences for the proofs about the tasks and about the log: *)
(* the elements of what Append, Tail, SubSeq and \o make, and FlattenSeq   *)
(* of the community modules, which is what TCP makes of the messages of a  *)
(* task, and what the rotated files of a log are when read one after the   *)
(* other.  FlattenSeq joins its parts from the first; what is shown here   *)
(* is that it may be taken apart at either end.                            *)
(*                                                                         *)
(* The induction over the number of parts needs no theorem with an         *)
(* operator for parameter: of a set of naturals that is not empty one is   *)
(* the least (WFMin), and a set S of naturals with 0 and every successor   *)
(* leaves none to be the least outside S.                                  *)
(***************************************************************************)
EXTENDS Integers, Sequences, SequencesExt, SequenceTheorems, WellFoundedInduction, TLAPS

(* A set of naturals that is not empty has a least element ...             *)
LEMMA LeastNat ==
  ASSUME NEW T, T \subseteq Nat, T # {}
  PROVE  \E x \in T : \A y \in T : ~(y < x)
<1> DEFINE R == {p \in Nat \X Nat : p[1] < p[2]}
<1>1. IsWellFoundedOn(R, Nat)
  BY NatLessThanWellFounded DEF OpToRel
<1>2. \A x, y \in Nat : y < x => <<y, x>> \in R
  OBVIOUS
<1> HIDE DEF R
<1>3. PICK x \in T : \A y \in T : ~ (<<y, x>> \in R)
  BY <1>1, WFMin, Zenon
<1> QED BY <1>2, <1>3

(* ... hence one that holds 0 and is closed under + 1 holds them all.      *)
LEMMA Induction ==
  ASSUME NEW S, 0 \in S, \A n \in Nat : n \in S => n + 1 \in S
  PROVE  Nat \subseteq S
<1> SUFFICES ASSUME {n \in Nat : n \notin S} # {} PROVE FALSE
  OBVIOUS
<1>1. PICK x \in {n \in Nat : n \notin S} : \A y \in {n \in Nat : n \notin S} : ~(y < x)
  BY LeastNat
<1>2. x # 0 /\ x - 1 \in Nat /\ x - 1 < x /\ (x - 1) + 1 = x
  BY <1>1
<1>3. x - 1 \in S
  BY <1>1, <1>2
<1> QED BY <1>1, <1>2, <1>3

-----------------------------------------------------------------------------
(* Elements.                                                               *)
LEMMA SeqOfSeqs ==
  ASSUME NEW T, NEW s \in Seq(T)
  PROVE  Len(s) \in Nat /\ (Len(s) = 0 => s = <<>>) /\ \A i \in 1 .. Len(s) : s[i] \in T
OBVIOUS

LEMMA AppendElements ==
  ASSUME NEW S, NEW s \in Seq(S), NEW e \in S
  PROVE  /\ Append(s, e) \in Seq(S) /\ Len(s) \in Nat /\ Len(Append(s, e)) = Len(s) + 1
         /\ \A i \in 1 .. Len(s) : s[i] = Append(s, e)[i]
         /\ Append(s, e)[Len(s) + 1] = e
         /\ Len(s) + 1 \in Nat
OBVIOUS

LEMMA TailElements ==
  ASSUME NEW S, NEW s \in Seq(S), s # <<>>
  PROVE  \E t \in Seq(S), n \in Nat, m \in Nat :
           /\ t = Tail(s) /\ n = Len(t) /\ m = Len(s) /\ m = n + 1
           /\ \A i \in 1 .. n : t[i] = s[i + 1]
           /\ Head(s) = s[1] /\ s[1] \in S
<1>1. /\ Tail(s) \in Seq(S) /\ Len(Tail(s)) \in Nat /\ Len(s) = Len(Tail(s)) + 1
      /\ \A i \in 1 .. Len(Tail(s)) : Tail(s)[i] = s[i + 1]
      /\ Head(s) = s[1] /\ s[1] \in S /\ Len(s) \in Nat
  OBVIOUS
<1> QED BY <1>1, Zenon

(* The part of a sequence behind its first n elements, and these.          *)
LEMMA RestElements ==
  ASSUME NEW S, NEW q \in Seq(S), NEW n \in 0 .. Len(q), NEW r, r = SubSeq(q, n + 1, Len(q))
  PROVE  r \in Seq(S) /\ Len(r) = Len(q) - n /\ \A k \in 1 .. Len(q) - n : r[k] = q[k + n]
OBVIOUS

LEMMA FirstElements ==
  ASSUME NEW S, NEW q \in Seq(S), NEW n \in 0 .. Len(q), NEW r, r = SubSeq(q, 1, n)
  PROVE  r \in Seq(S) /\ Len(r) = n /\ \A k \in 1 .. n : r[k] = q[k]
OBVIOUS

LEMMA JoinedElements ==
  ASSUME NEW S, NEW q \in Seq(S), NEW p \in Seq(S)
  PROVE  /\ q \o p \in Seq(S) /\ Len(q \o p) = Len(q) + Len(p)
         /\ \A k \in 1 .. Len(q) : (q \o p)[k] = q[k]
         /\ \A k \in 1 .. Len(p) : (q \o p)[Len(q) + k] = p[k]
OBVIOUS

LEMMA SameElements ==
  ASSUME NEW S, NEW s \in Seq(S), NEW t \in Seq(S), Len(s) = Len(t), \A i \in 1 .. Len(s) : s[i] = t[i]
  PROVE  s = t
OBVIOUS

(* Joining: types, the empty sequence, grouping, prefixes.                 *)
LEMMA JoinType ==
  ASSUME NEW S, NEW a \in Seq(S), NEW b \in Seq(S)
  PROVE  a \o b \in Seq(S)
OBVIOUS

LEMMA JoinNone ==
  ASSUME NEW S, NEW a \in Seq(S)
  PROVE  a \o <<>> = a /\ <<>> \o a = a
OBVIOUS

Regroups(a, b, c) == (a \o b) \o c = a \o (b \o c)
LEMMA JoinInside ==
  ASSUME NEW S, NEW a \in Seq(S), NEW b \in Seq(S), NEW c \in Seq(S)
  PROVE  Regroups(a, b, c)
BY DEF Regroups

LEMMA ConcatPrefix ==
  ASSUME NEW S, NEW s \in Seq(S), NEW t \in Seq(S)
  PROVE  IsPrefix(s, s \o t)
<1>1. /\ s \o t \in Seq(S) /\ Len(s \o t) = Len(s) + Len(t) /\ Len(s) \in Nat /\ Len(t) \in Nat
      /\ \A i \in 1 .. Len(s) : (s \o t)[i] = s[i]
  OBVIOUS
<1>2. Len(s) <= Len(s \o t)
  BY <1>1
<1>3. /\ SubSeq(s \o t, 1, Len(s)) \in Seq(S)
      /\ Len(SubSeq(s \o t, 1, Len(s))) = Len(s)
      /\ \A i \in 1 .. Len(s) : SubSeq(s \o t, 1, Len(s))[i] = (s \o t)[i]
  BY <1>1, <1>2
<1>4. SubSeq(s \o t, 1, Len(s)) = s
  <2>1. Len(s) = Len(SubSeq(s \o t, 1, Len(s))) /\ \A i \in 1 .. Len(s) : s[i] = SubSeq(s \o t, 1, Len(s))[i]
    BY <1>1, <1>3
  <2> QED BY <1>3, <2>1, SameElements, Zenon
<1>5. SubSeq(s, 1, Len(s)) = s
  BY SubSeqFull
<1> QED BY <1>2, <1>4, <1>5 DEF IsPrefix

-----------------------------------------------------------------------------
(* f holds what FlattenSeq joins of s, up to each of the first n parts.    *)
Part(f, s, i) == IF i = 1 THEN s[i] ELSE f[i - 1] \o s[i]
Joins(f, s, n) == \A i \in 1 .. n : f[i] = Part(f, s, i)

LEMMA JoinsExists ==
  ASSUME NEW s, NEW b \in Nat
  PROVE  \E f : f = [i \in 1 .. b |-> Part(f, s, i)]
<1> DEFINE S == {n \in Nat : \E f : f = [i \in 1 .. n |-> Part(f, s, i)]}
<1>1. 0 \in S
  <2>1. \E f : f = [i \in 1 .. 0 |-> Part(f, s, i)]
    <3> DEFINE f == [i \in 1 .. 0 |-> 0]
    <3>1. f = [i \in 1 .. 0 |-> Part(f, s, i)]
      OBVIOUS
    <3> QED BY <3>1
  <2> QED BY <2>1
<1>2. ASSUME NEW n \in Nat, n \in S PROVE n + 1 \in S
  <2>1. PICK f : f = [i \in 1 .. n |-> Part(f, s, i)]
    BY <1>2
  <2>2. PICK m \in Nat : m = n + 1
    OBVIOUS
  <2> DEFINE g == [i \in 1 .. m |-> IF i = m THEN Part(f, s, m) ELSE f[i]]
  <2>3. ASSUME NEW i \in 1 .. m PROVE g[i] = Part(g, s, i)
    <3>1. i # 1 => i - 1 \in 1 .. m /\ i - 1 # m
      BY <2>2
    <3>2. i # 1 => g[i - 1] = f[i - 1]
      BY <3>1
    <3>3. Part(g, s, i) = Part(f, s, i)
      <4> HIDE DEF g
      <4> QED BY <3>2, Zenon DEF Part
    <3>4. i # m => f[i] = Part(f, s, i)
      BY <2>1, <2>2
    <3>5. g[i] = IF i = m THEN Part(f, s, m) ELSE f[i]
      OBVIOUS
    <3> QED BY <3>3, <3>4, <3>5, Zenon
  <2>4. g = [i \in 1 .. m |-> Part(g, s, i)]
    BY <2>3, Zenon
  <2> QED BY <2>2, <2>4
<1> HIDE DEF S
<1>3. Nat \subseteq S
  BY <1>1, <1>2, Induction, Zenon
<1> QED BY <1>3 DEF S

(* That is the function FlattenSeq chooses.                                *)
LEMMA FlattenJoins ==
  ASSUME NEW s, Len(s) \in Nat, Len(s) # 0
  PROVE  \E f : Joins(f, s, Len(s)) /\ FlattenSeq(s) = f[Len(s)]
<1>1. \E f : f = [i \in 1 .. Len(s) |-> IF i = 1 THEN s[i] ELSE f[i - 1] \o s[i]]
  BY JoinsExists, Zenon DEF Part
<1> DEFINE F == CHOOSE f : f = [i \in 1 .. Len(s) |-> IF i = 1 THEN s[i] ELSE f[i - 1] \o s[i]]
<1>2. F = [i \in 1 .. Len(s) |-> IF i = 1 THEN s[i] ELSE F[i - 1] \o s[i]]
  BY <1>1, Zenon
<1>3. FlattenSeq(s) = F[Len(s)]
  BY Zenon DEF FlattenSeq
<1> HIDE DEF F
<1>4. Joins(F, s, Len(s))
  BY <1>2, Zenon DEF Joins, Part
<1> QED BY <1>3, <1>4, Zenon

(* Whatever two joins have in common they join the same way.               *)
LEMMA JoinsAgree ==
  ASSUME NEW f, NEW s, NEW n \in Nat, NEW g, NEW t, Joins(f, s, n), Joins(g, t, n),
         \A i \in 1 .. n : s[i] = t[i]
  PROVE  \A i \in 1 .. n : f[i] = g[i]
<1> DEFINE S == {k \in Nat : k \in 1 .. n => f[k] = g[k]}
<1>1. 0 \in S
  OBVIOUS
<1>2. ASSUME NEW k \in Nat, k \in S PROVE k + 1 \in S
  <2>1. PICK l \in Nat : l = k + 1
    OBVIOUS
  <2>2. l \in 1 .. n => f[l] = Part(f, s, l) /\ g[l] = Part(g, t, l) /\ s[l] = t[l]
    BY DEF Joins
  <2>3. l \in 1 .. n /\ l # 1 => f[l - 1] = g[l - 1]
    BY <1>2, <2>1
  <2>4. l \in 1 .. n => f[l] = g[l]
    BY <2>2, <2>3, Zenon DEF Part
  <2> QED BY <2>1, <2>4
<1> HIDE DEF S
<1>3. Nat \subseteq S
  BY <1>1, <1>2, Induction, Zenon
<1> QED BY <1>3 DEF S

(* Parts of one type make a join of it.                                    *)
LEMMA JoinsType ==
  ASSUME NEW T, NEW f, NEW s, NEW n \in Nat, Joins(f, s, n), \A i \in 1 .. n : s[i] \in Seq(T)
  PROVE  \A i \in 1 .. n : f[i] \in Seq(T)
<1> DEFINE S == {k \in Nat : k \in 1 .. n => f[k] \in Seq(T)}
<1>1. 0 \in S
  OBVIOUS
<1>2. ASSUME NEW k \in Nat, k \in S PROVE k + 1 \in S
  <2>1. PICK l \in Nat : l = k + 1
    OBVIOUS
  <2> SUFFICES ASSUME l \in 1 .. n PROVE f[l] \in Seq(T)
    BY <2>1
  <2>2. f[l] = Part(f, s, l) /\ s[l] \in Seq(T)
    BY DEF Joins
  <2>3. l # 1 => f[l - 1] \in Seq(T)
    BY <1>2, <2>1
  <2>4. ASSUME NEW p \in Seq(T), NEW q \in Seq(T) PROVE p \o q \in Seq(T)
    OBVIOUS
  <2> QED BY <2>2, <2>3, <2>4 DEF Part
<1> HIDE DEF S
<1>3. Nat \subseteq S
  BY <1>1, <1>2, Induction, Zenon
<1> QED BY <1>3 DEF S

LEMMA FlattenEmpty == FlattenSeq(<<>>) = <<>>
BY DEF FlattenSeq

LEMMA FlattenType ==
  ASSUME NEW T, NEW s \in Seq(Seq(T))
  PROVE  FlattenSeq(s) \in Seq(T)
<1>1. CASE Len(s) = 0
  <2>1. s = <<>> /\ <<>> \in Seq(T)
    BY <1>1
  <2> QED BY <2>1, FlattenEmpty
<1>2. CASE Len(s) # 0
  <2>1. PICK n \in Nat : n = Len(s)
    BY SeqOfSeqs
  <2>2. PICK f : Joins(f, s, n) /\ FlattenSeq(s) = f[n]
    BY <1>2, <2>1, FlattenJoins
  <2>3. \A i \in 1 .. n : s[i] \in Seq(T)
    BY <2>1, SeqOfSeqs
  <2>4. \A i \in 1 .. n : f[i] \in Seq(T)
    BY <2>2, <2>3, JoinsType, Zenon
  <2>5. n \in 1 .. n
    BY <1>2, <2>1
  <2> QED BY <2>2, <2>4, <2>5, Zenon
<1> QED BY <1>1, <1>2

(* One part more is joined behind the others ...                           *)
LEMMA FlattenAppend ==
  ASSUME NEW T, NEW s \in Seq(Seq(T)), NEW e \in Seq(T)
  PROVE  FlattenSeq(Append(s, e)) = FlattenSeq(s) \o e
<1>1. PICK t \in Seq(Seq(T)), n \in Nat, m \in Nat :
        /\ t = Append(s, e) /\ n = Len(s) /\ m = Len(t) /\ m = n + 1
        /\ \A i \in 1 .. n : s[i] = t[i]
        /\ t[m] = e
  <2>1. /\ Append(s, e) \in Seq(Seq(T)) /\ Len(s) \in Nat /\ Len(Append(s, e)) = Len(s) + 1
        /\ \A i \in 1 .. Len(s) : s[i] = Append(s, e)[i]
        /\ Append(s, e)[Len(s) + 1] = e
        /\ Len(s) + 1 \in Nat
    BY AppendElements
  <2> QED BY <2>1, Zenon
<1>2. m # 0 /\ m \in 1 .. m /\ (m = 1 <=> n = 0) /\ m - 1 = n /\ (n # 0 => n \in 1 .. n)
      /\ \A i \in 1 .. n : i \in 1 .. m
  BY <1>1
<1>3. PICK g : Joins(g, t, m) /\ FlattenSeq(t) = g[m]
  BY <1>1, <1>2, FlattenJoins, Zenon
<1>4. g[m] = Part(g, t, m)
  BY <1>2, <1>3, Zenon DEF Joins
<1>5. CASE n = 0
  <2>1. FlattenSeq(t) = e
    BY <1>1, <1>2, <1>3, <1>4, <1>5, Zenon DEF Part
  <2>2. s = <<>>
    BY <1>1, <1>5, SeqOfSeqs
  <2> QED BY <1>1, <2>1, <2>2, FlattenEmpty, ConcatEmptySeq
<1>6. CASE n # 0
  <2>1. PICK f : Joins(f, s, n) /\ FlattenSeq(s) = f[n]
    BY <1>1, <1>6, FlattenJoins, Zenon
  <2>2. Joins(g, t, n)
    BY <1>2, <1>3, Zenon DEF Joins
  <2>3. f[n] = g[n]
    <3>1. \A i \in 1 .. n : s[i] = t[i]
      BY <1>1
    <3>2. \A i \in 1 .. n : f[i] = g[i]
      BY <2>1, <2>2, <3>1, JoinsAgree
    <3> QED BY <1>2, <1>6, <3>2
  <2> QED BY <1>1, <1>2, <1>3, <1>4, <1>6, <2>1, <2>3, Zenon DEF Part
<1> QED BY <1>5, <1>6

Joined(x, p, q) == x = p \o q
Behind(t, s, n, T) == \A i \in 1 .. n : t[i] = s[i + 1] /\ t[i] \in Seq(T)

(* ... and one that is taken off in front was joined before them.          *)
LEMMA JoinsBehind ==
  ASSUME NEW T, NEW s, NEW t, NEW n \in Nat, n # 0, NEW m \in Nat, m - 1 = n, NEW f, NEW g,
         Joins(f, s, m), Joins(g, t, n), NEW h \in Seq(T), s[1] = h,
         Behind(t, s, n, T)
  PROVE  Joined(f[m], h, g[n])
<1> DEFINE S == {k \in Nat : k \in 1 .. n => f[k + 1] = h \o g[k]}
<1>1. 0 \in S
  OBVIOUS
<1>2. ASSUME NEW k \in Nat, k \in S PROVE k + 1 \in S
  <2>1. PICK l \in Nat, i \in Nat : l = k + 1 /\ i = l + 1
    OBVIOUS
  <2> SUFFICES ASSUME l \in 1 .. n PROVE f[i] = h \o g[l]
    BY <2>1
  <2>2. /\ l \in 1 .. m /\ i \in 1 .. m /\ i # 1 /\ i - 1 = l /\ l - 1 = k /\ 1 \in 1 .. m
        /\ (l = 1 <=> k = 0) /\ (k # 0 => k \in 1 .. n)
    BY <2>1
  <2>3. f[i] = f[l] \o s[i] /\ g[l] = Part(g, t, l) /\ f[1] = Part(f, s, 1)
    BY <2>2, Zenon DEF Joins, Part
  <2>4. t[l] = s[i] /\ t[l] \in Seq(T)
    BY <2>1 DEF Behind
  <2>5. CASE k = 0
    <3>1. f[l] = h /\ g[l] = t[l]
      BY <2>2, <2>3, <2>5, Zenon DEF Part
    <3> QED BY <2>3, <2>4, <3>1, Zenon
  <2>6. CASE k # 0
    <3>1. f[l] = h \o g[k]
      BY <1>2, <2>1, <2>2, <2>6
    <3>2. g[l] = g[k] \o t[l]
      BY <2>2, <2>3, <2>6, Zenon DEF Part
    <3>3. PICK q \in Seq(T), r \in Seq(T) : q = g[k] /\ r = t[l]
      <4>1. \A j \in 1 .. n : t[j] \in Seq(T)
        BY DEF Behind
      <4> QED BY <2>2, <2>4, <2>6, <4>1, JoinsType
    <3>4. (h \o q) \o r = h \o (q \o r)
      BY ConcatAssociative
    <3> QED BY <2>3, <2>4, <3>1, <3>2, <3>3, <3>4, Zenon
  <2> QED BY <2>5, <2>6
<1> HIDE DEF S
<1>3. Nat \subseteq S
  BY <1>1, <1>2, Induction, Zenon
<1>4. n \in S /\ n + 1 = m /\ n \in 1 .. n
  BY <1>3
<1> QED BY <1>4 DEF S, Joined

LEMMA FlattenTail ==
  ASSUME NEW T, NEW s \in Seq(Seq(T)), s # <<>>
  PROVE  FlattenSeq(s) = Head(s) \o FlattenSeq(Tail(s))
<1>1. PICK t \in Seq(Seq(T)), n \in Nat, m \in Nat :
        /\ t = Tail(s) /\ n = Len(t) /\ m = Len(s) /\ m = n + 1
        /\ \A i \in 1 .. n : t[i] = s[i + 1]
        /\ Head(s) = s[1] /\ s[1] \in Seq(T)
  BY TailElements, Zenon
<1>2. m # 0 /\ m \in 1 .. m /\ (n = 0 => m = 1) /\ (n # 0 => n \in 1 .. n)
  BY <1>1
<1>3. PICK f : Joins(f, s, m) /\ FlattenSeq(s) = f[m]
  BY <1>1, <1>2, FlattenJoins, Zenon
<1>4. PICK h \in Seq(T) : h = s[1]
  BY <1>1
<1>5. CASE n = 0
  <2>1. FlattenSeq(s) = h
    BY <1>2, <1>3, <1>4, <1>5, Zenon DEF Joins, Part
  <2>2. t = <<>>
    BY <1>1, <1>5, SeqOfSeqs
  <2>3. h \o <<>> = h
    BY ConcatEmptySeq
  <2> QED BY <1>1, <1>4, <2>1, <2>2, <2>3, FlattenEmpty, Zenon
<1>6. CASE n # 0
  <2>1. PICK g : Joins(g, t, n) /\ FlattenSeq(t) = g[n]
    BY <1>1, <1>6, FlattenJoins, Zenon
  <2>2. Behind(t, s, n, T)
    BY <1>1, SeqOfSeqs, Zenon DEF Behind
  <2>3. f[m] = h \o g[n]
    <3>1. m - 1 = n /\ s[1] = h
      BY <1>1, <1>4
    <3>2. Joined(f[m], h, g[n])
      BY <1>3, <1>6, <2>1, <2>2, <3>1, JoinsBehind
    <3> QED BY <3>2 DEF Joined
  <2> QED BY <1>1, <1>2, <1>3, <1>4, <1>6, <2>1, <2>3, Zenon
<1> QED BY <1>5, <1>6
=============================================================================
