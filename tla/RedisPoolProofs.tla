-------------------------- MODULE RedisPoolProofs --------------------------
(***************************************************************************)
(* Who has which client, and how many there are, for any number of users.  *)
(* Only Get, Connect and GiveBack move clients; all the other steps leave  *)
(* the pool as it is, whatever they do to the connections.  The bound on   *)
(* the clients needs those that are being made counted in: another user    *)
(* may give its client back before the new one is there.                   *)
(*                                                                         *)
(* The two streams of a connection: as long as no exception has left a     *)
(* part of the replies unread, what the server has to serve and what is    *)
(* under way are, in order, the rest of the operation of the client's user *)
(* (Sync), and a reply read in part is among it (ConnType).                *)
(*                                                                         *)
(* How often an operation is performed: its first command is in one place  *)
(* of one stream at most, and is sent again only on a new connection,      *)
(* after one that was closed under the operation (Tally).                  *)
(***************************************************************************)
EXTENDS RedisPool, FiniteSetTheorems, TLAPS

Waiting == {u \in Users : pc[u] = "connect"}
Owning == {u \in Users : mine[u] # NoClient}

PoolType == /\ made \subseteq Clients /\ pool \in Seq(made)
            /\ mine \in [Users -> made \cup {NoClient}]
            /\ DOMAIN pc = Users /\ pc = [u \in Users |-> pc[u]]
            /\ peak \in Nat

(* A client has no two users, nor two places in the pool, nor one of each, *)
(* and is somewhere.                                                       *)
Apart == /\ \A u, v \in Users : mine[u] = mine[v] /\ mine[u] # NoClient => u = v
         /\ \A i, j \in 1 .. Len(pool) : pool[i] = pool[j] => i = j
         /\ \A u \in Users, i \in 1 .. Len(pool) : pool[i] # mine[u]
Somewhere == \A c \in made : \/ \E u \in Users : mine[u] = c
                             \/ \E i \in 1 .. Len(pool) : pool[i] = c
HasClient == \A u \in Users :
               /\ pc[u] \in {"send", "recv", "reconnect", "giveback"} => mine[u] # NoClient
               /\ pc[u] \in {"idle", "connect"} => mine[u] = NoClient
Enough == Cardinality(made) + Cardinality(Waiting) <= peak

IInv == PoolType /\ Apart /\ Somewhere /\ HasClient /\ Enough

LEMMA WaitingFinite ==
  ASSUME NEW S \in SUBSET Users
  PROVE  IsFiniteSet(S) /\ Cardinality(S) \in Nat
BY PoolAssumption, FS_Subset, FS_CardinalityType

LEMMA MadeFinite == PoolType => IsFiniteSet(made) /\ Cardinality(made) \in Nat
BY PoolAssumption, FS_Subset, FS_CardinalityType DEF PoolType

LEMMA MaxOfTwo ==
  ASSUME NEW a \in Nat, NEW b \in Nat
  PROVE  Max({a, b}) \in Nat /\ Max({a, b}) >= a /\ Max({a, b}) >= b
<1>1. \E x \in {a, b} : \A y \in {a, b} : x >= y
  OBVIOUS
<1>2. Max({a, b}) \in {a, b} /\ \A y \in {a, b} : Max({a, b}) >= y
  BY <1>1 DEF Max
<1> QED BY <1>2

LEMMA PoolInit == Init => IInv
<1> SUFFICES ASSUME Init PROVE IInv
  OBVIOUS
<1>1. pool = <<First>> /\ made = {First} /\ peak = 1 /\ First \in Clients
      /\ mine = [u \in Users |-> NoClient] /\ pc = [u \in Users |-> "idle"]
  BY PoolAssumption DEF Init
<1>2. Cardinality(made) = 1 /\ Cardinality(Waiting) = 0
  <2>1. Waiting = {}
    BY <1>1 DEF Waiting
  <2> QED BY <1>1, <2>1, FS_Singleton, FS_EmptySet
<1>3. Len(pool) = 1 /\ pool[1] = First /\ pool \in Seq(made)
  BY <1>1
<1>4. PoolType /\ HasClient /\ Enough
  BY <1>1, <1>2, <1>3 DEF PoolType, HasClient, Enough
<1>5. Apart /\ Somewhere
  BY <1>1, <1>3, PoolAssumption DEF Apart, Somewhere
<1> QED BY <1>4, <1>5 DEF IInv

(* Steps that neither move a client nor begin to wait for one. *)
LEMMA Elsewhere ==
  ASSUME IInv, UNCHANGED <<pool, made, mine, peak>>,
         pc' = [u \in Users |-> pc'[u]], DOMAIN pc' = Users,
         \A u \in Users : \/ pc'[u] = pc[u]
                          \/ pc'[u] = "crashed"
                          \/ mine[u] # NoClient /\ pc'[u] \notin {"idle", "connect"}
  PROVE  IInv'
<1>1. PoolType' /\ HasClient' /\ Apart' /\ Somewhere'
  BY DEF IInv, PoolType, HasClient, Apart, Somewhere
<1>2. Waiting' \subseteq Waiting /\ Waiting \in SUBSET Users
  BY DEF Waiting
<1>3. Cardinality(Waiting') <= Cardinality(Waiting)
  BY <1>2, WaitingFinite, FS_Subset
<1>4. Enough'
  BY <1>2, <1>3, WaitingFinite, MadeFinite DEF Enough, IInv, PoolType
<1> QED BY <1>1, <1>4 DEF IInv

LEMMA GetInv == ASSUME IInv, NEW u \in Users, NEW n, Get(u, n) PROVE IInv'
<1>1. /\ pc[u] = "idle" /\ mine[u] = NoClient /\ made' = made
      /\ peak' = Max({peak, Cardinality(Busy) + 1})
  BY DEF Get, cvars, IInv, HasClient
<1>2. Busy \in SUBSET Users /\ Waiting \in SUBSET Users /\ Owning \in SUBSET Users
  BY DEF Busy, Waiting, Owning
<1>3. peak' \in Nat /\ peak' >= peak /\ peak' >= Cardinality(Busy) + 1
  <2>1. peak \in Nat /\ Cardinality(Busy) + 1 \in Nat
    BY <1>2, WaitingFinite DEF IInv, PoolType
  <2> DEFINE n1 == Cardinality(Busy) + 1
  <2>2. peak' = Max({peak, n1}) /\ n1 \in Nat
    BY <1>1, <2>1
  <2> HIDE DEF n1
  <2>3. peak' \in Nat /\ peak' >= peak /\ peak' >= n1
    BY <2>1, <2>2, MaxOfTwo
  <2> QED BY <2>3 DEF n1
<1>4. CASE /\ pool # <<>> /\ mine' = [mine EXCEPT ![u] = Head(pool)] /\ pool' = Tail(pool)
           /\ Goto(u, "send")
  <2>1. /\ Len(pool) \in Nat /\ Len(pool) >= 1 /\ Head(pool) = pool[1] /\ pool[1] \in made
        /\ Tail(pool) \in Seq(made) /\ Len(pool') = Len(pool) - 1
        /\ \A i \in 1 .. Len(pool) - 1 : pool'[i] = pool[i + 1]
    BY <1>4 DEF IInv, PoolType
  <2>2. /\ mine'[u] = pool[1] /\ pool[1] # NoClient
        /\ \A v \in Users \ {u} : mine'[v] = mine[v]
        /\ pc'[u] = "send" /\ \A v \in Users \ {u} : pc'[v] = pc[v]
    BY <1>4, <2>1, PoolAssumption DEF IInv, PoolType, Goto
  <2>3. PoolType'
    BY <1>1, <1>3, <1>4, <2>1 DEF IInv, PoolType, Goto
  <2>4. HasClient'
    BY <2>2 DEF IInv, HasClient
  <2>5. \A i \in 1 .. Len(pool) - 1 : i + 1 \in 1 .. Len(pool) /\ i + 1 # 1
    BY <2>1
  <2>6. Apart'
    <3>1. \A v, w \in Users : mine'[v] = mine'[w] /\ mine'[v] # NoClient => v = w
      BY <2>1, <2>2 DEF IInv, Apart
    <3>2. \A i, j \in 1 .. Len(pool) - 1 : pool'[i] = pool'[j] => i = j
      <4> SUFFICES ASSUME NEW i \in 1 .. Len(pool) - 1, NEW j \in 1 .. Len(pool) - 1,
                          pool'[i] = pool'[j]
                   PROVE  i = j
        OBVIOUS
      <4>1. i + 1 = j + 1
        BY <2>1, <2>5 DEF IInv, Apart
      <4> QED BY <2>1, <4>1
    <3>3. \A v \in Users, i \in 1 .. Len(pool) - 1 : pool'[i] # mine'[v]
      BY <2>1, <2>2, <2>5 DEF IInv, Apart
    <3> QED BY <2>1, <3>1, <3>2, <3>3 DEF Apart
  <2>7. Somewhere'
    <3> SUFFICES ASSUME NEW c \in made
                 PROVE  \/ \E v \in Users : mine'[v] = c
                        \/ \E i \in 1 .. Len(pool) - 1 : pool'[i] = c
      BY <1>1, <2>1 DEF Somewhere
    <3>1. CASE c = pool[1]
      BY <2>2, <3>1
    <3>2. ASSUME NEW i \in 1 .. Len(pool), pool[i] = c, i # 1
          PROVE  \E j \in 1 .. Len(pool) - 1 : pool'[j] = c
      <4>1. i - 1 \in 1 .. Len(pool) - 1 /\ (i - 1) + 1 = i
        BY <2>1, <3>2
      <4> QED BY <2>1, <3>2, <4>1
    <3>3. ASSUME NEW v \in Users, mine[v] = c PROVE mine'[v] = c
      <4>1. v # u
        BY <1>1, <3>3, PoolAssumption DEF IInv, PoolType
      <4> QED BY <2>2, <3>3, <4>1
    <3> QED BY <3>1, <3>2, <3>3 DEF IInv, Somewhere
  <2>8. Waiting' = Waiting
    BY <1>1, <2>2 DEF Waiting
  <2>9. Enough'
    BY <1>1, <1>2, <1>3, <2>8, WaitingFinite, MadeFinite DEF IInv, Enough, PoolType
  <2> QED BY <2>3, <2>4, <2>6, <2>7, <2>9 DEF IInv
(* Every client is with a user, and those who wait have none. *)
<1>5. CASE pool = <<>> /\ Goto(u, "connect") /\ UNCHANGED <<pool, mine>>
  <2>1. pc'[u] = "connect" /\ \A v \in Users \ {u} : pc'[v] = pc[v]
    BY <1>5 DEF IInv, PoolType, Goto
  <2>2. PoolType' /\ HasClient' /\ Apart' /\ Somewhere'
    BY <1>1, <1>3, <1>5, <2>1 DEF IInv, PoolType, HasClient, Apart, Somewhere, Goto
  <2>3. Cardinality(made) <= Cardinality(Owning)
    <3> DEFINE f == [v \in Owning |-> mine[v]]
    <3>1. \A v \in Owning : f[v] \in made
      BY DEF IInv, PoolType, Owning
    <3>2. \A c \in made : \E v \in Owning : f[v] = c
      <4> SUFFICES ASSUME NEW c \in made PROVE \E v \in Owning : f[v] = c
        OBVIOUS
      <4>1. PICK v \in Users : mine[v] = c
        BY <1>5 DEF IInv, Somewhere
      <4>2. c # NoClient
        BY PoolAssumption DEF IInv, PoolType
      <4> QED BY <4>1, <4>2 DEF Owning
    <3>3. f \in Surjection(Owning, made)
      BY <3>1, <3>2 DEF Surjection
    <3> QED BY <1>2, <3>3, WaitingFinite, FS_Surjection
  <2>4. Cardinality(Owning) + Cardinality(Waiting) <= Cardinality(Busy)
    <3>1. Owning \cap Waiting = {}
      BY DEF IInv, HasClient, Owning, Waiting
    <3>2. Owning \cup Waiting \subseteq Busy
      BY DEF IInv, HasClient, Owning, Waiting, Busy
    <3>3. Cardinality(Owning \cup Waiting) = Cardinality(Owning) + Cardinality(Waiting)
      <4>1. /\ IsFiniteSet(Owning) /\ Cardinality(Owning) \in Nat
            /\ IsFiniteSet(Waiting) /\ Cardinality(Waiting) \in Nat
        BY <1>2, WaitingFinite
      <4>2. Cardinality(Owning \cup Waiting)
              = Cardinality(Owning) + Cardinality(Waiting) - Cardinality(Owning \cap Waiting)
        BY <4>1, FS_Union
      <4>3. Cardinality(Owning \cap Waiting) = 0
        BY <3>1, FS_EmptySet
      <4> QED BY <4>1, <4>2, <4>3
    <3> QED BY <1>2, <3>2, <3>3, WaitingFinite, FS_Subset
  <2>5. Waiting' = Waiting \cup {u} /\ u \notin Waiting
    BY <1>1, <2>1 DEF Waiting
  <2>6. Cardinality(Waiting') = Cardinality(Waiting) + 1
    BY <1>2, <2>5, WaitingFinite, FS_AddElement
  <2>7. Enough'
    BY <1>1, <1>2, <1>3, <2>3, <2>4, <2>6, WaitingFinite, MadeFinite DEF Enough, IInv
  <2> QED BY <2>2, <2>7 DEF IInv
<1> QED BY <1>4, <1>5 DEF Get

LEMMA ConnectInv == ASSUME IInv, NEW u \in Users, Connect(u) PROVE IInv'
<1>1. pc[u] = "connect" /\ mine[u] = NoClient /\ UNCHANGED <<pool, peak>>
  BY DEF Connect, IInv, HasClient
<1>2. Waiting \in SUBSET Users /\ u \in Waiting /\ Cardinality(Waiting \ {u}) = Cardinality(Waiting) - 1
  BY <1>1, WaitingFinite, FS_RemoveElement DEF Waiting
<1>3. ASSUME NEW c \in Clients \ made, made' = made \cup {c}, mine' = [mine EXCEPT ![u] = c],
             Goto(u, "send")
      PROVE  IInv'
  <2>1. /\ mine'[u] = c /\ c # NoClient /\ \A v \in Users \ {u} : mine'[v] = mine[v]
        /\ pc'[u] = "send" /\ \A v \in Users \ {u} : pc'[v] = pc[v]
    BY <1>3, PoolAssumption DEF IInv, PoolType, Goto
  <2>2. pool \in Seq(made \cup {c}) /\ \A i \in 1 .. Len(pool) : pool[i] \in made
    BY DEF IInv, PoolType
  <2>3. PoolType'
    BY <1>1, <1>3, <2>2 DEF IInv, PoolType, Goto
  <2>4. Apart'
    <3>1. \A v \in Users \ {u} : mine[v] # c
      BY <2>1, <1>3 DEF IInv, PoolType
    <3> QED BY <1>1, <1>3, <2>1, <2>2, <3>1 DEF IInv, Apart
  <2>5. Somewhere'
    <3> SUFFICES ASSUME NEW d \in made \cup {c}
                 PROVE  \/ \E v \in Users : mine'[v] = d
                        \/ \E i \in 1 .. Len(pool) : pool[i] = d
      BY <1>1, <1>3 DEF Somewhere
    <3>1. ASSUME NEW v \in Users, mine[v] = d, d \in made PROVE mine'[v] = d
      BY <1>1, <2>1, <3>1, PoolAssumption DEF IInv, PoolType
    <3> QED BY <2>1, <3>1 DEF IInv, Somewhere
  <2>6. HasClient'
    BY <2>1 DEF IInv, HasClient
  <2>7. Waiting' = Waiting \ {u}
    BY <2>1 DEF Waiting
  <2>8. Cardinality(made') = Cardinality(made) + 1
    BY <1>3, MadeFinite, FS_AddElement DEF IInv
  <2>9. Enough'
    BY <1>1, <1>2, <2>7, <2>8, WaitingFinite, MadeFinite DEF IInv, Enough, PoolType
  <2> QED BY <2>3, <2>4, <2>5, <2>6, <2>9 DEF IInv
<1>4. CASE Ends(u) /\ UNCHANGED cvars
  <2>1. pc' = [pc EXCEPT ![u] = "idle"] /\ mine' = mine /\ made' = made
    BY <1>1, <1>4 DEF Ends, cvars, IInv, PoolType
  <2>2. pc'[u] = "idle" /\ \A v \in Users \ {u} : pc'[v] = pc[v]
    BY <2>1 DEF IInv, PoolType
  <2>3. PoolType' /\ Apart' /\ Somewhere' /\ HasClient'
    BY <1>1, <2>1, <2>2 DEF IInv, PoolType, Apart, Somewhere, HasClient
  <2>4. Waiting' = Waiting \ {u}
    BY <2>2 DEF Waiting
  <2>5. Enough'
    BY <1>1, <1>2, <2>1, <2>4, WaitingFinite, MadeFinite DEF IInv, Enough, PoolType
  <2> QED BY <2>3, <2>5 DEF IInv
<1> QED BY <1>3, <1>4 DEF Connect

LEMMA GiveBackInv == ASSUME IInv, NEW u \in Users, GiveBack(u) PROVE IInv'
<1>1. /\ pc[u] = "giveback" /\ mine[u] # NoClient /\ mine[u] \in made
      /\ pool' = Append(pool, mine[u]) /\ UNCHANGED <<made, peak>>
      /\ pc' = [pc EXCEPT ![u] = "idle"] /\ mine' = [mine EXCEPT ![u] = NoClient]
  BY DEF GiveBack, Ends, cvars, IInv, HasClient, PoolType
<1>2. /\ Len(pool) \in Nat /\ pool' \in Seq(made) /\ Len(pool') = Len(pool) + 1
      /\ pool'[Len(pool) + 1] = mine[u]
      /\ \A i \in 1 .. Len(pool) : pool'[i] = pool[i] /\ pool[i] \in made
  BY <1>1 DEF IInv, PoolType
<1>3. /\ mine'[u] = NoClient /\ \A v \in Users \ {u} : mine'[v] = mine[v]
      /\ pc'[u] = "idle" /\ \A v \in Users \ {u} : pc'[v] = pc[v]
  BY <1>1 DEF IInv, PoolType
<1>4. PoolType'
  BY <1>1, <1>2 DEF IInv, PoolType
<1>5. HasClient'
  BY <1>3 DEF IInv, HasClient
<1>6. Apart'
  <2>1. \A i \in 1 .. Len(pool) + 1 : i \in 1 .. Len(pool) \/ i = Len(pool) + 1
    BY <1>2
  <2>2. \A v, w \in Users : mine'[v] = mine'[w] /\ mine'[v] # NoClient => v = w
    BY <1>3 DEF IInv, Apart
  <2>3. \A i, j \in 1 .. Len(pool) + 1 : pool'[i] = pool'[j] => i = j
    BY <1>2, <2>1 DEF IInv, Apart
  <2>4. \A i \in 1 .. Len(pool) + 1 : pool'[i] # NoClient
    BY <1>1, <1>2, <2>1, PoolAssumption DEF IInv, PoolType
  <2>5. \A v \in Users, i \in 1 .. Len(pool) + 1 : pool'[i] # mine'[v]
    BY <1>1, <1>2, <1>3, <2>1, <2>4 DEF IInv, Apart
  <2> QED BY <1>2, <2>2, <2>3, <2>5 DEF Apart
<1>7. Somewhere'
  <2> SUFFICES ASSUME NEW c \in made
               PROVE  \/ \E v \in Users : mine'[v] = c
                      \/ \E i \in 1 .. Len(pool) + 1 : pool'[i] = c
    BY <1>1, <1>2 DEF Somewhere
  <2>1. Len(pool) + 1 \in 1 .. Len(pool) + 1 /\ \A i \in 1 .. Len(pool) : i \in 1 .. Len(pool) + 1
    BY <1>2
  <2> QED BY <1>2, <1>3, <2>1 DEF IInv, Somewhere
<1>8. Waiting' = Waiting
  BY <1>1, <1>3 DEF Waiting
<1>9. Enough'
  BY <1>1, <1>8 DEF IInv, Enough
<1> QED BY <1>4, <1>5, <1>6, <1>7, <1>9 DEF IInv

Receives(u) == \/ RecvPart(u) \/ RecvReply(u) \/ RecvThrows(u)
               \/ RecvAstray(u) \/ RecvFails(u)

LEMMA OtherInv ==
  ASSUME IInv,
         \/ \E u \in Users : Send(u) \/ Receives(u) \/ Reconnect(u)
         \/ \E c \in Clients : Execute(c) \/ Close(c)
         \/ UNCHANGED vars
  PROVE  IInv'
<1>1. UNCHANGED <<pool, made, mine, peak>>
  BY DEF Send, Receives, RecvPart, RecvReply, RecvThrows, Wrong, RecvAstray, RecvFails,
         Reconnect, Execute, Close, vars, cvars, uvars
<1>2. CASE UNCHANGED pc
  BY <1>1, <1>2, Elsewhere DEF IInv, PoolType
<1>3. CASE Crash
  <2>1. pc' = [u \in Users |-> "crashed"]
    BY <1>3 DEF Crash
  <2>2. pc' = [u \in Users |-> pc'[u]] /\ DOMAIN pc' = Users /\ \A u \in Users : pc'[u] = "crashed"
    BY <2>1
  <2> QED BY <1>1, <2>2, Elsewhere
<1>4. ASSUME NEW u \in Users, pc[u] \in {"send", "recv", "reconnect"},
             NEW l \in {"send", "recv", "reconnect", "giveback"}, Goto(u, l)
      PROVE  IInv'
  <2>1. mine[u] # NoClient
    BY <1>4 DEF IInv, HasClient
  <2>2. pc' = [v \in Users |-> pc'[v]] /\ DOMAIN pc' = Users
        /\ pc'[u] = l /\ \A v \in Users \ {u} : pc'[v] = pc[v]
    BY <1>4 DEF Goto, IInv, PoolType
  <2> QED BY <1>1, <2>1, <2>2, Elsewhere
<1>5. ASSUME NEW u \in Users, Send(u) \/ Receives(u) \/ Reconnect(u)
      PROVE  IInv'
  <2>1. /\ pc[u] \in {"send", "recv", "reconnect"}
        /\ \/ \E l \in {"send", "recv", "reconnect", "giveback"} : Goto(u, l)
           \/ Crash
           \/ UNCHANGED pc
    BY <1>5 DEF Send, Receives, RecvPart, RecvReply, RecvThrows, Wrong, RecvAstray, RecvFails,
                Counted, Reconnect, Closed, Logged, uvars
  <2> QED BY <1>2, <1>3, <1>4, <2>1
<1>6. (\E c \in Clients : Execute(c) \/ Close(c)) \/ UNCHANGED vars => UNCHANGED pc
  BY DEF Execute, Close, uvars, vars
<1> QED BY <1>2, <1>5, <1>6

LEMMA PoolInvariant == Spec => []IInv
<1>1. IInv /\ [Next]_vars => IInv'
  BY GetInv, ConnectInv, GiveBackInv, OtherInv DEF Next, User, Receives
<1> QED BY <1>1, PoolInit, PTL DEF Spec

(* A client has one user at a time, and is in the pool, once, when it has  *)
(* none (redisCliMgr.h:35-45, 52-64).                                      *)
THEOREM ClientHasOneUser == Spec => []OneUser
<1>1. IInv => OneUser
  <2> SUFFICES ASSUME IInv, NEW c \in made
               PROVE  Cardinality({u \in Users : mine[u] = c})
                      + Cardinality({i \in DOMAIN pool : pool[i] = c}) = 1
    BY DEF OneUser
  <2>1. c # NoClient /\ DOMAIN pool = 1 .. Len(pool)
    BY PoolAssumption DEF IInv, PoolType
  <2>2. ASSUME NEW u \in Users, mine[u] = c
        PROVE  /\ {v \in Users : mine[v] = c} = {u}
               /\ {i \in DOMAIN pool : pool[i] = c} = {}
    BY <2>1, <2>2 DEF IInv, Apart
  <2>3. ASSUME NEW i \in 1 .. Len(pool), pool[i] = c
        PROVE  /\ {v \in Users : mine[v] = c} = {}
               /\ {j \in DOMAIN pool : pool[j] = c} = {i}
    BY <2>1, <2>3 DEF IInv, Apart
  <2>4. Cardinality({}) = 0 /\ \A x : Cardinality({x}) = 1
    BY FS_Singleton, FS_EmptySet, Zenon
  <2>5. CASE \E u \in Users : mine[u] = c
    <3>1. \E u : /\ {v \in Users : mine[v] = c} = {u}
                 /\ {i \in DOMAIN pool : pool[i] = c} = {}
      BY <2>2, <2>5, Zenon
    <3>2. /\ Cardinality({v \in Users : mine[v] = c}) = 1
          /\ Cardinality({i \in DOMAIN pool : pool[i] = c}) = 0
      BY <2>4, <3>1, Zenon
    <3> QED BY <3>2
  <2>6. CASE \E i \in 1 .. Len(pool) : pool[i] = c
    <3>1. \E i : /\ {v \in Users : mine[v] = c} = {}
                 /\ {j \in DOMAIN pool : pool[j] = c} = {i}
      BY <2>3, <2>6, Zenon
    <3>2. /\ Cardinality({v \in Users : mine[v] = c}) = 0
          /\ Cardinality({i \in DOMAIN pool : pool[i] = c}) = 1
      BY <2>4, <3>1, Zenon
    <3> QED BY <3>2
  <2> QED BY <2>5, <2>6 DEF IInv, Somewhere
<1> QED BY <1>1, PoolInvariant, PTL

(* There are never more clients than there were users at once, or the one  *)
(* the pool began with (redisCliMgr.h:33-56).                              *)
THEOREM PoolIsBounded == Spec => []PoolWithinPeak
<1>1. IInv => PoolWithinPeak
  <2> SUFFICES ASSUME IInv PROVE Cardinality(made) <= peak
    BY DEF PoolWithinPeak
  <2>1. Waiting \in SUBSET Users
    BY DEF Waiting
  <2> QED BY <2>1, WaitingFinite, MadeFinite DEF IInv, Enough, PoolType
<1> QED BY <1>1, PoolInvariant, PTL

(* The rest of TypeOK.  What is sent carries the number of an operation,   *)
(* because who has a client, or waits for one, has an operation.           *)
Labels == {"idle", "connect", "send", "recv", "reconnect", "giveback", "crashed"}
Command == (1 .. MaxOps) \X (1 .. MaxBatch)
Stream == Seq(Command)
ConnType == /\ insync \subseteq Clients /\ midway \subseteq insync
            /\ \A c \in midway : rep[c] # <<>>
            /\ sock \in [Clients -> {"open", "closed", "none"}] /\ selected \in [Clients -> BOOLEAN]
            /\ req \in [Clients -> Stream] /\ rep \in [Clients -> Stream]
OpType == /\ pc \in [Users -> Labels]
          /\ op \in [Users -> 0 .. MaxOps] /\ size \in [Users -> 1 .. MaxBatch]
          /\ got \in [Users -> 0 .. MaxBatch] /\ again \in [Users -> BOOLEAN]
          /\ ops \in 0 .. MaxOps /\ faults \in 0 .. MaxFaults
Histories == times \in [1 .. MaxOps -> Nat] /\ lost \subseteq 1 .. MaxOps
Numbered == \A u \in Users : mine[u] # NoClient \/ pc[u] \notin {"idle", "crashed"} => op[u] # 0
Reading == \A u \in Users : pc[u] = "recv" => got[u] < size[u]

Rest == ConnType /\ OpType /\ Histories /\ Numbered /\ Reading

LEMMA RestInit == Init => Rest
BY PoolAssumption DEF Init, Rest, ConnType, OpType, Histories, Numbered, Reading, Labels, Stream

LEMMA NonEmptyStream ==
  ASSUME NEW s \in Stream, s # <<>>
  PROVE  Head(s) \in Command /\ Tail(s) \in Stream
BY DEF Stream

(* The steps of user u: how they end the macros' catch clause ... *)
LEMMA Caught ==
  ASSUME OpType, NEW u \in Users, Closed(u) \/ Logged(u) \/ Crash
  PROVE  /\ pc' \in [Users -> Labels]
         /\ \A v \in Users : pc'[v] \in {pc[v], "crashed"} \/ (v = u /\ pc'[v] \in {"giveback", "reconnect"})
<1>1. pc \in [Users -> Labels]
  BY DEF OpType
<1>2. \/ pc' = [v \in Users |-> "crashed"]
      \/ pc' = [pc EXCEPT ![u] = "giveback"] \/ pc' = [pc EXCEPT ![u] = "reconnect"]
  BY DEF Closed, Logged, Crash, Goto
<1>3. {"crashed", "giveback", "reconnect"} \subseteq Labels
  BY DEF Labels
<1>4. CASE pc' = [v \in Users |-> "crashed"]
  BY <1>3, <1>4
<1>5. ASSUME NEW l \in {"giveback", "reconnect"}, pc' = [pc EXCEPT ![u] = l]
      PROVE  /\ pc' \in [Users -> Labels]
             /\ \A v \in Users : pc'[v] = pc[v] \/ (v = u /\ pc'[v] = l)
  BY <1>1, <1>3, <1>5
<1> QED BY <1>2, <1>4, <1>5

(* ... and what connecting leaves of a client. *)
LEMMA FreshConnection ==
  ASSUME ConnType, NEW c \in Clients, Connected(c) \/ NotConnected(c)
  PROVE  ConnType'
<1>1. <<>> \in Stream
  BY DEF Stream
<1>2. /\ req' = [req EXCEPT ![c] = <<>>] /\ rep' = [rep EXCEPT ![c] = <<>>]
      /\ selected' = [selected EXCEPT ![c] = TRUE] \/ selected' = [selected EXCEPT ![c] = FALSE]
      /\ \E s \in {"none", "open", "closed"} : sock' = [sock EXCEPT ![c] = s]
      /\ insync' \in {insync \cup {c}, insync \ {c}} /\ midway' = midway \ {c}
  BY DEF Connected, NotConnected
<1> QED BY <1>1, <1>2 DEF ConnType

LEMMA RestUser ==
  ASSUME IInv, Rest, NEW u \in Users,
         User(u) \/ RecvAstray(u) \/ \E n \in 1 .. MaxBatch : Get(u, n)
  PROVE  Rest'
<1> USE PoolAssumption DEF Rest
<1> DEFINE others == \A v \in Users \ {u} : pc'[v] = pc[v] /\ mine'[v] = mine[v] /\ op'[v] = op[v]
<1>1. mine \in [Users -> made \cup {NoClient}] /\ made \subseteq Clients
  BY DEF IInv, PoolType
<1>2. pc[u] \in {"send", "recv", "reconnect", "giveback"} => mine[u] \in Clients
  BY <1>1 DEF IInv, HasClient
<1>3. Fault => faults' \in 0 .. MaxFaults
  BY DEF Fault, OpType
<1>4. ASSUME NEW n \in 1 .. MaxBatch, Get(u, n) PROVE Rest'
  <2>1. /\ pc[u] = "idle" /\ ops < MaxOps /\ ops' = ops + 1 /\ op' = [op EXCEPT ![u] = ops + 1]
        /\ size' = [size EXCEPT ![u] = n] /\ UNCHANGED <<cvars, got, again, faults, times, lost>>
        /\ pc' = [pc EXCEPT ![u] = "send"] \/ pc' = [pc EXCEPT ![u] = "connect"]
        /\ \A v \in Users \ {u} : mine'[v] = mine[v]
    BY <1>1, <1>4 DEF Get, Goto
  <2>2. ops + 1 \in 1 .. MaxOps
    BY <2>1 DEF OpType
  <2>3. ConnType' /\ Histories'
    BY <2>1 DEF ConnType, Histories, cvars
  <2>4. OpType'
    BY <2>1, <2>2 DEF OpType, Labels
  <2>5. op'[u] # 0 /\ pc'[u] # "recv" /\ others
        /\ \A v \in Users \ {u} : got'[v] = got[v] /\ size'[v] = size[v]
    BY <2>1, <2>2 DEF OpType
  <2>6. Numbered' /\ Reading'
    BY <2>5 DEF Numbered, Reading
  <2> QED BY <2>3, <2>4, <2>6
<1>5. CASE Ends(u) /\ (Connect(u) \/ GiveBack(u))
  <2>1. /\ pc' = [pc EXCEPT ![u] = "idle"] /\ mine' = [mine EXCEPT ![u] = NoClient]
        /\ op' = [op EXCEPT ![u] = 0] /\ size' = [size EXCEPT ![u] = 1]
        /\ got' = [got EXCEPT ![u] = 0] /\ again' = [again EXCEPT ![u] = FALSE]
    BY <1>5 DEF Ends
  <2>2. UNCHANGED <<ops, times, lost>> /\ (Fault \/ faults' = faults)
    BY <1>5 DEF Connect, GiveBack
  <2>3. ConnType'
    <3>1. CASE GiveBack(u)
      BY <3>1 DEF GiveBack, cvars, ConnType
    <3>2. CASE Connect(u)
      <4>1. ASSUME NEW c \in Clients \ made, Connected(c) PROVE ConnType'
        BY <4>1, FreshConnection
      <4>2. ASSUME UNCHANGED cvars PROVE ConnType'
        BY <4>2 DEF cvars, ConnType
      <4>3. (\E c \in Clients \ made : Connected(c)) \/ UNCHANGED cvars
        BY <3>2 DEF Connect
      <4> QED BY <4>1, <4>2, <4>3
    <3> QED BY <1>5, <3>1, <3>2
  <2>4. OpType' /\ Histories'
    <3>1. 1 \in 1 .. MaxBatch /\ 0 \in 0 .. MaxBatch /\ 0 \in 0 .. MaxOps /\ "idle" \in Labels
      BY PoolAssumption DEF Labels
    <3>2. faults' \in 0 .. MaxFaults
      BY <1>3, <2>2 DEF OpType
    <3>3. pc' \in [Users -> Labels] /\ op' \in [Users -> 0 .. MaxOps]
          /\ size' \in [Users -> 1 .. MaxBatch] /\ got' \in [Users -> 0 .. MaxBatch]
          /\ again' \in [Users -> BOOLEAN]
      BY <2>1, <3>1 DEF OpType
    <3>4. ops' \in 0 .. MaxOps /\ Histories'
      BY <2>2 DEF OpType, Histories
    <3> QED BY <3>2, <3>3, <3>4 DEF OpType
  <2>5. others /\ mine'[u] = NoClient /\ pc'[u] = "idle"
        /\ \A v \in Users \ {u} : got'[v] = got[v] /\ size'[v] = size[v]
    BY <1>1, <2>1 DEF OpType
  <2>6. Numbered' /\ Reading'
    BY <2>5 DEF Numbered, Reading
  <2> QED BY <2>3, <2>4, <2>6
<1>6. ASSUME Connect(u), ~ Ends(u) PROVE Rest'
  <2>1. PICK c \in Clients \ made : Connected(c) /\ mine' = [mine EXCEPT ![u] = c]
    BY <1>6 DEF Connect
  <2>2. /\ pc[u] = "connect" /\ pc' = [pc EXCEPT ![u] = "send"]
        /\ UNCHANGED <<op, size, got, again, faults, ops, times, lost>>
    BY <1>6 DEF Connect, Goto
  <2>3. ConnType'
    BY <2>1, FreshConnection
  <2>4. OpType' /\ Histories'
    BY <2>2 DEF OpType, Histories, Labels
  <2>5. others /\ op'[u] # 0 /\ pc'[u] = "send"
    BY <1>1, <2>1, <2>2 DEF OpType, Numbered
  <2>6. Numbered' /\ Reading'
    BY <2>2, <2>5 DEF Numbered, Reading
  <2> QED BY <2>3, <2>4, <2>6
<1>7. CASE Send(u)
  <2>1. /\ pc[u] = "send" /\ UNCHANGED <<sock, selected, rep, insync, midway, mine, op, size, again>>
        /\ UNCHANGED <<ops, faults, times, lost>> /\ got' = [got EXCEPT ![u] = 0]
        /\ req' = [req EXCEPT ![mine[u]] = req[mine[u]] \o Commands(u)] \/ req' = req
        /\ Goto(u, "recv") \/ Closed(u) \/ Logged(u) \/ Crash
    BY <1>7 DEF Send
  <2>2. Commands(u) \in Stream
    <3>1. op[u] \in 0 .. MaxOps /\ op[u] # 0 /\ size[u] \in 1 .. MaxBatch
      BY <2>1 DEF Numbered, OpType
    <3>2. \A i \in 1 .. size[u] : <<op[u], i>> \in Command
      BY <3>1 DEF Command
    <3>3. size[u] \in Nat
      BY <3>1
    <3>4. PICK k \in Nat : k = size[u]
      BY <3>3
    <3>5. \A i \in 1 .. k : <<op[u], i>> \in Command
      BY <3>2, <3>4
    <3>6. [i \in 1 .. k |-> <<op[u], i>>] \in Seq(Command)
      BY <3>5
    <3> QED BY <3>4, <3>6 DEF Commands, Stream
  <2>3. req[mine[u]] \o Commands(u) \in Stream
    BY <1>2, <2>1, <2>2 DEF ConnType, Stream
  <2>4. ConnType' /\ Histories'
    BY <2>1, <2>3 DEF ConnType, Histories
  <2>5. /\ pc' \in [Users -> Labels]
        /\ \A v \in Users : pc'[v] \in {pc[v], "crashed"} \/ (v = u /\ pc'[v] \in {"recv", "giveback", "reconnect"})
    <3>1. CASE Goto(u, "recv")
      <4>1. pc \in [Users -> Labels] /\ "recv" \in Labels
        BY DEF OpType, Labels
      <4> QED BY <3>1, <4>1 DEF Goto
    <3>2. CASE Closed(u) \/ Logged(u) \/ Crash
      BY <3>2, Caught
    <3> QED BY <2>1, <3>1, <3>2
  <2>6. OpType'
    <3>1. got' \in [Users -> 0 .. MaxBatch]
      BY <2>1 DEF OpType
    <3> QED BY <2>1, <2>5, <3>1 DEF OpType
  <2>7. Numbered'
    BY <2>1, <2>5 DEF Numbered
  <2>8. Reading'
    BY <2>1, <2>5 DEF Reading, OpType
  <2> QED BY <2>4, <2>6, <2>7, <2>8
(* What reading a reply to its end does to its user ... *)
<1>8. ASSUME pc[u] = "recv", Counted(u), UNCHANGED <<mine, op, size, again, ops, faults>>
      PROVE  OpType' /\ Numbered' /\ Reading'
  <2>1. /\ got' = [got EXCEPT ![u] = got[u] + 1]
        /\ IF got[u] + 1 = size[u] THEN pc' = [pc EXCEPT ![u] = "giveback"] ELSE pc' = pc
    BY <1>8 DEF Counted, Goto
  <2>2. got[u] \in Nat /\ size[u] \in 1 .. MaxBatch /\ got[u] < size[u]
    BY <1>8 DEF OpType, Reading
  <2>3. OpType'
    <3>1. got[u] + 1 \in 0 .. MaxBatch /\ "giveback" \in Labels
      BY <2>2, PoolAssumption DEF Labels
    <3>2. got' \in [Users -> 0 .. MaxBatch]
      BY <2>1, <3>1 DEF OpType
    <3>3. pc' \in [Users -> Labels]
      BY <2>1, <3>1 DEF OpType
    <3> QED BY <1>8, <3>2, <3>3, Zenon DEF OpType
  <2>4. Numbered'
    BY <1>8, <2>1 DEF Numbered, OpType
  <2>5. Reading'
    BY <1>8, <2>1, <2>2 DEF Reading, OpType
  <2> QED BY <2>3, <2>4, <2>5
(* ... and an exception. *)
<1>9. ASSUME pc[u] = "recv", Closed(u) \/ Logged(u),
             UNCHANGED <<mine, op, size, got, again, ops, faults>>
      PROVE  OpType' /\ Numbered' /\ Reading'
  <2>1. /\ pc' \in [Users -> Labels]
        /\ \A v \in Users : pc'[v] \in {pc[v], "crashed"} \/ (v = u /\ pc'[v] \in {"giveback", "reconnect"})
    BY <1>9, Caught
  <2> QED BY <1>9, <2>1 DEF OpType, Numbered, Reading
<1>11. CASE RecvPart(u) \/ RecvReply(u) \/ RecvThrows(u) \/ RecvFails(u)
  <2>1. /\ pc[u] = "recv" /\ UNCHANGED <<sock, selected, req, mine, op, size, again>>
        /\ UNCHANGED <<ops, faults, times, lost>>
        /\ insync' \in {insync, insync \ {mine[u]}}
        /\ \/ rep' = rep
           \/ rep[mine[u]] # <<>> /\ rep' = [rep EXCEPT ![mine[u]] = Tail(rep[mine[u]])]
        /\ \/ UNCHANGED <<insync, rep, midway>>
           \/ UNCHANGED <<insync, rep>> /\ midway' = midway \cup {mine[u]}
              /\ mine[u] \in insync /\ rep[mine[u]] # <<>>
           \/ midway' = midway \ {mine[u]}
        /\ \/ UNCHANGED <<pc, got>>
           \/ Counted(u)
           \/ UNCHANGED got /\ (Closed(u) \/ Logged(u))
    <3>1. CASE RecvPart(u)
      BY <3>1 DEF RecvPart, uvars
    <3>2. CASE RecvReply(u)
      BY <3>2 DEF RecvReply
    <3>3. CASE RecvThrows(u)
      BY <3>3 DEF RecvThrows, Wrong
    <3>4. CASE RecvFails(u)
      BY <3>4 DEF RecvFails, cvars
    <3> QED BY <1>11, <3>1, <3>2, <3>3, <3>4
  <2>2. rep[mine[u]] # <<>> => Tail(rep[mine[u]]) \in Stream
    BY <1>2, <2>1, NonEmptyStream DEF ConnType
  <2>3. ConnType' /\ Histories'
    <3>1. rep' \in [Clients -> Stream] /\ \A d \in Clients \ {mine[u]} : rep'[d] = rep[d]
      BY <2>1, <2>2 DEF ConnType
    <3>2. midway' \subseteq insync' /\ midway' \subseteq Clients
      BY <2>1 DEF ConnType
    <3>3. \A d \in midway' : rep'[d] # <<>>
      BY <2>1, <3>1, <3>2 DEF ConnType
    <3> QED BY <2>1, <3>1, <3>2, <3>3 DEF ConnType, Histories
  <2>4. CASE UNCHANGED <<pc, got>>
    BY <2>1, <2>3, <2>4 DEF OpType, Numbered, Reading
  <2> QED BY <1>8, <1>9, <2>1, <2>3, <2>4
<1>12. CASE RecvAstray(u)
  <2>1. /\ pc[u] = "recv" /\ UNCHANGED <<sock, selected, req, insync, midway, mine, op, size, again>>
        /\ UNCHANGED <<ops, faults, times, lost>> /\ mine[u] \notin insync
        /\ \/ Logged(u) /\ UNCHANGED got
           \/ UNCHANGED <<got, pc>>
           \/ Counted(u)
    BY <1>12 DEF RecvAstray
  <2>2. PICK n \in 0 .. Len(rep[mine[u]]) :
          rep' = [rep EXCEPT ![mine[u]] = SubSeq(rep[mine[u]], n + 1, Len(rep[mine[u]]))]
    BY <1>12 DEF RecvAstray
  <2>3. SubSeq(rep[mine[u]], n + 1, Len(rep[mine[u]])) \in Stream
    <3>1. rep[mine[u]] \in Stream
      BY <1>2, <2>1 DEF ConnType
    <3> QED BY <3>1 DEF Stream
  <2>4. rep' \in [Clients -> Stream] /\ \A d \in midway : rep'[d] = rep[d]
    BY <2>1, <2>2, <2>3 DEF ConnType
  <2>5. ConnType' /\ Histories'
    BY <2>1, <2>4 DEF ConnType, Histories
  <2>6. CASE UNCHANGED <<got, pc>>
    BY <2>1, <2>5, <2>6 DEF OpType, Numbered, Reading
  <2> QED BY <1>8, <1>9, <2>1, <2>5, <2>6
<1>10. CASE Reconnect(u)
  <2>1. /\ pc[u] = "reconnect" /\ UNCHANGED <<mine, op, size, got, ops, times, lost>>
        /\ Connected(mine[u]) \/ NotConnected(mine[u])
        /\ again' = [again EXCEPT ![u] = TRUE] \/ again' = again
        /\ pc' = [pc EXCEPT ![u] = "send"] \/ pc' = [pc EXCEPT ![u] = "giveback"]
        /\ Fault \/ faults' = faults
    BY <1>10 DEF Reconnect, Goto
  <2>2. ConnType' /\ Histories'
    BY <1>2, <2>1, FreshConnection DEF Histories
  <2>3. OpType'
    BY <1>3, <2>1 DEF OpType, Labels
  <2>4. Numbered' /\ Reading'
    BY <2>1 DEF Numbered, Reading, OpType
  <2> QED BY <2>2, <2>3, <2>4
<1> QED BY <1>4, <1>5, <1>6, <1>7, <1>10, <1>11, <1>12 DEF User, GiveBack

LEMMA RestServer ==
  ASSUME IInv, Rest, NEW c \in Clients, Execute(c) \/ Close(c)
  PROVE  Rest'
<1> USE PoolAssumption DEF Rest
<1>1. UNCHANGED <<mine, pc, op, size, got, again, ops>>
  BY DEF Execute, Close, uvars
<1>2. Numbered' /\ Reading'
  BY <1>1 DEF Numbered, Reading
<1>3. CASE Execute(c)
  <2>1. /\ req[c] # <<>> /\ req' = [req EXCEPT ![c] = Tail(req[c])]
        /\ rep' = [rep EXCEPT ![c] = Append(rep[c], Head(req[c]))]
        /\ UNCHANGED <<sock, selected, insync, midway, faults, lost>>
        /\ times' = IF Head(req[c])[2] = 1 THEN [times EXCEPT ![Head(req[c])[1]] = @ + 1] ELSE times
    BY <1>3 DEF Execute
  <2>2. /\ Tail(req[c]) \in Stream /\ Append(rep[c], Head(req[c])) \in Stream
        /\ Head(req[c]) \in Command /\ Append(rep[c], Head(req[c])) # <<>>
    <3>1. req[c] \in Stream /\ rep[c] \in Stream
      BY DEF ConnType
    <3>2. Head(req[c]) \in Command /\ Tail(req[c]) \in Stream
      BY <2>1, <3>1, NonEmptyStream
    <3>3. \A s \in Seq(Command), e \in Command : Append(s, e) \in Seq(Command) /\ Append(s, e) # <<>>
      OBVIOUS
    <3> QED BY <3>1, <3>2, <3>3 DEF Stream
  <2>3. ConnType'
    BY <2>1, <2>2 DEF ConnType
  <2>4. Histories'
    <3>1. Head(req[c])[1] \in 1 .. MaxOps
      BY <2>2 DEF Command
    <3>2. CASE times' = [times EXCEPT ![Head(req[c])[1]] = @ + 1]
      BY <2>1, <3>1, <3>2 DEF Histories
    <3> QED BY <2>1, <3>2 DEF Histories
  <2> QED BY <1>1, <1>2, <2>1, <2>3, <2>4 DEF OpType
<1>4. CASE Close(c)
  <2>1. /\ sock' = [sock EXCEPT ![c] = "closed"] /\ req' = [req EXCEPT ![c] = <<>>]
        /\ UNCHANGED <<selected, insync, times>> /\ Fault
        /\ lost' = lost \cup {op[u] : u \in {v \in Users : mine[v] = c}}
    BY <1>4 DEF Close
  <2>2. PICK n \in 0 .. Len(rep[c]) : /\ rep' = [rep EXCEPT ![c] = SubSeq(rep[c], 1, n)]
                                     /\ midway' = IF n = 0 THEN midway \ {c} ELSE midway
    BY <1>4 DEF Close
  <2>3. /\ SubSeq(rep[c], 1, n) \in Stream /\ <<>> \in Stream
        /\ n # 0 => SubSeq(rep[c], 1, n) # <<>>
    <3>1. rep[c] \in Seq(Command)
      BY DEF ConnType, Stream
    <3> QED BY <3>1 DEF Stream
  <2>4. ConnType'
    <3>1. rep' \in [Clients -> Stream] /\ req' \in [Clients -> Stream]
      BY <2>1, <2>2, <2>3 DEF ConnType
    <3>2. midway' \subseteq midway /\ \A d \in midway' : rep'[d] # <<>>
      BY <2>2, <2>3 DEF ConnType
    <3> QED BY <2>1, <3>1, <3>2 DEF ConnType
  <2>5. \A u \in Users : mine[u] = c => op[u] \in 1 .. MaxOps
    BY DEF Numbered, OpType
  <2>6. Histories'
    BY <2>1, <2>5 DEF Histories
  <2> QED BY <1>1, <1>2, <2>1, <2>4, <2>6 DEF OpType, Fault
<1> QED BY <1>3, <1>4

LEMMA RestInvariant == Spec => []Rest
<1>1. IInv /\ Rest /\ [Next]_vars => Rest'
  <2>1. Rest /\ UNCHANGED vars => Rest'
    BY DEF Rest, ConnType, OpType, Histories, Numbered, Reading, vars, cvars, uvars
  <2> QED BY <2>1, RestUser, RestServer DEF Next
<1> QED BY <1>1, PoolInvariant, RestInit, PTL DEF Spec

(* The types, and: a user past get() has a client until it gives it back   *)
(* (operation.h:44-66, redisCliMgr.h:33-64).                               *)
THEOREM RedisPoolTypes == Spec => []TypeOK
<1>1. IInv /\ Rest /\ [Next]_vars => Rest'
  <2>1. Rest /\ UNCHANGED vars => Rest'
    BY DEF Rest, ConnType, OpType, Histories, Numbered, Reading, vars, cvars, uvars
  <2> QED BY <2>1, RestUser, RestServer DEF Next
<1>2. IInv /\ Rest => TypeOK
  BY DEF IInv, PoolType, HasClient, Rest, ConnType, OpType, Histories, Labels, Command, Stream, TypeOK
<1> QED BY <1>1, <1>2, PoolInvariant, RestInit, PTL DEF Spec
-----------------------------------------------------------------------------
(* Sequences. *)
LEMMA SeqEqual ==
  ASSUME NEW S, NEW s \in Seq(S), NEW t \in Seq(S),
         Len(s) = Len(t), \A i \in 1 .. Len(s) : s[i] = t[i]
  PROVE  s = t
OBVIOUS

LEMMA EmptyByLen ==
  ASSUME NEW S, NEW s \in Seq(S), Len(s) = 0
  PROVE  s = <<>>
OBVIOUS

LEMMA TailElements ==
  ASSUME NEW S, NEW s \in Seq(S), s # <<>>
  PROVE  /\ Tail(s) \in Seq(S) /\ Len(s) \in Nat /\ Len(s) >= 1 /\ Len(Tail(s)) = Len(s) - 1
         /\ \A i \in 1 .. Len(s) - 1 : Tail(s)[i] = s[i + 1]
OBVIOUS

LEMMA AppendElements ==
  ASSUME NEW S, NEW s \in Seq(S), NEW e \in S
  PROVE  /\ Append(s, e) \in Seq(S) /\ Len(s) \in Nat /\ Len(Append(s, e)) = Len(s) + 1
         /\ \A i \in 1 .. Len(s) : Append(s, e)[i] = s[i]
         /\ Append(s, e)[Len(s) + 1] = e
OBVIOUS

LEMMA SubSeqElements ==
  ASSUME NEW S, NEW s \in Seq(S), NEW m \in Nat, NEW n \in Nat, m <= n, n <= Len(s)
  PROVE  /\ SubSeq(s, m + 1, n) \in Seq(S) /\ Len(SubSeq(s, m + 1, n)) = n - m
         /\ \A i \in 1 .. n - m : SubSeq(s, m + 1, n)[i] = s[m + i]
<1>1. \A i \in m + 1 .. n : s[i] \in S
  OBVIOUS
<1> QED BY <1>1

LEMMA ConcatElements ==
  ASSUME NEW S, NEW s \in Seq(S), NEW t \in Seq(S)
  PROVE  /\ s \o t \in Seq(S) /\ Len(s) \in Nat /\ Len(t) \in Nat
         /\ Len(s \o t) = Len(s) + Len(t)
         /\ \A i \in 1 .. Len(s) : (s \o t)[i] = s[i]
         /\ \A i \in 1 .. Len(t) : (s \o t)[Len(s) + i] = t[i]
OBVIOUS

LEMMA PrefixByElements ==
  ASSUME NEW S, NEW s \in Seq(S), NEW t \in Seq(S), Len(s) <= Len(t),
         \A i \in 1 .. Len(s) : s[i] = t[i]
  PROVE  IsPrefix(s, t)
<1> DEFINE n == Len(s)
           h == SubSeq(s, 1, n)
           k == SubSeq(t, 1, n)
<1>1. n \in Nat /\ Len(t) \in Nat /\ n <= Len(t)
  OBVIOUS
<1>2. h \in Seq(S) /\ Len(h) = n /\ \A i \in 1 .. n : h[i] = s[i]
  BY <1>1
<1>3. k \in Seq(S) /\ Len(k) = n /\ \A i \in 1 .. n : k[i] = t[i]
  BY <1>1
<1> HIDE DEF h, k
<1>4. h = k
  BY <1>2, <1>3, SeqEqual
<1> QED BY <1>1, <1>4 DEF IsPrefix, h, k

(* The commands of an operation. *)
LEMMA CommandsOf ==
  ASSUME OpType, NEW u \in Users, op[u] # 0
  PROVE  /\ Commands(u) \in Seq(Command) /\ Len(Commands(u)) = size[u]
         /\ \A i \in 1 .. size[u] : Commands(u)[i] = <<op[u], i>>
<1>1. op[u] \in 1 .. MaxOps /\ size[u] \in Nat /\ size[u] <= MaxBatch
  BY PoolAssumption DEF OpType
<1>2. \A i \in 1 .. size[u] : <<op[u], i>> \in Command
  BY <1>1, PoolAssumption DEF Command
<1>3. Commands(u) = [i \in 1 .. size[u] |-> <<op[u], i>>]
  BY DEF Commands
<1> QED BY <1>1, <1>2, <1>3

(* The stream of a connection.  What is in it are the next commands of the *)
(* one user that reads, in order; all of them while the connection is      *)
(* open.                                                                   *)
Unread(c) == Len(rep[c])
Unserved(c) == Len(req[c])
Contents(u, c) ==
  /\ \A i \in 1 .. Unread(c) : rep[c][i] = <<op[u], got[u] + i>>
  /\ \A i \in 1 .. Unserved(c) : req[c][i] = <<op[u], got[u] + Unread(c) + i>>
Amount(u, c) ==
  /\ Unread(c) + Unserved(c) <= size[u] - got[u]
  /\ sock[c] = "open" => Unread(c) + Unserved(c) = size[u] - got[u]
Following(u, c) == Contents(u, c) /\ Amount(u, c)
Reads(u, c) == mine[u] = c /\ pc[u] = "recv"
Empty(c) == rep[c] = <<>> /\ req[c] = <<>>
ClientInStep(c) == /\ selected[c]
                   /\ \A u \in Users : Reads(u, c) => Following(u, c)
                   /\ Empty(c) \/ \E u \in Users : Reads(u, c)

Silent == \A c \in Clients : sock[c] # "open" => req[c] = <<>>
Orderly == Running => \A c \in made \cap insync : ClientInStep(c)

(* A step of user u leaves the other users where they are, if alive. *)
OthersStay(u) ==
  /\ pc[u] # "crashed"
  /\ \A v \in Users \ {u} : /\ mine'[v] = mine[v] /\ op'[v] = op[v] /\ size'[v] = size[v]
                            /\ got'[v] = got[v] /\ again'[v] = again[v]
                            /\ pc'[v] \in {pc[v], "crashed"}

LEMMA UserAlone ==
  ASSUME IInv, Rest, NEW u \in Users,
         User(u) \/ RecvAstray(u) \/ \E n \in 1 .. MaxBatch : Get(u, n)
  PROVE  OthersStay(u)
<1>1. /\ mine \in [Users -> made \cup {NoClient}] /\ op \in [Users -> 0 .. MaxOps]
      /\ size \in [Users -> 1 .. MaxBatch] /\ got \in [Users -> 0 .. MaxBatch]
      /\ again \in [Users -> BOOLEAN] /\ pc \in [Users -> Labels]
  BY DEF IInv, PoolType, Rest, OpType
<1> DEFINE stay(f, g) == \A v \in Users \ {u} : g[v] = f[v]
<1>2. pc[u] # "crashed"
  BY DEF User, Get, Connect, Send, RecvPart, RecvReply, RecvThrows, Wrong, RecvAstray,
         RecvFails, Counted, Reconnect, GiveBack, uvars
<1>3. /\ stay(mine, mine') /\ stay(op, op') /\ stay(size, size')
      /\ stay(got, got') /\ stay(again, again')
  BY <1>1 DEF User, Get, Connect, Send, RecvPart, RecvReply, RecvThrows, Wrong, RecvAstray,
         RecvFails, Counted, Reconnect, GiveBack, uvars, Ends
<1>4. \/ \E l \in Labels : pc' = [pc EXCEPT ![u] = l]
      \/ pc' = [v \in Users |-> "crashed"] \/ pc' = pc
  BY DEF User, Get, Connect, Send, RecvPart, RecvReply, RecvThrows, Wrong, RecvAstray,
         RecvFails, Counted, Reconnect, GiveBack, uvars, Ends,
         Goto, Closed, Logged, Crash, Labels
<1>5. \A v \in Users \ {u} : pc'[v] \in {pc[v], "crashed"}
  BY <1>1, <1>4
<1> QED BY <1>2, <1>3, <1>5 DEF OthersStay

(* A client whose connection and readers a step leaves alone. *)
LEMMA Untouched ==
  ASSUME NEW c \in Clients, ClientInStep(c),
         /\ sock'[c] = sock[c] /\ selected'[c] = selected[c]
         /\ req'[c] = req[c] /\ rep'[c] = rep[c],
         \A v \in Users : /\ Reads(v, c)' <=> Reads(v, c)
                          /\ Reads(v, c) => op'[v] = op[v] /\ got'[v] = got[v] /\ size'[v] = size[v]
  PROVE  ClientInStep(c)'
<1>1. ASSUME NEW v \in Users, Reads(v, c)' PROVE Following(v, c)'
  <2>1. /\ Following(v, c)
        /\ op'[v] = op[v] /\ got'[v] = got[v] /\ size'[v] = size[v]
    BY <1>1 DEF ClientInStep
  <2> QED BY <2>1, Zenon DEF Following, Contents, Amount, Unread, Unserved
<1> QED BY <1>1 DEF ClientInStep, Empty
Sync == Silent /\ Orderly

LEMMA SyncInit == Init => Sync
<1> SUFFICES ASSUME Init PROVE Sync
  OBVIOUS
<1>1. /\ made = {First} /\ First \in Clients /\ selected[First]
      /\ \A c \in Clients : rep[c] = <<>> /\ req[c] = <<>>
      /\ \A u \in Users : pc[u] = "idle"
  BY PoolAssumption DEF Init
<1>2. ClientInStep(First)
  BY <1>1 DEF ClientInStep, Empty, Reads
<1> QED BY <1>1, <1>2 DEF Sync, Silent, Orderly

(* Nobody else has the client of u. *)
LEMMA OnlyUser ==
  ASSUME IInv, NEW u \in Users, mine[u] # NoClient
  PROVE  /\ mine[u] \in made /\ mine[u] \in Clients
         /\ \A v \in Users \ {u} : mine[v] # mine[u]
BY DEF IInv, PoolType, Apart

(* Steps that change neither a connection nor who reads. *)
LEMMA SyncIdle ==
  ASSUME IInv, Rest, Sync, NEW u \in Users, OthersStay(u),
         UNCHANGED <<sock, selected, req, rep>>, insync' \subseteq insync, made' = made,
         pc[u] # "recv", pc'[u] # "recv"
  PROVE  Sync'
<1>1. Silent'
  BY DEF Sync, Silent
<1>2. ASSUME Running', NEW c \in made' \cap insync' PROVE ClientInStep(c)'
  <2>1. \A v \in Users \ {u} : pc'[v] = pc[v]
    BY <1>2 DEF OthersStay, Running
  <2>2. Running
    BY <1>2, <2>1 DEF OthersStay, Running
  <2>3. c \in Clients /\ ClientInStep(c)
    BY <1>2, <2>2 DEF Sync, Orderly, IInv, PoolType
  <2>4. \A v \in Users : /\ Reads(v, c)' <=> Reads(v, c)
                         /\ Reads(v, c) => op'[v] = op[v] /\ got'[v] = got[v] /\ size'[v] = size[v]
    BY <2>1 DEF OthersStay, Reads
  <2> QED BY <2>3, <2>4, Untouched
<1> QED BY <1>1, <1>2 DEF Sync, Orderly

(* Steps that change one connection, that of the client of u. *)
LEMMA SyncOwn ==
  ASSUME IInv, Rest, Sync, NEW u \in Users, OthersStay(u), NEW c \in Clients,
         \A v \in Users \ {u} : mine[v] # c,
         mine[u] \in {c, NoClient}, mine'[u] = c,
         \A d \in Clients \ {c} : /\ sock'[d] = sock[d] /\ selected'[d] = selected[d]
                                  /\ req'[d] = req[d] /\ rep'[d] = rep[d],
         made' \subseteq made \cup {c}, insync' \subseteq insync \cup {c},
         sock'[c] # "open" => req'[c] = <<>>,
         Running /\ Running' /\ c \in made' \cap insync' => ClientInStep(c)'
  PROVE  Sync'
<1>1. Silent'
  BY DEF Sync, Silent
<1>2. ASSUME Running', NEW d \in made' \cap insync' PROVE ClientInStep(d)'
  <2>1. \A v \in Users \ {u} : pc'[v] = pc[v]
    BY <1>2 DEF OthersStay, Running
  <2>2. Running
    BY <1>2, <2>1 DEF OthersStay, Running
  <2>3. CASE d # c
    <3>1. d \in Clients /\ ClientInStep(d)
      BY <1>2, <2>2, <2>3 DEF Sync, Orderly, IInv, PoolType
    <3>2. d # NoClient
      BY <3>1, PoolAssumption
    <3>3. \A v \in Users : /\ Reads(v, d)' <=> Reads(v, d)
                           /\ Reads(v, d) => op'[v] = op[v] /\ got'[v] = got[v] /\ size'[v] = size[v]
      BY <2>1, <2>3, <3>2 DEF OthersStay, Reads
    <3> QED BY <2>3, <3>1, <3>3, Untouched
  <2> QED BY <1>2, <2>2, <2>3
<1> QED BY <1>1, <1>2 DEF Sync, Orderly

LEMMA SyncUser ==
  ASSUME IInv, Rest, Sync, NEW u \in Users, NEW c, c = mine[u],
         User(u) \/ RecvAstray(u) \/ \E n \in 1 .. MaxBatch : Get(u, n)
  PROVE  Sync'
<1> DEFINE alone == \A v \in Users \ {u} : mine[v] # c
<1>1. OthersStay(u)
  BY UserAlone
<1>2. /\ pc \in [Users -> Labels] /\ got \in [Users -> 0 .. MaxBatch]
      /\ size \in [Users -> 1 .. MaxBatch]
      /\ sock \in [Clients -> {"open", "closed", "none"}] /\ selected \in [Clients -> BOOLEAN]
      /\ req \in [Clients -> Seq(Command)] /\ rep \in [Clients -> Seq(Command)]
      /\ mine \in [Users -> made \cup {NoClient}] /\ made \subseteq Clients
  BY DEF IInv, PoolType, Rest, OpType, ConnType, Stream
<1>3. pc[u] \in {"send", "recv", "reconnect", "giveback"}
        => c # NoClient /\ c \in made /\ c \in Clients /\ alone
  BY OnlyUser DEF IInv, HasClient
(* What is known of the client of u, and what is to be shown of it. *)
<1>4. ASSUME Running, c \in insync, c \in made, c \in Clients
      PROVE  /\ selected[c]
             /\ pc[u] = "recv" => Following(u, c)
             /\ pc[u] # "recv" /\ alone => rep[c] = <<>> /\ req[c] = <<>>
  BY <1>4 DEF Sync, Orderly, ClientInStep, Reads, Empty
<1>5. ASSUME NEW d \in Clients, selected'[d], d # NoClient,
             \A v \in Users \ {u} : mine[v] # d,
             \/ pc'[u] # "recv" /\ rep'[d] = <<>> /\ req'[d] = <<>>
             \/ pc'[u] = "recv" /\ mine'[u] = d /\ Following(u, d)'
      PROVE  ClientInStep(d)'
  BY <1>1, <1>5 DEF ClientInStep, Empty, Reads, OthersStay
<1>6. CASE \/ \E n \in 1 .. MaxBatch : Get(u, n)
           \/ GiveBack(u)
           \/ Connect(u) /\ Ends(u)
  <2>1. /\ UNCHANGED <<sock, selected, req, rep, insync, made>>
        /\ pc[u] # "recv" /\ pc'[u] # "recv"
    <3>1. CASE \E n \in 1 .. MaxBatch : Get(u, n)
      BY <1>2, <3>1 DEF Get, Goto, cvars
    <3>2. CASE GiveBack(u)
      BY <1>2, <3>2 DEF GiveBack, Ends, cvars
    <3>3. CASE Connect(u) /\ Ends(u)
      <4>1. pc[u] = "connect" /\ pc' = [pc EXCEPT ![u] = "idle"]
        BY <3>3 DEF Connect, Ends
      <4>2. pc'[u] = "idle"
        BY <1>2, <4>1
      <4>3. ~Goto(u, "send")
        BY <1>2, <4>2 DEF Goto
      <4> QED BY <3>3, <4>1, <4>2, <4>3 DEF Connect, cvars
    <3> QED BY <1>6, <3>1, <3>2, <3>3
  <2> QED BY <1>1, <2>1, SyncIdle
<1>7. ASSUME Connect(u), ~Ends(u) PROVE Sync'
  <2>1. PICK d \in Clients \ made : /\ made' = made \cup {d} /\ Connected(d)
                                    /\ mine' = [mine EXCEPT ![u] = d]
    BY <1>7 DEF Connect
  <2>2. pc[u] = "connect" /\ pc' = [pc EXCEPT ![u] = "send"] /\ mine[u] = NoClient
    BY <1>7 DEF Connect, Goto, IInv, HasClient
  <2>3. /\ sock' = [sock EXCEPT ![d] = "open"] /\ selected' = [selected EXCEPT ![d] = TRUE]
        /\ req' = [req EXCEPT ![d] = <<>>] /\ rep' = [rep EXCEPT ![d] = <<>>]
        /\ insync' = insync \cup {d}
    BY <2>1 DEF Connected
  <2>4. d # NoClient /\ mine'[u] = d /\ pc'[u] = "send" /\ \A v \in Users \ {u} : mine[v] # d
    BY <1>2, <2>1, <2>2, PoolAssumption
  <2>5. ClientInStep(d)'
    BY <1>2, <1>5, <2>3, <2>4
  <2>6. /\ \A e \in Clients \ {d} : /\ sock'[e] = sock[e] /\ selected'[e] = selected[e]
                                    /\ req'[e] = req[e] /\ rep'[e] = rep[e]
        /\ sock'[d] = "open"
    BY <1>2, <2>3
  <2> QED BY <1>1, <2>1, <2>2, <2>3, <2>4, <2>5, <2>6, SyncOwn
<1>8. CASE Reconnect(u)
  <2>1. /\ pc[u] = "reconnect" /\ mine' = mine /\ made' = made
        /\ pc' = [pc EXCEPT ![u] = "send"] \/ pc' = [pc EXCEPT ![u] = "giveback"]
        /\ \/ Connected(c) /\ selected'[c]
           \/ NotConnected(c) /\ insync' = insync \ {c}
    BY <1>2, <1>3, <1>8 DEF Reconnect, Goto, Connected, NotConnected
  <2>2. /\ req' = [req EXCEPT ![c] = <<>>] /\ rep' = [rep EXCEPT ![c] = <<>>]
        /\ \E b \in BOOLEAN : selected' = [selected EXCEPT ![c] = b]
        /\ \E s \in {"none", "open", "closed"} : sock' = [sock EXCEPT ![c] = s]
        /\ insync' \subseteq insync \cup {c}
    BY <2>1 DEF Connected, NotConnected
  <2>3. /\ req'[c] = <<>> /\ rep'[c] = <<>> /\ pc'[u] # "recv"
        /\ \A e \in Clients \ {c} : /\ sock'[e] = sock[e] /\ selected'[e] = selected[e]
                                    /\ req'[e] = req[e] /\ rep'[e] = rep[e]
    BY <1>2, <1>3, <2>1, <2>2
  <2>4. c \in insync' => selected'[c]
    BY <2>1
  <2>5. c \in insync' => ClientInStep(c)'
    BY <1>3, <1>5, <2>1, <2>3, <2>4
  <2> QED BY <1>1, <1>3, <2>1, <2>2, <2>3, <2>5, SyncOwn
<1>9. CASE Send(u)
  <2>1. /\ pc[u] = "send" /\ UNCHANGED <<made, sock, selected, rep, insync, mine, op, size>>
        /\ got' = [got EXCEPT ![u] = 0]
        /\ \/ /\ sock[c] = "open" /\ req' = [req EXCEPT ![c] = req[c] \o Commands(u)]
              /\ Goto(u, "recv")
           \/ sock[c] # "open" /\ req' = req
    BY <1>9 DEF Send
  <2>2. size[u] \in Nat /\ size[u] >= 1 /\ got'[u] = 0
    BY <1>2, <2>1, PoolAssumption
  <2>3. ASSUME Running, c \in made \cap insync PROVE ClientInStep(c)'
    <3>1. selected[c] /\ rep[c] = <<>> /\ req[c] = <<>>
      BY <1>3, <1>4, <2>1, <2>3
    <3>2. CASE /\ sock[c] = "open" /\ req' = [req EXCEPT ![c] = req[c] \o Commands(u)]
               /\ Goto(u, "recv")
      <4>1. Len(Commands(u)) = size[u] /\ \A i \in 1 .. size[u] : Commands(u)[i] = <<op[u], i>>
        BY <2>2 DEF Commands
      <4>2. req'[c] = Commands(u)
        <5>1. <<>> \o Commands(u) = Commands(u)
          BY <2>2 DEF Commands
        <5> QED BY <1>2, <1>3, <2>1, <3>1, <3>2, <5>1
      <4>3. pc'[u] = "recv" /\ mine'[u] = c /\ rep'[c] = <<>>
        BY <1>2, <2>1, <3>1, <3>2 DEF Goto
      <4>4. Following(u, c)'
        <5>1. Unread(c)' = 0 /\ Unserved(c)' = size[u]
          BY <4>1, <4>2, <4>3 DEF Unread, Unserved
        <5>2. \A i \in 1 .. size[u] : req'[c][i] = <<op'[u], 0 + 0 + i>>
          BY <2>1, <2>2, <4>1, <4>2
        <5>3. Contents(u, c)'
          BY <2>2, <4>3, <5>1, <5>2 DEF Contents
        <5>4. Amount(u, c)'
          BY <2>1, <2>2, <5>1 DEF Amount
        <5> QED BY <5>3, <5>4 DEF Following
      <4> QED BY <1>3, <1>5, <2>1, <3>1, <4>3, <4>4
    <3>3. CASE sock[c] # "open" /\ req' = req
      <4>1. Unread(c)' = 0 /\ Unserved(c)' = 0
        BY <2>1, <3>1, <3>3 DEF Unread, Unserved
      <4>2. Contents(u, c)'
        BY <4>1 DEF Contents
      <4>3. Amount(u, c)'
        BY <2>1, <2>2, <3>3, <4>1 DEF Amount
      <4>4. Following(u, c)'
        BY <4>2, <4>3 DEF Following
      <4> QED BY <1>3, <1>5, <2>1, <3>1, <3>3, <4>4
    <3> QED BY <2>1, <3>2, <3>3
  <2>4. \A e \in Clients \ {c} : req'[e] = req[e]
    BY <1>2, <2>1
  <2>5. sock'[c] # "open" => req'[c] = <<>>
    BY <1>3, <2>1 DEF Sync, Silent
  <2> QED BY <1>1, <1>3, <2>1, <2>3, <2>4, <2>5, SyncOwn
<1>10. CASE RecvReply(u)
  <2>1. /\ pc[u] = "recv" /\ UNCHANGED <<made, sock, selected, req, insync, mine, op, size>>
        /\ rep[c] # <<>> /\ rep' = [rep EXCEPT ![c] = Tail(rep[c])]
        /\ got' = [got EXCEPT ![u] = got[u] + 1]
        /\ IF got[u] + 1 = size[u] THEN pc' = [pc EXCEPT ![u] = "giveback"] ELSE pc' = pc
    BY <1>10 DEF RecvReply, Counted, Goto
  <2>2. /\ Unread(c) \in Nat /\ Unread(c) >= 1 /\ rep'[c] = Tail(rep[c])
        /\ Unread(c)' = Unread(c) - 1
        /\ \A i \in 1 .. Unread(c) - 1 : rep'[c][i] = rep[c][i + 1]
        /\ Unserved(c) \in Nat /\ Unserved(c)' = Unserved(c)
        /\ req[c] \in Seq(Command) /\ rep'[c] \in Seq(Command)
    <3>1. rep[c] \in Seq(Command) /\ req[c] \in Seq(Command) /\ rep'[c] = Tail(rep[c])
      BY <1>2, <1>3, <2>1
    <3>2. Len(req[c]) \in Nat /\ req'[c] = req[c]
      BY <2>1, <3>1
    <3>3. /\ Tail(rep[c]) \in Seq(Command) /\ Len(rep[c]) \in Nat /\ Len(rep[c]) >= 1
          /\ Len(Tail(rep[c])) = Len(rep[c]) - 1
          /\ \A i \in 1 .. Len(rep[c]) - 1 : Tail(rep[c])[i] = rep[c][i + 1]
      BY <2>1, <3>1, TailElements
    <3> QED BY <3>1, <3>2, <3>3, Zenon DEF Unread, Unserved
  <2>3. got[u] \in Nat /\ size[u] \in Nat /\ got'[u] = got[u] + 1
    BY <1>2, <2>1
  <2>4. ASSUME Running, c \in made \cap insync PROVE ClientInStep(c)'
    <3>1. selected[c] /\ Following(u, c)
      BY <1>3, <1>4, <2>1, <2>4
    <3>2. CASE got[u] + 1 = size[u]
      <4>1. Unread(c) + Unserved(c) <= size[u] - got[u]
        BY <3>1 DEF Following, Amount
      <4>2. Unread(c)' = 0 /\ Unserved(c) = 0
        BY <2>2, <2>3, <3>2, <4>1
      <4>3. rep'[c] = <<>> /\ req'[c] = <<>> /\ pc'[u] = "giveback"
        <5>1. Len(rep'[c]) = 0 /\ Len(req[c]) = 0
          BY <4>2 DEF Unread, Unserved
        <5>2. rep'[c] = <<>> /\ req[c] = <<>>
          BY <2>2, <5>1, EmptyByLen
        <5> QED BY <1>2, <2>1, <3>2, <5>2
      <4> QED BY <1>3, <1>5, <2>1, <3>1, <4>3
    <3>3. CASE got[u] + 1 # size[u]
      <4>1. \A i \in 1 .. Unread(c)' : rep'[c][i] = <<op'[u], got'[u] + i>>
        <5> SUFFICES ASSUME NEW i \in 1 .. Unread(c) - 1
                     PROVE  rep'[c][i] = <<op'[u], got'[u] + i>>
          BY <2>2
        <5>1. i + 1 \in 1 .. Unread(c) /\ got[u] + (i + 1) = got'[u] + i
          <6>1. Unread(c) \in Nat
            BY <2>2
          <6> QED BY <2>3, <6>1
        <5>2. rep[c][i + 1] = <<op[u], got[u] + (i + 1)>>
          BY <3>1, <5>1 DEF Following, Contents
        <5> QED BY <2>1, <2>2, <5>1, <5>2
      <4>2. \A i \in 1 .. Unserved(c)' : req'[c][i] = <<op'[u], got'[u] + Unread(c)' + i>>
        <5> SUFFICES ASSUME NEW i \in 1 .. Unserved(c)
                     PROVE  req[c][i] = <<op[u], got'[u] + Unread(c)' + i>>
          BY <2>1, <2>2
        <5>1. got[u] + Unread(c) + i = got'[u] + Unread(c)' + i
          <6>1. Unread(c) \in Nat /\ Unread(c)' = Unread(c) - 1 /\ i \in Nat
            BY <2>2
          <6> QED BY <2>3, <6>1
        <5>2. req[c][i] = <<op[u], got[u] + Unread(c) + i>>
          BY <3>1 DEF Following, Contents
        <5> QED BY <5>1, <5>2
      <4>3. /\ Unread(c)' + Unserved(c)' <= size'[u] - got'[u]
            /\ sock'[c] = "open" => Unread(c)' + Unserved(c)' = size'[u] - got'[u]
        <5>1. /\ Unread(c) \in Nat /\ Unserved(c) \in Nat /\ Unread(c)' = Unread(c) - 1
              /\ Unserved(c)' = Unserved(c) /\ size'[u] = size[u] /\ sock'[c] = sock[c]
          BY <2>1, <2>2
        <5> QED BY <2>3, <3>1, <5>1 DEF Following, Amount
      <4>4. Following(u, c)'
        BY <4>1, <4>2, <4>3, Zenon DEF Following, Contents, Amount
      <4> QED BY <1>3, <1>5, <2>1, <3>1, <3>3, <4>4
    <3> QED BY <3>2, <3>3
  <2>5. \A e \in Clients \ {c} : rep'[e] = rep[e]
    BY <1>2, <2>1
  <2>6. sock'[c] # "open" => req'[c] = <<>>
    BY <1>3, <2>1 DEF Sync, Silent
  <2> QED BY <1>1, <1>3, <2>1, <2>4, <2>5, <2>6, SyncOwn
(* What throws with something left to read leaves the client out of step. *)
<1>11. CASE RecvThrows(u) \/ RecvFails(u)
  <2>1. /\ pc[u] = "recv" /\ UNCHANGED <<made, sock, selected, req, mine, op, size, got>>
        /\ insync' \subseteq insync
        /\ Closed(u) \/ Logged(u)
        /\ \/ /\ rep[c] # <<>> /\ rep' = [rep EXCEPT ![c] = Tail(rep[c])]
              /\ got[u] + 1 = size[u] \/ insync' = insync \ {c}
           \/ rep' = rep /\ insync' = insync \ {c}
           \/ rep' = rep /\ rep[c] = <<>> /\ sock[c] = "closed"
    <3>1. CASE RecvThrows(u)
      BY <3>1 DEF RecvThrows, Wrong
    <3>2. CASE RecvFails(u)
      BY <3>2 DEF RecvFails, cvars
    <3> QED BY <1>11, <3>1, <3>2
  <2>2. ASSUME Running, Running', c \in made \cap insync' PROVE ClientInStep(c)'
    <3>1. selected[c] /\ Following(u, c)
      BY <1>3, <1>4, <2>1, <2>2
    <3>2. pc'[u] # "recv"
      <4>1. ~Crash
        BY <2>2 DEF Crash, Running
      <4> QED BY <1>2, <2>1, <4>1 DEF Closed, Logged, Goto
    <3>3. got[u] \in Nat /\ size[u] \in Nat /\ rep[c] \in Seq(Command) /\ req[c] \in Seq(Command)
      BY <1>2, <1>3, <2>1
    <3>4. rep'[c] = <<>> /\ req'[c] = <<>>
      <4>1. CASE /\ rep[c] # <<>> /\ rep' = [rep EXCEPT ![c] = Tail(rep[c])]
                 /\ got[u] + 1 = size[u] \/ insync' = insync \ {c}
        <5>1. Unread(c) + Unserved(c) <= size[u] - got[u] /\ got[u] + 1 = size[u]
          BY <2>2, <3>1, <4>1 DEF Following, Amount
        <5>2. /\ Unread(c) \in Nat /\ Unread(c) >= 1 /\ Unserved(c) \in Nat
              /\ rep'[c] = Tail(rep[c])
              /\ Tail(rep[c]) \in Seq(Command) /\ Unread(c)' = Unread(c) - 1
          <6>1. rep'[c] = Tail(rep[c]) /\ Len(req[c]) \in Nat
            BY <1>2, <1>3, <2>1, <3>3, <4>1
          <6> QED BY <3>3, <4>1, <6>1, TailElements DEF Unread, Unserved
        <5>3. Unread(c)' = 0 /\ Unserved(c) = 0
          BY <3>3, <5>1, <5>2
        <5>4. Len(rep'[c]) = 0 /\ Len(req[c]) = 0
          BY <5>3 DEF Unread, Unserved
        <5> QED BY <2>1, <3>3, <5>2, <5>4, EmptyByLen
      <4>2. CASE rep' = rep /\ rep[c] = <<>> /\ sock[c] = "closed"
        BY <1>3, <2>1, <4>2 DEF Sync, Silent
      <4> QED BY <2>1, <2>2, <4>1, <4>2
    <3> QED BY <1>3, <1>5, <2>1, <3>1, <3>2, <3>4
  <2>3. \A e \in Clients \ {c} : rep'[e] = rep[e]
    BY <1>2, <2>1
  <2>4. sock'[c] # "open" => req'[c] = <<>>
    BY <1>3, <2>1 DEF Sync, Silent
  <2> QED BY <1>1, <1>3, <2>1, <2>2, <2>3, <2>4, SyncOwn
(* Reading a part of a reply changes neither; what a client out of step    *)
(* goes through concerns nobody else.                                      *)
<1>12. CASE RecvPart(u)
  <2>1. UNCHANGED <<made, sock, selected, req, rep, insync, mine, pc, op, size, got>> /\ pc[u] = "recv"
    BY <1>12 DEF RecvPart, uvars
  <2>2. ASSUME Running, c \in made \cap insync PROVE ClientInStep(c)'
    <3>1. ClientInStep(c) /\ c \in Clients
      BY <1>2, <2>2 DEF Sync, Orderly
    <3>2. \A v \in Users : Reads(v, c)' <=> Reads(v, c)
      BY <2>1 DEF Reads
    <3> QED BY <2>1, <3>1, <3>2, Untouched
  <2>3. sock'[c] # "open" => req'[c] = <<>>
    BY <1>3, <2>1 DEF Sync, Silent
  <2> QED BY <1>1, <1>3, <2>1, <2>2, <2>3, SyncOwn
<1>13. CASE RecvAstray(u)
  <2>1. /\ UNCHANGED <<made, sock, selected, req, insync, mine>> /\ pc[u] = "recv"
        /\ c \notin insync
        /\ \E n \in 0 .. Len(rep[c]) : rep' = [rep EXCEPT ![c] = SubSeq(rep[c], n + 1, Len(rep[c]))]
    BY <1>13 DEF RecvAstray
  <2>2. \A e \in Clients \ {c} : rep'[e] = rep[e]
    BY <1>2, <2>1
  <2>3. sock'[c] # "open" => req'[c] = <<>>
    BY <1>3, <2>1 DEF Sync, Silent
  <2> QED BY <1>1, <1>3, <2>1, <2>2, <2>3, SyncOwn
<1> QED BY <1>6, <1>7, <1>8, <1>9, <1>10, <1>11, <1>12, <1>13 DEF User

LEMMA SyncServer ==
  ASSUME IInv, Rest, Sync, NEW c \in Clients, Execute(c) \/ Close(c)
  PROVE  Sync'
<1>1. /\ req \in [Clients -> Seq(Command)] /\ rep \in [Clients -> Seq(Command)] /\ req[c] \in Seq(Command)
      /\ rep[c] \in Seq(Command) /\ sock \in [Clients -> {"open", "closed", "none"}]
      /\ made \subseteq Clients
  BY DEF IInv, PoolType, Rest, ConnType, Stream
<1>2. /\ UNCHANGED <<made, selected, insync, mine, pc, op, size, got>> /\ sock[c] = "open"
      /\ \A d \in Clients \ {c} : sock'[d] = sock[d] /\ req'[d] = req[d] /\ rep'[d] = rep[d]
  BY <1>1 DEF Execute, Close, uvars
<1>3. sock'[c] # "open" => req'[c] = <<>>
  BY <1>1, <1>2 DEF Execute, Close
<1>4. ASSUME ClientInStep(c) PROVE ClientInStep(c)'
  <2>1. ASSUME Empty(c), Close(c) PROVE Empty(c)'
    BY <1>1, <2>1 DEF Empty, Close
  <2>2. ASSUME Empty(c), Execute(c) PROVE FALSE
    BY <2>2 DEF Empty, Execute
  <2>3. ASSUME NEW u \in Users, Reads(u, c), Execute(c) PROVE Following(u, c)'
    <3>1. /\ req[c] # <<>> /\ req'[c] = Tail(req[c]) /\ rep'[c] = Append(rep[c], Head(req[c]))
          /\ sock'[c] = "open"
      BY <1>1, <1>2, <2>3 DEF Execute
    <3>2. /\ Unserved(c) \in Nat /\ Unserved(c) >= 1 /\ Head(req[c]) = req[c][1]
          /\ Unserved(c)' = Unserved(c) - 1
          /\ \A i \in 1 .. Unserved(c) - 1 : req'[c][i] = req[c][i + 1]
          /\ Unread(c) \in Nat /\ Unread(c)' = Unread(c) + 1
          /\ \A i \in 1 .. Unread(c) : rep'[c][i] = rep[c][i]
          /\ rep'[c][Unread(c) + 1] = req[c][1]
      <4>1. Head(req[c]) = req[c][1] /\ Head(req[c]) \in Command
        BY <1>1, <3>1
      <4> QED BY <1>1, <3>1, <4>1, TailElements, AppendElements DEF Unread, Unserved
    <3>3. Following(u, c) /\ got[u] \in Nat /\ size[u] \in Nat
      BY <1>4, <2>3 DEF ClientInStep, Rest, OpType
    <3>4. \A i \in 1 .. Unread(c)' : rep'[c][i] = <<op'[u], got'[u] + i>>
      <4> SUFFICES ASSUME NEW i \in 1 .. Unread(c) + 1 PROVE rep'[c][i] = <<op[u], got[u] + i>>
        BY <1>2, <3>2
      <4>1. CASE i \in 1 .. Unread(c)
        BY <3>2, <3>3, <4>1 DEF Following, Contents
      <4>2. CASE i = Unread(c) + 1
        <5>1. 1 \in 1 .. Unserved(c) /\ got[u] + Unread(c) + 1 = got[u] + i
          BY <3>2, <3>3, <4>2
        <5>2. req[c][1] = <<op[u], got[u] + Unread(c) + 1>>
          BY <3>3, <5>1 DEF Following, Contents
        <5> QED BY <3>2, <4>2, <5>1, <5>2
      <4> QED BY <3>2, <4>1, <4>2
    <3>5. \A i \in 1 .. Unserved(c)' : req'[c][i] = <<op'[u], got'[u] + Unread(c)' + i>>
      <4> SUFFICES ASSUME NEW i \in 1 .. Unserved(c) - 1
                   PROVE  req'[c][i] = <<op[u], got[u] + Unread(c)' + i>>
        BY <1>2, <3>2
      <4>1. /\ i + 1 \in 1 .. Unserved(c)
            /\ got[u] + Unread(c) + (i + 1) = got[u] + Unread(c)' + i
        BY <3>2, <3>3
      <4>2. req[c][i + 1] = <<op[u], got[u] + Unread(c) + (i + 1)>>
        BY <3>3, <4>1 DEF Following, Contents
      <4> QED BY <3>2, <4>1, <4>2
    <3>6. /\ Unread(c)' + Unserved(c)' = Unread(c) + Unserved(c)
          /\ size'[u] - got'[u] = size[u] - got[u]
      BY <1>2, <3>2
    <3>7. /\ Unread(c)' + Unserved(c)' <= size'[u] - got'[u]
          /\ sock'[c] = "open" => Unread(c)' + Unserved(c)' = size'[u] - got'[u]
      BY <1>2, <3>3, <3>6 DEF Following, Amount
    <3> QED BY <3>4, <3>5, <3>7, Zenon DEF Following, Contents, Amount
  <2>4. ASSUME NEW u \in Users, Reads(u, c), Close(c) PROVE Following(u, c)'
    <3>1. PICK n \in 0 .. Len(rep[c]) : rep' = [rep EXCEPT ![c] = SubSeq(rep[c], 1, n)]
      BY <2>4 DEF Close
    <3>2. sock'[c] = "closed" /\ req'[c] = <<>>
      BY <1>1, <2>4 DEF Close
    <3>3. /\ n \in Nat /\ Unread(c) \in Nat /\ n <= Unread(c) /\ Unread(c)' = n
          /\ \A i \in 1 .. n : rep'[c][i] = rep[c][i] /\ i \in 1 .. Unread(c)
          /\ Unserved(c) \in Nat /\ Unserved(c)' = 0
      <4>1. /\ n \in Nat /\ n <= Len(rep[c]) /\ Len(rep[c]) \in Nat /\ Len(req[c]) \in Nat
            /\ rep'[c] = SubSeq(rep[c], 0 + 1, n)
        BY <1>1, <3>1
      <4>2. Len(rep'[c]) = n - 0 /\ \A i \in 1 .. n - 0 : rep'[c][i] = rep[c][0 + i]
        BY <1>1, <4>1, SubSeqElements
      <4>3. Len(req'[c]) = 0
        BY <3>2
      <4> QED BY <4>1, <4>2, <4>3 DEF Unread, Unserved
    <3>4. Following(u, c) /\ got[u] \in Nat /\ size[u] \in Nat
      BY <1>4, <2>4 DEF ClientInStep, Rest, OpType
    <3>5. \A i \in 1 .. Unread(c)' : rep'[c][i] = <<op'[u], got'[u] + i>>
      BY <1>2, <3>3, <3>4 DEF Following, Contents
    <3>6. Unread(c)' + Unserved(c)' <= size'[u] - got'[u]
      BY <1>2, <3>3, <3>4 DEF Following, Amount
    <3>7. Amount(u, c)'
      BY <3>2, <3>6 DEF Amount
    <3>8. Contents(u, c)'
      BY <3>3, <3>5 DEF Contents
    <3> QED BY <3>7, <3>8 DEF Following
  <2>5. \A u \in Users : Reads(u, c)' <=> Reads(u, c)
    BY <1>2 DEF Reads
  <2>6. selected[c] /\ (Empty(c) \/ \E u \in Users : Reads(u, c))
    BY <1>4 DEF ClientInStep
  <2> QED BY <1>2, <2>1, <2>2, <2>3, <2>4, <2>5, <2>6 DEF ClientInStep
<1>5. ASSUME NEW d \in made' \cap insync', ClientInStep(d), d # c PROVE ClientInStep(d)'
  <2>1. /\ d \in Clients
        /\ \A v \in Users : /\ Reads(v, d)' <=> Reads(v, d)
                            /\ op'[v] = op[v] /\ got'[v] = got[v] /\ size'[v] = size[v]
    BY <1>1, <1>2 DEF Reads
  <2> QED BY <1>2, <1>5, <2>1, Untouched
<1>6. Silent'
  BY <1>2, <1>3 DEF Sync, Silent
<1>7. Orderly'
  BY <1>2, <1>4, <1>5 DEF Sync, Orderly, Running
<1> QED BY <1>6, <1>7 DEF Sync

LEMMA SyncInvariant == Spec => []Sync
<1>1. IInv /\ Rest /\ Sync /\ [Next]_vars => Sync'
  <2>1. ASSUME IInv, Sync, UNCHANGED vars PROVE Sync'
    <3>1. /\ UNCHANGED <<made, sock, selected, req, rep, insync, mine, pc, op, size, got>>
          /\ made \subseteq Clients
      BY <2>1 DEF vars, cvars, uvars, IInv, PoolType
    <3>2. \A c \in Clients : ClientInStep(c) => ClientInStep(c)'
      BY <3>1, Untouched DEF Reads
    <3> QED BY <2>1, <3>1, <3>2 DEF Sync, Silent, Orderly, Running
  <2> QED BY <2>1, SyncUser, SyncServer DEF Next
<1> QED BY <1>1, PoolInvariant, RestInvariant, SyncInit, PTL DEF Spec

(* The replies under way on a client of which no exception has left a part *)
(* unread are the ones its user is still to read, the present one to its   *)
(* last byte, and it is in its database (redisclient.h:396-408, 670-733,   *)
(* 2339-2378; operation.h:53-66).                                          *)
THEOREM RepliesInStep == Spec => []InStep
<1>1. IInv /\ Rest /\ Sync => InStep
  <2> SUFFICES ASSUME IInv, Rest, Sync, Running, NEW c \in made \cap insync
               PROVE
    LET stream == rep[c] \o req[c]
        readers == {u \in Users : mine[u] = c /\ pc[u] = "recv"}
        Awaited(u) == SubSeq(Commands(u), got[u] + 1, size[u])
    IN /\ selected[c]
       /\ readers = {} => stream = <<>> /\ c \notin midway
       /\ \A u \in readers : IF sock[c] = "open" THEN stream = Awaited(u)
                             ELSE IsPrefix(stream, Awaited(u))
    BY DEF InStep
  <2> DEFINE stream == rep[c] \o req[c]
             readers == {u \in Users : mine[u] = c /\ pc[u] = "recv"}
             Awaited(u) == SubSeq(Commands(u), got[u] + 1, size[u])
  <2>1. c \in Clients /\ rep[c] \in Seq(Command) /\ req[c] \in Seq(Command) /\ ClientInStep(c)
    BY DEF Sync, Orderly, IInv, PoolType, Rest, ConnType, Stream
  <2>2. /\ Unread(c) \in Nat /\ Unserved(c) \in Nat
        /\ stream \in Seq(Command) /\ Len(stream) = Unread(c) + Unserved(c)
        /\ \A i \in 1 .. Unread(c) : stream[i] = rep[c][i]
        /\ \A i \in 1 .. Unserved(c) : stream[Unread(c) + i] = req[c][i]
    <3>1. /\ stream \in Seq(Command) /\ Len(rep[c]) \in Nat /\ Len(req[c]) \in Nat
          /\ Len(stream) = Len(rep[c]) + Len(req[c])
          /\ \A i \in 1 .. Len(rep[c]) : stream[i] = rep[c][i]
          /\ \A i \in 1 .. Len(req[c]) : stream[Len(rep[c]) + i] = req[c][i]
      <4>1. rep[c] \in Seq(Command) /\ req[c] \in Seq(Command)
        BY <2>1
      <4>2. \A s, t \in Seq(Command) :
              /\ s \o t \in Seq(Command) /\ Len(s) \in Nat /\ Len(t) \in Nat
              /\ Len(s \o t) = Len(s) + Len(t)
              /\ \A i \in 1 .. Len(s) : (s \o t)[i] = s[i]
              /\ \A i \in 1 .. Len(t) : (s \o t)[Len(s) + i] = t[i]
        BY ConcatElements
      <4> QED BY <4>1, <4>2, Zenon
    <3> HIDE DEF stream
    <3> QED BY <3>1, Zenon DEF Unread, Unserved
  <2>3. readers = {} => stream = <<>> /\ c \notin midway
    BY <2>1 DEF ClientInStep, Empty, Reads, Rest, ConnType
  <2>4. ASSUME NEW u \in readers
        PROVE  IF sock[c] = "open" THEN stream = Awaited(u) ELSE IsPrefix(stream, Awaited(u))
    <3>1. /\ Following(u, c) /\ u \in Users
          /\ got[u] \in Nat /\ size[u] \in Nat /\ got[u] < size[u] /\ size[u] <= MaxBatch
          /\ op[u] \in 1 .. MaxOps
      <4>1. u \in Users /\ mine[u] = c /\ pc[u] = "recv" /\ c # NoClient
        BY <2>1, PoolAssumption
      <4>2. Following(u, c)
        BY <2>1, <4>1 DEF ClientInStep, Reads
      <4>3. op[u] # 0 /\ got[u] < size[u]
        BY <4>1 DEF Rest, Reading, Numbered
      <4>4. op[u] \in 0 .. MaxOps /\ size[u] \in 1 .. MaxBatch /\ got[u] \in 0 .. MaxBatch
        BY <4>1 DEF Rest, OpType
      <4> QED BY <4>1, <4>2, <4>3, <4>4, PoolAssumption
    <3>2. /\ Commands(u) \in Seq(Command) /\ Len(Commands(u)) = size[u]
          /\ \A i \in 1 .. size[u] : Commands(u)[i] = <<op[u], i>>
      BY <3>1, CommandsOf DEF Rest
    <3>3. /\ Awaited(u) \in Seq(Command) /\ Len(Awaited(u)) = size[u] - got[u]
          /\ \A i \in 1 .. size[u] - got[u] : Awaited(u)[i] = <<op[u], got[u] + i>>
      <4>1. got[u] <= size[u] /\ size[u] <= Len(Commands(u))
        BY <3>1, <3>2
      <4>2. /\ Awaited(u) \in Seq(Command) /\ Len(Awaited(u)) = size[u] - got[u]
            /\ \A i \in 1 .. size[u] - got[u] : Awaited(u)[i] = Commands(u)[got[u] + i]
        BY <3>1, <3>2, <4>1, SubSeqElements
      <4>3. \A i \in 1 .. size[u] - got[u] : got[u] + i \in 1 .. size[u]
        BY <3>1
      <4> HIDE DEF Awaited
      <4> QED BY <3>2, <4>2, <4>3
    <3>4. Len(stream) <= size[u] - got[u]
      BY <2>2, <3>1 DEF Following, Amount
    <3>5. \A i \in 1 .. Len(stream) : stream[i] = <<op[u], got[u] + i>>
      <4> SUFFICES ASSUME NEW i \in 1 .. Len(stream) PROVE stream[i] = <<op[u], got[u] + i>>
        OBVIOUS
      <4>1. CASE i \in 1 .. Unread(c)
        BY <2>2, <3>1, <4>1 DEF Following, Contents
      <4>2. CASE i \notin 1 .. Unread(c)
        <5> DEFINE j == i - Unread(c)
        <5>1. j \in 1 .. Unserved(c) /\ Unread(c) + j = i
              /\ got[u] + Unread(c) + j = got[u] + i
          BY <2>2, <3>1, <4>2
        <5> HIDE DEF j
        <5>2. req[c][j] = <<op[u], got[u] + Unread(c) + j>>
          BY <3>1, <5>1 DEF Following, Contents
        <5> QED BY <2>2, <5>1, <5>2
      <4> QED BY <4>1, <4>2
    <3> HIDE DEF stream, Awaited
    <3>6. CASE sock[c] = "open"
      <4>1. Len(stream) = Len(Awaited(u))
        BY <2>2, <3>1, <3>3, <3>6 DEF Following, Amount
      <4>2. \A i \in 1 .. Len(stream) : stream[i] = Awaited(u)[i]
        BY <3>3, <3>5, <4>1
      <4> QED BY <2>2, <3>3, <3>6, <4>1, <4>2, SeqEqual
    <3>7. IsPrefix(stream, Awaited(u))
      <4>1. \A i \in 1 .. Len(stream) : stream[i] = Awaited(u)[i]
        <5> SUFFICES ASSUME NEW i \in 1 .. Len(stream) PROVE stream[i] = Awaited(u)[i]
          OBVIOUS
        <5>1. i \in 1 .. size[u] - got[u]
          BY <2>2, <3>1, <3>4
        <5> QED BY <3>3, <3>5, <5>1
      <4>2. Len(stream) <= Len(Awaited(u))
        BY <3>3, <3>4
      <4> QED BY <2>2, <3>3, <4>1, <4>2, PrefixByElements
    <3> QED BY <3>6, <3>7
  <2> QED BY <2>1, <2>3, <2>4 DEF ClientInStep
<1> QED BY <1>1, PoolInvariant, RestInvariant, SyncInvariant, PTL
-----------------------------------------------------------------------------
(* How often an operation is executed.  Its first command is in one place  *)
(* of one stream at most, and a user sends it again only from a client     *)
(* whose connection is new, after one that was closed under it.            *)
Holds(o, c, i) == i \in 1 .. Len(req[c]) /\ req[c][i] = <<o, 1>>
Unsent(o) == \A c \in Clients, i \in Nat : ~Holds(o, c, i)
Excused(o) == times[o] <= 1 /\ (times[o] = 1 => o \in lost)

OwnOp == \A u, v \in Users : op[u] = op[v] /\ op[u] # 0 => u = v
NotYet == /\ \A u \in Users : op[u] <= ops
          /\ \A o \in 1 .. MaxOps : o > ops => Unsent(o) /\ times[o] = 0
SentOnce == \A o \in 1 .. MaxOps : \A c, d \in Clients : \A i, j \in Nat :
              Holds(o, c, i) /\ Holds(o, d, j) => c = d /\ i = j
StillSent == \A o \in 1 .. MaxOps : \A c \in Clients : \A i \in Nat :
               Holds(o, c, i) => Excused(o)
Asks(u) ==
  op[u] # 0 =>
    /\ pc[u] \in {"connect", "send"} => /\ Unsent(op[u]) /\ Excused(op[u])
                                        /\ ~again[u] => times[op[u]] = 0
    /\ pc[u] = "recv" /\ ~again[u] =>
         /\ times[op[u]] <= 1
         /\ \A c \in Clients : \A i \in Nat :
              Holds(op[u], c, i) => c = mine[u] /\ times[op[u]] = 0
         /\ sock[mine[u]] # "open" => Excused(op[u])
    /\ pc[u] = "reconnect" => Unsent(op[u]) /\ Excused(op[u])

Tally == /\ OwnOp /\ NotYet /\ SentOnce /\ StillSent
         /\ \A u \in Users : Asks(u)
         /\ RepeatedOnlyIfLost

LEMMA TallyInit == Init => Tally
<1> SUFFICES ASSUME Init PROVE Tally
  OBVIOUS
<1>1. /\ \A c \in Clients : req[c] = <<>>
      /\ \A u \in Users : op[u] = 0
      /\ ops = 0 /\ \A o \in 1 .. MaxOps : times[o] = 0
  BY DEF Init
<1>2. \A o : \A c \in Clients : \A i \in Nat : ~Holds(o, c, i)
  BY <1>1 DEF Holds
<1> QED BY <1>1, <1>2
        DEF Tally, OwnOp, NotYet, SentOnce, StillSent, Asks, RepeatedOnlyIfLost, Unsent

(* A user whose operation a step leaves alone. *)
LEMMA AsksStill ==
  ASSUME NEW v \in Users, Asks(v), Rest,
         mine'[v] = mine[v] /\ op'[v] = op[v] /\ again'[v] = again[v],
         pc'[v] \in {pc[v], "crashed"},
         times'[op[v]] = times[op[v]], lost \subseteq lost',
         pc[v] = "recv" => \/ sock'[mine[v]] = sock[mine[v]]
                           \/ op[v] \in lost',
         \A c \in Clients : \A i \in Nat :
           Holds(op[v], c, i)' => \E j \in Nat : Holds(op[v], c, j)
  PROVE  Asks(v)'
<1> DEFINE o == op[v]
<1> SUFFICES ASSUME o # 0, pc'[v] = pc[v], pc[v] # "crashed" PROVE Asks(v)'
  BY DEF Asks
<1>1. Excused(o) => Excused(o)'
  BY DEF Excused
<1>2. Unsent(o) => Unsent(o)'
  BY DEF Unsent
<1>3. pc[v] \in {"connect", "send", "reconnect"} => Asks(v)'
  BY <1>1, <1>2 DEF Asks
<1>4. ASSUME pc[v] = "recv", ~again[v]
      PROVE  /\ times'[o] <= 1
             /\ \A c \in Clients : \A i \in Nat : Holds(o, c, i)' => c = mine[v] /\ times'[o] = 0
             /\ sock'[mine[v]] # "open" => Excused(o)'
  <2>1. /\ times[o] <= 1
        /\ \A c \in Clients : \A i \in Nat : Holds(o, c, i) => c = mine[v] /\ times[o] = 0
        /\ sock[mine[v]] # "open" => Excused(o)
    BY <1>4 DEF Asks
  <2>2. o \in lost' => Excused(o)'
    BY <2>1 DEF Excused
  <2> QED BY <1>1, <1>4, <2>1, <2>2
<1>5. pc[v] = "recv" => Asks(v)'
  BY <1>4 DEF Asks
<1> QED BY <1>3, <1>5 DEF Asks

(* A step of user u, at most the sending of its operation. *)
LEMMA TallyStep ==
  ASSUME IInv, Rest, Tally, NEW u \in Users, OthersStay(u), NEW k,
         times' = times, lost' = lost,
         \A v \in Users \ {u} : pc[v] = "recv" => sock'[mine[v]] = sock[mine[v]],
         \A o \in 1 .. MaxOps : \A c \in Clients : \A i \in Nat :
           Holds(o, c, i)' => \/ Holds(o, c, i)
                              \/ o = op[u] /\ pc[u] = "send" /\ c = mine[u] /\ i = k,
         ops' \in Nat, ops' >= ops, OwnOp', op'[u] <= ops', Asks(u)'
  PROVE  Tally'
<1>1. /\ op \in [Users -> 0 .. MaxOps] /\ ops \in Nat
      /\ \A v \in Users : op[v] <= ops
  BY DEF Rest, OpType, Tally, NotYet
<1>2. \A v \in Users \ {u} : Asks(v)'
  <2> SUFFICES ASSUME NEW v \in Users \ {u}, op[v] # 0 PROVE Asks(v)'
    BY DEF Asks, OthersStay
  <2>1. op[v] # op[u] /\ op[v] \in 1 .. MaxOps
    BY <1>1 DEF Tally, OwnOp
  <2>2. \A c \in Clients : \A i \in Nat : Holds(op[v], c, i)' => Holds(op[v], c, i)
    <3>1. op'[v] = op[v]
      BY DEF OthersStay
    <3> QED BY <2>1, <3>1
  <2>3. /\ mine'[v] = mine[v] /\ op'[v] = op[v] /\ again'[v] = again[v]
        /\ pc'[v] \in {pc[v], "crashed"} /\ Asks(v)
        /\ pc[v] = "recv" => sock'[mine[v]] = sock[mine[v]]
    BY DEF OthersStay, Tally
  <2> QED BY <2>2, <2>3, AsksStill
<1>3. pc[u] = "send" /\ op[u] \in 1 .. MaxOps => Unsent(op[u]) /\ Excused(op[u])
  BY DEF Tally, Asks
<1>4. NotYet'
  <2>1. \A v \in Users : op'[v] <= ops'
    <3> SUFFICES ASSUME NEW v \in Users \ {u} PROVE op'[v] <= ops'
      OBVIOUS
    <3>1. op'[v] = op[v]
      BY DEF OthersStay
    <3> QED BY <1>1, <3>1
  <2>2. ASSUME NEW o \in 1 .. MaxOps, o > ops' PROVE Unsent(o)' /\ times'[o] = 0
    <3>1. o > ops /\ o # op[u]
      BY <1>1, <2>2
    <3>2. Unsent(o) /\ times[o] = 0
      BY <3>1 DEF Tally, NotYet
    <3> QED BY <3>1, <3>2 DEF Unsent
  <2> QED BY <2>1, <2>2 DEF NotYet
<1>5. SentOnce'
  <2> SUFFICES ASSUME NEW o \in 1 .. MaxOps, NEW c \in Clients, NEW d \in Clients,
                      NEW i \in Nat, NEW j \in Nat, Holds(o, c, i)', Holds(o, d, j)'
               PROVE  c = d /\ i = j
    BY DEF SentOnce
  <2>1. CASE Holds(o, c, i) /\ Holds(o, d, j)
    BY <2>1 DEF Tally, SentOnce
  <2>2. CASE ~(Holds(o, c, i) /\ Holds(o, d, j))
    <3>1. o = op[u] /\ pc[u] = "send"
      BY <2>2
    <3>2. ~Holds(o, c, i) /\ ~Holds(o, d, j)
      BY <1>3, <3>1 DEF Unsent
    <3> QED BY <3>2
  <2> QED BY <2>1, <2>2
<1>6. StillSent'
  <2>1. \A o : Excused(o)' <=> Excused(o)
    BY DEF Excused
  <2> QED BY <1>3, <2>1 DEF StillSent, Tally
<1>7. RepeatedOnlyIfLost'
  BY DEF Tally, RepeatedOnlyIfLost
<1> QED BY <1>2, <1>4, <1>5, <1>6, <1>7 DEF Tally

(* What a step leaves in the streams, or empties. *)
LEMMA HoldsLess ==
  ASSUME NEW c, req' = req \/ req' = [req EXCEPT ![c] = <<>>], DOMAIN req = Clients
  PROVE  \A o : \A d \in Clients : \A i \in Nat : Holds(o, d, i)' => Holds(o, d, i)
BY DEF Holds

LEMMA HoldsSent ==
  ASSUME OpType, NEW u \in Users, op[u] # 0, NEW c \in Clients, req \in [Clients -> Seq(Command)],
         req' = [req EXCEPT ![c] = req[c] \o Commands(u)]
  PROVE  \A o : \A d \in Clients : \A i \in Nat :
           Holds(o, d, i)' => Holds(o, d, i) \/ (o = op[u] /\ d = c /\ i = Len(req[c]) + 1)
<1> SUFFICES ASSUME NEW o, NEW d \in Clients, NEW i \in Nat, Holds(o, d, i)', ~Holds(o, d, i)
             PROVE  o = op[u] /\ d = c /\ i = Len(req[c]) + 1
  OBVIOUS
<1>1. d = c
  BY DEF Holds
<1>2. size[u] \in Nat /\ Len(Commands(u)) = size[u] /\ \A j \in 1 .. size[u] : Commands(u)[j] = <<op[u], j>>
  BY CommandsOf, PoolAssumption DEF OpType
<1>3. req[c] \in Seq(Command) /\ Commands(u) \in Seq(Command)
  BY <1>1, CommandsOf
<1>4. \A s, t \in Seq(Command) :
        /\ Len(s) \in Nat /\ Len(s \o t) = Len(s) + Len(t)
        /\ \A j \in 1 .. Len(s) : (s \o t)[j] = s[j]
        /\ \A j \in 1 .. Len(t) : (s \o t)[Len(s) + j] = t[j]
  BY ConcatElements
<1> DEFINE n == Len(req[c])
           s2 == req[c] \o Commands(u)
<1>5. /\ n \in Nat /\ Len(s2) = n + size[u]
      /\ \A j \in 1 .. n : s2[j] = req[c][j]
      /\ \A j \in 1 .. size[u] : s2[n + j] = <<op[u], j>>
  BY <1>2, <1>3, <1>4
<1>6. req'[c] = s2
  OBVIOUS
<1> HIDE DEF n, s2
<1>7. i \in 1 .. n + size[u] /\ s2[i] = <<o, 1>> /\ ~(i \in 1 .. n /\ req[c][i] = <<o, 1>>)
  BY <1>1, <1>5, <1>6 DEF Holds, n
<1>8. i \notin 1 .. n
  BY <1>5, <1>7
<1>9. i - n \in 1 .. size[u] /\ n + (i - n) = i
  BY <1>2, <1>5, <1>7, <1>8
<1>10. s2[i] = <<op[u], i - n>>
  BY <1>5, <1>9
<1>11. o = op[u] /\ i - n = 1
  BY <1>7, <1>10
<1> QED BY <1>1, <1>5, <1>9, <1>11 DEF n

LEMMA TallyUser ==
  ASSUME IInv, Rest, Silent, Tally, NEW u \in Users, NEW c, c = mine[u],
         User(u) \/ RecvAstray(u) \/ \E n \in 1 .. MaxBatch : Get(u, n)
  PROVE  Tally'
<1>1. OthersStay(u) /\ times' = times /\ lost' = lost
  BY UserAlone DEF User, Get, Connect, Send, RecvPart, RecvReply, RecvThrows, Wrong, RecvAstray,
         RecvFails, Counted, Reconnect, GiveBack, uvars
<1>2. /\ pc \in [Users -> Labels] /\ op \in [Users -> 0 .. MaxOps] /\ ops \in Nat
      /\ again \in [Users -> BOOLEAN]
      /\ sock \in [Clients -> {"open", "closed", "none"}]
      /\ req \in [Clients -> Seq(Command)] /\ DOMAIN req = Clients
      /\ mine \in [Users -> made \cup {NoClient}] /\ made \subseteq Clients
  BY DEF IInv, PoolType, Rest, OpType, ConnType, Stream
<1>3. /\ pc[u] \in {"send", "recv", "reconnect", "giveback"} =>
           /\ c # NoClient /\ c \in Clients /\ op[u] \in 1 .. MaxOps
           /\ \A v \in Users \ {u} : mine[v] # c
      /\ \A v \in Users \ {u} : pc[v] = "recv" => mine[v] \in made
  BY <1>2, OnlyUser DEF IInv, HasClient, Rest, Numbered
<1>4. OwnOp /\ Asks(u) /\ \A v \in Users : op[v] <= ops
  BY DEF Tally, NotYet
<1>5. CASE \E n \in 1 .. MaxBatch : Get(u, n)
  <2>1. /\ pc[u] = "idle" /\ ops' = ops + 1 /\ op' = [op EXCEPT ![u] = ops + 1]
        /\ ops + 1 \in 1 .. MaxOps /\ UNCHANGED <<sock, req, again>>
        /\ pc' = [pc EXCEPT ![u] = "send"] \/ pc' = [pc EXCEPT ![u] = "connect"]
    BY <1>2, <1>5, PoolAssumption DEF Get, Goto, cvars
  <2>2. op'[u] = ops + 1 /\ pc'[u] \in {"send", "connect"}
        /\ \A v \in Users \ {u} : op'[v] = op[v] /\ op[v] <= ops /\ op[v] \in Nat
    BY <1>2, <1>4, <2>1
  <2>3. OwnOp'
    <3> SUFFICES ASSUME NEW v \in Users, NEW w \in Users, op'[v] = op'[w], op'[v] # 0 PROVE v = w
      BY DEF OwnOp
    <3>1. CASE v = u \/ w = u
      BY <1>2, <2>2, <3>1
    <3>2. CASE v # u /\ w # u
      BY <1>4, <2>2, <3>2 DEF OwnOp
    <3> QED BY <3>1, <3>2
  <2>4. Unsent(ops + 1) /\ times[ops + 1] = 0
    BY <1>2, <2>1 DEF Tally, NotYet
  <2>5. \A o : \A d \in Clients : \A i \in Nat : Holds(o, d, i)' => Holds(o, d, i)
    BY <2>1 DEF Holds
  <2>6. Asks(u)'
    <3> DEFINE o == ops + 1
    <3>1. \A d \in Clients : \A i \in Nat : ~Holds(o, d, i)
      BY <2>4 DEF Unsent
    <3>2. op'[u] = o /\ times'[o] = 0 /\ pc'[u] \in {"send", "connect"}
      BY <1>1, <2>2, <2>4
    <3> HIDE DEF o
    <3>3. \A d \in Clients : \A i \in Nat : ~Holds(op[u], d, i)'
      <4> SUFFICES ASSUME NEW d \in Clients, NEW i \in Nat PROVE ~Holds(op[u], d, i)'
        OBVIOUS
      <4>1. req' = req
        BY <2>1
      <4> QED BY <3>1, <3>2, <4>1 DEF Holds
    <3>4. Unsent(op[u])'
      BY <3>3 DEF Unsent
    <3>5. Excused(op[u])' /\ times'[op'[u]] = 0
      BY <3>2 DEF Excused
    <3> QED BY <3>2, <3>4, <3>5 DEF Asks
  <2>7. ops' \in Nat /\ ops' >= ops /\ op'[u] <= ops'
    BY <1>2, <2>1, <2>2
  <2> QED BY <1>1, <2>1, <2>3, <2>5, <2>6, <2>7, TallyStep
<1>6. CASE Ends(u) /\ (Connect(u) \/ GiveBack(u))
  <2>1. /\ op' = [op EXCEPT ![u] = 0] /\ ops' = ops
    BY <1>6 DEF Ends, Connect, GiveBack
  <2>2. op'[u] = 0 /\ \A v \in Users \ {u} : op'[v] = op[v]
    BY <1>2, <2>1
  <2>3. OwnOp' /\ Asks(u)'
    BY <1>4, <2>2 DEF OwnOp, Asks
  <2>4. /\ \A v \in Users \ {u} : pc[v] = "recv" => sock'[mine[v]] = sock[mine[v]]
        /\ \A o : \A d \in Clients : \A i \in Nat : Holds(o, d, i)' => Holds(o, d, i)
    <3>1. CASE UNCHANGED cvars
      BY <3>1 DEF cvars, Holds
    <3>2. CASE Connect(u) /\ ~UNCHANGED cvars
      <4>1. PICK d \in Clients \ made : Connected(d)
        BY <3>2 DEF Connect
      <4>2. sock' = [sock EXCEPT ![d] = "open"] /\ req' = [req EXCEPT ![d] = <<>>]
        BY <4>1 DEF Connected
      <4> QED BY <1>2, <1>3, <4>2, HoldsLess
    <3> QED BY <1>6, <3>1, <3>2 DEF GiveBack
  <2>5. ops' \in Nat /\ ops' >= ops /\ op'[u] <= ops'
    BY <1>2, <2>1, <2>2
  <2> QED BY <1>1, <2>3, <2>4, <2>5, TallyStep
(* In the other steps u keeps its operation. *)
<1>7. ASSUME op' = op, ops' = ops, NEW k,
             \A v \in Users \ {u} : pc[v] = "recv" => sock'[mine[v]] = sock[mine[v]],
             \A o \in 1 .. MaxOps : \A d \in Clients : \A i \in Nat :
               Holds(o, d, i)' => \/ Holds(o, d, i)
                                  \/ o = op[u] /\ pc[u] = "send" /\ d = mine[u] /\ i = k,
             Asks(u)'
      PROVE  Tally'
  <2>1. OwnOp' /\ ops' \in Nat /\ ops' >= ops /\ op'[u] <= ops'
    BY <1>2, <1>4, <1>7 DEF OwnOp
  <2> QED BY <1>1, <1>7, <2>1, TallyStep
<1>8. /\ \A o : (Excused(o)' <=> Excused(o))
      /\ (\A o : \A d \in Clients : \A i \in Nat : Holds(o, d, i)' => Holds(o, d, i))
           => (\A o : Unsent(o) => Unsent(o)')
  BY <1>1 DEF Excused, Unsent
<1>9. ASSUME Connect(u), ~Ends(u) PROVE Tally'
  <2>1. PICK d \in Clients \ made : Connected(d)
    BY <1>9 DEF Connect
  <2>2. /\ sock' = [sock EXCEPT ![d] = "open"] /\ req' = [req EXCEPT ![d] = <<>>]
        /\ UNCHANGED <<op, ops, again>> /\ pc[u] = "connect" /\ pc' = [pc EXCEPT ![u] = "send"]
    BY <1>9, <2>1 DEF Connected, Connect, Goto
  <2>3. /\ \A v \in Users \ {u} : pc[v] = "recv" => sock'[mine[v]] = sock[mine[v]]
        /\ \A o : \A e \in Clients : \A i \in Nat : Holds(o, e, i)' => Holds(o, e, i)
    BY <1>2, <1>3, <2>2, HoldsLess
  <2>4. Asks(u)'
    BY <1>1, <1>2, <1>4, <1>8, <2>2, <2>3 DEF Asks
  <2> QED BY <1>7, <2>2, <2>3, <2>4
<1>10. CASE Reconnect(u)
  <2>1. /\ pc[u] = "reconnect" /\ UNCHANGED <<mine, op, ops>>
        /\ req' = [req EXCEPT ![c] = <<>>]
        /\ \E s \in {"none", "open", "closed"} : sock' = [sock EXCEPT ![c] = s]
        /\ \/ again' = [again EXCEPT ![u] = TRUE] /\ pc' = [pc EXCEPT ![u] = "send"]
           \/ pc' = [pc EXCEPT ![u] = "giveback"]
    BY <1>10 DEF Reconnect, Goto, Connected, NotConnected
  <2>2. /\ \A v \in Users \ {u} : pc[v] = "recv" => sock'[mine[v]] = sock[mine[v]]
        /\ \A o : \A e \in Clients : \A i \in Nat : Holds(o, e, i)' => Holds(o, e, i)
    BY <1>2, <1>3, <2>1, HoldsLess
  <2>3. Asks(u)'
    <3>1. Unsent(op[u]) /\ Excused(op[u])
      BY <1>3, <1>4, <2>1 DEF Asks
    <3>2. Unsent(op[u])' /\ Excused(op[u])'
      BY <1>8, <2>1, <2>2, <3>1
    <3>3. (pc'[u] = "send" /\ again'[u]) \/ pc'[u] = "giveback"
      BY <1>2, <2>1
    <3> QED BY <3>2, <3>3 DEF Asks
  <2> QED BY <1>7, <2>1, <2>2, <2>3
<1>11. CASE Send(u)
  <2>1. /\ pc[u] = "send" /\ UNCHANGED <<sock, mine, op, ops, again>>
        /\ \/ /\ sock[c] = "open" /\ req' = [req EXCEPT ![c] = req[c] \o Commands(u)]
              /\ Goto(u, "recv")
           \/ req' = req /\ (Goto(u, "recv") \/ Closed(u) \/ Crash \/ Logged(u))
    BY <1>11 DEF Send
  <2> DEFINE k == Len(req[c]) + 1
  <2>2. \A o \in 1 .. MaxOps : \A d \in Clients : \A i \in Nat :
          Holds(o, d, i)' => \/ Holds(o, d, i)
                             \/ o = op[u] /\ pc[u] = "send" /\ d = mine[u] /\ i = k
    <3>1. CASE req' = req
      BY <3>1 DEF Holds
    <3>2. CASE req' = [req EXCEPT ![c] = req[c] \o Commands(u)]
      <4>1. op[u] # 0 /\ c \in Clients /\ OpType /\ req \in [Clients -> Seq(Command)]
        BY <1>2, <1>3, <2>1 DEF Rest
      <4>2. \A o : \A d \in Clients : \A i \in Nat :
              Holds(o, d, i)' =>
                Holds(o, d, i) \/ (o = op[u] /\ d = c /\ i = Len(req[c]) + 1)
        BY <3>2, <4>1, HoldsSent
      <4> QED BY <2>1, <4>2
    <3> QED BY <2>1, <3>1, <3>2
  <2> HIDE DEF k
  <2>3. Unsent(op[u]) /\ Excused(op[u]) /\ (~again[u] => times[op[u]] = 0)
    BY <1>3, <1>4, <2>1 DEF Asks
  <2>4. Asks(u)'
    <3>1. Excused(op[u])' /\ (~again'[u] => times'[op'[u]] = 0) /\ times'[op'[u]] <= 1
      <4>1. Excused(op[u])'
        BY <1>1, <2>1, <2>3 DEF Excused
      <4> QED BY <1>1, <2>1, <2>3, <4>1 DEF Excused
    <3>2. \A d \in Clients : \A i \in Nat : Holds(op[u], d, i)' => d = mine'[u]
      <4> SUFFICES ASSUME NEW d \in Clients, NEW i \in Nat, Holds(op[u], d, i)'
                   PROVE  d = mine'[u]
        OBVIOUS
      <4>1. op'[u] \in 1 .. MaxOps /\ op'[u] = op[u] /\ mine'[u] = mine[u]
        BY <1>3, <2>1
      <4>2. Holds(op[u], d, i) \/ d = mine[u]
        BY <2>2, <4>1
      <4> QED BY <2>3, <4>1, <4>2 DEF Unsent
    <3>3. pc'[u] \in {"recv", "giveback", "reconnect", "crashed"}
      BY <1>2, <2>1 DEF Goto, Closed, Logged, Crash
    <3>4. pc'[u] = "reconnect" => Unsent(op[u])'
      <4>1. pc'[u] = "reconnect" => req' = req /\ op' = op
        BY <1>2, <2>1 DEF Goto
      <4> QED BY <2>3, <4>1 DEF Unsent, Holds
    <3> QED BY <3>1, <3>2, <3>3, <3>4 DEF Asks
  <2>5. /\ op' = op /\ ops' = ops
        /\ \A v \in Users \ {u} : pc[v] = "recv" => sock'[mine[v]] = sock[mine[v]]
    BY <2>1
  <2> QED BY <1>7, <2>2, <2>4, <2>5
<1>12. CASE Receives(u)
  <2>1. /\ pc[u] = "recv" /\ UNCHANGED <<sock, req, mine, op, ops, again>>
        /\ \/ Goto(u, "giveback") \/ pc' = pc \/ Logged(u)
           \/ Closed(u) /\ sock[c] = "closed"
    BY <1>12 DEF Receives, RecvPart, RecvReply, RecvThrows, Wrong, RecvAstray, RecvFails,
                 Counted, cvars, uvars
  <2>2. \A o : \A d \in Clients : \A i \in Nat : Holds(o, d, i)' => Holds(o, d, i)
    BY <2>1 DEF Holds
  <2>3. \/ pc'[u] \in {"giveback", "crashed"} \/ pc'[u] = pc[u]
        \/ pc'[u] = "reconnect" /\ ~again[u] /\ sock[c] = "closed"
    BY <1>2, <2>1 DEF Goto, Logged, Closed, Crash
  <2>4. CASE pc'[u] \in {"giveback", "crashed"}
    BY <1>7, <2>1, <2>2, <2>4 DEF Asks
  <2>5. CASE pc'[u] = pc[u]
    <3>1. Asks(u)'
      BY <1>1, <1>4, <2>1, <2>2, <2>5, AsksStill
    <3> QED BY <1>7, <2>1, <2>2, <3>1
  <2>6. CASE pc'[u] = "reconnect" /\ ~again[u] /\ sock[c] = "closed"
    <3>1. Excused(op[u]) /\ \A d \in Clients : \A i \in Nat : Holds(op[u], d, i) => d = c
      BY <1>3, <1>4, <2>1, <2>6 DEF Asks
    <3>2. \A i \in Nat : ~Holds(op[u], c, i)
      <4>1. req[c] = <<>>
        BY <1>3, <2>1, <2>6 DEF Silent
      <4> QED BY <4>1 DEF Holds
    <3>3. Unsent(op[u])
      BY <3>1, <3>2 DEF Unsent
    <3>4. Asks(u)'
      BY <1>8, <2>1, <2>2, <2>6, <3>1, <3>3 DEF Asks
    <3> QED BY <1>7, <2>1, <2>2, <3>4
  <2> QED BY <2>3, <2>4, <2>5, <2>6
<1> QED BY <1>5, <1>6, <1>9, <1>10, <1>11, <1>12 DEF User, Receives, GiveBack

LEMMA TallyServer ==
  ASSUME IInv, Rest, Tally, NEW c \in Clients, Execute(c) \/ Close(c)
  PROVE  Tally'
<1>1. /\ req \in [Clients -> Seq(Command)] /\ DOMAIN req = Clients
      /\ sock \in [Clients -> {"open", "closed", "none"}]
      /\ times \in [1 .. MaxOps -> Nat]
      /\ op \in [Users -> 0 .. MaxOps] /\ ops \in 0 .. MaxOps
  BY DEF Rest, ConnType, OpType, Histories, Stream
<1>2. UNCHANGED <<mine, pc, op, again, ops>> /\ sock[c] = "open" /\ lost \subseteq lost'
  BY DEF Execute, Close, uvars
<1>3. OwnOp'
  BY <1>2 DEF Tally, OwnOp
<1>4. CASE Close(c)
  <2>1. /\ sock' = [sock EXCEPT ![c] = "closed"] /\ req' = [req EXCEPT ![c] = <<>>]
        /\ times' = times
        /\ lost' = lost \cup {op[v] : v \in {w \in Users : mine[w] = c}}
    BY <1>4 DEF Close
  <2>2. \A o : \A d \in Clients : \A i \in Nat : Holds(o, d, i)' => Holds(o, d, i)
    BY <1>1, <2>1, HoldsLess
  <2>3. \A o : Excused(o) => Excused(o)'
    BY <1>2, <2>1 DEF Excused
  <2>4. NotYet' /\ SentOnce' /\ StillSent'
    BY <1>2, <2>1, <2>2, <2>3 DEF Tally, NotYet, SentOnce, StillSent, Unsent
  <2>5. ASSUME NEW v \in Users PROVE Asks(v)'
    <3>1. \/ sock'[mine[v]] = sock[mine[v]] \/ op[v] \in lost'
      BY <1>1, <2>1
    <3> QED BY <1>2, <2>1, <2>2, <3>1, AsksStill DEF Tally
  <2>6. RepeatedOnlyIfLost'
    BY <1>2, <2>1 DEF Tally, RepeatedOnlyIfLost
  <2> QED BY <1>3, <2>4, <2>5, <2>6 DEF Tally
<1>5. CASE Execute(c)
  <2>0. PICK h, o : h = Head(req[c]) /\ o = h[1]
    OBVIOUS
  <2>1. /\ req[c] # <<>> /\ req' = [req EXCEPT ![c] = Tail(req[c])] /\ UNCHANGED <<sock, lost>>
        /\ times' = IF h[2] = 1 THEN [times EXCEPT ![o] = @ + 1] ELSE times
    BY <1>5, <2>0 DEF Execute
  <2>2. /\ h \in Command /\ h = req[c][1] /\ 1 \in 1 .. Len(req[c]) /\ Tail(req[c]) \in Seq(Command)
        /\ Len(req[c]) \in Nat /\ Len(Tail(req[c])) = Len(req[c]) - 1
        /\ \A i \in 1 .. Len(req[c]) - 1 : Tail(req[c])[i] = req[c][i + 1]
    <3>1. req[c] \in Seq(Command)
      BY <1>1
    <3>2. h \in Command /\ h = req[c][1] /\ 1 \in 1 .. Len(req[c])
      BY <2>0, <2>1, <3>1
    <3> QED BY <2>1, <3>1, <3>2, TailElements
  <2>3. o \in 1 .. MaxOps /\ h = <<o, h[2]>>
    BY <2>0, <2>2 DEF Command
  <2>4. h[2] = 1 => Holds(o, c, 1)
    BY <2>2, <2>3 DEF Holds
  <2>5. \A p : \A d \in Clients : \A i \in Nat :
          Holds(p, d, i)' => IF d = c THEN i + 1 \in Nat /\ i # 0 /\ Holds(p, c, i + 1)
                                      ELSE Holds(p, d, i)
    <3> SUFFICES ASSUME NEW p, NEW d \in Clients, NEW i \in Nat, Holds(p, d, i)'
                 PROVE  IF d = c THEN i + 1 \in Nat /\ i # 0 /\ Holds(p, c, i + 1)
                                 ELSE Holds(p, d, i)
      OBVIOUS
    <3>1. CASE d # c
      BY <1>1, <2>1, <3>1 DEF Holds
    <3>2. CASE d = c
      <4>1. req'[c] = Tail(req[c])
        BY <1>1, <2>1
      <4>2. i \in 1 .. Len(Tail(req[c])) /\ Tail(req[c])[i] = <<p, 1>>
        BY <3>2, <4>1 DEF Holds
      <4>3. i \in 1 .. Len(req[c]) - 1 /\ i + 1 \in 1 .. Len(req[c])
        BY <2>2, <4>2
      <4>4. req[c][i + 1] = <<p, 1>>
        BY <2>2, <4>2, <4>3
      <4> QED BY <3>2, <4>3, <4>4 DEF Holds
    <3> QED BY <3>1, <3>2
  (* The command executed, if a first one, is in no stream any more. *)
  <2>6. h[2] = 1 => \A d \in Clients : \A i \in Nat : ~Holds(o, d, i)'
    <3> SUFFICES ASSUME h[2] = 1, NEW d \in Clients, NEW i \in Nat, Holds(o, d, i)' PROVE FALSE
      OBVIOUS
    <3>1. Holds(o, c, 1)
      BY <2>4
    <3>2. CASE d = c
      <4>1. i + 1 \in Nat /\ i # 0 /\ Holds(o, c, i + 1)
        BY <2>5, <3>2
      <4>2. i + 1 = 1
        BY <2>3, <3>1, <4>1 DEF Tally, SentOnce
      <4> QED BY <4>1, <4>2
    <3>3. CASE d # c
      BY <2>3, <2>5, <3>1, <3>3 DEF Tally, SentOnce
    <3> QED BY <3>2, <3>3
  <2>7. \A p : \A d \in Clients : \A i \in Nat : Holds(p, d, i)' => \E j \in Nat : Holds(p, d, j)
    BY <2>5
  <2>8. \A p : Unsent(p) => Unsent(p)'
    BY <2>7 DEF Unsent
  <2>9. \A p \in 1 .. MaxOps : p # o \/ h[2] # 1 => times'[p] = times[p] /\ (Excused(p)' <=> Excused(p))
    <3>1. \A p \in 1 .. MaxOps : p # o \/ h[2] # 1 => times'[p] = times[p]
      BY <1>1, <2>1, <2>3
    <3> QED BY <2>1, <3>1 DEF Excused
  <2>10. NotYet'
    <3>1. ASSUME NEW p \in 1 .. MaxOps, p > ops PROVE Unsent(p)' /\ times'[p] = 0
      <4>1. Unsent(p) /\ times[p] = 0
        BY <3>1 DEF Tally, NotYet
      <4>2. p # o \/ h[2] # 1
        BY <2>4, <4>1 DEF Unsent
      <4> QED BY <2>8, <2>9, <4>1, <4>2
    <3> QED BY <1>2, <3>1 DEF NotYet, Tally
  <2>11. SentOnce'
    <3> SUFFICES ASSUME NEW p \in 1 .. MaxOps, NEW d \in Clients, NEW e \in Clients,
                        NEW i \in Nat, NEW j \in Nat, Holds(p, d, i)', Holds(p, e, j)'
                 PROVE  d = e /\ i = j
      BY DEF SentOnce
    <3> DEFINE was(x, y) == IF x = c THEN y + 1 ELSE y
    <3>1. /\ was(d, i) \in Nat /\ Holds(p, d, was(d, i))
          /\ was(e, j) \in Nat /\ Holds(p, e, was(e, j))
      BY <2>5
    <3>2. d = e /\ was(d, i) = was(e, j)
      <4> HIDE DEF was
      <4> QED BY <3>1 DEF Tally, SentOnce
    <3> QED BY <3>2
  <2>12. StillSent'
    <3> SUFFICES ASSUME NEW p \in 1 .. MaxOps, NEW d \in Clients, NEW i \in Nat, Holds(p, d, i)'
                 PROVE  Excused(p)'
      BY DEF StillSent
    <3>1. Excused(p)
      BY <2>7 DEF Tally, StillSent
    <3>2. p # o \/ h[2] # 1
      BY <2>6
    <3> QED BY <2>9, <3>1, <3>2
  <2>13. RepeatedOnlyIfLost'
    <3>1. ASSUME NEW p \in 1 .. MaxOps PROVE times'[p] <= 2 /\ (times'[p] = 2 => p \in lost')
      <4>1. CASE p # o \/ h[2] # 1
        BY <2>1, <2>9, <4>1 DEF Tally, RepeatedOnlyIfLost
      <4>2. CASE p = o /\ h[2] = 1
        <5>1. Excused(o)
          BY <2>3, <2>4, <4>2 DEF Tally, StillSent
        <5>2. times'[o] = times[o] + 1 /\ times[o] \in Nat
          BY <1>1, <2>1, <2>3, <4>2
        <5> QED BY <2>1, <4>2, <5>1, <5>2 DEF Excused
      <4> QED BY <4>1, <4>2
    <3> QED BY <3>1 DEF RepeatedOnlyIfLost
  <2>14. ASSUME NEW v \in Users PROVE Asks(v)'
    <3>1. CASE op[v] = 0
      BY <1>2, <3>1 DEF Asks
    <3>2. CASE op[v] # 0 /\ (op[v] # o \/ h[2] # 1)
      <4>1. op[v] \in 1 .. MaxOps
        BY <1>1, <3>2
      <4>2. times'[op[v]] = times[op[v]]
        BY <2>9, <3>2, <4>1
      <4>3. \A d \in Clients : \A i \in Nat :
              Holds(op[v], d, i)' => \E j \in Nat : Holds(op[v], d, j)
        <5>1. op'[v] = op[v]
          BY <1>2
        <5> QED BY <2>7, <5>1
      <4> QED BY <1>2, <2>1, <4>2, <4>3, AsksStill DEF Tally
    <3>3. CASE op[v] # 0 /\ op[v] = o /\ h[2] = 1
      <4>1. Holds(o, c, 1) /\ ~Unsent(o)
        BY <2>4, <3>3 DEF Unsent
      <4>2. pc[v] \notin {"connect", "send", "reconnect"}
        BY <3>3, <4>1 DEF Tally, Asks
      <4>3. ASSUME pc[v] = "recv", ~again[v]
            PROVE  times'[o] <= 1 /\ sock'[mine[v]] = "open"
        <5>1. c = mine[v] /\ times[o] = 0
          BY <3>3, <4>1, <4>3 DEF Tally, Asks
        <5>2. times'[o] = times[o] + 1
          BY <1>1, <2>1, <2>3, <3>3
        <5> QED BY <1>2, <2>1, <5>1, <5>2
      <4>4. \A d \in Clients : \A i \in Nat : ~Holds(o, d, i)'
        BY <2>6, <3>3
      <4>5. op'[v] = o /\ pc'[v] = pc[v] /\ again'[v] = again[v] /\ mine'[v] = mine[v]
        BY <1>2, <3>3
      <4> QED BY <4>2, <4>3, <4>4, <4>5 DEF Asks
    <3> QED BY <3>1, <3>2, <3>3
  <2> QED BY <1>3, <2>10, <2>11, <2>12, <2>13, <2>14 DEF Tally
<1> QED BY <1>4, <1>5

(* An operation is performed twice only if its connection was closed under *)
(* it, and never three times (operation.h:57-61).                          *)
THEOREM RepeatedWhenLost == Spec => []RepeatedOnlyIfLost
<1>1. IInv /\ Rest /\ Sync /\ Tally /\ [Next]_vars => Tally'
  <2>1. Tally /\ UNCHANGED vars => Tally'
    <3> SUFFICES ASSUME Tally, UNCHANGED vars PROVE Tally'
      OBVIOUS
    <3>1. UNCHANGED <<req, times, lost, op, ops, pc, again, mine, sock>>
      BY DEF vars, cvars, uvars
    <3>2. /\ \A o, c, i : Holds(o, c, i)' <=> Holds(o, c, i)
          /\ \A o : Excused(o)' <=> Excused(o)
      BY <3>1 DEF Holds, Excused
    <3>3. \A o : Unsent(o)' <=> Unsent(o)
      BY <3>2 DEF Unsent
    <3>4. \A u \in Users : Asks(u) => Asks(u)'
      BY <3>1, <3>2, <3>3 DEF Asks
    <3> QED BY <3>1, <3>2, <3>3, <3>4
            DEF Tally, OwnOp, NotYet, SentOnce, StillSent, RepeatedOnlyIfLost
  <2> QED BY <2>1, TallyUser, TallyServer DEF Next, Sync
<1>2. Tally => RepeatedOnlyIfLost
  BY DEF Tally
<1> QED BY <1>1, <1>2, PoolInvariant, RestInvariant, SyncInvariant, TallyInit, PTL DEF Spec
=============================================================================
