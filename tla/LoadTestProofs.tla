--------------------------- MODULE LoadTestProofs ---------------------------
(***************************************************************************)
(* NothingLeftBehind and JudgedOnce for any number of children and         *)
(* threads, whatever forks, threads and connections fail.                  *)
(*                                                                         *)
(* Two invariants that need nothing of each other: Tree, about who waits   *)
(* for whom, and Talk, about what is in the connections.                   *)
(***************************************************************************)
EXTENDS LoadTest, TLAPS

(* The part of TypeOK that Tree needs. *)
TreeType == /\ parent \in {"fork", "wait", "exited"} /\ forked \in 0 .. Processes
            /\ child \in [Children -> {"none", "create", "join", "exited", "killed", "reaped"}]
            /\ next \in [Children -> 1 .. Threads + 1]
            /\ client \in [Clients -> {"none", "failed", "connecting", "open", "ended"}]

(* A child that does not exist has no threads, and one after forked does   *)
(* not exist; the threads from next on are not made yet, those before next *)
(* are joined; a child that has ended left none running.                   *)
Started == \A i \in Children : /\ child[i] = "none" => \A c \in Of(i) : client[c] = "none"
                               /\ i > forked => child[i] = "none"
Created == \A i \in Children : child[i] = "create" =>
             \A k \in 1 .. Threads : k >= next[i] => client[<<i, k>>] = "none"
Joined == \A i \in Children : child[i] = "join" =>
            \A k \in 1 .. Threads : k < next[i] => client[<<i, k>>] \in {"ended", "failed"}
Finished == \A i \in Children : child[i] \in {"exited", "killed", "reaped"} => Gone(i)
Waited == parent = "exited" => \A i \in Children : child[i] \in {"none", "reaped"}

Tree == TreeType /\ Started /\ Created /\ Joined /\ Finished /\ Waited

(* A connection that was never open has carried nothing. *)
TalkType == /\ client \in [Clients -> {"none", "failed", "connecting", "open", "ended"}]
            /\ wire \in [Clients -> {<<>>, Request, Reply}]
            /\ judged \in [Clients -> Seq({Reply})]
Unused == \A c \in Clients : client[c] \in {"none", "failed", "connecting"} =>
            wire[c] = <<>> /\ judged[c] = <<>>
Talk == TalkType /\ Unused /\ JudgedOnce

LEMMA OwnClients ==
  /\ \A i \in Children, k \in 1 .. Threads : <<i, k>> \in Clients /\ <<i, k>> \in Of(i)
  /\ \A i \in Children : \A c \in Of(i) : c \in Clients /\ \E k \in 1 .. Threads : c = <<i, k>>
  /\ \A c \in Clients : \E i \in Children, k \in 1 .. Threads : c = <<i, k>>
  /\ \A i, j \in Children, k, m \in 1 .. Threads : <<i, k>> = <<j, m>> => i = j /\ k = m
BY DEF Clients, Of

LEMMA TreeInit == Init => Tree
<1> SUFFICES ASSUME Init PROVE Tree
  OBVIOUS
<1>1. TreeType
  BY LoadAssumption DEF Init, TreeType, Children
<1>2. \A i \in Children : child[i] = "none"
  BY DEF Init
<1>3. \A i \in Children : \A c \in Of(i) : client[c] = "none"
  BY OwnClients DEF Init
<1> QED BY <1>1, <1>2, <1>3 DEF Init, Tree, Started, Created, Joined, Finished, Waited

(* The steps of main. *)
LEMMA TreeMain == Tree /\ Main => Tree'
<1> SUFFICES ASSUME Tree, Main PROVE Tree'
  OBVIOUS
<1> USE LoadAssumption DEF Tree
<1>1. CASE Fork
  <2>1. next' = next /\ client' = client /\ parent' = parent /\ parent = "fork"
        /\ forked' = forked + 1 /\ forked \in Nat /\ forked + 1 \in Children
    BY <1>1 DEF Fork, conn, TreeType, Children
  <2>2. \/ child' = child
        \/ child' = [child EXCEPT ![forked + 1] = "create"]
    BY <1>1 DEF Fork
  <2>3. child[forked + 1] = "none"
    BY <2>1 DEF Started
  <2>4. /\ \A i \in Children : i # forked + 1 => child'[i] = child[i]
        /\ child'[forked + 1] \in {"none", "create"}
    BY <2>1, <2>2, <2>3 DEF TreeType
  <2>5. TreeType'
    BY <2>1, <2>2 DEF TreeType, Children
  <2>6. Started'
    BY <2>1, <2>3, <2>4 DEF Started, Children
  <2>7. \A k \in 1 .. Threads : client[<<forked + 1, k>>] = "none"
    BY <2>1, <2>3, OwnClients DEF Started
  <2>8. Created' /\ Joined' /\ Finished' /\ Waited'
    BY <2>1, <2>4, <2>7 DEF Created, Joined, Finished, Waited, Gone
  <2> QED BY <2>5, <2>6, <2>8
<1>2. CASE ForkDone
  BY <1>2 DEF ForkDone, kids, conn, TreeType, Started, Created, Joined, Finished, Waited, Gone
<1>3. ASSUME NEW i \in Children, Reap(i) PROVE Tree'
  <2>1. UNCHANGED <<parent, forked, next, client>> /\ parent = "wait"
        /\ child[i] \in {"exited", "killed"} /\ child' = [child EXCEPT ![i] = "reaped"]
    BY <1>3 DEF Reap, main, conn
  <2>2. child'[i] = "reaped" /\ \A j \in Children : j # i => child'[j] = child[j]
    BY <2>1 DEF TreeType
  <2>3. TreeType'
    BY <2>1 DEF TreeType
  <2>4. i <= forked
    BY <2>1 DEF Started, TreeType, Children
  <2>5. Started' /\ Created' /\ Joined' /\ Waited'
    BY <2>1, <2>2, <2>4 DEF Started, Created, Joined, Waited, Children, TreeType
  <2>6. Finished'
    BY <2>1, <2>2 DEF Finished, Gone
  <2> QED BY <2>3, <2>5, <2>6
<1>4. CASE WaitEnds
  BY <1>4 DEF WaitEnds, kids, conn, TreeType, Started, Created, Joined, Finished, Waited, Gone
<1> QED BY <1>1, <1>2, <1>3, <1>4 DEF Main

(* The steps of a child: those of its two loops move one thread or none. *)
LEMMA TreeChild == ASSUME Tree, NEW i \in Children, Child(i) PROVE Tree'
<1> USE LoadAssumption DEF Tree
<1>1. child[i] \in {"create", "join"} /\ UNCHANGED <<parent, forked>> /\ i <= forked
      /\ parent # "exited"
  <2>1. child[i] \in {"create", "join"} /\ UNCHANGED <<parent, forked>>
    BY DEF Child, Create, CreateDone, Join, JoinNothing, Exit, main
  <2> QED BY <2>1 DEF Started, Waited, TreeType, Children
<1>2. ASSUME TreeType',
             \A j \in Children : j # i => child'[j] = child[j] /\ next'[j] = next[j],
             \A j \in Children : j # i => \A k \in 1 .. Threads : client'[<<j, k>>] = client[<<j, k>>],
             child'[i] # "none",
             child'[i] = "create" =>
               \A k \in 1 .. Threads : k >= next'[i] => client'[<<i, k>>] = "none",
             child'[i] = "join" =>
               \A k \in 1 .. Threads : k < next'[i] => client'[<<i, k>>] \in {"ended", "failed"},
             child'[i] \in {"exited", "killed", "reaped"} =>
               \A k \in 1 .. Threads : client'[<<i, k>>] \in {"none", "failed", "ended"}
      PROVE  Tree'
  <2>1. Started'
    BY <1>1, <1>2, OwnClients DEF Started, TreeType, Children
  <2>2. Created' /\ Joined'
    BY <1>1, <1>2 DEF Created, Joined
  <2>3. Finished'
    BY <1>1, <1>2, OwnClients DEF Finished, Gone
  <2>4. Waited'
    BY <1>1 DEF Waited
  <2> QED BY <1>2, <2>1, <2>2, <2>3, <2>4
<1>3. CASE Create(i)
  <2>1. /\ child' = child /\ child[i] = "create" /\ next[i] \in 1 .. Threads
        /\ next' = [next EXCEPT ![i] = @ + 1]
        /\ \/ client' = [client EXCEPT ![<<i, next[i]>>] = "connecting"]
           \/ client' = [client EXCEPT ![<<i, next[i]>>] = "failed"]
    BY <1>3 DEF Create, TreeType
  <2>2. TreeType'
    BY <1>1, <2>1 DEF TreeType
  <2>3. \A j \in Children, k \in 1 .. Threads :
          <<j, k>> # <<i, next[i]>> => client'[<<j, k>>] = client[<<j, k>>]
    BY <2>1, OwnClients DEF TreeType
  <2>4. next'[i] = next[i] + 1 /\ \A j \in Children : j # i => next'[j] = next[j]
    BY <2>1 DEF TreeType
  <2>5. \A k \in 1 .. Threads : k >= next'[i] => client'[<<i, k>>] = "none"
    BY <2>1, <2>3, <2>4 DEF Created
  <2> QED BY <1>2, <2>1, <2>2, <2>3, <2>4, <2>5
<1>4. CASE CreateDone(i)
  <2>1. /\ client' = client /\ child' = [child EXCEPT ![i] = "join"]
        /\ next' = [next EXCEPT ![i] = 1]
    BY <1>4 DEF CreateDone, conn
  <2>2. TreeType' /\ child'[i] = "join" /\ next'[i] = 1
        /\ \A j \in Children : j # i => child'[j] = child[j] /\ next'[j] = next[j]
    BY <1>1, <2>1 DEF TreeType
  <2> QED BY <1>2, <2>1, <2>2
<1>5. CASE Join(i)
  <2>1. /\ client' = client /\ child' = child /\ child[i] = "join" /\ next[i] \in 1 .. Threads
        /\ client[<<i, next[i]>>] \in {"ended", "failed"}
        /\ next' = [next EXCEPT ![i] = @ + 1]
    BY <1>5 DEF Join, conn, TreeType
  <2>2. TreeType' /\ next'[i] = next[i] + 1
        /\ \A j \in Children : j # i => next'[j] = next[j]
    BY <1>1, <2>1 DEF TreeType
  <2>3. \A k \in 1 .. Threads : k < next'[i] => client'[<<i, k>>] \in {"ended", "failed"}
    BY <2>1, <2>2 DEF Joined
  <2> QED BY <1>2, <2>1, <2>2, <2>3
<1>6. CASE JoinNothing(i)
  <2>1. /\ next' = next /\ child' = [child EXCEPT ![i] = "killed"]
        /\ client' = [c \in Clients |-> IF c \in Of(i) THEN "ended" ELSE client[c]]
    BY <1>6 DEF JoinNothing
  <2>2. TreeType' /\ child'[i] = "killed" /\ \A j \in Children : j # i => child'[j] = child[j]
    BY <1>1, <2>1 DEF TreeType
  <2>3. \A k \in 1 .. Threads : client'[<<i, k>>] = "ended"
    BY <2>1, OwnClients
  <2>4. \A j \in Children : j # i => \A k \in 1 .. Threads : <<j, k>> \notin Of(i)
    BY DEF Of
  <2>5. \A j \in Children : j # i => \A k \in 1 .. Threads : client'[<<j, k>>] = client[<<j, k>>]
    BY <2>1, <2>4, OwnClients
  <2> QED BY <1>2, <2>1, <2>2, <2>3, <2>5
<1>7. CASE Exit(i)
  <2>1. /\ next' = next /\ client' = client /\ child' = [child EXCEPT ![i] = "exited"]
        /\ child[i] = "join" /\ next[i] > Threads
    BY <1>7 DEF Exit, conn
  <2>2. TreeType' /\ child'[i] = "exited" /\ \A j \in Children : j # i => child'[j] = child[j]
    BY <1>1, <2>1 DEF TreeType
  <2>3. \A k \in 1 .. Threads : client[<<i, k>>] \in {"ended", "failed"}
    BY <2>1 DEF Joined, TreeType
  <2> QED BY <1>2, <2>1, <2>2, <2>3
<1> QED BY <1>3, <1>4, <1>5, <1>6, <1>7 DEF Child

(* The other steps: at most one thread goes on, from connecting or open. *)
LEMMA TreeOther ==
  ASSUME Tree,
         \/ Server \/ ServerEnds \/ UNCHANGED vars
         \/ \E c \in Clients : Thread(c) \/ OnClose(c)
  PROVE  Tree'
<1> USE LoadAssumption DEF Tree
<1>1. UNCHANGED <<parent, forked, child, next>>
  BY DEF Server, ServerEnds, Listen, Serve, Thread, OnOpen, OnFail, OnMessage, OnClose, main, kids, vars
<1>2. \/ client' = client
      \/ \E c \in Clients : /\ client[c] \in {"connecting", "open"}
                            /\ \/ client' = [client EXCEPT ![c] = "open"]
                               \/ client' = [client EXCEPT ![c] = "ended"]
  BY DEF Server, ServerEnds, Listen, Serve, Thread, OnOpen, OnFail, OnMessage, OnClose, conn, vars
<1>3. client' \in [Clients -> {"none", "failed", "connecting", "open", "ended"}]
  BY <1>2 DEF TreeType
<1>4. \A c \in Clients : client[c] \in {"none", "failed", "ended"} => client'[c] = client[c]
  BY <1>2 DEF TreeType
<1>5. TreeType'
  BY <1>1, <1>3 DEF TreeType
<1>6. Started'
  BY <1>1, <1>4, OwnClients DEF Started
<1>7. Created' /\ Joined'
  BY <1>1, <1>4, OwnClients DEF Created, Joined
<1>8. Finished' /\ Waited'
  BY <1>1, <1>4, OwnClients DEF Finished, Waited, Gone
<1> QED BY <1>5, <1>6, <1>7, <1>8

LEMMA TreeNext == Tree /\ [Next]_vars => Tree'
BY TreeMain, TreeChild, TreeOther DEF Next

LEMMA TreeGone == Tree => NothingLeftBehind
<1> SUFFICES ASSUME Tree PROVE NothingLeftBehind
  OBVIOUS
<1>1. \A i \in Children : child[i] = "none" => Gone(i)
  BY DEF Tree, Started, Gone
<1> QED BY <1>1 DEF Tree, Finished, Waited, NothingLeftBehind

(* When the main process has exited no connection is left, and none of a   *)
(* child that has (client/main.cpp:26-32, 73-76, 81).                      *)
THEOREM NobodyLeftBehind == Spec => []NothingLeftBehind
<1>1. Spec => []Tree
  BY TreeInit, TreeNext, PTL DEF Spec
<1> QED BY <1>1, TreeGone, PTL
-----------------------------------------------------------------------------
LEMMA Payloads == Request # <<>> /\ Reply # <<>> /\ Request # Reply
BY DEF Request, Reply, Written

LEMMA TalkInit == Init => Talk
BY DEF Init, Talk, TalkType, Unused, JudgedOnce

LEMMA TalkNext == Tree /\ Talk /\ [Next]_vars => Talk'
<1> SUFFICES ASSUME Tree, Talk, [Next]_vars PROVE Talk'
  OBVIOUS
<1> USE Payloads DEF Talk
(* Steps that only empty connections, and do not undo an opening. *)
<1>1. ASSUME judged' = judged,
             client' \in [Clients -> {"none", "failed", "connecting", "open", "ended"}],
             wire' \in [Clients -> {<<>>, Request, Reply}],
             \A c \in Clients : wire'[c] # <<>> => wire[c] # <<>>,
             \A c \in Clients : client'[c] \in {"none", "failed", "connecting"} =>
               client[c] \in {"none", "failed", "connecting"}
      PROVE  Talk'
  BY <1>1 DEF TalkType, Unused, JudgedOnce
<1>2. CASE Main \/ Listen \/ UNCHANGED vars
  <2>1. UNCHANGED <<client, wire, judged>>
    BY <1>2 DEF Main, Fork, ForkDone, Reap, WaitEnds, Listen, conn, vars
  <2> QED BY <1>1, <2>1 DEF TalkType
<1>3. ASSUME NEW i \in Children, Child(i) PROVE Talk'
  <2>1. CASE Create(i)
    <3>1. next[i] \in 1 .. Threads /\ client[<<i, next[i]>>] = "none" /\ UNCHANGED <<wire, judged>>
      BY <2>1, LoadAssumption DEF Create, Tree, TreeType, Created
    <3>2. \/ client' = [client EXCEPT ![<<i, next[i]>>] = "connecting"]
          \/ client' = [client EXCEPT ![<<i, next[i]>>] = "failed"]
      BY <2>1 DEF Create
    <3> QED BY <1>1, <3>1, <3>2 DEF TalkType
  <2>2. CASE JoinNothing(i)
    <3>1. /\ judged' = judged
          /\ client' = [c \in Clients |-> IF c \in Of(i) THEN "ended" ELSE client[c]]
          /\ wire' = [c \in Clients |-> IF c \in Of(i) THEN <<>> ELSE wire[c]]
      BY <2>2 DEF JoinNothing
    <3> QED BY <1>1, <3>1 DEF TalkType
  <2>3. CASE CreateDone(i) \/ Join(i) \/ Exit(i)
    <3>1. UNCHANGED <<client, wire, judged>>
      BY <2>3 DEF CreateDone, Join, Exit, conn
    <3> QED BY <1>1, <3>1 DEF TalkType
  <2> QED BY <1>3, <2>1, <2>2, <2>3 DEF Child
<1>4. ASSUME NEW c \in Clients, OnOpen(c) PROVE Talk'
  <2>1. /\ client[c] = "connecting" /\ judged' = judged /\ judged[c] = <<>>
        /\ client' = [client EXCEPT ![c] = "open"] /\ wire' = [wire EXCEPT ![c] = Request]
    BY <1>4 DEF OnOpen, Unused
  <2>2. TalkType'
    BY <2>1 DEF TalkType
  <2>3. client'[c] = "open" /\ \A d \in Clients : d # c => client'[d] = client[d] /\ wire'[d] = wire[d]
    BY <2>1 DEF TalkType
  <2>4. Unused'
    BY <2>1, <2>3 DEF Unused
  <2>5. JudgedOnce'
    BY <2>1, <2>3 DEF JudgedOnce
  <2> QED BY <2>2, <2>4, <2>5
<1>5. ASSUME NEW c \in Clients, OnFail(c) \/ OnClose(c) PROVE Talk'
  <2>1. judged' = judged /\ client' = [client EXCEPT ![c] = "ended"]
        /\ (wire' = wire \/ wire' = [wire EXCEPT ![c] = <<>>])
    BY <1>5 DEF OnFail, OnClose
  <2> QED BY <1>1, <2>1 DEF TalkType
<1>6. ASSUME NEW c \in Clients, OnMessage(c) PROVE Talk'
  <2>1. /\ client[c] = "open" /\ client' = client /\ wire[c] = Reply
        /\ wire' = [wire EXCEPT ![c] = <<>>]
        /\ judged' = [judged EXCEPT ![c] = Append(judged[c], Reply)]
    BY <1>6 DEF OnMessage
  <2>2. judged[c] = <<>>
    BY <2>1 DEF JudgedOnce
  <2>3. Append(judged[c], Reply) \in Seq({Reply}) /\ Len(Append(judged[c], Reply)) = 1
    BY <2>2
  <2>4. TalkType'
    <3>1. client' \in [Clients -> {"none", "failed", "connecting", "open", "ended"}]
      BY <2>1 DEF TalkType
    <3>2. wire' \in [Clients -> {<<>>, Request, Reply}]
      BY <2>1 DEF TalkType
    <3>3. judged' \in [Clients -> Seq({Reply})]
      BY <2>1, <2>3 DEF TalkType
    <3> QED BY <3>1, <3>2, <3>3 DEF TalkType
  <2>5. /\ judged'[c] = Append(judged[c], Reply) /\ wire'[c] = <<>>
        /\ \A d \in Clients : d # c => judged'[d] = judged[d] /\ wire'[d] = wire[d]
    BY <2>1 DEF TalkType
  <2>6. Unused'
    BY <2>1, <2>5 DEF Unused
  <2>7. JudgedOnce'
    BY <2>3, <2>5 DEF JudgedOnce
  <2> QED BY <2>4, <2>6, <2>7
<1>7. ASSUME NEW c \in Clients, Serve(c) PROVE Talk'
  <2>1. UNCHANGED <<client, judged>> /\ wire[c] = Request /\ wire' = [wire EXCEPT ![c] = Reply]
    BY <1>7 DEF Serve
  <2>2. wire' \in [Clients -> {<<>>, Request, Reply}]
    BY <2>1 DEF TalkType
  <2>3. \A d \in Clients : wire'[d] # <<>> => wire[d] # <<>>
    BY <2>1 DEF TalkType
  <2> QED BY <1>1, <2>1, <2>2, <2>3 DEF TalkType
<1>8. CASE ServerEnds
  <2>1. UNCHANGED <<client, judged>>
        /\ wire' = [c \in Clients |-> IF wire[c] = Request THEN <<>> ELSE wire[c]]
    BY <1>8 DEF ServerEnds
  <2> QED BY <1>1, <2>1 DEF TalkType
<1> QED BY <1>2, <1>3, <1>4, <1>5, <1>6, <1>7, <1>8 DEF Next, Server, Thread

(* One request, one reply in every connection, and the reply starts        *)
(* nothing new (client/cclient.cpp:24, 30-38; server/main.cpp:31), against *)
(* what the comment at client/cclient.h:22-23 says of it.                  *)
THEOREM OneVerdict == Spec => []JudgedOnce
<1>1. Init => Tree /\ Talk
  BY TreeInit, TalkInit
<1>2. Tree /\ Talk /\ [Next]_vars => (Tree /\ Talk)'
  BY TreeNext, TalkNext
<1>3. Tree /\ Talk => JudgedOnce
  BY DEF Talk
<1> QED BY <1>1, <1>2, <1>3, PTL DEF Spec

(* The rest of TypeOK; only an open connection has anything under way. *)
Rest == /\ verdict \in [Clients -> {"none", "ok", "error"}]
        /\ server \in {"start", "up", "down"} /\ faults \in 0 .. MaxFaults
        /\ \A c \in Clients : wire[c] # <<>> => client[c] = "open"

LEMMA RestNext == Tree /\ Talk /\ Rest /\ [Next]_vars => Rest'
<1> SUFFICES ASSUME Tree, Talk, Rest, [Next]_vars PROVE Rest'
  OBVIOUS
<1> USE LoadAssumption, Payloads DEF Rest
<1>1. /\ client \in [Clients -> {"none", "failed", "connecting", "open", "ended"}]
      /\ wire \in [Clients -> {<<>>, Request, Reply}]
  BY DEF Talk, TalkType
<1>2. Fault => faults' \in 0 .. MaxFaults
  BY DEF Fault
<1>3. CASE Main \/ Listen \/ UNCHANGED vars
  <2>1. /\ UNCHANGED <<client, wire, verdict>> /\ server' \in {server, "up", "down"}
        /\ Fault \/ faults' = faults
    BY <1>3 DEF Main, Fork, ForkDone, Reap, WaitEnds, Listen, conn, vars
  <2> QED BY <1>2, <2>1
<1>4. ASSUME NEW i \in Children, Child(i) PROVE Rest'
  <2>1. CASE Create(i)
    <3>1. /\ next[i] \in 1 .. Threads /\ client[<<i, next[i]>>] = "none"
          /\ UNCHANGED <<wire, verdict, server>> /\ (Fault \/ faults' = faults)
      BY <2>1 DEF Create, Tree, TreeType, Created
    <3>2. \/ client' = [client EXCEPT ![<<i, next[i]>>] = "connecting"]
          \/ client' = [client EXCEPT ![<<i, next[i]>>] = "failed"]
      BY <2>1 DEF Create
    <3>3. \A c \in Clients : wire[c] # <<>> => client'[c] = client[c]
      BY <1>1, <3>1, <3>2
    <3> QED BY <1>2, <3>1, <3>3
  <2>2. CASE JoinNothing(i)
    BY <2>2 DEF JoinNothing
  <2>3. CASE CreateDone(i) \/ Join(i) \/ Exit(i)
    BY <2>3 DEF CreateDone, Join, Exit, conn
  <2> QED BY <1>4, <2>1, <2>2, <2>3 DEF Child
<1>5. ASSUME NEW c \in Clients, OnOpen(c) \/ OnFail(c) \/ OnClose(c) PROVE Rest'
  <2>1. UNCHANGED <<verdict, server, faults>>
    BY <1>5 DEF OnOpen, OnFail, OnClose
  <2>2. /\ client'[c] = "open" \/ wire'[c] = <<>>
        /\ \A d \in Clients \ {c} : client'[d] = client[d] /\ wire'[d] = wire[d]
    BY <1>1, <1>5 DEF OnOpen, OnFail, OnClose
  <2> QED BY <2>1, <2>2
<1>6. ASSUME NEW c \in Clients, OnMessage(c) PROVE Rest'
  <2>1. UNCHANGED <<client, server, faults>> /\ wire' = [wire EXCEPT ![c] = <<>>]
    BY <1>6 DEF OnMessage
  <2>2. verdict' \in [Clients -> {"none", "ok", "error"}]
    BY <1>6 DEF OnMessage, Verdict
  <2> QED BY <1>1, <2>1, <2>2
<1>7. ASSUME NEW c \in Clients, Serve(c) PROVE Rest'
  BY <1>1, <1>7 DEF Serve
<1>8. CASE ServerEnds
  BY <1>8 DEF ServerEnds
<1> QED BY <1>3, <1>4, <1>5, <1>6, <1>7, <1>8 DEF Next, Server, Thread

(* The types, and: nothing is under way where no connection is open        *)
(* (client/cclient.cpp:10-38, server/main.cpp:17-35).                      *)
THEOREM LoadTestTypes == Spec => []TypeOK
<1>1. Init => Tree /\ Talk /\ Rest
  BY TreeInit, TalkInit, LoadAssumption DEF Init, Rest
<1>2. Tree /\ Talk /\ Rest /\ [Next]_vars => (Tree /\ Talk /\ Rest)'
  BY TreeNext, TalkNext, RestNext
<1>3. Tree /\ Talk /\ Rest => TypeOK
  BY DEF Tree, TreeType, Talk, TalkType, Rest, TypeOK
<1> QED BY <1>1, <1>2, <1>3, PTL DEF Spec
=============================================================================
