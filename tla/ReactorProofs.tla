---------------------------- MODULE ReactorProofs ----------------------------
(***************************************************************************)
(* The safety properties of Reactor for any number of tasks, descriptors   *)
(* and connections.                                                        *)
(*                                                                         *)
(* RegisteredLive and DescriptorsAccounted hold each other up: a deletion  *)
(* closes the one descriptor the task is registered under.  That an event  *)
(* outlives its task only by SetInstance needs the events of a batch to be *)
(* of different tasks, and FirstConnectionSafe needs what the pointers of  *)
(* the singleton say of the number of connections.                         *)
(***************************************************************************)
EXTENDS Reactor, TLAPS

(* The events of one batch are of different tasks. *)
BatchDistinct == \A i, j \in DOMAIN batch : batch[i].task = batch[j].task => i = j

(* What the thread's pointers say of the number of accepted connections.   *)
Counted == /\ made # NULL \/ instance # NULL => accepts >= 1
           /\ made # NULL /\ instance # NULL => accepts >= 2
           /\ replaced # {} => accepts >= 2

(* A task with a descriptor is registered under it, and registered         *)
(* descriptors are open.                                                   *)
OwnersRegistered == /\ \A t \in live : fd[t] # NoFd => fd[t] \in DOMAIN epoll /\ epoll[fd[t]] = t
                    /\ \A f \in DOMAIN epoll : sock[f] # "free"

Tables == TypeOK /\ RegisteredLive /\ DescriptorsAccounted /\ OwnersRegistered
History == OneConnection /\ StaleOnlyReplaced /\ BatchDistinct /\ Counted /\ FirstConnectionSafe
IInv == Tables /\ History

LEMMA InitInv == Init => IInv
BY ReactorAssumption DEF Init, IInv, Tables, History, TypeOK, RegisteredLive, DescriptorsAccounted,
   OwnersRegistered, OneConnection, StaleOnlyReplaced, BatchDistinct, Counted, FirstConnectionSafe, Range, Events

(* The tables without the place of the thread: what Delete disturbs.       *)
EpollOK == /\ DOMAIN epoll \subseteq Fds /\ Range(epoll) \subseteq Tasks
           /\ live \subseteq Tasks /\ fd \in [Tasks -> Fds \cup {NoFd}]
           /\ sock \in [Fds -> {"free", "quiet", "data", "ended"}]
           /\ RegisteredLive /\ DescriptorsAccounted /\ OwnersRegistered

LEMMA DeleteKeeps ==
  ASSUME EpollOK, NEW t \in live, Delete(t), UNCHANGED orphans
  PROVE  EpollOK'
<1> USE ReactorAssumption DEF EpollOK
<1>1. CASE fd[t] = NoFd
  <2>1. sock' = sock /\ epoll' = epoll /\ live' = live \ {t} /\ fd' = [fd EXCEPT ![t] = NoFd]
    BY <1>1 DEF Delete
  <2>2. \A f \in DOMAIN epoll : epoll[f] # t
    BY <1>1 DEF RegisteredLive
  <2>3. RegisteredLive'
    BY <2>1, <2>2 DEF RegisteredLive
  <2>4. \A f \in Fds : {u \in live' : fd'[u] = f} = {u \in live : fd[u] = f}
    BY <1>1, <2>1
  <2>5. DescriptorsAccounted'
    BY <2>1, <2>4 DEF DescriptorsAccounted
  <2>6. OwnersRegistered'
    BY <2>1 DEF OwnersRegistered
  <2> QED BY <2>1, <2>3, <2>5, <2>6
<1>2. CASE fd[t] # NoFd
  <2>1. /\ live' = live \ {t} /\ fd' = [fd EXCEPT ![t] = NoFd]
        /\ sock' = [sock EXCEPT ![fd[t]] = "free"]
        /\ epoll' = [g \in DOMAIN epoll \ {fd[t]} |-> epoll[g]]
    BY <1>2 DEF Delete, Without
  <2>2. \A f \in DOMAIN epoll : f # fd[t] => epoll[f] # t
    BY DEF RegisteredLive
  <2>3. DOMAIN epoll' \subseteq Fds /\ Range(epoll') \subseteq Tasks
    BY <2>1 DEF Range
  <2>4. RegisteredLive'
    BY <2>1, <2>2 DEF RegisteredLive
  <2>5. \A f \in Fds : f # fd[t] => {u \in live' : fd'[u] = f} = {u \in live : fd[u] = f}
    BY <2>1
  <2>6. DescriptorsAccounted'
    BY <2>1, <2>5, <1>2 DEF DescriptorsAccounted
  <2>7. OwnersRegistered'
    BY <2>1, <1>2 DEF RegisteredLive, OwnersRegistered
  <2> QED BY <2>1, <2>3, <2>4, <2>6, <2>7
<1> QED BY <1>1, <1>2
-----------------------------------------------------------------------------
(* The rest of IInv, and IInv taken apart for use in both states. *)
RestOK == /\ at \in {"start", "wait", "batch", "accept", "set", "failed", "undefined"}
          /\ batch \in Seq(Events)
          /\ made \in Tasks \cup {NULL} /\ instance \in Tasks \cup {NULL}
          /\ IF at = "set" THEN made \in live ELSE made = NULL
          /\ pending \in Nat /\ connects \in Nat /\ accepts \in Nat
          /\ orphans \subseteq Fds /\ replaced \subseteq Tasks

LEMMA IInvParts == IInv <=> EpollOK /\ RestOK /\ History
BY DEF IInv, Tables, TypeOK, EpollOK, RestOK

LEMMA IInvPartsNext == IInv' <=> EpollOK' /\ RestOK' /\ History'
BY DEF IInv, Tables, TypeOK, EpollOK, RestOK

(* Steps of the peers and of the loop, which touch no task. *)
LEMMA OuterKeeps ==
  ASSUME IInv,
         \/ CreateListenSocket \/ BatchDone \/ AcceptFails \/ PeerConnects
         \/ (\E f \in Fds : PeerSends(f) \/ PeerEnds(f)) \/ UNCHANGED vars
  PROVE  IInv'
<1> USE IInvParts, IInvPartsNext
<1>1. UNCHANGED <<batch, epoll, tvars, accepts, orphans, replaced>>
  BY DEF CreateListenSocket, BatchDone, AcceptFails, PeerConnects, PeerSends, PeerEnds, vars, hvars
<1>2. sock' \in [Fds -> {"free", "quiet", "data", "ended"}]
      /\ \A f \in Fds : sock'[f] = "free" <=> sock[f] = "free"
  BY DEF EpollOK, CreateListenSocket, BatchDone, AcceptFails, PeerConnects, PeerSends, PeerEnds, vars
<1>3. EpollOK'
  BY <1>1, <1>2 DEF EpollOK, RegisteredLive, DescriptorsAccounted, OwnersRegistered, tvars
<1>4. (at = "set" <=> at' = "set") /\ (at' = "undefined" => at = "undefined")
      /\ at' \in {"start", "wait", "batch", "accept", "set", "failed", "undefined"}
      /\ pending' \in Nat /\ connects' \in Nat
  BY DEF RestOK, CreateListenSocket, BatchDone, AcceptFails, PeerConnects, PeerSends, PeerEnds, vars
<1>5. RestOK'
  BY <1>1, <1>4 DEF RestOK, tvars
<1>6. History'
  BY <1>1, <1>4 DEF History, OneConnection, StaleOnlyReplaced, BatchDistinct, Counted,
     FirstConnectionSafe, tvars
<1> QED BY <1>3, <1>5, <1>6

(* The events of a batch come from the epoll set, each from another task.  *)
LEMMA EpollWaitKeeps ==
  ASSUME IInv, EpollWait
  PROVE  IInv'
<1> USE IInvParts, IInvPartsNext, ReactorAssumption
<1> DEFINE S == {Event(f) : f \in Ready} \cup (IF pending > 0 THEN {AcceptEvent} ELSE {})
<1>1. PICK n \in 1 .. EpollSize : batch' \in [1 .. n -> S] /\ IsInjective(batch')
  BY DEF EpollWait, Arrays
<1>a. \A f \in Ready : /\ Event(f).task = epoll[f] /\ epoll[f] \in live \cap Tasks
                       /\ fd[epoll[f]] = f
  BY DEF EpollOK, RegisteredLive, Event, Ready, Range
<1>b. \A e \in S : e = AcceptEvent \/ \E f \in Ready : e = Event(f)
  OBVIOUS
<1>2. S \subseteq Events
  <2>1. \A f \in Ready : Event(f) \in Events
    <3> SUFFICES ASSUME NEW f \in Ready PROVE Event(f) \in Events
      OBVIOUS
    <3>1. epoll[f] \in Tasks \cup {Acceptor} /\ (sock[f] = "ended") \in BOOLEAN
      BY <1>a
    <3> QED BY <3>1, Zenon DEF Event, Events
  <2>2. AcceptEvent \in Events
    BY DEF AcceptEvent, Events
  <2> QED BY <1>b, <2>1, <2>2
<1>3. \A e \in S : e.task \in live \cup {Acceptor}
  BY <1>a, <1>b DEF AcceptEvent
<1>4. ASSUME NEW d \in S, NEW e \in S, d.task = e.task  PROVE d = e
  <2>1. CASE d = AcceptEvent
    BY <1>a, <1>b, <1>4, <2>1 DEF AcceptEvent
  <2>2. CASE \E f \in Ready : d = Event(f)
    BY <1>a, <1>b, <1>4, <2>2 DEF AcceptEvent
  <2> QED BY <1>b, <2>1, <2>2
<1>5. UNCHANGED <<epoll, tvars, sock, pending, connects, accepts, orphans>>
      /\ at = "wait" /\ at' = "batch" /\ replaced' = {}
  BY DEF EpollWait
<1>6. EpollOK'
  BY <1>5 DEF EpollOK, RegisteredLive, DescriptorsAccounted, OwnersRegistered, tvars
<1>7. batch' \in Seq(Events) /\ DOMAIN batch' = 1 .. n
  BY <1>1, <1>2
<1>8. RestOK'
  BY <1>5, <1>7 DEF RestOK, tvars
<1>9. StaleOnlyReplaced'
  BY <1>1, <1>3, <1>5, <1>7 DEF StaleOnlyReplaced, tvars
<1>10. BatchDistinct'
  BY <1>1, <1>4, <1>7 DEF BatchDistinct, IsInjective
<1>11. History'
  BY <1>5, <1>9, <1>10 DEF History, OneConnection, Counted, FirstConnectionSafe, tvars
<1> QED BY <1>6, <1>8, <1>11

(* The event at hand: of the accept task, of a live task, or of one gone.  *)
LEMMA HandleProcessKeeps ==
  ASSUME IInv, HandleProcess
  PROVE  IInv'
<1> USE IInvParts, IInvPartsNext, ReactorAssumption
<1> DEFINE e == Head(batch)
<1>1. /\ at = "batch" /\ batch # <<>> /\ batch' = Tail(batch)
      /\ UNCHANGED <<made, instance, pending, connects, accepts, orphans, replaced>>
  BY DEF HandleProcess, hvars
<1>2. /\ batch \in Seq(Events) /\ batch' \in Seq(Events) /\ made = NULL
      /\ \A i \in DOMAIN batch' : i + 1 \in DOMAIN batch /\ batch'[i] = batch[i + 1]
      /\ 1 \in DOMAIN batch /\ batch[1] = e /\ e \in Events
  BY <1>1 DEF RestOK
<1>3. \A i \in DOMAIN batch' : batch'[i].task # e.task
  <2> SUFFICES ASSUME NEW i \in DOMAIN batch', batch'[i].task = e.task PROVE FALSE
    OBVIOUS
  <2>1. i + 1 = 1
    BY <1>2 DEF History, BatchDistinct
  <2>2. i \in Nat \ {0}
    BY <1>2
  <2> QED BY <2>1, <2>2
<1>4. BatchDistinct'
  <2> SUFFICES ASSUME NEW i \in DOMAIN batch', NEW j \in DOMAIN batch',
                      batch'[i].task = batch'[j].task
               PROVE  i = j
    BY DEF BatchDistinct
  <2>1. i + 1 = j + 1
    BY <1>2 DEF History, BatchDistinct
  <2> QED BY <2>1, <1>2
<1>5. CASE UNCHANGED <<epoll, live, fd, sock>> /\ at' = "accept"
  <2>1. EpollOK' /\ RestOK'
    BY <1>1, <1>2, <1>5 DEF EpollOK, RegisteredLive, DescriptorsAccounted, OwnersRegistered, RestOK
  <2>2. History'
    BY <1>1, <1>2, <1>4, <1>5 DEF History, OneConnection, StaleOnlyReplaced, Counted, FirstConnectionSafe
  <2> QED BY <2>1, <2>2
<1>6. CASE e.task \in live /\ RecvProcess(e) /\ UNCHANGED at
  <2>1. CASE Delete(e.task)
    <3>1. live' = live \ {e.task}
      BY <2>1 DEF Delete
    <3>2. EpollOK'
      BY <1>1, <1>6, <2>1, DeleteKeeps
    <3>3. RestOK'
      BY <1>1, <1>2, <1>6 DEF RestOK
    <3>4. StaleOnlyReplaced'
      BY <1>1, <1>2, <1>3, <3>1 DEF History, StaleOnlyReplaced
    <3>5. History'
      BY <1>1, <1>2, <1>4, <1>6, <3>1, <3>4 DEF History, OneConnection, Counted, FirstConnectionSafe
    <3> QED BY <3>2, <3>3, <3>5
  <2>2. CASE sock' = [sock EXCEPT ![fd[e.task]] = "quiet"] /\ UNCHANGED <<epoll, live, fd>>
             /\ fd[e.task] # NoFd /\ sock[fd[e.task]] # "ended"
    <3>1. fd[e.task] \in DOMAIN epoll
      BY <1>6, <2>2 DEF EpollOK, OwnersRegistered
    <3>2. EpollOK'
      BY <1>1, <2>2, <3>1 DEF EpollOK, RegisteredLive, DescriptorsAccounted, OwnersRegistered
    <3>3. RestOK'
      BY <1>1, <1>2, <1>6, <2>2 DEF RestOK
    <3>4. History'
      BY <1>1, <1>2, <1>4, <1>6, <2>2 DEF History, OneConnection, StaleOnlyReplaced, Counted, FirstConnectionSafe
    <3> QED BY <3>2, <3>3, <3>4
  <2> QED BY <1>6, <2>1, <2>2 DEF RecvProcess
<1>7. CASE e.task \notin live \cup {Acceptor} /\ Undefined
  <2>1. replaced # {} /\ accepts >= 2
    BY <1>2, <1>7 DEF History, StaleOnlyReplaced, Counted
  <2>2. EpollOK' /\ RestOK'
    BY <1>1, <1>2, <1>7 DEF EpollOK, RegisteredLive, DescriptorsAccounted, OwnersRegistered, RestOK, Undefined
  <2>3. History'
    BY <1>1, <1>2, <1>4, <1>7, <2>1 DEF History, OneConnection, StaleOnlyReplaced, Counted,
       FirstConnectionSafe, Undefined
  <2> QED BY <2>2, <2>3
<1> QED BY <1>5, <1>6, <1>7 DEF HandleProcess

(* The new task is the only one registered under its descriptor, which was *)
(* free; the accepted descriptor is that one, or counted as overwritten.   *)
LEMMA AcceptKeeps ==
  ASSUME IInv, NEW t \in Tasks, NEW f \in Fds, NEW g \in Fds \cup {NoFd}, Accept(t, f, g)
  PROVE  IInv'
<1> USE IInvParts, IInvPartsNext, ReactorAssumption
<1>1. /\ at = "accept" /\ at' = "set" /\ t \notin live /\ live' = live \cup {t}
      /\ fd' = [fd EXCEPT ![t] = g] /\ made' = t /\ epoll' = Registered(t, f, g)
      /\ sock' = [h \in Fds |-> IF h = f THEN "quiet" ELSE IF h = g THEN "ended" ELSE sock[h]]
      /\ orphans' = IF g = f THEN orphans ELSE orphans \cup {f}
      /\ pending' = pending - 1 /\ accepts' = accepts + 1 /\ pending > 0
      /\ UNCHANGED <<batch, instance, connects, replaced>>
  BY DEF Accept
<1>2. sock[f] = "free" /\ (g # NoFd => g \in Fds /\ sock[g] = "free")
  BY DEF Accept, FreeFds, InitSockets
<1>3. made = NULL
  BY <1>1 DEF RestOK
<1>4. /\ f \notin DOMAIN epoll /\ g \notin DOMAIN epoll
      /\ \A u \in live : fd[u] # f /\ (fd[u] # NoFd => fd[u] # g)
  BY <1>2 DEF EpollOK, OwnersRegistered
<1>5. ASSUME g = NoFd  PROVE EpollOK'
  <2>1. epoll' = epoll
    BY <1>1, <1>5 DEF Registered
  <2>2. RegisteredLive' /\ OwnersRegistered'
    BY <1>1, <1>4, <1>5, <2>1 DEF EpollOK, RegisteredLive, OwnersRegistered, Range
  <2>3. \A h \in Fds : {u \in live' : fd'[u] = h} = {u \in live : fd[u] = h}
    BY <1>1, <1>5 DEF EpollOK
  <2>4. DescriptorsAccounted'
    <3> SUFFICES ASSUME NEW h \in Fds, sock'[h] # "free", h \notin orphans'
                 PROVE  h \in DOMAIN epoll' /\ {u \in live' : fd'[u] = h} = {epoll'[h]}
      BY DEF DescriptorsAccounted
    <3>1. h # f /\ sock[h] # "free" /\ h \notin orphans
      BY <1>1, <1>5
    <3>2. h \in DOMAIN epoll /\ {u \in live : fd[u] = h} = {epoll[h]}
      BY <3>1 DEF EpollOK, DescriptorsAccounted
    <3>3. {u \in live' : fd'[u] = h} = {u \in live : fd[u] = h}
      BY <2>3
    <3> QED BY <2>1, <3>2, <3>3
  <2> QED BY <1>1, <2>1, <2>2, <2>4 DEF EpollOK
<1>6. ASSUME g # NoFd  PROVE EpollOK'
  <2>1. /\ DOMAIN epoll' = DOMAIN epoll \cup {g} /\ epoll'[g] = t
        /\ \A h \in DOMAIN epoll : epoll'[h] = epoll[h]
    BY <1>1, <1>4, <1>6 DEF Registered
  <2>2. DOMAIN epoll' \subseteq Fds /\ Range(epoll') \subseteq Tasks
    BY <1>6, <2>1 DEF EpollOK, Range
  <2>3. RegisteredLive'
    BY <1>1, <1>6, <2>1 DEF EpollOK, RegisteredLive, Range
  <2>4. OwnersRegistered'
    BY <1>1, <1>4, <1>6, <2>1 DEF EpollOK, RegisteredLive, OwnersRegistered, Range
  <2>5. \A h \in Fds : {u \in live' : fd'[u] = h} = IF h = g THEN {t} ELSE {u \in live : fd[u] = h}
    BY <1>1, <1>4, <1>6 DEF EpollOK
  <2>6. DescriptorsAccounted'
    <3> SUFFICES ASSUME NEW h \in Fds, sock'[h] # "free", h \notin orphans'
                 PROVE  h \in DOMAIN epoll' /\ {u \in live' : fd'[u] = h} = {epoll'[h]}
      BY DEF DescriptorsAccounted
    <3>1. CASE h = g
      BY <2>1, <2>5, <3>1
    <3>2. CASE h # g
      <4>1. h # f /\ sock[h] # "free" /\ h \notin orphans
        BY <1>1, <3>2
      <4>2. h \in DOMAIN epoll /\ {u \in live : fd[u] = h} = {epoll[h]}
        BY <4>1 DEF EpollOK, DescriptorsAccounted
      <4>3. {u \in live' : fd'[u] = h} = {u \in live : fd[u] = h}
        BY <2>5, <3>2
      <4> QED BY <2>1, <4>2, <4>3
    <3> QED BY <3>1, <3>2
  <2> QED BY <1>1, <2>2, <2>3, <2>4, <2>6 DEF EpollOK
<1>7. RestOK'
  BY <1>1 DEF RestOK
<1>8. History'
  <2>1. accepts \in Nat /\ (instance # NULL => accepts >= 1)
    BY DEF RestOK, History, Counted
  <2>2. Counted' /\ FirstConnectionSafe'
    BY <1>1, <2>1 DEF History, Counted, FirstConnectionSafe
  <2>3. OneConnection'
    BY <1>1, <1>3 DEF History, OneConnection, EpollOK
  <2>4. StaleOnlyReplaced' /\ BatchDistinct'
    BY <1>1 DEF History, StaleOnlyReplaced, BatchDistinct
  <2> QED BY <2>2, <2>3, <2>4 DEF History
<1> QED BY <1>5, <1>6, <1>7, <1>8

(* The task the singleton held is deleted with everything that was its.    *)
LEMMA SetInstanceKeeps ==
  ASSUME IInv, SetInstance
  PROVE  IInv'
<1> USE IInvParts, IInvPartsNext, ReactorAssumption
<1>1. /\ at = "set" /\ instance' = made /\ made' = NULL
      /\ UNCHANGED <<batch, pending, connects, accepts, orphans>>
  BY DEF SetInstance
<1>2. made \in live /\ made \in Tasks /\ made # NULL
  BY <1>1 DEF RestOK, EpollOK
<1>3. CASE instance = NULL /\ at' = "accept" /\ UNCHANGED <<epoll, live, fd, sock, replaced>>
  <2>1. EpollOK' /\ RestOK'
    BY <1>1, <1>2, <1>3 DEF EpollOK, RegisteredLive, DescriptorsAccounted, OwnersRegistered, RestOK
  <2>2. History'
    BY <1>1, <1>2, <1>3 DEF EpollOK, History, OneConnection, StaleOnlyReplaced, BatchDistinct, Counted,
       FirstConnectionSafe
  <2> QED BY <2>1, <2>2
<1>4. CASE instance \in live /\ at' = "accept" /\ Delete(instance)
           /\ replaced' = replaced \cup {instance}
  <2>1. EpollOK'
    BY <1>1, <1>4, DeleteKeeps
  <2>2. live' = live \ {instance} /\ instance \in Tasks
    BY <1>4 DEF Delete, EpollOK
  <2>3. accepts >= 2
    BY <1>2, <2>2 DEF History, Counted
  <2>4. RestOK'
    BY <1>1, <1>2, <1>4, <2>2 DEF RestOK
  <2>5. OneConnection' /\ Counted' /\ FirstConnectionSafe'
    BY <1>1, <1>2, <1>4, <2>2, <2>3 DEF History, RestOK, OneConnection, Counted, FirstConnectionSafe
  <2>6. StaleOnlyReplaced' /\ BatchDistinct'
    BY <1>1, <1>4, <2>2 DEF History, StaleOnlyReplaced, BatchDistinct
  <2> QED BY <2>1, <2>4, <2>5, <2>6 DEF History
<1>5. CASE instance \notin live \cup {NULL} /\ Undefined /\ UNCHANGED replaced
  <2>1. accepts >= 2
    BY <1>2, <1>5 DEF History, Counted
  <2>2. EpollOK' /\ RestOK'
    BY <1>1, <1>2, <1>5 DEF EpollOK, RegisteredLive, DescriptorsAccounted, OwnersRegistered, RestOK, Undefined
  <2>3. live' \subseteq {made}
    BY <1>5 DEF History, OneConnection, Undefined
  <2>4. History'
    BY <1>1, <1>2, <1>5, <2>1, <2>3 DEF History, OneConnection, StaleOnlyReplaced, BatchDistinct, Counted,
       FirstConnectionSafe, Undefined, RestOK
  <2> QED BY <2>2, <2>4
<1> QED BY <1>3, <1>4, <1>5 DEF SetInstance
-----------------------------------------------------------------------------
LEMMA Inductive == IInv /\ [Next]_vars => IInv'
<1> SUFFICES ASSUME IInv, [Next]_vars PROVE IInv'
  OBVIOUS
<1>1. CASE EpollWait
  BY <1>1, EpollWaitKeeps
<1>2. CASE HandleProcess
  BY <1>2, HandleProcessKeeps
<1>3. CASE SetInstance
  BY <1>3, SetInstanceKeeps
<1>4. CASE \E t \in Tasks, f \in Fds, g \in Fds \cup {NoFd} : Accept(t, f, g)
  BY <1>4, AcceptKeeps
<1>5. CASE \/ CreateListenSocket \/ BatchDone \/ AcceptFails \/ PeerConnects
           \/ (\E f \in Fds : PeerSends(f) \/ PeerEnds(f)) \/ UNCHANGED vars
  BY <1>5, OuterKeeps
<1> QED BY <1>1, <1>2, <1>3, <1>4, <1>5 DEF Next, Thread, Peers

(* For any tasks, descriptors and connections: the epoll set names live    *)
(* tasks, open descriptors are accounted for, at most one connection is    *)
(* served, and only a predecessor deleted by SetInstance leaves an event   *)
(* behind (myepoll.cpp:72-91, mytask.cpp:459-514, common/common.h:154).    *)
THEOREM ReactorInvariant ==
  Spec => [](TypeOK /\ RegisteredLive /\ DescriptorsAccounted /\ OneConnection /\ StaleOnlyReplaced)
<1>1. IInv => TypeOK /\ RegisteredLive /\ DescriptorsAccounted /\ OneConnection /\ StaleOnlyReplaced
  BY DEF IInv, Tables, History
<1> QED BY <1>1, InitInv, Inductive, PTL DEF Spec

(* Its parts.  An epoll_wait that begins after a task's death never names  *)
(* the task (common/common.h:156, basetask.cpp:36-101).                    *)
COROLLARY NoDeadTaskRegistered == Spec => []RegisteredLive
BY ReactorInvariant, PTL

(* No connection is served behind the singleton's back                     *)
(* (common/common.h:154-162).                                              *)
COROLLARY SingletonIsSingle == Spec => []OneConnection
BY ReactorInvariant, PTL

(* An event that outlived its task is one of a task SetInstance deleted    *)
(* (myepoll.cpp:83-88, common/common.h:156).                               *)
COROLLARY StaleMeansReplaced == Spec => []StaleOnlyReplaced
BY ReactorInvariant, PTL

(* For any number of connections: no deleted task is used before the       *)
(* second one is accepted (common/common.h:156).                           *)
THEOREM FirstIsSafe == Spec => []FirstConnectionSafe
<1>1. IInv => FirstConnectionSafe
  BY DEF IInv, History
<1> QED BY <1>1, InitInv, Inductive, PTL DEF Spec
=============================================================================
