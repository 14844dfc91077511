------------------------------ MODULE Reactor ------------------------------
(***************************************************************************)
(* The reactor that accepts connections: CEpoll (src/common/myepoll.cpp),  *)
(* CAcceptTask and CLongConTask (mytask.cpp), the life of a CBaseTask      *)
(* (basetask.cpp) and CMySingleton (common.h), which holds the one task    *)
(* that serves the peer.                                                   *)
(*                                                                         *)
(* epoll_wait fills an array with the pointers the tasks were registered   *)
(* with, and EpollWait calls HandleProcess on each of them in turn.  While *)
(* it does so a task may delete itself, and the accept task may make new   *)
(* tasks, each of which takes the singleton's place and has its            *)
(* predecessor deleted.  Addresses of deleted tasks are used again.        *)
(*                                                                         *)
(* One thread runs all of this.  The peers connect, send and hang up at    *)
(* any time.  What RecvProcess does with the bytes is module TcpFraming,   *)
(* what SendProcess does is module SendPath; here a socket has something   *)
(* to read, nothing, or an end (closed, reset, never connected, or a frame *)
(* RecvProcess rejects), on which RecvProcess answers -1.                  *)
(***************************************************************************)
EXTENDS Integers, Sequences, FiniteSets, Functions

CONSTANTS Tasks,       \* addresses at which a CLongConTask may be allocated
          Acceptor,    \* the CAcceptTask, never deleted
          Fds,         \* descriptors the process may have besides its own
          NULL, NoFd,  \* the null pointer; m_iSocket = -1
          EpollSize,   \* m_nEpollSize
          MaxConnects  \* bound: connections the peers make

ASSUME ReactorAssumption == /\ Acceptor \notin Tasks /\ NULL \notin Tasks /\ NoFd \notin Fds
                            /\ EpollSize \in Nat \ {0} /\ MaxConnects \in Nat

VARIABLES at,       \* the reactor thread: "start", "wait" in epoll_wait, "batch"
                    \* in the loop over the events, "accept" and "set" in the
                    \* accept loop, "failed" without a socket, "undefined" after
                    \* the use of a deleted task: nothing is said of what follows
          batch,    \* m_epollEvents[i ..], the events not yet handled
          epoll,    \* the epoll set: descriptor -> data.ptr
          live,     \* tasks that exist
          fd,       \* m_iSocket of each task
          made,     \* pTcpTask, the task just made by the accept loop
          instance, \* CMySingleton<CLongConTask>::m_pInstance
          sock,     \* each descriptor: "free", "quiet", "data" to read, "ended"
          pending,  \* connections waiting to be accepted
          connects, \* history: connections made
          accepts,  \* history: connections accepted
          orphans,  \* history: accepted descriptors that Connect overwrote
          replaced  \* history: tasks deleted by SetInstance since epoll_wait
tvars == <<live, fd, made, instance>>
hvars == <<accepts, orphans, replaced>>
vars == <<at, batch, epoll, tvars, sock, pending, connects, hvars>>

Init == /\ at = "start" /\ batch = <<>>
        /\ epoll = [f \in {} |-> NULL]
        /\ live = {} /\ fd = [t \in Tasks |-> NoFd] /\ made = NULL /\ instance = NULL
        /\ sock = [f \in Fds |-> "free"]
        /\ pending = 0 /\ connects = 0
        /\ accepts = 0 /\ orphans = {} /\ replaced = {}

FreeFds == {f \in Fds : sock[f] = "free"}
Without(f) == [g \in DOMAIN epoll \ {f} |-> epoll[g]]
-----------------------------------------------------------------------------
(* CreateListenSocket: socket, bind and listen, any of which may fail. *)
CreateListenSocket == /\ at = "start"
                      /\ at' \in {"wait", "failed"}
                      /\ UNCHANGED <<batch, epoll, tvars, sock, pending, connects, hvars>>

(* The descriptors epoll reports: an end of the connection is a hang-up.   *)
Ready == {f \in DOMAIN epoll : sock[f] \in {"data", "ended"}}
Event(f) == [task |-> epoll[f], hup |-> sock[f] = "ended"]
AcceptEvent == [task |-> Acceptor, hup |-> FALSE]

(* The arrays epoll_wait may fill: all of S if they fit, each event once.  *)
Arrays(S) == {s \in UNION {[1 .. n -> S] : n \in 1 .. EpollSize} :
                IsInjective(s) /\ (Range(s) = S \/ Len(s) = EpollSize)}

(* epoll_wait: the descriptors that are ready, in any order.               *)
EpollWait == /\ at = "wait"
             /\ pending > 0 \/ Ready # {}
             /\ batch' \in Arrays({Event(f) : f \in Ready}
                                  \cup (IF pending > 0 THEN {AcceptEvent} ELSE {}))
             /\ at' = "batch"
             /\ replaced' = {}
             /\ UNCHANGED <<epoll, tvars, sock, pending, connects, accepts, orphans>>

BatchDone == /\ at = "batch" /\ batch = <<>>
             /\ at' = "wait"
             /\ UNCHANGED <<batch, epoll, tvars, sock, pending, connects, hvars>>
-----------------------------------------------------------------------------
(* Mutant: the task is freed, its descriptor is not closed. *)
DeleteUnclosed(t) == /\ live' = live \ {t}
                     /\ fd' = [fd EXCEPT ![t] = NoFd]
                     /\ UNCHANGED <<sock, epoll>>

(* The end of task t, by DestroySelf or by delete: its descriptor, if it   *)
(* has one, is closed, and closing takes it out of the epoll set.          *)
Delete(t) == /\ live' = live \ {t}
             /\ fd' = [fd EXCEPT ![t] = NoFd]
             /\ IF fd[t] = NoFd THEN UNCHANGED <<sock, epoll>>
                ELSE /\ sock' = [sock EXCEPT ![fd[t]] = "free"]
                     /\ epoll' = Without(fd[t])

(* Mutant: data is left in the socket. *)
RecvProcessNothing(e) == IF fd[e.task] # NoFd /\ sock[fd[e.task]] = "ended"
                         THEN Delete(e.task)
                         ELSE UNCHANGED <<sock, epoll, live, fd>>

(* HandleProcess of a connection calls RecvProcess whatever the event is,  *)
(* which asks the socket: -1 ends the task, EAGAIN is nothing.  A task     *)
(* without a descriptor gets EBADF, as -1.                                 *)
RecvProcess(e) ==
  IF fd[e.task] = NoFd \/ sock[fd[e.task]] = "ended"
  THEN Delete(e.task)
  ELSE /\ sock' = [sock EXCEPT ![fd[e.task]] = "quiet"]
       /\ UNCHANGED <<epoll, live, fd>>

Undefined == /\ at' = "undefined"
             /\ UNCHANGED <<epoll, live, fd, sock>>

(* Mutant: no return after DestroySelf: SendProcess of a deleted task. *)
HandleProcessNoReturn ==
  /\ at = "batch" /\ batch # <<>>
  /\ batch' = Tail(batch)
  /\ LET e == Head(batch)
     IN \/ e.task = Acceptor /\ at' = "accept" /\ UNCHANGED <<epoll, live, fd, sock>>
        \/ /\ e.task \in live /\ fd[e.task] # NoFd /\ sock[fd[e.task]] # "ended"
           /\ RecvProcess(e) /\ UNCHANGED at
        \/ e.task \in live /\ (fd[e.task] = NoFd \/ sock[fd[e.task]] = "ended") /\ Undefined
        \/ e.task \notin live \cup {Acceptor} /\ Undefined
  /\ UNCHANGED <<made, instance, pending, connects, hvars>>

(* One turn of the loop: HandleProcess of the accept task, of a connection *)
(* or of a task deleted since epoll_wait.                                  *)
HandleProcess ==
  /\ at = "batch" /\ batch # <<>>
  /\ batch' = Tail(batch)
  /\ LET e == Head(batch)
     IN \/ e.task = Acceptor /\ at' = "accept" /\ UNCHANGED <<epoll, live, fd, sock>>
        \/ e.task \in live /\ RecvProcess(e) /\ UNCHANGED at
        \/ e.task \notin live \cup {Acceptor} /\ Undefined
  /\ UNCHANGED <<made, instance, pending, connects, hvars>>
-----------------------------------------------------------------------------
(* What CLongConTask::Init may leave in m_iSocket of a task made around    *)
(* the accepted descriptor f.  It depends on m_iTimeOut, which that        *)
(* constructor does not set: when negative, f; otherwise Connect puts a    *)
(* new socket in its place, or -1 when the descriptors have run out.       *)
InitSockets(f) == LET new == FreeFds \ {f} IN {f} \cup IF new = {} THEN {NoFd} ELSE new

(* Mutants: CBaseTask::Init before Connect; not at all when Connect fails. *)
RegisteredFirst(t, f, g) == [h \in DOMAIN epoll \cup {f} |-> IF h = f THEN t ELSE epoll[h]]
RegisteredIfConnected(t, f, g) ==
  IF g \in {f, NoFd} THEN epoll
  ELSE [h \in DOMAIN epoll \cup {g} |-> IF h = g THEN t ELSE epoll[h]]

(* CBaseTask::Init, after Connect: the descriptor the task has by then.    *)
Registered(t, f, g) ==
  IF g = NoFd THEN epoll
  ELSE [h \in DOMAIN epoll \cup {g} |-> IF h = g THEN t ELSE epoll[h]]

(* One turn of the accept loop, up to SetInstance: accept, new, Init.  The *)
(* socket Connect makes stays unconnected, for the address it passes to    *)
(* connect is not one; the accepted one stays open.                        *)
Accept(t, f, g) ==
  /\ at = "accept" /\ pending > 0 /\ t \notin live
  /\ f \in FreeFds /\ g \in InitSockets(f)
  /\ pending' = pending - 1 /\ accepts' = accepts + 1
  /\ live' = live \cup {t} /\ fd' = [fd EXCEPT ![t] = g] /\ made' = t
  /\ epoll' = Registered(t, f, g)
  /\ sock' = [h \in Fds |-> IF h = f THEN "quiet" ELSE IF h = g THEN "ended" ELSE sock[h]]
  /\ orphans' = IF g = f THEN orphans ELSE orphans \cup {f}
  /\ at' = "set"
  /\ UNCHANGED <<batch, instance, connects, replaced>>

(* SetInstance deletes what the singleton points to: the predecessor; or,  *)
(* if that has deleted itself, memory that is no task any more, or the new *)
(* task, when it was given the same address.                               *)
SetInstance ==
  /\ at = "set"
  /\ \/ instance = NULL /\ at' = "accept" /\ UNCHANGED <<epoll, live, fd, sock, replaced>>
     \/ instance \in live /\ at' = "accept" /\ Delete(instance)
                          /\ replaced' = replaced \cup {instance}
     \/ instance \notin live \cup {NULL} /\ Undefined /\ UNCHANGED replaced
  /\ instance' = made /\ made' = NULL
  /\ UNCHANGED <<batch, pending, connects, accepts, orphans>>

(* accept fails: nobody is waiting, or there is no descriptor for it.      *)
AcceptFails == /\ at = "accept" /\ (pending = 0 \/ FreeFds = {})
               /\ at' = "batch"
               /\ UNCHANGED <<batch, epoll, tvars, sock, pending, connects, hvars>>
-----------------------------------------------------------------------------
(* The peers. *)
PeerConnects == /\ at \notin {"start", "failed"} /\ connects < MaxConnects
                /\ pending' = pending + 1
                /\ connects' = connects + 1
                /\ UNCHANGED <<at, batch, epoll, tvars, sock, hvars>>

(* An unconnected socket has no peer: it is "ended" from the start.        *)
PeerSends(f) == /\ sock[f] = "quiet"
                /\ sock' = [sock EXCEPT ![f] = "data"]
                /\ UNCHANGED <<at, batch, epoll, tvars, pending, connects, hvars>>

PeerEnds(f) == /\ sock[f] \in {"quiet", "data"}
               /\ sock' = [sock EXCEPT ![f] = "ended"]
               /\ UNCHANGED <<at, batch, epoll, tvars, pending, connects, hvars>>

Thread == \/ EpollWait \/ BatchDone \/ HandleProcess \/ SetInstance \/ AcceptFails
          \/ \E t \in Tasks, f \in Fds, g \in Fds \cup {NoFd} : Accept(t, f, g)
Peers == PeerConnects \/ \E f \in Fds : PeerSends(f) \/ PeerEnds(f)
Next == CreateListenSocket \/ Thread \/ Peers

Spec == Init /\ [][Next]_vars

(* The thread runs whenever it can: it waits for nothing but epoll_wait.   *)
(* Nothing is assumed of the peers.                                        *)
FairSpec == Spec /\ WF_vars(Thread)
-----------------------------------------------------------------------------
Events == [task : Tasks \cup {Acceptor}, hup : BOOLEAN]

(* Types, and: between new and SetInstance, and only then, the accept loop *)
(* holds a task, which exists (mytask.cpp:484-495).                        *)
TypeOK == /\ at \in {"start", "wait", "batch", "accept", "set", "failed", "undefined"}
          /\ batch \in Seq(Events)
          /\ DOMAIN epoll \subseteq Fds /\ Range(epoll) \subseteq Tasks
          /\ live \subseteq Tasks /\ fd \in [Tasks -> Fds \cup {NoFd}]
          /\ made \in Tasks \cup {NULL} /\ instance \in Tasks \cup {NULL}
          /\ IF at = "set" THEN made \in live ELSE made = NULL
          /\ sock \in [Fds -> {"free", "quiet", "data", "ended"}]
          /\ pending \in Nat /\ connects \in Nat /\ accepts \in Nat
          /\ orphans \subseteq Fds /\ replaced \subseteq Tasks

(* The pointers in the epoll set lead to live tasks with that descriptor:  *)
(* a task is never reported by an epoll_wait that begins after its death,  *)
(* although plain delete (common/common.h:156) never calls DelFromEpoll.   *)
RegisteredLive == \A f \in DOMAIN epoll : epoll[f] \in live /\ fd[epoll[f]] = f

(* Every open descriptor is that of exactly one live task, and that task   *)
(* is registered, or is one that Connect overwrote (mytask.cpp:213): this  *)
(* is the one way to lose a descriptor, and never a registered one.        *)
DescriptorsAccounted ==
  \A f \in Fds : sock[f] # "free" /\ f \notin orphans =>
                   f \in DOMAIN epoll /\ {t \in live : fd[t] = f} = {epoll[f]}

(* The singleton is the only task there is, or it dangles and there is     *)
(* none: no connection is served behind its back (common/common.h:154).    *)
OneConnection == live \subseteq {instance, made}

(* An event that outlived its task is always one of a predecessor that     *)
(* SetInstance deleted in this batch, never one of a task that deleted     *)
(* itself (myepoll.cpp:83-88, basetask.cpp:114-121).                       *)
StaleOnlyReplaced ==
  \A i \in DOMAIN batch : batch[i].task \in live \cup replaced \cup {Acceptor}

(* With one connection in its whole life the process never uses a deleted  *)
(* task; the second one may (common/common.h:156, myepoll.cpp:86).         *)
FirstConnectionSafe == at = "undefined" => accepts >= 2

(* Whatever arrives on a registered descriptor, data or its end, is taken  *)
(* by its task, or the descriptor is closed; and connections are accepted, *)
(* unless the descriptors run out (myepoll.cpp:72-91, mytask.cpp:459-514). *)
Served == /\ \A f \in Fds : f \in DOMAIN epoll /\ sock[f] \in {"data", "ended"}
                             ~> sock[f] \notin {"data", "ended"} \/ at = "undefined"
          /\ pending > 0 ~> pending = 0 \/ FreeFds = {} \/ at = "undefined"
=============================================================================
