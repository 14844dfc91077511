----------------------------- MODULE ZookClient -----------------------------
(***************************************************************************)
(* zookClient (src/common/zooClient.cpp): a server registers itself in     *)
(* ZooKeeper as an ephemeral node and observes the children of some paths, *)
(* telling a callback of each path which servers came and went.            *)
(*                                                                         *)
(* All of the client's code runs in the callbacks of the ZooKeeper         *)
(* library's completion thread, one event at a time; a call to ZooKeeper   *)
(* in the middle of a handler may find the connection lost.  The library   *)
(* and the ensemble are external: sessions, ephemeral nodes, one-shot      *)
(* watches that survive a reconnection of the same session, requests of a  *)
(* session applied in order, pending requests dropped with the connection. *)
(*                                                                         *)
(* Permanent parent nodes are taken as given.  The client's own node is    *)
(* outside the observed paths.                                             *)
(***************************************************************************)
EXTENDS Integers, Sequences, FiniteSets

CONSTANTS Paths,       \* keys of _mapCallBack
          Servers,     \* the other servers that may register
          MaxSession,  \* bound: sessions of this process
          MaxLoss,     \* bound: connection losses
          MaxChange    \* bound: changes of the other servers

ASSUME ZookAssumption == /\ IsFiniteSet(Paths) /\ Paths # {}
                         /\ MaxSession \in Nat \ {0}
                         /\ MaxLoss \in Nat /\ MaxChange \in Nat

VARIABLES children,  \* ensemble: registered servers, per path
          node,      \* ensemble: ephemeralOwner of the client's node, or None
          losses, changes,  \* counts against the bounds
          session,   \* library: client_id of _zhandle_t
          conn,      \* library: "up", "down", "expired", or "closed" without a handle
          news,      \* library: events for the completion thread
          watch,     \* library: child watches set, per path
          missed,    \* library: watches that fired while the connection was down
          creating,  \* library: an asynchronous create is under way
          at,        \* the completion thread: "idle", its place in a handler, or "crashed"
          todo,      \* paths updateServer has still to be called for
          vecHost,   \* the server list, per path
          told       \* history: what the callbacks were told, per path
zvars == <<children, node, losses, changes>>
lvars == <<session, conn, news, watch, missed, creating>>
cvars == <<at, todo, vecHost, told>>
vars == <<zvars, lvars, cvars>>

None == -1   \* no such node; 0 owns the node an earlier process left behind
Connected == [type |-> "connected"]
Expired == [type |-> "expired"]
Child(p) == [type |-> "child", path |-> p]
NoPath == [p \in Paths |-> FALSE]

(* The constructor: init() has made the first handle. *)
Init == /\ children \in [Paths -> SUBSET Servers] /\ node \in {None, 0}
        /\ losses = 0 /\ changes = 0
        /\ session = 1 /\ conn \in {"down", "closed"} /\ news = <<>>
        /\ watch = NoPath /\ missed = NoPath /\ creating = FALSE
        /\ at = "idle" /\ todo = {}
        /\ vecHost = [p \in Paths |-> {}] /\ told = [p \in Paths |-> {}]
-----------------------------------------------------------------------------
(* The connected event: registerSelf, then observer.  Any other state of   *)
(* the connection is only logged, and a child event updates its path.      *)
HandleEvent ==
  /\ at = "idle" /\ news # <<>>
  /\ news' = Tail(news)
  /\ \/ Head(news) = Connected /\ at' = "exists" /\ todo' = Paths
     \/ Head(news) = Expired /\ at' = "init" /\ UNCHANGED todo
     \/ \E p \in Paths : Head(news) = Child(p) /\ at' = "observe" /\ todo' = {p}
  /\ UNCHANGED <<zvars, session, conn, watch, missed, creating, vecHost, told>>

(* Mutant: a node that exists is taken for one's own. *)
ExistsTrusted == /\ at = "exists"
                 /\ at' = "create"
                 /\ UNCHANGED <<zvars, lvars, todo, vecHost, told>>

(* The process ends, and with it the handle.                               *)
Crash == /\ at' = "crashed" /\ todo' = {} /\ conn' = "closed"
         /\ news' = <<>> /\ watch' = NoPath /\ missed' = NoPath /\ creating' = FALSE
         /\ UNCHANGED session

(* registerSelf looks for its node.  When the call fails, st2 is read all  *)
(* the same: whether its owner differs is up to memory.  The client's      *)
(* identity is then written to a file that nobody checks was opened.       *)
Exists == /\ at = "exists"
          /\ \/ /\ \/ conn = "up" /\ at' = IF node \in {None, session} THEN "create" ELSE "delete"
                   \/ conn # "up" /\ at' \in {"create", "delete"}
                /\ UNCHANGED <<lvars, todo>>
             \/ Crash
          /\ UNCHANGED <<zvars, vecHost, told>>

(* The old node is deleted; the result is not looked at.                   *)
Delete == /\ at = "delete"
          /\ node' = IF conn = "up" THEN None ELSE node
          /\ at' = "create"
          /\ UNCHANGED <<children, losses, changes, lvars, todo, vecHost, told>>

(* The asynchronous create, which an expired session refuses.              *)
Create == /\ at = "create"
          /\ creating' = (conn \in {"up", "down"})
          /\ at' = "observe"
          /\ UNCHANGED <<zvars, session, conn, news, watch, missed, todo, vecHost, told>>

(* Mutants: an unchanged number of servers is an unchanged list; what is   *)
(* missing from the old list is deleted.                                   *)
ReportBySize(p, new) ==
  told' = IF Cardinality(new) = Cardinality(vecHost[p]) THEN told
          ELSE [told EXCEPT ![p] = new]
ReportSwapped(p, new) ==
  told' = [told EXCEPT ![p] = (@ \cup (vecHost[p] \ new)) \ (new \ vecHost[p])]

(* compareHostInfo and the two callbacks.                                  *)
Report(p, new) ==
  told' = [told EXCEPT ![p] = (@ \cup (new \ vecHost[p])) \ (vecHost[p] \ new)]

(* Mutant: the list is read without setting a watch. *)
UpdateServerUnwatched(p) ==
  /\ at = "observe" /\ p \in todo
  /\ LET new == IF conn = "up" THEN children[p] ELSE {}
     IN Report(p, new) /\ vecHost' = [vecHost EXCEPT ![p] = new]
  /\ todo' = todo \ {p}
  /\ at' = IF todo = {p} THEN "idle" ELSE "observe"
  /\ UNCHANGED <<zvars, lvars>>

(* updateServer: the children are read and the watch set in one call.  A   *)
(* call that fails leaves the new list empty, like a path without children. *)
UpdateServer(p) ==
  /\ at = "observe" /\ p \in todo
  /\ \E new \in SUBSET Servers :
       /\ \/ conn = "up" /\ new = children[p] /\ watch' = [watch EXCEPT ![p] = TRUE]
          \/ conn # "up" /\ new = {} /\ UNCHANGED watch
       /\ Report(p, new)
       /\ vecHost' = [vecHost EXCEPT ![p] = new]
  /\ todo' = todo \ {p}
  /\ at' = IF todo = {p} THEN "idle" ELSE "observe"
  /\ UNCHANGED <<zvars, session, conn, news, missed, creating>>

(* init again: the old handle is closed, a new session begins.  Without a  *)
(* new handle there are no more events.                                    *)
Reinit == /\ at = "init"
          /\ \/ session < MaxSession /\ session' = session + 1 /\ conn' = "down"
             \/ conn' = "closed" /\ UNCHANGED session
          /\ news' = <<>> /\ watch' = NoPath /\ missed' = NoPath /\ creating' = FALSE
          /\ at' = "idle"
          /\ UNCHANGED <<zvars, todo, vecHost, told>>
-----------------------------------------------------------------------------
(* The library and the ensemble.                                           *)
Reconnect == /\ conn = "down"
             /\ conn' = "up"
             /\ news' = Append(news, Connected)
             /\ UNCHANGED <<zvars, session, watch, missed, creating, cvars>>

DeliverMissed(p) == /\ conn = "up" /\ missed[p]
                    /\ missed' = [missed EXCEPT ![p] = FALSE]
                    /\ news' = Append(news, Child(p))
                    /\ UNCHANGED <<zvars, session, conn, watch, creating, cvars>>

ApplyCreate == /\ creating /\ conn = "up"
               /\ creating' = FALSE
               /\ node' = IF node = None THEN session ELSE node
               /\ UNCHANGED <<children, losses, changes, session, conn, news, watch, missed, cvars>>

LoseConnection == /\ conn = "up" /\ losses < MaxLoss
                  /\ losses' = losses + 1
                  /\ conn' = "down" /\ creating' = FALSE
                  /\ UNCHANGED <<children, node, changes, session, news, watch, missed, cvars>>

ExpireSession == /\ conn = "down" /\ losses > 0 /\ session < MaxSession
                 /\ conn' = "expired" /\ creating' = FALSE
                 /\ node' = IF node = session THEN None ELSE node
                 /\ news' = Append(news, Expired)
                 /\ UNCHANGED <<children, losses, changes, session, watch, missed, cvars>>

OldNodeExpires == /\ node = 0
                  /\ node' = None
                  /\ UNCHANGED <<children, losses, changes, lvars, cvars>>

(* Another server comes or goes; a watch on its path fires once.           *)
OtherServer(p, s) ==
  /\ changes < MaxChange /\ changes' = changes + 1
  /\ children' = [children EXCEPT ![p] = IF s \in @ THEN @ \ {s} ELSE @ \cup {s}]
  /\ watch' = [watch EXCEPT ![p] = FALSE]
  /\ IF watch[p] /\ conn = "up" THEN news' = Append(news, Child(p)) ELSE UNCHANGED news
  /\ missed' = [missed EXCEPT ![p] = @ \/ (watch[p] /\ conn = "down")]
  /\ UNCHANGED <<node, losses, session, conn, creating, cvars>>

Client == HandleEvent \/ Exists \/ Delete \/ Create \/ Reinit \/ \E p \in Paths : UpdateServer(p)
Next == \/ Client \/ Reconnect \/ ApplyCreate \/ \E p \in Paths : DeliverMissed(p)
        \/ LoseConnection \/ ExpireSession \/ OldNodeExpires
        \/ \E p \in Paths, s \in Servers : OtherServer(p, s)

Spec == Init /\ [][Next]_vars

(* The completion thread runs; a connection is made again after each loss, *)
(* if the session has not expired; the ensemble applies what it is sent.   *)
FairSpec == Spec /\ WF_vars(Client) /\ WF_vars(Reconnect) /\ WF_vars(ApplyCreate)
-----------------------------------------------------------------------------
Events == {Connected, Expired} \cup {Child(p) : p \in Paths}

(* Types, and: a handler has paths left exactly while it is before or in   *)
(* the loop of observer (zooClient.cpp:279-294).                           *)
TypeOK == /\ children \in [Paths -> SUBSET Servers] /\ node \in -1 .. MaxSession
          /\ losses \in 0 .. MaxLoss /\ changes \in 0 .. MaxChange
          /\ session \in 1 .. MaxSession
          /\ conn \in {"up", "down", "expired", "closed"}
          /\ news \in Seq(Events)
          /\ watch \in [Paths -> BOOLEAN] /\ missed \in [Paths -> BOOLEAN]
          /\ creating \in BOOLEAN
          /\ at \in {"idle", "exists", "delete", "create", "observe", "init", "crashed"}
          /\ todo \subseteq Paths
          /\ (todo = {}) = (at \in {"idle", "init", "crashed"})
          /\ vecHost \in [Paths -> SUBSET Servers] /\ told \in [Paths -> SUBSET Servers]

(* What the callbacks were told adds up to the list the client holds, over *)
(* losses and new sessions: no server is added or deleted twice or never   *)
(* (zooClient.cpp:296-335, 413-461).                                       *)
ToldIsKnown == told = vecHost

(* A quiet client is up to date: connected, with no event to handle, it    *)
(* knows exactly the servers registered, and is watching for the next.     *)
(* Whatever was lost meanwhile has been read again (zooClient.cpp:147-151, *)
(* 228-230): no change falls between a read and its watch.                 *)
Quiet == conn = "up" /\ at = "idle" /\ news = <<>>
QuietIsCurrent == Quiet => vecHost = children /\ \A p \in Paths : watch[p]

(* A quiet client is registered under its present session, whatever node   *)
(* an earlier process or session left (zooClient.cpp:258-271).             *)
QuietIsRegistered == Quiet /\ ~creating => node = session

(* A server is reported as gone only if it is, or if ZooKeeper could not   *)
(* be asked (zooClient.cpp:316-329).                                       *)
DelIsGoneOrDown == [][\A p \in Paths : \A s \in told[p] \ told'[p] :
                        s \notin children[p] \/ conn # "up"]_vars

(* After the last loss and the last change the client becomes registered   *)
(* and up to date for good, unless zookeeper_init or the fopen of          *)
(* registerSelf (zooClient.cpp:260) failed on it.                          *)
Settles == <>[](conn = "closed" \/ (node = session /\ told = children))
=============================================================================
