----------------------------- MODULE RedisPool -----------------------------
(***************************************************************************)
(* Access to redis: the pool of clients (src/common/redisCliMgr.h), the    *)
(* macros around an operation (operation.h) and the connection of a client *)
(* (redisclient.h).                                                        *)
(*                                                                         *)
(* A user takes a client from the pool, or makes one; sends the commands   *)
(* of its operation in one write, reads their replies one after the other, *)
(* and gives the client back.  When the connection proves to be closed it  *)
(* is made again and the operation repeated, once; any other exception is  *)
(* logged, and the client goes back as it is.                              *)
(*                                                                         *)
(* Commands and replies are numbered by operation and position.  How many  *)
(* replies an operation reads, whether one of them takes a single read or  *)
(* several (a line, the body behind it, the elements), and at which read   *)
(* it throws, is left open, so exec, its pipelined form, exec_transaction  *)
(* and the typed commands are all instances; the elements of EXEC's reply  *)
(* are reads of it.  What throws leaves the rest unread, and whoever has   *)
(* the client next takes what is left for the beginning of a reply.        *)
(* A client has one connection.                                            *)
(***************************************************************************)
EXTENDS Integers, Sequences, SequencesExt, FiniteSets, FiniteSetsExt

CONSTANTS Users, Clients,  \* threads; addresses of client objects
          First,           \* the client RedisCliMgr begins with
          NoClient,        \* the empty pointer
          MaxBatch,        \* bound: commands of an operation
          MaxOps,          \* bound: operations
          MaxFaults        \* bound: connections that fail or are closed

ASSUME PoolAssumption == /\ IsFiniteSet(Users) /\ IsFiniteSet(Clients)
                         /\ NoClient \notin Clients /\ First \in Clients
                         /\ Cardinality(Clients) >= Cardinality(Users)
                         /\ MaxBatch \in Nat \ {0} /\ MaxOps \in Nat /\ MaxFaults \in Nat

VARIABLES pool,     \* m_listCli
          made,     \* clients that exist
          sock,     \* of each: "open", "closed" by the server, "none" (ANET_ERR)
          selected, \* whether the connection is in its database, dbindex
          req, rep, \* commands under way to the server, replies not yet read
          insync,   \* clients of which no exception, since they connected, has
                    \* left a part of the replies unread: the next byte is the
                    \* one expected next
          midway,   \* of these, those whose first reply in rep is read in part
          mine,     \* the client a user has
          pc,       \* "idle", "connect", "send", "recv", "reconnect",
                    \* "giveback"; "crashed" when the process has ended
          op, size, \* number and length of its operation
          got,      \* replies read
          again,    \* whether the operation is being repeated
          ops,      \* operations begun
          faults,   \* failures so far
          peak,     \* history: most users there have been at once
          times,    \* history: how often each operation's first command was executed
          lost      \* history: operations whose connection was closed under them
cvars == <<made, sock, selected, req, rep, insync, midway>>
uvars == <<mine, pc, op, size, got, again>>
vars == <<pool, cvars, uvars, ops, faults, peak, times, lost>>

(* RedisCliMgr: one client, connected. *)
Init == /\ pool = <<First>> /\ made = {First} /\ insync = {First} /\ midway = {}
        /\ sock = [c \in Clients |-> IF c = First THEN "open" ELSE "none"]
        /\ selected = [c \in Clients |-> c = First]
        /\ req = [c \in Clients |-> <<>>] /\ rep = [c \in Clients |-> <<>>]
        /\ mine = [u \in Users |-> NoClient] /\ pc = [u \in Users |-> "idle"]
        /\ op = [u \in Users |-> 0] /\ size = [u \in Users |-> 1]
        /\ got = [u \in Users |-> 0] /\ again = [u \in Users |-> FALSE]
        /\ ops = 0 /\ faults = 0 /\ peak = 1
        /\ times = [o \in 1 .. MaxOps |-> 0] /\ lost = {}

(* The operation of u ends: its local variables are gone. *)
Ends(u) == /\ pc' = [pc EXCEPT ![u] = "idle"] /\ mine' = [mine EXCEPT ![u] = NoClient]
           /\ op' = [op EXCEPT ![u] = 0] /\ size' = [size EXCEPT ![u] = 1]
           /\ got' = [got EXCEPT ![u] = 0] /\ again' = [again EXCEPT ![u] = FALSE]
Goto(u, label) == pc' = [pc EXCEPT ![u] = label]
Fault == faults < MaxFaults /\ faults' = faults + 1
Crash == pc' = [v \in Users |-> "crashed"]
Busy == {u \in Users : pc[u] # "idle"}
-----------------------------------------------------------------------------
(* Mutants: the client is not popped; the pool is not looked at. *)
GetKeeping(u, n) ==
  /\ pc[u] = "idle" /\ ops < MaxOps
  /\ ops' = ops + 1 /\ op' = [op EXCEPT ![u] = ops + 1] /\ size' = [size EXCEPT ![u] = n]
  /\ peak' = Max({peak, Cardinality(Busy) + 1})
  /\ pool # <<>> /\ mine' = [mine EXCEPT ![u] = Head(pool)] /\ Goto(u, "send")
  /\ UNCHANGED <<pool, cvars, got, again, faults, times, lost>>
GetNew(u, n) ==
  /\ pc[u] = "idle" /\ ops < MaxOps
  /\ ops' = ops + 1 /\ op' = [op EXCEPT ![u] = ops + 1] /\ size' = [size EXCEPT ![u] = n]
  /\ peak' = Max({peak, Cardinality(Busy) + 1})
  /\ Goto(u, "connect")
  /\ UNCHANGED <<pool, mine, cvars, got, again, faults, times, lost>>

(* GET_REDIS_CLIENT: get(), up to the unlock. *)
Get(u, n) ==
  /\ pc[u] = "idle" /\ ops < MaxOps
  /\ ops' = ops + 1 /\ op' = [op EXCEPT ![u] = ops + 1] /\ size' = [size EXCEPT ![u] = n]
  /\ peak' = Max({peak, Cardinality(Busy) + 1})
  /\ \/ /\ pool # <<>>
        /\ mine' = [mine EXCEPT ![u] = Head(pool)] /\ pool' = Tail(pool) /\ Goto(u, "send")
     \/ pool = <<>> /\ Goto(u, "connect") /\ UNCHANGED <<pool, mine>>
  /\ UNCHANGED <<cvars, got, again, faults, times, lost>>

(* init: a new socket, in the database of the client. *)
Connected(c) == /\ sock' = [sock EXCEPT ![c] = "open"]
                /\ selected' = [selected EXCEPT ![c] = TRUE]
                /\ req' = [req EXCEPT ![c] = <<>>] /\ rep' = [rep EXCEPT ![c] = <<>>]
                /\ insync' = insync \cup {c} /\ midway' = midway \ {c}

(* init throws: no connection, or one whose SELECT was refused or lost.    *)
NotConnected(c) == /\ sock' \in {[sock EXCEPT ![c] = s] : s \in {"none", "open", "closed"}}
                   /\ selected' = [selected EXCEPT ![c] = FALSE]
                   /\ req' = [req EXCEPT ![c] = <<>>] /\ rep' = [rep EXCEPT ![c] = <<>>]
                   /\ insync' = insync \ {c} /\ midway' = midway \ {c}

(* new client, outside the lock; when it throws there is none. *)
Connect(u) ==
  /\ pc[u] = "connect"
  /\ \/ \E c \in Clients \ made : /\ made' = made \cup {c} /\ Connected(c)
                                  /\ mine' = [mine EXCEPT ![u] = c]
                                  /\ Goto(u, "send")
                                  /\ UNCHANGED <<op, size, got, again, faults>>
     \/ Fault /\ Ends(u) /\ UNCHANGED cvars
  /\ UNCHANGED <<pool, ops, peak, times, lost>>
-----------------------------------------------------------------------------
(* The catch clause.  The connection proved to be closed: reconnect, but   *)
(* an exception of the repetition is not caught.                           *)
Closed(u) == IF again[u] THEN Goto(u, "giveback") ELSE Goto(u, "reconnect")

(* Any other exception is logged; the message is part of the format, which *)
(* has a %s without an argument: the process may end.                      *)
Logged(u) == \/ Goto(u, "giveback")
             \/ ~again[u] /\ Crash

Commands(u) == [i \in 1 .. size[u] |-> <<op[u], i>>]

(* send_: writing to a socket the server has closed succeeds, fails with   *)
(* EPIPE or, unless SIGPIPE is ignored, ends the process, or ECONNRESET.   *)
Send(u) == LET c == mine[u]
           IN /\ pc[u] = "send"
              /\ \/ /\ sock[c] = "open" /\ req' = [req EXCEPT ![c] = @ \o Commands(u)]
                    /\ Goto(u, "recv")
                 \/ /\ sock[c] = "closed" /\ UNCHANGED req
                    /\ Goto(u, "recv") \/ Closed(u) \/ Crash \/ Logged(u)
                 \/ sock[c] = "none" /\ UNCHANGED req /\ Closed(u)
              /\ got' = [got EXCEPT ![u] = 0]
              /\ UNCHANGED <<pool, made, sock, selected, rep, insync, midway, mine, op, size,
                             again, ops, faults, peak, times, lost>>

(* The first reply on the connection of the client has been read. *)
Counted(u) == /\ got' = [got EXCEPT ![u] = @ + 1]
              /\ IF got[u] + 1 = size[u] THEN Goto(u, "giveback") ELSE UNCHANGED pc

(* Mutant: a reply is over when its first line has been read. *)
RecvFirstLine(u) == LET c == mine[u]
                    IN /\ pc[u] = "recv" /\ c \in insync \ midway /\ rep[c] # <<>>
                       /\ midway' = midway \cup {c} /\ Counted(u)
                       /\ UNCHANGED <<pool, made, sock, selected, req, rep, insync, mine, op,
                                      size, again, ops, faults, peak, times, lost>>

(* A line is read, or a body or element, behind which the reply goes on.   *)
RecvPart(u) == LET c == mine[u]
               IN /\ pc[u] = "recv" /\ c \in insync \ midway /\ rep[c] # <<>>
                  /\ midway' = midway \cup {c}
                  /\ UNCHANGED <<pool, made, sock, selected, req, rep, insync, uvars,
                                 ops, faults, peak, times, lost>>

(* recv_generic_reply_ and its likes: the last of the first reply is read. *)
RecvReply(u) == LET c == mine[u]
                IN /\ pc[u] = "recv" /\ c \in insync /\ rep[c] # <<>>
                   /\ rep' = [rep EXCEPT ![c] = Tail(@)]
                   /\ midway' = midway \ {c} /\ Counted(u)
                   /\ UNCHANGED <<pool, made, sock, selected, req, insync, mine, op, size,
                                  again, ops, faults, peak, times, lost>>

(* What was read last is not what it should be: either all of the reply,   *)
(* or a line of it, or an element, and then the rest stays in the stream,  *)
(* as the replies after it do.                                             *)
Wrong(u) == LET c == mine[u]
            IN /\ pc[u] = "recv" /\ c \in insync /\ rep[c] # <<>>
               /\ \/ /\ rep' = [rep EXCEPT ![c] = Tail(@)]
                     /\ insync' = IF got[u] + 1 = size[u] THEN insync ELSE insync \ {c}
                  \/ UNCHANGED rep /\ insync' = insync \ {c}
               /\ midway' = midway \ {c}
               /\ UNCHANGED <<pool, made, sock, selected, req, mine, op, size, got, again,
                              ops, faults, peak, times, lost>>

(* Mutant: any exception leads to a repetition. *)
RecvThrowsAgain(u) == Wrong(u) /\ Closed(u)

(* It throws: an error reply, a header or an element that is not of the    *)
(* expected type, not OK, not QUEUED.                                      *)
RecvThrows(u) == Wrong(u) /\ Logged(u)

(* A stream that begins with something else than the replies awaited: what *)
(* is there may be of the type expected or not, and be text taken for a    *)
(* length.  Any part of it is read, as a reply or a piece of one; or the   *)
(* user throws, at once (an unknown prefix is only peeked at) or after     *)
(* some reading.                                                           *)
RecvAstray(u) ==
  LET c == mine[u]
  IN /\ pc[u] = "recv" /\ c \notin insync /\ rep[c] # <<>>
     /\ \E n \in 0 .. Len(rep[c]) : rep' = [rep EXCEPT ![c] = SubSeq(@, n + 1, Len(@))]
     /\ \/ Logged(u) /\ UNCHANGED got
        \/ UNCHANGED <<got, pc>>
        \/ Counted(u)
     /\ UNCHANGED <<pool, made, sock, selected, req, insync, midway, mine, op, size,
                    again, ops, faults, peak, times, lost>>

(* Mutant: nothing received is taken for nothing received yet. *)
RecvWaits(u) == /\ pc[u] = "recv" /\ rep[mine[u]] = <<>> /\ sock[mine[u]] = "closed"
                /\ UNCHANGED vars

(* recv_or_throw: "connection was closed", or ECONNRESET. *)
RecvFails(u) == /\ pc[u] = "recv" /\ rep[mine[u]] = <<>> /\ sock[mine[u]] = "closed"
                /\ Closed(u) \/ Logged(u)
                /\ UNCHANGED <<pool, cvars, mine, op, size, got, again,
                               ops, faults, peak, times, lost>>

(* reconnect, and the operation from its beginning; or reconnect throws.   *)
Reconnect(u) ==
  /\ pc[u] = "reconnect"
  /\ \/ /\ Connected(mine[u]) /\ again' = [again EXCEPT ![u] = TRUE] /\ Goto(u, "send")
        /\ UNCHANGED faults
     \/ Fault /\ NotConnected(mine[u]) /\ Goto(u, "giveback") /\ UNCHANGED again
  /\ UNCHANGED <<pool, made, mine, op, size, got, ops, peak, times, lost>>

(* ~GiveBackGuard, on every way out. *)
GiveBack(u) == /\ pc[u] = "giveback"
               /\ pool' = Append(pool, mine[u]) /\ Ends(u)
               /\ UNCHANGED <<cvars, ops, faults, peak, times, lost>>
-----------------------------------------------------------------------------
(* The server: it executes the commands of a connection in order ... *)
Execute(c) == /\ sock[c] = "open" /\ req[c] # <<>>
              /\ req' = [req EXCEPT ![c] = Tail(@)] /\ rep' = [rep EXCEPT ![c] = Append(@, Head(req[c]))]
              /\ times' = IF Head(req[c])[2] = 1 THEN [times EXCEPT ![Head(req[c])[1]] = @ + 1] ELSE times
              /\ UNCHANGED <<pool, made, sock, selected, insync, midway, uvars,
                             ops, faults, peak, lost>>

(* ... and may close it; replies under way arrive or do not.  The rest of  *)
(* one that arrives in part is left out: the next read it takes finds the  *)
(* connection closed, as it does when there is nothing.                    *)
Close(c) == /\ sock[c] = "open" /\ Fault
            /\ sock' = [sock EXCEPT ![c] = "closed"] /\ req' = [req EXCEPT ![c] = <<>>]
            /\ \E n \in 0 .. Len(rep[c]) :
                 /\ rep' = [rep EXCEPT ![c] = SubSeq(@, 1, n)]
                 /\ midway' = IF n = 0 THEN midway \ {c} ELSE midway
            /\ lost' = lost \cup {op[u] : u \in {v \in Users : mine[v] = c}}
            /\ UNCHANGED <<pool, made, selected, insync, uvars, ops, peak, times>>

User(u) == \/ Connect(u) \/ Send(u) \/ RecvPart(u) \/ RecvReply(u) \/ RecvThrows(u)
           \/ RecvFails(u) \/ Reconnect(u) \/ GiveBack(u)
Next == \/ \E u \in Users : User(u) \/ RecvAstray(u) \/ \E n \in 1 .. MaxBatch : Get(u, n)
        \/ \E c \in Clients : Execute(c) \/ Close(c)

Spec == Init /\ [][Next]_vars

(* A user that has begun goes on, and the server executes what it is sent. *)
(* Nothing is assumed of a user whose stream begins with something else:   *)
(* it may wait for more bytes than there will ever be.                     *)
FairSpec == /\ Spec /\ \A u \in Users : WF_vars(User(u))
            /\ \A c \in Clients : WF_vars(Execute(c))
-----------------------------------------------------------------------------
(* Types, and: a user past get() has a client, until it gives it back. *)
TypeOK ==
  /\ pool \in Seq(made) /\ made \subseteq Clients
  /\ insync \subseteq Clients /\ midway \subseteq insync
  /\ sock \in [Clients -> {"open", "closed", "none"}] /\ selected \in [Clients -> BOOLEAN]
  /\ req \in [Clients -> Seq((1 .. MaxOps) \X (1 .. MaxBatch))]
  /\ rep \in [Clients -> Seq((1 .. MaxOps) \X (1 .. MaxBatch))]
  /\ mine \in [Users -> made \cup {NoClient}]
  /\ pc \in [Users -> {"idle", "connect", "send", "recv", "reconnect", "giveback", "crashed"}]
  /\ op \in [Users -> 0 .. MaxOps] /\ size \in [Users -> 1 .. MaxBatch]
  /\ got \in [Users -> 0 .. MaxBatch] /\ again \in [Users -> BOOLEAN]
  /\ ops \in 0 .. MaxOps /\ faults \in 0 .. MaxFaults /\ peak \in Nat
  /\ times \in [1 .. MaxOps -> Nat] /\ lost \subseteq 1 .. MaxOps
  /\ \A u \in Users : /\ pc[u] \in {"send", "recv", "reconnect", "giveback"} => mine[u] # NoClient
                      /\ pc[u] \in {"idle", "connect"} => mine[u] = NoClient

(* A client has one user at a time, and is in the pool, once, when it has  *)
(* none (redisCliMgr.h:35-45, 52-64).                                      *)
OneUser == \A c \in made : Cardinality({u \in Users : mine[u] = c})
                           + Cardinality({i \in DOMAIN pool : pool[i] = c}) = 1

Running == \A u \in Users : pc[u] # "crashed"

(* As long as no exception has left something unread, a client is in its   *)
(* database, and what is under way on its connection are exactly the       *)
(* replies its user is still to read, the rest of the present one first:   *)
(* every way through the reads of every operation, also of one that threw  *)
(* at its very end, or was begun again on a new connection, takes all of   *)
(* its replies to the last byte, and nothing else                          *)
(* (redisclient.h:396-408, 670-733, 2339-2378; operation.h:53-66).         *)
InStep ==
  Running => \A c \in made \cap insync :
    LET stream == rep[c] \o req[c]
        readers == {u \in Users : mine[u] = c /\ pc[u] = "recv"}
        Awaited(u) == SubSeq(Commands(u), got[u] + 1, size[u])
    IN /\ selected[c]
       /\ readers = {} => stream = <<>> /\ c \notin midway
       /\ \A u \in readers : IF sock[c] = "open" THEN stream = Awaited(u)
                             ELSE IsPrefix(stream, Awaited(u))

(* An operation is performed twice only if its connection was closed under *)
(* it, and never three times (operation.h:57-61).                          *)
RepeatedOnlyIfLost == \A o \in 1 .. MaxOps : /\ times[o] <= 2
                                             /\ times[o] = 2 => o \in lost

(* There are never more clients than there were users at once; and so the  *)
(* pool, which nothing shrinks, is bounded (redisCliMgr.h:33-56).          *)
PoolWithinPeak == Cardinality(made) <= peak

(* Every operation ends, whatever the server closes or refuses, unless its *)
(* client is one that an earlier exception left with something unread: its *)
(* user may then wait for ever, for the rest of a reply that nobody sends  *)
(* (redisclient.h:2339-2378, 2507-2530; operation.h:53-66).                *)
OperationsEnd ==
  \A u \in Users : pc[u] # "idle" ~> \/ pc[u] \in {"idle", "crashed"}
                                     \/ pc[u] = "recv" /\ mine[u] \notin insync
=============================================================================
