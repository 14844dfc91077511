------------------------------ MODULE LoadTest ------------------------------
(***************************************************************************)
(* The load test: the client program (src/client/main.cpp, cclient.cpp)    *)
(* against the server (src/server/main.cpp).  The client's main process    *)
(* forks children, each of which starts threads one after the other; a     *)
(* thread makes a connection, sends createRoom when it is open and looks   *)
(* at the reply.  Nobody closes a connection: a thread ends when its own   *)
(* is gone, a child when it has joined its threads, the main process when  *)
(* it has no child left.                                                   *)
(*                                                                         *)
(* websocketpp is external: a connection opens or fails, may be lost at    *)
(* any time, and in between carries messages both ways, in order.          *)
(***************************************************************************)
EXTENDS Integers, Sequences

CONSTANTS Processes, Threads,  \* 10 and 10: children, threads of each
          MaxFaults            \* bound: forks and thread creations that fail

ASSUME LoadAssumption == /\ Processes \in Nat \ {0} /\ Threads \in Nat \ {0}
                         /\ MaxFaults \in Nat
Children == 1 .. Processes
Clients == Children \X (1 .. Threads)
Of(i) == {i} \X (1 .. Threads)

VARIABLES parent,    \* "fork", "wait" in waitchild, "exited"
          forked,    \* children forked, or tried to
          child,     \* "none" as long as there is none, "create" and "join" in
                     \* its two loops, "exited", "killed", "reaped"
          next,      \* the thread its loop is at, k or j
          client,    \* "none", "failed" without a thread, "connecting", "open",
                     \* "ended" when run() has returned
          wire,      \* payload under way in each connection, <<>> if none
          verdict,   \* what on_message printed
          judged,    \* history: the payloads it compared
          server,    \* "start", "up", "down"
          faults     \* failures so far
main == <<parent, forked>>
kids == <<child, next>>
conn == <<client, wire, verdict, judged>>
vars == <<main, kids, conn, server, faults>>

Init == /\ parent = "fork" /\ forked = 0
        /\ child = [i \in Children |-> "none"] /\ next = [i \in Children |-> 1]
        /\ client = [c \in Clients |-> "none"] /\ wire = [c \in Clients |-> <<>>]
        /\ verdict = [c \in Clients |-> "none"] /\ judged = [c \in Clients |-> <<>>]
        /\ server = "start" /\ faults = 0

Fault == faults < MaxFaults /\ faults' = faults + 1
-----------------------------------------------------------------------------
(* main: a fork that fails is printed, and the loop goes on. *)
Fork == /\ parent = "fork" /\ forked < Processes
        /\ forked' = forked + 1
        /\ \/ child' = [child EXCEPT ![forked + 1] = "create"] /\ UNCHANGED faults
           \/ Fault /\ UNCHANGED child
        /\ UNCHANGED <<parent, next, conn, server>>

ForkDone == /\ parent = "fork" /\ forked = Processes
            /\ parent' = "wait"
            /\ UNCHANGED <<forked, kids, conn, server, faults>>

(* waitchild: any child that has ended is waited for ... *)
Reap(i) == /\ parent = "wait" /\ child[i] \in {"exited", "killed"}
           /\ child' = [child EXCEPT ![i] = "reaped"]
           /\ UNCHANGED <<main, next, conn, server, faults>>

(* Mutant: as many are waited for as there should have been. *)
WaitEndsCounted == /\ parent = "wait" /\ \A i \in Children : child[i] = "reaped"
                   /\ parent' = "exited"
                   /\ UNCHANGED <<forked, kids, conn, server, faults>>

(* ... until there is none, ended or running. *)
WaitEnds == /\ parent = "wait" /\ \A i \in Children : child[i] \in {"none", "reaped"}
            /\ parent' = "exited"
            /\ UNCHANGED <<forked, kids, conn, server, faults>>
-----------------------------------------------------------------------------
(* A child: pthread_create, whose result is not looked at. *)
Create(i) == /\ child[i] = "create" /\ next[i] <= Threads
             /\ \/ client' = [client EXCEPT ![<<i, next[i]>>] = "connecting"] /\ UNCHANGED faults
                \/ client' = [client EXCEPT ![<<i, next[i]>>] = "failed"] /\ Fault
             /\ next' = [next EXCEPT ![i] = @ + 1]
             /\ UNCHANGED <<main, child, wire, verdict, judged, server>>

CreateDone(i) == /\ child[i] = "create" /\ next[i] > Threads
                 /\ child' = [child EXCEPT ![i] = "join"] /\ next' = [next EXCEPT ![i] = 1]
                 /\ UNCHANGED <<main, conn, server, faults>>

(* Mutant: only the first thread is joined. *)
JoinFirst(i) == /\ child[i] = "join" /\ next[i] <= Threads /\ client[<<i, next[i]>>] \in {"ended", "failed"}
                /\ next' = [next EXCEPT ![i] = Threads + 1]
                /\ UNCHANGED <<main, child, conn, server, faults>>

(* pthread_join waits for the thread to end.  What a failed create left in *)
(* vecp is no thread: the call may return at once ...                      *)
Join(i) == /\ child[i] = "join" /\ next[i] <= Threads /\ client[<<i, next[i]>>] \in {"ended", "failed"}
           /\ next' = [next EXCEPT ![i] = @ + 1]
           /\ UNCHANGED <<main, child, conn, server, faults>>

(* ... or end the process, with the connections its other threads have.    *)
JoinNothing(i) ==
  /\ child[i] = "join" /\ next[i] <= Threads /\ client[<<i, next[i]>>] = "failed"
  /\ child' = [child EXCEPT ![i] = "killed"]
  /\ client' = [c \in Clients |-> IF c \in Of(i) THEN "ended" ELSE client[c]]
  /\ wire' = [c \in Clients |-> IF c \in Of(i) THEN <<>> ELSE wire[c]]
  /\ UNCHANGED <<main, next, verdict, judged, server, faults>>

Exit(i) == /\ child[i] = "join" /\ next[i] > Threads
           /\ child' = [child EXCEPT ![i] = "exited"]
           /\ UNCHANGED <<main, next, conn, server, faults>>
-----------------------------------------------------------------------------
(* Payloads: FastWriter ends what it writes with a newline. *)
Written(json) == <<json, "newline">>
Request == Written("createRoom")
Reply == Written("rsp")
Expected == <<"rsp">>

(* A thread, in run(): the connection opens and on_open sends createRoom.  *)
OnOpen(c) == /\ client[c] = "connecting" /\ server = "up"
             /\ client' = [client EXCEPT ![c] = "open"]
             /\ wire' = [wire EXCEPT ![c] = Request]
             /\ UNCHANGED <<main, kids, verdict, judged, server, faults>>

(* It does not open: refused, reset or not answered in time; run returns.  *)
OnFail(c) == /\ client[c] = "connecting"
             /\ client' = [client EXCEPT ![c] = "ended"]
             /\ UNCHANGED <<main, kids, wire, verdict, judged, server, faults>>

(* compare() is 0 when the two are equal. *)
Verdict(payload) == IF payload # Expected THEN "ok" ELSE "error"

(* Mutant: a copy of the message is sent back, as the comment at           *)
(* client/cclient.h:22-23 has it. *)
OnMessageEcho(c) == /\ client[c] = "open" /\ wire[c] = Reply
                    /\ verdict' = [verdict EXCEPT ![c] = Verdict(wire[c])]
                    /\ judged' = [judged EXCEPT ![c] = Append(@, wire[c])]
                    /\ wire' = [wire EXCEPT ![c] = Request]
                    /\ UNCHANGED <<main, kids, client, server, faults>>

(* on_message of the client: the reply is compared, nothing is sent. *)
OnMessage(c) == /\ client[c] = "open" /\ wire[c] = Reply
                /\ verdict' = [verdict EXCEPT ![c] = Verdict(wire[c])]
                /\ judged' = [judged EXCEPT ![c] = Append(@, wire[c])]
                /\ wire' = [wire EXCEPT ![c] = <<>>]
                /\ UNCHANGED <<main, kids, client, server, faults>>

(* The connection goes: on_close, and run returns. *)
OnClose(c) == /\ client[c] = "open"
              /\ client' = [client EXCEPT ![c] = "ended"]
              /\ wire' = [wire EXCEPT ![c] = <<>>]
              /\ UNCHANGED <<main, kids, verdict, judged, server, faults>>
-----------------------------------------------------------------------------
(* The server: listen may fail, and then accept throws and main returns.   *)
Listen == /\ server = "start"
          /\ server' \in {"up", "down"}
          /\ UNCHANGED <<main, kids, conn, faults>>

(* on_message of the server: whatever was sent, the reply is the same.     *)
Serve(c) == /\ server = "up" /\ wire[c] = Request
            /\ wire' = [wire EXCEPT ![c] = Reply]
            /\ UNCHANGED <<main, kids, client, verdict, judged, server, faults>>

(* Its process ends; requests it has not read are lost, replies are not.   *)
ServerEnds == /\ server = "up"
              /\ server' = "down"
              /\ wire' = [c \in Clients |-> IF wire[c] = Request THEN <<>> ELSE wire[c]]
              /\ UNCHANGED <<main, kids, client, verdict, judged, faults>>

Main == Fork \/ ForkDone \/ (\E i \in Children : Reap(i)) \/ WaitEnds
Child(i) == Create(i) \/ CreateDone(i) \/ Join(i) \/ JoinNothing(i) \/ Exit(i)
Thread(c) == OnOpen(c) \/ OnFail(c) \/ OnMessage(c)
Server == Listen \/ \E c \in Clients : Serve(c)
Next == \/ Main \/ Server \/ ServerEnds
        \/ \E i \in Children : Child(i)
        \/ \E c \in Clients : Thread(c) \/ OnClose(c)

Spec == Init /\ [][Next]_vars

(* Every process and thread runs when it can; the server's one thread      *)
(* serves every connection in its turn; a connection to a server that is   *)
(* gone goes too.  While the server is up nothing need go.                 *)
FairSpec == /\ Spec /\ WF_vars(Main) /\ WF_vars(Listen)
            /\ \A i \in Children : WF_vars(Child(i))
            /\ \A c \in Clients : /\ WF_vars(Thread(c)) /\ WF_vars(Serve(c))
                                  /\ WF_vars(server = "down" /\ OnClose(c))
-----------------------------------------------------------------------------
(* Types, and: a client without a thread has no connection. *)
TypeOK == /\ parent \in {"fork", "wait", "exited"} /\ forked \in 0 .. Processes
          /\ child \in [Children -> {"none", "create", "join", "exited", "killed", "reaped"}]
          /\ next \in [Children -> 1 .. Threads + 1]
          /\ client \in [Clients -> {"none", "failed", "connecting", "open", "ended"}]
          /\ wire \in [Clients -> {<<>>, Request, Reply}]
          /\ verdict \in [Clients -> {"none", "ok", "error"}]
          /\ judged \in [Clients -> Seq({Reply})]
          /\ server \in {"start", "up", "down"} /\ faults \in 0 .. MaxFaults
          /\ \A c \in Clients : wire[c] # <<>> => client[c] = "open"

(* When the main process has exited no connection is left, in any process, *)
(* whatever forks and threads failed; when a child has, none of its own    *)
(* (client/main.cpp:26-32, 73-76, 81).                                     *)
Gone(i) == \A c \in Of(i) : client[c] \in {"none", "failed", "ended"}
NothingLeftBehind == /\ parent = "exited" => \A i \in Children : Gone(i)
                     /\ \A i \in Children : child[i] \in {"exited", "killed", "reaped"} => Gone(i)

(* A connection is judged once: one request, one reply, and the reply      *)
(* starts nothing new (client/cclient.cpp:24, 30-38; server/main.cpp:31).  *)
(* The comment at client/cclient.h:22-23 is not so: with the copy it       *)
(* announces, server and client would send to each other without end.      *)
JudgedOnce == \A c \in Clients : \/ judged[c] = <<>>
                                 \/ Len(judged[c]) = 1 /\ wire[c] = <<>>

(* What is begun ends: every connection that opens is judged, or it goes;  *)
(* and when the server has gone the test ends, with every fork or thread   *)
(* that failed (client/main.cpp:26-32, 57-82; cclient.cpp:30-38).          *)
Ends == /\ \A c \in Clients : client[c] = "open" ~> verdict[c] # "none" \/ client[c] = "ended"
        /\ server = "down" ~> parent = "exited"

(* README:6: the client compares the reply, and one that is as expected    *)
(* counts as a success (client/cclient.cpp:32-37).                         *)
JudgedAsExpected == \A c \in Clients : judged[c] # <<>> =>
                      (verdict[c] = "ok" <=> judged[c][Len(judged[c])] = Expected)
=============================================================================
