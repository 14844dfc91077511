------------------------------ MODULE SendPath ------------------------------
(***************************************************************************)
(* The sending half of a task of the reactor (src/common/basetask.cpp,     *)
(* SendData of CTcpTask and CUdpTask in mytask.cpp): PutMsgToSendList      *)
(* queues a message and asks epoll for EPOLLOUT; HandleProcess, when       *)
(* epoll reports it, sends at most SendNum times and withdraws the request *)
(* once there is nothing left.  A message may leave in pieces, with any    *)
(* number of events in between.                                            *)
(*                                                                         *)
(* One thread, the reactor's, calls all of this: PutMsgToSendList between  *)
(* two events or from within RecvProcess.  The kernel and the peer act at  *)
(* any time: the peer reads, or breaks the connection.                     *)
(***************************************************************************)
EXTENDS Integers, Sequences, SequencesExt

CONSTANTS Kinds,    \* "tcp": CTcpTask; "udp": CUdpTask
          Msgs,     \* the messages, each put once
          Size,     \* Size[m]: bytes of message m
          None,     \* the null m_pCurSendMsg
          SendNum,  \* m_nSendNum
          SndBuf    \* capacity of the socket: bytes, or datagrams

ASSUME SendPathAssumption == /\ Kinds \subseteq {"tcp", "udp"}
                             /\ Size \in [Msgs -> Nat \ {0}]
                             /\ None \notin Msgs
                             /\ SendNum \in Nat \ {0} /\ SndBuf \in Nat \ {0}

VARIABLES kind,        \* the class of the task
          sendList,    \* m_sendList
          cur,         \* m_pCurSendMsg
          curSent,     \* m_iCurSendLen
          registered,  \* the task is in the epoll set
          wantOut,     \* ... and EPOLLOUT is among its events
          task,        \* "alive", "destroyed" by DestroySelf, or "killed" with the process
          at,          \* the reactor: "wait", in "recv" or "send" of HandleProcess
          outToo,      \* events & EPOLLOUT of the event being handled
          ii,          \* loop counter of SendProcess
          buffered,    \* units in the socket's send buffer
          broken,      \* the connection is reset
          accepted,    \* history: messages put, in order
          wire         \* history: units given to the kernel, in order
tvars == <<sendList, cur, curSent>>
evars == <<registered, wantOut>>
hvars == <<at, outToo, ii>>
nvars == <<kind, buffered, broken>>
vars == <<tvars, evars, task, hvars, nvars, accepted, wire>>

Init == /\ kind \in Kinds
        /\ sendList = <<>> /\ cur = None /\ curSent = 0
        /\ registered = FALSE /\ wantOut = FALSE
        /\ task = "alive"
        /\ at = "wait" /\ outToo = FALSE /\ ii = 0
        /\ buffered = 0 /\ broken = FALSE
        /\ accepted = <<>> /\ wire = <<>>

Pending == cur # None \/ sendList # <<>>
-----------------------------------------------------------------------------
(* Mutant: the task is registered without looking at what already waits. *)
AddToEpollInOnly == /\ task = "alive" /\ ~registered
                    /\ registered' = TRUE
                    /\ wantOut' = FALSE
                    /\ UNCHANGED <<tvars, task, hvars, nvars, accepted, wire>>

(* CBaseTask::Init: AddToEpoll, with EPOLLOUT if there is something to send. *)
AddToEpoll == /\ task = "alive" /\ ~registered
              /\ registered' = TRUE
              /\ wantOut' = Pending
              /\ UNCHANGED <<tvars, task, hvars, nvars, accepted, wire>>

(* Mutant: a message is queued and nobody is told. *)
PutMsgSilently(m) == /\ task = "alive" /\ at \in {"wait", "recv"}
                     /\ m \notin ToSet(accepted)
                     /\ sendList' = Append(sendList, m)
                     /\ accepted' = Append(accepted, m)
                     /\ UNCHANGED <<cur, curSent, evars, task, hvars, nvars, wire>>

(* The modification fails unnoticed while the task is not in the epoll set. *)
PutMsgToSendList(m) == /\ task = "alive" /\ at \in {"wait", "recv"}
                       /\ m \notin ToSet(accepted)
                       /\ sendList' = Append(sendList, m)
                       /\ wantOut' = registered
                       /\ accepted' = Append(accepted, m)
                       /\ UNCHANGED <<cur, curSent, registered, task, hvars, nvars, wire>>
-----------------------------------------------------------------------------
(* The task is gone, out of the epoll set, with its unsent messages.       *)
Ended(how) == /\ task' = how
              /\ sendList' = <<>> /\ cur' = None /\ curSent' = 0
              /\ registered' = FALSE /\ wantOut' = FALSE
              /\ at' = "wait" /\ outToo' = FALSE /\ ii' = 0
              /\ UNCHANGED <<nvars, accepted, wire>>

DestroySelf == Ended("destroyed")

(* send is without MSG_NOSIGNAL and nothing ignores SIGPIPE: on a stream   *)
(* whose peer is gone it may raise the signal, and the process ends.       *)
Killed == Ended("killed")

(* epoll_wait reports the task, with EPOLLIN at any time; an error or a    *)
(* hang-up is reported unasked and counts as both.                         *)
HandleProcess(in) == LET out == wantOut /\ buffered < SndBuf
                     IN /\ at = "wait" /\ registered
                        /\ in \/ out \/ broken
                        /\ at' = IF in \/ broken THEN "recv" ELSE "send"
                        /\ outToo' = (out \/ broken)
                        /\ ii' = 0
                        /\ UNCHANGED <<tvars, evars, task, nvars, accepted, wire>>

(* RecvProcess of a TCP task fails when the peer has closed or reset; that *)
(* of a UDP task never does, and reading takes a pending error off.        *)
RecvProcessReturns ==
  /\ at = "recv"
  /\ \/ kind = "tcp" /\ DestroySelf
     \/ /\ kind = "udp" \/ ~broken
        /\ at' = IF outToo THEN "send" ELSE "wait"
        /\ outToo' = FALSE
        /\ broken' = FALSE
        /\ UNCHANGED <<tvars, evars, task, ii, kind, buffered, accepted, wire>>
-----------------------------------------------------------------------------
(* The loop of SendProcess goes round again, or is left after SendNum turns. *)
NextTurn == /\ ii' = ii + 1
            /\ at' = IF ii + 1 < SendNum THEN "send" ELSE "wait"

Units(m, from, to) == [i \in 1 .. to - from |-> <<m, from + i>>]

(* Mutant: the length sent is not kept. *)
SentForgets(m, sent) == cur' = (IF sent = Size[m] THEN None ELSE m) /\ curSent' = 0

(* Message m is finished once `sent' is all of it.                         *)
Sent(m, sent) == IF sent = Size[m] THEN cur' = None /\ curSent' = 0
                                   ELSE cur' = m /\ curSent' = sent

(* SendData of message m, of which `sent' bytes are gone already. *)
TcpSendData(m, sent, rest) ==
  \/ /\ ~broken /\ buffered < SndBuf
     /\ \E n \in 1 .. SndBuf - buffered :
          /\ sent + n <= Size[m]
          /\ buffered' = buffered + n
          /\ wire' = wire \o Units(m, sent, sent + n)
          /\ Sent(m, sent + n)
     /\ sendList' = rest
     /\ NextTurn
     /\ UNCHANGED <<evars, task, outToo, kind, broken, accepted>>
  \/ /\ ~broken /\ buffered = SndBuf                          \* EAGAIN
     /\ cur' = m /\ curSent' = sent /\ sendList' = rest
     /\ NextTurn
     /\ UNCHANGED <<evars, task, outToo, nvars, accepted, wire>>
  \/ broken /\ (DestroySelf \/ Killed)

(* A datagram leaves whole, or waits, or is given up on an error.          *)
UdpSendData(m, rest) ==
  /\ \/ /\ buffered < SndBuf
        /\ buffered' = buffered + 1
        /\ wire' = Append(wire, <<m, Size[m]>>)
        /\ cur' = None
     \/ /\ buffered = SndBuf                                  \* EAGAIN
        /\ cur' = m
        /\ UNCHANGED <<buffered, wire>>
     \/ /\ wire' = Append(wire, <<m, 0>>)                     \* error: dropped
        /\ cur' = None
        /\ UNCHANGED buffered
  /\ sendList' = rest
  /\ NextTurn
  /\ UNCHANGED <<curSent, evars, task, outToo, kind, broken, accepted>>

SendData(m, sent, rest) == IF kind = "tcp" THEN TcpSendData(m, sent, rest)
                                           ELSE UdpSendData(m, rest)

(* Mutant: EPOLLOUT stays asked for. *)
NothingToSendArmed == /\ at' = "wait"
                      /\ UNCHANGED <<tvars, evars, task, outToo, ii, nvars, accepted, wire>>

(* Nothing left: EPOLLOUT is withdrawn.                                    *)
NothingToSend == /\ wantOut' = FALSE
                 /\ at' = "wait"
                 /\ UNCHANGED <<tvars, registered, task, outToo, ii, nvars, accepted, wire>>

(* One turn of SendProcess: the message begun, the next one, or none.      *)
SendProcess ==
  /\ at = "send"
  /\ \/ cur # None /\ SendData(cur, curSent, sendList)
     \/ cur = None /\ sendList # <<>> /\ SendData(Head(sendList), curSent, Tail(sendList))
     \/ ~Pending /\ NothingToSend
-----------------------------------------------------------------------------
(* The kernel delivers to the peer; the peer resets the connection, or a   *)
(* UDP socket has an error to report.                                      *)
PeerReads == /\ buffered > 0
             /\ buffered' = buffered - 1
             /\ UNCHANGED <<tvars, evars, task, hvars, kind, broken, accepted, wire>>

PeerBreaks == /\ ~broken
              /\ broken' = TRUE
              /\ UNCHANGED <<tvars, evars, task, hvars, kind, buffered, accepted, wire>>

Reactor == RecvProcessReturns \/ SendProcess \/ \E in \in BOOLEAN : HandleProcess(in)
Next == \/ AddToEpoll \/ Reactor \/ PeerReads \/ PeerBreaks
        \/ \E m \in Msgs : PutMsgToSendList(m)

Spec == Init /\ [][Next]_vars

(* The reactor runs and epoll, level-triggered, reports what is ready; a   *)
(* task that was created is added to the epoll set; the peer reads.        *)
FairSpec == Spec /\ WF_vars(AddToEpoll) /\ WF_vars(Reactor) /\ WF_vars(PeerReads)
-----------------------------------------------------------------------------
(* Types, and: the piecewise state m_iCurSendLen belongs to a message      *)
(* begun and not finished, and is 0 otherwise (mytask.cpp:156-162, 290).   *)
TypeOK == /\ kind \in Kinds
          /\ sendList \in Seq(Msgs)
          /\ cur \in Msgs \cup {None}
          /\ curSent \in Nat /\ (IF cur = None THEN curSent = 0 ELSE curSent < Size[cur])
          /\ registered \in BOOLEAN /\ wantOut \in BOOLEAN
          /\ task \in {"alive", "destroyed", "killed"}
          /\ at \in {"wait", "recv", "send"} /\ outToo \in BOOLEAN
          /\ ii \in 0 .. SendNum
          /\ buffered \in 0 .. SndBuf /\ broken \in BOOLEAN

(* What has left, what is left of the current message and what waits are,  *)
(* in this order, exactly what was put: no byte is lost, repeated or       *)
(* overtaken, whatever the sizes of the pieces (mytask.cpp:147-185); and   *)
(* every datagram is sent once or given up once, in order (285-330).  When *)
(* an error has ended the task, or the process, the peer of a stream has a *)
(* prefix of it.                                                           *)
Bytes(m) == Units(m, 0, Size[m])
Concat(ms) == FlattenSeq([i \in DOMAIN ms |-> Bytes(ms[i])])
Left == (IF cur = None THEN <<>> ELSE <<cur>>) \o sendList
NothingLost ==
  /\ kind = "tcp" /\ task = "alive" =>
       wire \o (IF cur = None THEN <<>> ELSE Units(cur, curSent, Size[cur]))
            \o Concat(sendList) = Concat(accepted)
  /\ kind = "tcp" /\ task # "alive" => IsPrefix(wire, Concat(accepted))
  /\ kind = "udp" /\ task = "alive" =>
       [i \in DOMAIN wire |-> wire[i][1]] \o Left = accepted

(* EPOLLOUT is asked for whenever something waits, so that the reactor is  *)
(* called again: the disarm in SendProcess (basetask.cpp:165-170) never    *)
(* strands a message put before, in between or after.                      *)
ArmedWhilePending == registered /\ Pending => wantOut

(* HandleProcess does nothing on a task after DestroySelf deleted it       *)
(* (basetask.cpp:114-129).                                                 *)
NoUseAfterDestroy == at # "wait" => task = "alive"

(* Every message put is, in the end, entirely with the kernel, or the task *)
(* is destroyed or killed: no partial send, EAGAIN or turn limit strands   *)
(* it.                                                                     *)
EventuallySent == \A m \in Msgs :
  m \in ToSet(accepted) ~> task # "alive" \/ (\E u \in ToSet(wire) : u[1] = m /\ u[2] \in {0, Size[m]})

(* With nothing to send the reactor stops being called for EPOLLOUT (the   *)
(* comment at basetask.cpp:165).                                           *)
IdleDisarms == registered /\ ~Pending ~> ~wantOut \/ Pending

(* An error on a UDP socket never ends the task, nor the process: receiving *)
(* and sending share the socket (the comment at mytask.cpp:319).           *)
UdpSurvives == kind = "udp" => task = "alive"
=============================================================================
