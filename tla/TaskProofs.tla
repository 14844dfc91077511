----------------------------- MODULE TaskProofs -----------------------------
(***************************************************************************)
(* The two halves of a task, for any messages, frames and sizes.           *)
(*                                                                         *)
(* Sending: a task in the epoll set with something to send asks for        *)
(* EPOLLOUT, a destroyed task is never used again, no error ends a UDP     *)
(* task (ArmedWhilePending, NoUseAfterDestroy, UdpSurvives of SendPath),   *)
(* and what is sent is what was put, in order (NothingLost).  What is      *)
(* missing for induction is the epoll set's view of the task: only a       *)
(* living task is in it, and only a task in it is being handled; that a    *)
(* datagram is never half sent; and, for the order, the bytes that are     *)
(* still ahead of the kernel (StreamInOrder).                              *)
(*                                                                         *)
(* Receiving: the memory of the buffer is kept to, however the stream is   *)
(* cut (StaysInBuffer of TcpFraming), and as long as no recv ends inside a *)
(* frame the frames are handed on intact and nothing crashes               *)
(* (FramesIntact, NeverCrashes).  The invariant says where in the stream   *)
(* the bytes of the buffer, of the connection and of the peer belong.      *)
(***************************************************************************)
EXTENDS SendPath, TcpFraming, SequenceLemmas

SetHasLiving == registered => task = "alive"
HandledIsInSet == at # "wait" => registered
TurnsLeft == at # "wait" => ii < SendNum
WholeDatagrams == kind = "udp" => curSent = 0

IInv == /\ TypeOK /\ ArmedWhilePending /\ UdpSurvives
        /\ SetHasLiving /\ HandledIsInSet /\ TurnsLeft /\ WholeDatagrams

(* The parts of TypeOK: the queue of messages, and the rest.               *)
QueueOK == /\ sendList \in Seq(Msgs)
           /\ cur \in Msgs \cup {None}
           /\ curSent \in Nat
           /\ cur = None => curSent = 0
           /\ cur # None => curSent < Size[cur]
RestOK == /\ kind \in Kinds
          /\ registered \in BOOLEAN /\ wantOut \in BOOLEAN
          /\ task \in {"alive", "destroyed", "killed"}
          /\ at \in {"wait", "recv", "send"} /\ outToo \in BOOLEAN
          /\ ii \in 0 .. SendNum
          /\ buffered \in 0 .. SndBuf /\ broken \in BOOLEAN

LEMMA TypeParts == (TypeOK <=> QueueOK /\ RestOK) /\ (TypeOK' <=> QueueOK' /\ RestOK')
BY DEF TypeOK, QueueOK, RestOK
-----------------------------------------------------------------------------
(* The end of a task leaves nothing behind and nothing to do.              *)
LEMMA EndKeeps == ASSUME IInv, kind = "tcp", DestroySelf \/ Killed PROVE IInv'
<1>1. /\ sendList' = <<>> /\ cur' = None /\ curSent' = 0
      /\ registered' = FALSE /\ wantOut' = FALSE /\ task' \in {"destroyed", "killed"}
      /\ at' = "wait" /\ outToo' = FALSE /\ ii' = 0
      /\ UNCHANGED <<kind, buffered, broken>>
  BY DEF DestroySelf, Killed, Ended, nvars
<1>2. QueueOK' /\ RestOK'
  <2>1. 0 \in 0 .. SendNum
    BY SendPathAssumption
  <2>2. QueueOK'
    BY <1>1 DEF QueueOK
  <2> QED BY <1>1, <2>1, <2>2, TypeParts DEF IInv, RestOK
<1>3. kind' = "tcp" /\ registered' = FALSE /\ at' = "wait"
  BY <1>1
<1>4. ArmedWhilePending' /\ UdpSurvives' /\ SetHasLiving' /\ HandledIsInSet' /\ TurnsLeft' /\ WholeDatagrams'
  BY <1>3 DEF ArmedWhilePending, UdpSurvives, SetHasLiving, HandledIsInSet, TurnsLeft, WholeDatagrams
<1> QED BY <1>2, <1>4, TypeParts DEF IInv

(* A turn that neither destroys nor disarms has only the queue to get right. *)
LEMMA TurnKeeps ==
  ASSUME IInv, at = "send", Pending, NextTurn, QueueOK', WholeDatagrams', buffered' \in 0 .. SndBuf,
         UNCHANGED <<evars, task, outToo, kind, broken>>
  PROVE  IInv'
<1>1. registered = TRUE /\ wantOut = TRUE /\ task = "alive"
  BY DEF IInv, HandledIsInSet, SetHasLiving, ArmedWhilePending, TypeOK
<1>2. registered' = TRUE /\ wantOut' = TRUE /\ task' = "alive"
  BY <1>1 DEF evars
<1>3. ii' \in 0 .. SendNum /\ at' \in {"send", "wait"} /\ (at' = "send" => ii' < SendNum)
  BY SendPathAssumption DEF NextTurn, IInv, TypeOK, TurnsLeft
<1>4. RestOK'
  BY <1>2, <1>3 DEF IInv, TypeOK, RestOK
<1>5. ArmedWhilePending' /\ UdpSurvives' /\ SetHasLiving' /\ HandledIsInSet' /\ TurnsLeft'
  BY <1>2, <1>3 DEF ArmedWhilePending, UdpSurvives, SetHasLiving, HandledIsInSet, TurnsLeft
<1> QED BY <1>4, <1>5, TypeParts DEF IInv

(* Sending, of the message begun or of the first that waits.               *)
LEMMA SendDataKeeps ==
  ASSUME IInv, at = "send", Pending,
         NEW m \in Msgs, NEW sent \in Nat, sent < Size[m], NEW rest \in Seq(Msgs),
         SendData(m, sent, rest)
  PROVE  IInv'
<1>1. Size[m] \in Nat /\ Size[m] > 0 /\ m # None
  BY SendPathAssumption
<1>2. ASSUME kind = "tcp" PROVE IInv'
  <2>1. TcpSendData(m, sent, rest)
    BY <1>2 DEF SendData
  <2>2. ASSUME NEW n \in 1 .. SndBuf - buffered, sent + n <= Size[m], buffered' = buffered + n,
               Sent(m, sent + n), sendList' = rest, NextTurn, buffered < SndBuf,
               UNCHANGED <<evars, task, outToo, kind, broken, accepted>>
        PROVE  IInv'
    <3>1. QueueOK'
      BY <1>1, <2>2 DEF Sent, QueueOK
    <3>2. buffered' \in 0 .. SndBuf
      BY <2>2, SendPathAssumption DEF IInv, TypeOK
    <3> QED BY <1>2, <2>2, <3>1, <3>2, TurnKeeps DEF WholeDatagrams
  <2>3. ASSUME cur' = m, curSent' = sent, sendList' = rest, NextTurn,
               UNCHANGED <<evars, task, outToo, nvars, accepted, wire>>
        PROVE  IInv'
    <3>1. QueueOK'
      BY <1>1, <2>3 DEF QueueOK
    <3>2. buffered' \in 0 .. SndBuf
      BY <2>3 DEF IInv, TypeOK, nvars
    <3> QED BY <1>2, <2>3, <3>1, <3>2, TurnKeeps DEF nvars, WholeDatagrams
  <2>4. CASE DestroySelf \/ Killed
    BY <1>2, <2>4, EndKeeps
  <2> QED BY <2>1, <2>2, <2>3, <2>4 DEF TcpSendData
<1>3. ASSUME kind # "tcp" PROVE IInv'
  <2>1. UdpSendData(m, rest)
    BY <1>3 DEF SendData
  <2>2. kind = "udp"
    BY <1>3, SendPathAssumption DEF IInv, TypeOK
  <2>3. curSent' = 0 /\ cur' \in {m, None} /\ sendList' = rest
    BY <2>1, <2>2 DEF UdpSendData, IInv, WholeDatagrams
  <2>4. QueueOK'
    BY <1>1, <2>3 DEF QueueOK
  <2>5. buffered' \in 0 .. SndBuf
    BY <2>1, SendPathAssumption DEF UdpSendData, IInv, TypeOK
  <2> QED BY <2>1, <2>3, <2>4, <2>5, TurnKeeps DEF UdpSendData, WholeDatagrams
<1> QED BY <1>2, <1>3
-----------------------------------------------------------------------------
LEMMA IInvInit == Init => IInv
<1> SUFFICES ASSUME Init PROVE IInv
  OBVIOUS
<1>1. QueueOK
  BY DEF Init, QueueOK
<1>2. RestOK
  <2>1. 0 \in 0 .. SendNum /\ 0 \in 0 .. SndBuf
    BY SendPathAssumption
  <2> QED BY <2>1 DEF Init, RestOK
<1> QED BY <1>1, <1>2, TypeParts
        DEF Init, IInv, ArmedWhilePending, UdpSurvives, SetHasLiving, HandledIsInSet, TurnsLeft, WholeDatagrams

(* The steps outside the loop of SendProcess.                              *)
LEMMA AddToEpollStep == IInv /\ AddToEpoll => IInv'
<1> SUFFICES ASSUME IInv, AddToEpoll PROVE IInv'
  OBVIOUS
<1>1. UNCHANGED <<sendList, cur, curSent, task, at, outToo, ii, kind, buffered, broken>>
      /\ registered' = TRUE /\ wantOut' = Pending /\ task = "alive"
  BY DEF AddToEpoll, tvars, hvars, nvars
<1>2. Pending' = Pending /\ Pending \in BOOLEAN
  BY <1>1 DEF Pending
<1>3. TypeOK'
  BY <1>1, <1>2 DEF IInv, TypeOK
<1>4. ArmedWhilePending'
  BY <1>1, <1>2 DEF ArmedWhilePending
<1> QED BY <1>1, <1>3, <1>4 DEF IInv, UdpSurvives, SetHasLiving, HandledIsInSet, TurnsLeft, WholeDatagrams

LEMMA PutMsgStep == ASSUME IInv, NEW m \in Msgs, PutMsgToSendList(m) PROVE IInv'
<1>1. sendList' = Append(sendList, m) /\ wantOut' = registered
      /\ UNCHANGED <<cur, curSent, registered, task, at, outToo, ii, kind, buffered, broken>>
  BY DEF PutMsgToSendList, hvars, nvars
<1>2. QueueOK'
  BY <1>1 DEF IInv, TypeOK, QueueOK
<1>3. RestOK'
  BY <1>1 DEF IInv, TypeOK, RestOK
<1> QED BY <1>1, <1>2, <1>3, TypeParts
        DEF IInv, ArmedWhilePending, UdpSurvives, SetHasLiving, HandledIsInSet, TurnsLeft, WholeDatagrams

LEMMA HandleProcessStep == ASSUME IInv, NEW in \in BOOLEAN, HandleProcess(in) PROVE IInv'
<1>1. registered = TRUE /\ at' \in {"recv", "send"} /\ outToo' \in BOOLEAN /\ ii' = 0
      /\ UNCHANGED <<sendList, cur, curSent, registered, wantOut, task, kind, buffered, broken>>
  BY DEF HandleProcess, tvars, evars, nvars, IInv, TypeOK
<1>2. QueueOK'
  BY <1>1 DEF IInv, TypeOK, QueueOK
<1>3. RestOK'
  BY <1>1, SendPathAssumption DEF IInv, TypeOK, RestOK
<1> QED BY <1>1, <1>2, <1>3, TypeParts, SendPathAssumption
        DEF IInv, ArmedWhilePending, Pending, UdpSurvives, SetHasLiving, HandledIsInSet, TurnsLeft, WholeDatagrams

LEMMA RecvProcessStep == IInv /\ RecvProcessReturns => IInv'
<1> SUFFICES ASSUME IInv, RecvProcessReturns PROVE IInv'
  OBVIOUS
<1>1. CASE kind = "tcp" /\ DestroySelf
  BY <1>1, EndKeeps
<1>2. CASE ~(kind = "tcp" /\ DestroySelf)
  <2>1. /\ at = "recv" /\ at' \in {"send", "wait"} /\ outToo' = FALSE /\ broken' = FALSE
        /\ UNCHANGED <<sendList, cur, curSent, registered, wantOut, task, ii, kind, buffered>>
    BY <1>2 DEF RecvProcessReturns, tvars, evars
  <2>2. QueueOK'
    BY <2>1 DEF IInv, TypeOK, QueueOK
  <2>3. RestOK'
    BY <2>1 DEF IInv, TypeOK, RestOK
  <2> QED BY <2>1, <2>2, <2>3, TypeParts
          DEF IInv, ArmedWhilePending, Pending, UdpSurvives, SetHasLiving, HandledIsInSet, TurnsLeft, WholeDatagrams
<1> QED BY <1>1, <1>2

LEMMA SendProcessStep == IInv /\ SendProcess => IInv'
<1> SUFFICES ASSUME IInv, SendProcess PROVE IInv'
  OBVIOUS
<1>1. at = "send" /\ sendList \in Seq(Msgs) /\ QueueOK
  BY TypeParts DEF SendProcess, IInv, QueueOK
<1>2. CASE cur # None /\ SendData(cur, curSent, sendList)
  <2>1. cur \in Msgs /\ curSent \in Nat /\ curSent < Size[cur]
    BY <1>1, <1>2 DEF QueueOK
  <2> QED BY <1>1, <1>2, <2>1, SendDataKeeps DEF Pending
<1>3. CASE cur = None /\ sendList # <<>> /\ SendData(Head(sendList), curSent, Tail(sendList))
  <2>1. Head(sendList) \in Msgs /\ Tail(sendList) \in Seq(Msgs) /\ curSent = 0
    BY <1>1, <1>3 DEF QueueOK
  <2>2. 0 < Size[Head(sendList)]
    BY <2>1, SendPathAssumption
  <2> QED BY <1>1, <1>3, <2>1, <2>2, SendDataKeeps DEF Pending
<1>4. CASE ~Pending /\ NothingToSend
  <2>1. /\ at' = "wait" /\ wantOut' = FALSE
        /\ UNCHANGED <<sendList, cur, curSent, registered, task, outToo, ii, kind, buffered, broken>>
    BY <1>4 DEF NothingToSend, tvars, nvars
  <2>2. ~Pending'
    BY <1>4, <2>1 DEF Pending
  <2>3. TypeOK'
    BY <2>1 DEF IInv, TypeOK
  <2> QED BY <2>1, <2>2, <2>3
          DEF IInv, ArmedWhilePending, UdpSurvives, SetHasLiving, HandledIsInSet, TurnsLeft, WholeDatagrams
<1> QED BY <1>2, <1>3, <1>4 DEF SendProcess

(* The peer and the kernel touch only the socket.                          *)
LEMMA PeerStep == IInv /\ (PeerReads \/ PeerBreaks \/ UNCHANGED vars) => IInv'
<1> SUFFICES ASSUME IInv, PeerReads \/ PeerBreaks \/ UNCHANGED vars PROVE IInv'
  OBVIOUS
<1>1. UNCHANGED <<sendList, cur, curSent, registered, wantOut, task, at, outToo, ii, kind>>
  BY DEF PeerReads, PeerBreaks, vars, tvars, evars, hvars, nvars
<1>2. buffered' \in 0 .. SndBuf /\ broken' \in BOOLEAN
  <2>1. buffered' \in 0 .. SndBuf
    BY SendPathAssumption DEF PeerReads, PeerBreaks, vars, nvars, IInv, TypeOK
  <2>2. broken' \in BOOLEAN
    BY DEF PeerReads, PeerBreaks, vars, nvars, IInv, TypeOK
  <2> QED BY <2>1, <2>2
<1>3. TypeOK'
  BY <1>1, <1>2 DEF IInv, TypeOK
<1> QED BY <1>1, <1>3
        DEF IInv, ArmedWhilePending, Pending, UdpSurvives, SetHasLiving, HandledIsInSet, TurnsLeft, WholeDatagrams

LEMMA IInvStep == IInv /\ [Next]_vars => IInv'
BY AddToEpollStep, PutMsgStep, HandleProcessStep, RecvProcessStep, SendProcessStep, PeerStep
   DEF Next, Reactor
-----------------------------------------------------------------------------
THEOREM SendPathInvariant == Spec => []IInv
<1>1. IInv /\ [Next]_vars => IInv'
  BY IInvStep
<1> QED BY IInvInit, <1>1, PTL DEF Spec

(* A task in the epoll set that has a message waiting, or one half sent,   *)
(* asks for EPOLLOUT, in every state (basetask.cpp:165-170).               *)
THEOREM ArmedTask == Spec => []ArmedWhilePending
<1>1. IInv => ArmedWhilePending
  BY DEF IInv
<1> QED BY SendPathInvariant, <1>1, PTL

(* HandleProcess never goes on with a task that DestroySelf has deleted    *)
(* (basetask.cpp:114-129).                                                 *)
THEOREM DestroyedTaskIsLeft == Spec => []NoUseAfterDestroy
<1>1. IInv => NoUseAfterDestroy
  BY DEF IInv, SetHasLiving, HandledIsInSet, NoUseAfterDestroy
<1> QED BY SendPathInvariant, <1>1, PTL

(* A UDP task outlives every error of its socket (mytask.cpp:319).         *)
THEOREM UdpTaskSurvives == Spec => []UdpSurvives
<1>1. IInv => UdpSurvives
  BY DEF IInv
<1> QED BY SendPathInvariant, <1>1, PTL

(* The types; a piece sent belongs to a message begun and not finished     *)
(* (mytask.cpp:156-162, 290).                                              *)
THEOREM SendPathTypes == Spec => []TypeOK
<1>1. IInv => TypeOK
  BY DEF IInv
<1> QED BY SendPathInvariant, <1>1, PTL
-----------------------------------------------------------------------------
(***************************************************************************)
(* Datagrams: what was put is what has left, the current message and those *)
(* that wait, place by place.                                              *)
(***************************************************************************)
InTurn(now, rest) ==
  /\ accepted \in Seq(Msgs) /\ wire \in Seq(Msgs \X Nat)
  /\ rest \in Seq(Msgs)
  /\ Len(accepted) = Len(wire) + Len(now) + Len(rest)
  /\ \A i \in 1 .. Len(wire) : wire[i][1] = accepted[i]
  /\ \A i \in 1 .. Len(now) : accepted[Len(wire) + i] = now[i]
  /\ \A i \in 1 .. Len(rest) : accepted[Len(wire) + Len(now) + i] = rest[i]
Begun == IF cur = None THEN <<>> ELSE <<cur>>
InOrder == kind = "udp" => InTurn(Begun, sendList)

LEMMA OrderInit == Init => InOrder
BY DEF Init, InOrder, InTurn, Begun

LEMMA OrderPut == ASSUME IInv, InOrder, NEW m \in Msgs, PutMsgToSendList(m) PROVE InOrder'
<1> SUFFICES ASSUME kind = "udp" PROVE InTurn(Begun, sendList)'
  BY DEF PutMsgToSendList, nvars, InOrder
<1>1. /\ accepted' = Append(accepted, m) /\ sendList' = Append(sendList, m)
      /\ wire' = wire /\ cur' = cur /\ Begun' = Begun
  BY DEF PutMsgToSendList, Begun
<1>2. InTurn(Begun, sendList)
  BY DEF InOrder
<1>3. Len(wire) \in Nat /\ Len(Begun) \in Nat /\ Len(sendList) \in Nat /\ Len(accepted) \in Nat
      /\ Len(accepted) = Len(wire) + Len(Begun) + Len(sendList)
  BY <1>2 DEF InTurn, Begun
<1>4. /\ accepted' \in Seq(Msgs) /\ sendList' \in Seq(Msgs)
      /\ Len(accepted') = Len(accepted) + 1 /\ Len(sendList') = Len(sendList) + 1
      /\ accepted'[Len(accepted) + 1] = m /\ sendList'[Len(sendList) + 1] = m
      /\ \A i \in 1 .. Len(accepted) : accepted'[i] = accepted[i]
      /\ \A i \in 1 .. Len(sendList) : sendList'[i] = sendList[i]
  BY <1>1, <1>2 DEF InTurn
<1>5. \A i \in 1 .. Len(wire) : wire[i][1] = accepted'[i]
  BY <1>2, <1>3, <1>4 DEF InTurn
<1>6. \A i \in 1 .. Len(Begun) : accepted'[Len(wire) + i] = Begun[i]
  <2> TAKE i \in 1 .. Len(Begun)
  <2>1. Len(wire) + i \in 1 .. Len(accepted) /\ accepted[Len(wire) + i] = Begun[i]
    BY <1>2, <1>3 DEF InTurn
  <2> QED BY <1>4, <2>1
<1>7. \A i \in 1 .. Len(sendList) + 1 : accepted'[Len(wire) + Len(Begun) + i] = sendList'[i]
  <2> TAKE i \in 1 .. Len(sendList) + 1
  <2>1. CASE i = Len(sendList) + 1
    <3>1. Len(wire) + Len(Begun) + i = Len(accepted) + 1
      BY <1>3, <2>1
    <3> QED BY <1>4, <2>1, <3>1
  <2>2. CASE i # Len(sendList) + 1
    <3>1. i \in 1 .. Len(sendList) /\ Len(wire) + Len(Begun) + i \in 1 .. Len(accepted)
      BY <1>3, <2>2
    <3> QED BY <1>2, <1>4, <3>1 DEF InTurn
  <2> QED BY <2>1, <2>2
<1>8. /\ accepted' \in Seq(Msgs) /\ wire' \in Seq(Msgs \X Nat) /\ sendList' \in Seq(Msgs)
      /\ Len(accepted') = Len(wire') + Len(Begun') + Len(sendList')
  <2>1. wire \in Seq(Msgs \X Nat)
    BY <1>2 DEF InTurn
  <2> QED BY <1>1, <1>3, <1>4, <2>1
<1>9. /\ \A i \in 1 .. Len(wire') : wire'[i][1] = accepted'[i]
      /\ \A i \in 1 .. Len(Begun') : accepted'[Len(wire') + i] = Begun'[i]
      /\ \A i \in 1 .. Len(sendList') : accepted'[Len(wire') + Len(Begun') + i] = sendList'[i]
  BY <1>1, <1>4, <1>5, <1>6, <1>7
<1> QED BY <1>8, <1>9 DEF InTurn

(* A turn over message m, whether it was begun before or is taken now.     *)
LEMMA OrderSend ==
  ASSUME IInv, kind = "udp", NEW m \in Msgs, NEW rest, InTurn(<<m>>, rest), UdpSendData(m, rest)
  PROVE  InOrder'
<1>1. sendList' = rest /\ accepted' = accepted /\ kind' = kind /\ m # None
      /\ Size[m] \in Nat
  BY SendPathAssumption DEF UdpSendData
<1>2. /\ accepted \in Seq(Msgs) /\ wire \in Seq(Msgs \X Nat) /\ rest \in Seq(Msgs)
      /\ Len(accepted) = Len(wire) + 1 + Len(rest) /\ accepted[Len(wire) + 1] = m
      /\ \A i \in 1 .. Len(wire) : wire[i][1] = accepted[i]
      /\ \A i \in 1 .. Len(rest) : accepted[Len(wire) + 1 + i] = rest[i]
      /\ Len(wire) \in Nat /\ Len(rest) \in Nat
  <2>1. Len(<<m>>) = 1 /\ <<m>>[1] = m /\ 1 \in 1 .. 1
    OBVIOUS
  <2>2. \A i \in 1 .. 1 : accepted[Len(wire) + i] = <<m>>[i]
    BY <2>1 DEF InTurn
  <2>3. accepted[Len(wire) + 1] = m
    BY <2>1, <2>2
  <2> QED BY <2>1, <2>3 DEF InTurn
<1>3. CASE cur' = m /\ wire' = wire
  <2>1. Begun' = <<m>>
    BY <1>1, <1>3 DEF Begun
  <2> QED BY <1>1, <1>2, <1>3, <2>1 DEF InOrder, InTurn
<1>4. ASSUME NEW x \in Nat, cur' = None, wire' = Append(wire, <<m, x>>) PROVE InOrder'
  <2>1. Begun' = <<>> /\ Len(Begun') = 0
    BY <1>4 DEF Begun
  <2>2. /\ wire' \in Seq(Msgs \X Nat) /\ Len(wire') = Len(wire) + 1
        /\ wire'[Len(wire) + 1] = <<m, x>>
        /\ \A i \in 1 .. Len(wire) : wire'[i] = wire[i]
    BY <1>2, <1>4
  <2>3. \A i \in 1 .. Len(wire) + 1 : wire'[i][1] = accepted[i]
    <3> TAKE i \in 1 .. Len(wire) + 1
    <3>1. CASE i = Len(wire) + 1
      BY <1>2, <2>2, <3>1
    <3>2. CASE i \in 1 .. Len(wire)
      BY <1>2, <2>2, <3>2
    <3>3. i \in 1 .. Len(wire) \/ i = Len(wire) + 1
      BY <1>2
    <3> QED BY <3>1, <3>2, <3>3
  <2>4. \A i \in 1 .. Len(rest) : accepted[Len(wire') + 0 + i] = rest[i]
    BY <1>2, <2>2
  <2>5. Len(accepted) = Len(wire') + 0 + Len(rest)
    BY <1>2, <2>2
  <2> QED BY <1>1, <1>2, <2>1, <2>2, <2>3, <2>4, <2>5 DEF InOrder, InTurn
<1> QED BY <1>1, <1>3, <1>4 DEF UdpSendData

LEMMA OrderStep == IInv /\ InOrder /\ [Next]_vars => InOrder'
<1> SUFFICES ASSUME IInv, InOrder, [Next]_vars, kind' = "udp" PROVE InOrder'
  BY DEF InOrder
<1>1. kind = "udp"
  BY DEF Next, Reactor, AddToEpoll, PutMsgToSendList, HandleProcess, RecvProcessReturns,
         DestroySelf, Killed, Ended, SendProcess, SendData, TcpSendData, UdpSendData, NothingToSend, PeerReads, PeerBreaks, vars, nvars
<1>2. CASE UNCHANGED <<accepted, wire, cur, sendList>>
  <2>1. Begun' = Begun
    BY <1>2 DEF Begun
  <2> QED BY <1>1, <1>2, <2>1 DEF InOrder, InTurn
<1>3. CASE AddToEpoll \/ (\E in \in BOOLEAN : HandleProcess(in)) \/ RecvProcessReturns \/ PeerReads
           \/ PeerBreaks \/ UNCHANGED vars
  <2>1. UNCHANGED <<accepted, wire, cur, sendList>>
    BY <1>1, <1>3 DEF AddToEpoll, HandleProcess, RecvProcessReturns, PeerReads, PeerBreaks, vars, tvars
  <2> QED BY <1>2, <2>1
<1>4. CASE \E m \in Msgs : PutMsgToSendList(m)
  BY <1>4, OrderPut
<1>5. CASE SendProcess
  <2>1. InTurn(Begun, sendList) /\ cur \in Msgs \cup {None} /\ sendList \in Seq(Msgs)
    BY <1>1 DEF InOrder, IInv, TypeOK
  <2>2. CASE cur # None /\ SendData(cur, curSent, sendList)
    <3>1. Begun = <<cur>> /\ cur \in Msgs /\ UdpSendData(cur, sendList)
      BY <1>1, <2>1, <2>2 DEF Begun, SendData
    <3> QED BY <1>1, <2>1, <3>1, OrderSend
  <2>3. CASE cur = None /\ sendList # <<>> /\ SendData(Head(sendList), curSent, Tail(sendList))
    <3> DEFINE h == Head(sendList)
               r == Tail(sendList)
    <3>1. Begun = <<>> /\ Len(Begun) = 0 /\ UdpSendData(h, r)
      BY <1>1, <2>3 DEF Begun, SendData
    <3>2. /\ h \in Msgs /\ h = sendList[1] /\ r \in Seq(Msgs) /\ Len(sendList) >= 1
          /\ Len(r) = Len(sendList) - 1 /\ \A i \in 1 .. Len(sendList) - 1 : r[i] = sendList[i + 1]
      BY <2>1, <2>3
    <3> HIDE DEF h, r
    <3>3. /\ accepted \in Seq(Msgs) /\ wire \in Seq(Msgs \X Nat) /\ Len(wire) \in Nat
          /\ Len(accepted) = Len(wire) + Len(sendList)
          /\ \A i \in 1 .. Len(wire) : wire[i][1] = accepted[i]
          /\ \A i \in 1 .. Len(sendList) : accepted[Len(wire) + i] = sendList[i]
          /\ Len(sendList) \in Nat
      BY <2>1, <3>1 DEF InTurn
    <3>4. \A i \in 1 .. Len(r) : accepted[Len(wire) + 1 + i] = r[i]
      <4> TAKE i \in 1 .. Len(r)
      <4>1. i + 1 \in 1 .. Len(sendList) /\ r[i] = sendList[i + 1] /\ Len(wire) + 1 + i = Len(wire) + (i + 1)
        BY <3>2, <3>3
      <4> QED BY <3>3, <4>1
    <3>5. accepted[Len(wire) + 1] = h /\ Len(accepted) = Len(wire) + 1 + Len(r)
      BY <3>2, <3>3
    <3>6. Len(<<h>>) = 1 /\ <<h>>[1] = h
      OBVIOUS
    <3>7. InTurn(<<h>>, r)
      BY <3>2, <3>3, <3>4, <3>5, <3>6 DEF InTurn
    <3> QED BY <1>1, <3>1, <3>2, <3>7, OrderSend
  <2>4. CASE ~Pending /\ NothingToSend
    BY <1>2, <2>4 DEF NothingToSend, tvars
  <2> QED BY <1>5, <2>2, <2>3, <2>4 DEF SendProcess
<1> QED BY <1>3, <1>4, <1>5 DEF Next, Reactor

LEMMA OrderSaysNothingLost == InOrder /\ kind = "udp" => NothingLost
<1> SUFFICES ASSUME InTurn(Begun, sendList), kind = "udp"
             PROVE  [i \in DOMAIN wire |-> wire[i][1]] \o Left = accepted
  BY DEF InOrder, NothingLost
<1> DEFINE gone == [i \in DOMAIN wire |-> wire[i][1]]
<1>1. /\ accepted \in Seq(Msgs) /\ wire \in Seq(Msgs \X Nat) /\ sendList \in Seq(Msgs)
      /\ Len(accepted) = Len(wire) + Len(Begun) + Len(sendList)
      /\ \A i \in 1 .. Len(wire) : wire[i][1] = accepted[i]
      /\ \A i \in 1 .. Len(Begun) : accepted[Len(wire) + i] = Begun[i]
      /\ \A i \in 1 .. Len(sendList) : accepted[Len(wire) + Len(Begun) + i] = sendList[i]
      /\ Len(wire) \in Nat /\ Len(sendList) \in Nat
  BY DEF InTurn
<1>2. Begun \in Seq(Msgs) /\ Len(Begun) \in Nat
  <2>1. CASE cur = None
    BY <2>1 DEF Begun
  <2>2. CASE cur # None
    <3>1. Begun = <<cur>> /\ Len(Begun) = 1 /\ Begun[1] = cur
      BY <2>2 DEF Begun
    <3>2. Len(wire) + 1 \in 1 .. Len(accepted)
      BY <1>1, <3>1
    <3>3. cur \in Msgs
      BY <1>1, <3>1, <3>2
    <3> QED BY <3>1, <3>3
  <2> QED BY <2>1, <2>2
<1>3. gone \in Seq(Msgs) /\ Len(gone) = Len(wire) /\ \A i \in 1 .. Len(wire) : gone[i] = accepted[i]
  <2>1. DOMAIN wire = 1 .. Len(wire) /\ \A i \in 1 .. Len(wire) : accepted[i] \in Msgs
    BY <1>1, <1>2
  <2> QED BY <1>1, <2>1
<1> HIDE DEF gone
<1>4. /\ Left = Begun \o sendList /\ Left \in Seq(Msgs) /\ Len(Left) = Len(Begun) + Len(sendList)
      /\ \A i \in 1 .. Len(Left) : Left[i] = IF i <= Len(Begun) THEN Begun[i] ELSE sendList[i - Len(Begun)]
  <2>1. Left = Begun \o sendList
    BY DEF Left, Begun
  <2> QED BY <1>1, <1>2, <2>1, ConcatProperties
<1>5. \A i \in 1 .. Len(Left) : Left[i] = accepted[Len(wire) + i]
  <2> TAKE i \in 1 .. Len(Left)
  <2>1. CASE i <= Len(Begun)
    BY <1>1, <1>2, <1>4, <2>1
  <2>2. CASE i > Len(Begun)
    <3> DEFINE j == i - Len(Begun)
    <3>1. j \in 1 .. Len(sendList) /\ Len(wire) + Len(Begun) + j = Len(wire) + i
      BY <1>1, <1>2, <1>4, <2>2
    <3>2. Left[i] = sendList[j]
      BY <1>2, <1>4, <2>2
    <3> HIDE DEF j
    <3>3. accepted[Len(wire) + Len(Begun) + j] = sendList[j]
      BY <1>1, <3>1
    <3> QED BY <3>1, <3>2, <3>3
  <2> QED BY <1>2, <2>1, <2>2
<1>6. /\ gone \o Left \in Seq(Msgs) /\ Len(gone \o Left) = Len(wire) + Len(Left)
      /\ \A i \in 1 .. Len(wire) + Len(Left) :
           (gone \o Left)[i] = IF i <= Len(wire) THEN gone[i] ELSE Left[i - Len(wire)]
  <2>1. /\ gone \o Left \in Seq(Msgs) /\ Len(gone \o Left) = Len(gone) + Len(Left)
        /\ \A i \in 1 .. Len(gone) + Len(Left) :
             (gone \o Left)[i] = IF i <= Len(gone) THEN gone[i] ELSE Left[i - Len(gone)]
    BY <1>3, <1>4, ConcatProperties
  <2> QED BY <1>3, <2>1
<1>7. Len(gone \o Left) = Len(accepted) /\ Len(Left) \in Nat
  BY <1>1, <1>2, <1>4, <1>6
<1>8. \A i \in 1 .. Len(gone \o Left) : (gone \o Left)[i] = accepted[i]
  <2> TAKE i \in 1 .. Len(gone \o Left)
  <2>1. CASE i <= Len(wire)
    BY <1>1, <1>3, <1>6, <1>7, <2>1
  <2>2. CASE i > Len(wire)
    <3> DEFINE j == i - Len(wire)
    <3>1. j \in 1 .. Len(Left) /\ Len(wire) + j = i
      BY <1>1, <1>6, <1>7, <2>2
    <3>2. (gone \o Left)[i] = Left[j]
      BY <1>1, <1>6, <1>7, <2>2
    <3> HIDE DEF j
    <3>3. Left[j] = accepted[Len(wire) + j]
      BY <1>5, <3>1
    <3> QED BY <3>1, <3>2, <3>3
  <2> QED BY <1>1, <2>1, <2>2
<1>9. gone \o Left = accepted
  BY <1>1, <1>6, <1>7, <1>8, SeqEqual
<1> QED BY <1>9 DEF gone

(* Every datagram put is sent once or given up once, in order: the half of *)
(* NothingLost that is about UDP (mytask.cpp:285-330).                     *)
THEOREM DatagramsInOrder == Spec => [](kind = "udp" => NothingLost)
<1>1. Init => IInv /\ InOrder
  BY IInvInit, OrderInit
<1>2. IInv /\ InOrder /\ [Next]_vars => (IInv /\ InOrder)'
  BY IInvStep, OrderStep
<1>3. IInv /\ InOrder => (kind = "udp" => NothingLost)
  BY OrderSaysNothingLost
<1> QED BY <1>1, <1>2, <1>3, PTL DEF Spec
-----------------------------------------------------------------------------
(***************************************************************************)
(* The stream: the units that have left, what is left of the message begun *)
(* and the messages that wait join up to the messages put.  SendData moves *)
(* the line between the first two, SendProcess takes a message off the     *)
(* last, PutMsgToSendList adds one to both sides.                          *)
(***************************************************************************)
Cells == Msgs \X Nat
PartLeft == IF cur = None THEN <<>> ELSE Units(cur, curSent, Size[cur])
Ahead(part, rest) == wire \o part \o Concat(rest)
StreamInOrder ==
  kind = "tcp" => /\ wire \in Seq(Cells) /\ accepted \in Seq(Msgs)
                  /\ task = "alive" => Ahead(PartLeft, sendList) = Concat(accepted)
                  /\ task # "alive" => IsPrefix(wire, Concat(accepted))

LEMMA UnitElements ==
  ASSUME NEW m \in Msgs, NEW a \in Nat, NEW b \in Nat, a <= b
  PROVE  /\ Units(m, a, b) \in Seq(Cells) /\ Len(Units(m, a, b)) = b - a
         /\ \A i \in 1 .. b - a : Units(m, a, b)[i] = <<m, a + i>>
<1>1. b - a \in Nat /\ \A i \in 1 .. b - a : <<m, a + i>> \in Cells
  BY DEF Cells
<1> QED BY <1>1 DEF Units

LEMMA UnitsNone ==
  ASSUME NEW m, NEW a \in Nat
  PROVE  Units(m, a, a) = <<>>
BY DEF Units

LEMMA UnitsJoin ==
  ASSUME NEW m \in Msgs, NEW a \in Nat, NEW b \in Nat, NEW c \in Nat, a <= b, b <= c
  PROVE  Units(m, a, b) \o Units(m, b, c) = Units(m, a, c)
<1>1. PICK p \in Seq(Cells) : p = Units(m, a, b) /\ Len(p) = b - a /\ \A i \in 1 .. b - a : p[i] = <<m, a + i>>
  BY UnitElements
<1>2. PICK q \in Seq(Cells) : q = Units(m, b, c) /\ Len(q) = c - b /\ \A i \in 1 .. c - b : q[i] = <<m, b + i>>
  BY UnitElements
<1>3. PICK r \in Seq(Cells) : r = Units(m, a, c) /\ Len(r) = c - a /\ \A i \in 1 .. c - a : r[i] = <<m, a + i>>
  <2>1. a <= c
    OBVIOUS
  <2> QED BY <2>1, UnitElements
<1>4. PICK s \in Seq(Cells) : /\ s = p \o q /\ Len(s) = Len(p) + Len(q)
                              /\ \A k \in 1 .. Len(p) : s[k] = p[k]
                              /\ \A k \in 1 .. Len(q) : s[Len(p) + k] = q[k]
  <2>1. /\ p \o q \in Seq(Cells) /\ Len(p \o q) = Len(p) + Len(q)
        /\ \A k \in 1 .. Len(p) : (p \o q)[k] = p[k]
        /\ \A k \in 1 .. Len(q) : (p \o q)[Len(p) + k] = q[k]
    BY JoinedElements
  <2> QED BY <2>1
<1>5. Len(s) = c - a
  BY <1>1, <1>2, <1>4
<1>6. ASSUME NEW i \in 1 .. c - a PROVE s[i] = <<m, a + i>>
  <2>1. CASE i <= b - a
    BY <1>1, <1>4, <2>1
  <2>2. CASE i > b - a
    <3>1. PICK k \in 1 .. c - b : k = i - (b - a)
      BY <2>2
    <3>2. b + k = a + i /\ Len(p) + k = i /\ k \in 1 .. Len(q)
      BY <1>1, <1>2, <3>1
    <3>3. s[Len(p) + k] = q[k] /\ q[k] = <<m, b + k>>
      BY <1>2, <1>4, <3>2
    <3> QED BY <3>2, <3>3
  <2> QED BY <2>1, <2>2
<1>7. s = r
  <2>1. Len(s) = Len(r) /\ \A i \in 1 .. Len(s) : s[i] = r[i]
    BY <1>3, <1>5, <1>6
  <2> QED BY <2>1, SameElements
<1> QED BY <1>1, <1>2, <1>3, <1>4, <1>7

Parts(ms) == [i \in DOMAIN ms |-> Bytes(ms[i])]

LEMMA BytesType == \A m \in Msgs : Bytes(m) \in Seq(Cells)
<1> TAKE m \in Msgs
<1>1. Size[m] \in Nat /\ 0 <= Size[m]
  BY SendPathAssumption
<1> QED BY <1>1, UnitElements DEF Bytes

LEMMA PartElements ==
  ASSUME NEW ms \in Seq(Msgs)
  PROVE  /\ Parts(ms) \in Seq(Seq(Cells)) /\ Len(Parts(ms)) = Len(ms)
         /\ \A i \in 1 .. Len(ms) : Parts(ms)[i] = Bytes(ms[i])
<1>1. DOMAIN ms = 1 .. Len(ms) /\ Len(ms) \in Nat /\ \A i \in 1 .. Len(ms) : ms[i] \in Msgs
  OBVIOUS
<1>2. \A i \in 1 .. Len(ms) : Bytes(ms[i]) \in Seq(Cells)
  BY <1>1, BytesType
<1> QED BY <1>1, <1>2 DEF Parts

LEMMA ConcatEmpty == Concat(<<>>) = <<>>
<1>1. Parts(<<>>) = <<>>
  BY DEF Parts
<1> QED BY <1>1, FlattenEmpty DEF Concat, Parts

LEMMA ConcatType == ASSUME NEW ms \in Seq(Msgs) PROVE Concat(ms) \in Seq(Cells)
<1>1. FlattenSeq(Parts(ms)) \in Seq(Cells)
  BY PartElements, FlattenType
<1> QED BY <1>1, Zenon DEF Concat, Parts

LEMMA ConcatAppend ==
  ASSUME NEW ms \in Seq(Msgs), NEW m \in Msgs
  PROVE  Concat(Append(ms, m)) = Concat(ms) \o Bytes(m)
<1>1. PICK ns \in Seq(Msgs), n \in Nat :
        /\ ns = Append(ms, m) /\ n = Len(ms) /\ Len(ns) = n + 1 /\ ns[n + 1] = m
        /\ \A i \in 1 .. n : ms[i] = ns[i]
  <2>1. /\ Append(ms, m) \in Seq(Msgs) /\ Len(ms) \in Nat /\ Len(Append(ms, m)) = Len(ms) + 1
        /\ \A i \in 1 .. Len(ms) : ms[i] = Append(ms, m)[i]
        /\ Append(ms, m)[Len(ms) + 1] = m
    BY AppendElements
  <2> QED BY <2>1, Zenon
<1>2. PICK p \in Seq(Seq(Cells)) : /\ p = Parts(ms) /\ Len(p) = n
                                   /\ \A i \in 1 .. n : p[i] = Bytes(ms[i])
  BY <1>1, PartElements
<1>3. PICK q \in Seq(Seq(Cells)) : /\ q = Parts(ns) /\ Len(q) = n + 1
                                   /\ \A i \in 1 .. n + 1 : q[i] = Bytes(ns[i])
  BY <1>1, PartElements
<1>4. PICK e \in Seq(Cells) : e = Bytes(m)
  BY BytesType
<1>5. q = Append(p, e)
  <2>1. PICK r \in Seq(Seq(Cells)) :
          /\ r = Append(p, e) /\ Len(r) = n + 1 /\ r[n + 1] = e
          /\ \A i \in 1 .. n : p[i] = r[i]
    <3>1. /\ Append(p, e) \in Seq(Seq(Cells)) /\ Len(Append(p, e)) = Len(p) + 1
          /\ \A i \in 1 .. Len(p) : p[i] = Append(p, e)[i]
          /\ Append(p, e)[Len(p) + 1] = e
      BY AppendElements
    <3> QED BY <1>2, <3>1, Zenon
  <2>2. \A i \in 1 .. n + 1 : r[i] = q[i]
    <3> TAKE i \in 1 .. n + 1
    <3>1. i \in 1 .. n \/ i = n + 1
      OBVIOUS
    <3>2. i \in 1 .. n => r[i] = q[i]
      BY <1>1, <1>2, <1>3, <2>1
    <3>3. i = n + 1 => r[i] = q[i]
      BY <1>1, <1>3, <1>4, <2>1
    <3> QED BY <3>1, <3>2, <3>3
  <2>3. r = q
    BY <1>3, <2>1, <2>2, SameElements
  <2> QED BY <2>1, <2>3
<1>6. FlattenSeq(q) = FlattenSeq(p) \o e
  BY <1>5, FlattenAppend
<1> QED BY <1>1, <1>2, <1>3, <1>4, <1>6 DEF Concat, Parts

LEMMA ConcatTail ==
  ASSUME NEW ms \in Seq(Msgs), ms # <<>>
  PROVE  Concat(ms) = Bytes(Head(ms)) \o Concat(Tail(ms))
<1>1. PICK ns \in Seq(Msgs), n \in Nat :
        /\ ns = Tail(ms) /\ n = Len(ns) /\ Len(ms) = n + 1
        /\ \A i \in 1 .. n : ns[i] = ms[i + 1]
        /\ Head(ms) = ms[1] /\ ms[1] \in Msgs
  BY TailElements
<1>2. PICK p \in Seq(Seq(Cells)) : /\ p = Parts(ms) /\ Len(p) = n + 1
                                   /\ \A i \in 1 .. n + 1 : p[i] = Bytes(ms[i])
  BY <1>1, PartElements
<1>3. PICK q \in Seq(Seq(Cells)) : /\ q = Parts(ns) /\ Len(q) = n
                                   /\ \A i \in 1 .. n : q[i] = Bytes(ns[i])
  BY <1>1, PartElements
<1>4. p # <<>>
  BY <1>2
<1>5. PICK r \in Seq(Seq(Cells)) :
        /\ r = Tail(p) /\ Len(r) = n /\ Head(p) = p[1]
        /\ \A i \in 1 .. n : r[i] = p[i + 1]
  <2>1. PICK t \in Seq(Seq(Cells)), k \in Nat, l \in Nat :
          /\ t = Tail(p) /\ k = Len(t) /\ l = Len(p) /\ l = k + 1
          /\ \A i \in 1 .. k : t[i] = p[i + 1]
          /\ Head(p) = p[1] /\ p[1] \in Seq(Cells)
    BY <1>4, TailElements, Zenon
  <2>2. k = n
    BY <1>2, <2>1
  <2> QED BY <2>1, <2>2
<1>6. q = r
  <2>1. ASSUME NEW i \in 1 .. n PROVE q[i] = r[i]
    <3>1. i + 1 \in 1 .. n + 1
      OBVIOUS
    <3> QED BY <1>1, <1>2, <1>3, <1>5, <3>1
  <2> QED BY <1>3, <1>5, <2>1, SameElements
<1>7. FlattenSeq(p) = Head(p) \o FlattenSeq(Tail(p))
  BY <1>4, FlattenTail
<1>8. Head(p) = Bytes(Head(ms))
  <2>1. 1 \in 1 .. n + 1
    OBVIOUS
  <2> QED BY <1>1, <1>2, <1>5, <2>1
<1>9. Concat(ms) = FlattenSeq(p) /\ Concat(ns) = FlattenSeq(Tail(p))
  BY <1>2, <1>3, <1>5, <1>6, Zenon DEF Concat, Parts
<1> QED BY <1>1, <1>7, <1>8, <1>9

LEMMA OrderedInit == Init => StreamInOrder
<1> SUFFICES ASSUME Init PROVE StreamInOrder
  OBVIOUS
<1>1. /\ wire = <<>> /\ accepted = <<>> /\ sendList = <<>> /\ cur = None /\ task = "alive"
      /\ PartLeft = <<>> /\ <<>> \in Seq(Cells) /\ <<>> \in Seq(Msgs)
  BY DEF Init, PartLeft
<1>2. (<<>> \o <<>>) \o <<>> = <<>>
  OBVIOUS
<1>3. Ahead(PartLeft, sendList) = Concat(accepted)
  BY <1>1, <1>2, ConcatEmpty DEF Ahead
<1> QED BY <1>1, <1>3 DEF StreamInOrder

LEMMA PartType == ASSUME QueueOK PROVE PartLeft \in Seq(Cells)
<1>1. CASE cur = None
  BY <1>1 DEF PartLeft
<1>2. CASE cur # None
  <2>1. cur \in Msgs /\ curSent \in Nat /\ curSent < Size[cur] /\ Size[cur] \in Nat
    BY <1>2, SendPathAssumption DEF QueueOK
  <2>2. curSent <= Size[cur]
    BY <2>1
  <2> QED BY <1>2, <2>1, <2>2, UnitElements DEF PartLeft
<1> QED BY <1>1, <1>2

LEMMA OrderedPut ==
  ASSUME IInv, StreamInOrder, kind = "tcp", NEW m \in Msgs, PutMsgToSendList(m)
  PROVE  StreamInOrder'
<1>1. /\ accepted' = Append(accepted, m) /\ sendList' = Append(sendList, m) /\ wire' = wire
      /\ task = "alive" /\ task' = "alive" /\ UNCHANGED <<cur, curSent>>
  BY DEF PutMsgToSendList
<1>2. /\ wire \in Seq(Cells) /\ accepted \in Seq(Msgs) /\ sendList \in Seq(Msgs)
      /\ Ahead(PartLeft, sendList) = Concat(accepted) /\ QueueOK
  BY <1>1, TypeParts DEF StreamInOrder, IInv, QueueOK
<1>3. PartLeft' = PartLeft /\ PartLeft \in Seq(Cells)
  BY <1>1, <1>2, PartType DEF PartLeft
<1>4. /\ Concat(sendList) \in Seq(Cells) /\ Bytes(m) \in Seq(Cells)
      /\ Concat(accepted') = Concat(accepted) \o Bytes(m)
      /\ Concat(sendList') = Concat(sendList) \o Bytes(m)
  BY <1>1, <1>2, ConcatType, ConcatAppend, BytesType
<1>5. PICK x \in Seq(Cells) : x = wire \o PartLeft
  BY <1>2, <1>3, JoinType
<1>6. (x \o Concat(sendList)) \o Bytes(m) = x \o (Concat(sendList) \o Bytes(m))
  <2>1. Regroups(x, Concat(sendList), Bytes(m))
    BY <1>4, JoinInside, Zenon
  <2> QED BY <2>1 DEF Regroups
<1>7. x \o Concat(sendList') = Concat(accepted')
  BY <1>2, <1>4, <1>5, <1>6 DEF Ahead
<1>8. Ahead(PartLeft, sendList)' = Concat(accepted)'
  BY <1>1, <1>3, <1>5, <1>7 DEF Ahead
<1>9. accepted' \in Seq(Msgs)
  BY <1>1, <1>2, AppendElements
<1> QED BY <1>1, <1>2, <1>8, <1>9 DEF StreamInOrder

LEMMA OrderedEnd ==
  ASSUME wire \in Seq(Cells), accepted \in Seq(Msgs),
         NEW p \in Seq(Cells), NEW rest \in Seq(Msgs), Ahead(p, rest) = Concat(accepted),
         DestroySelf \/ Killed
  PROVE  StreamInOrder'
<1>1. UNCHANGED <<wire, accepted>> /\ task' # "alive"
  BY DEF DestroySelf, Killed, Ended
<1>2. PICK q \in Seq(Cells) : q = Concat(rest)
  BY ConcatType
<1>3. wire \o (p \o q) = Concat(accepted)
  <2>1. (wire \o p) \o q = wire \o (p \o q)
    <3>1. Regroups(wire, p, q)
      BY JoinInside, Zenon
    <3> QED BY <3>1 DEF Regroups
  <2> QED BY <1>2, <2>1 DEF Ahead
<1>4. IsPrefix(wire, Concat(accepted))
  <2>1. p \o q \in Seq(Cells)
    BY JoinType
  <2> QED BY <1>3, <2>1, ConcatPrefix
<1> QED BY <1>1, <1>4 DEF StreamInOrder

LEMMA OrderedSend ==
  ASSUME wire \in Seq(Cells), accepted \in Seq(Msgs), kind = "tcp", task = "alive",
         NEW m \in Msgs, NEW sent \in Nat, sent < Size[m], NEW rest \in Seq(Msgs),
         Ahead(Units(m, sent, Size[m]), rest) = Concat(accepted), TcpSendData(m, sent, rest)
  PROVE  StreamInOrder'
<1>1. m # None /\ Size[m] \in Nat
  BY SendPathAssumption
<1>2. Units(m, sent, Size[m]) \in Seq(Cells) /\ Concat(rest) \in Seq(Cells)
  <2>1. sent <= Size[m]
    BY <1>1
  <2> QED BY <1>1, <2>1, UnitElements, ConcatType
<1>3. ASSUME NEW n \in 1 .. SndBuf - buffered, sent + n <= Size[m],
             wire' = wire \o Units(m, sent, sent + n), Sent(m, sent + n), sendList' = rest,
             UNCHANGED <<task, accepted>>
      PROVE  StreamInOrder'
  <2>1. PICK l \in Nat : l = sent + n /\ sent <= l /\ l <= Size[m]
    BY <1>3
  <2>2. /\ Units(m, sent, l) \in Seq(Cells) /\ Units(m, l, Size[m]) \in Seq(Cells)
        /\ Units(m, sent, l) \o Units(m, l, Size[m]) = Units(m, sent, Size[m])
    BY <1>1, <2>1, UnitElements, UnitsJoin
  <2>3. PartLeft' = Units(m, l, Size[m])
    <3>1. CASE l = Size[m]
      <4>1. PartLeft' = <<>>
        BY <1>3, <2>1, <3>1 DEF Sent, PartLeft
      <4> QED BY <1>1, <3>1, <4>1, UnitsNone
    <3>2. CASE l # Size[m]
      BY <1>1, <1>3, <2>1, <3>2 DEF Sent, PartLeft
    <3> QED BY <3>1, <3>2
  <2>4. wire' \in Seq(Cells) /\ wire' = wire \o Units(m, sent, l)
    BY <1>3, <2>1, <2>2, JoinType
  <2>5. wire' \o Units(m, l, Size[m]) = wire \o Units(m, sent, Size[m])
    <3>1. PICK b \in Seq(Cells), c \in Seq(Cells) : b = Units(m, sent, l) /\ c = Units(m, l, Size[m])
      BY <2>2, Zenon
    <3>2. PICK e \in Seq(Cells) : e = Units(m, sent, Size[m])
      BY <1>2, Zenon
    <3>3. wire' = wire \o b /\ b \o c = e
      BY <2>2, <2>4, <3>1, <3>2
    <3>4. Regroups(wire, b, c)
      BY JoinInside, Zenon
    <3>5. wire' \o c = wire \o e
      BY <3>3, <3>4 DEF Regroups
    <3> QED BY <3>1, <3>2, <3>5
  <2>6. Ahead(PartLeft, sendList)' = Concat(accepted)'
    BY <1>3, <2>3, <2>5 DEF Ahead
  <2> QED BY <1>3, <2>4, <2>6 DEF StreamInOrder
<1>4. ASSUME cur' = m, curSent' = sent, sendList' = rest, UNCHANGED <<task, accepted, wire>>
      PROVE  StreamInOrder'
  <2>1. PartLeft' = Units(m, sent, Size[m])
    BY <1>1, <1>4 DEF PartLeft
  <2>2. Ahead(PartLeft, sendList)' = Concat(accepted)'
    BY <1>4, <2>1 DEF Ahead
  <2> QED BY <1>4, <2>2 DEF StreamInOrder
<1>5. CASE DestroySelf \/ Killed
  BY <1>2, <1>5, OrderedEnd
<1> QED BY <1>3, <1>4, <1>5 DEF TcpSendData

LEMMA OrderedStep == IInv /\ StreamInOrder /\ [Next]_vars => StreamInOrder'
<1> SUFFICES ASSUME IInv, StreamInOrder, [Next]_vars, kind' = "tcp" PROVE StreamInOrder'
  BY DEF StreamInOrder
<1>1. kind = "tcp"
  BY DEF Next, Reactor, AddToEpoll, PutMsgToSendList, HandleProcess, RecvProcessReturns,
         DestroySelf, Killed, Ended, SendProcess, SendData, TcpSendData, UdpSendData, NothingToSend, PeerReads, PeerBreaks, vars, nvars
<1>2. CASE UNCHANGED <<accepted, wire, cur, curSent, sendList, task>>
  BY <1>1, <1>2 DEF StreamInOrder, PartLeft, Ahead
<1>3. CASE AddToEpoll \/ (\E in \in BOOLEAN : HandleProcess(in)) \/ PeerReads
           \/ PeerBreaks \/ UNCHANGED vars
  <2>1. UNCHANGED <<accepted, wire, cur, curSent, sendList, task>>
    BY <1>1, <1>3 DEF AddToEpoll, HandleProcess, PeerReads, PeerBreaks, vars, tvars
  <2> QED BY <1>2, <2>1
<1>4. CASE \E m \in Msgs : PutMsgToSendList(m)
  BY <1>1, <1>4, OrderedPut
<1>5. ASSUME at # "wait"
      PROVE  /\ task = "alive" /\ wire \in Seq(Cells) /\ accepted \in Seq(Msgs) /\ sendList \in Seq(Msgs)
             /\ Ahead(PartLeft, sendList) = Concat(accepted) /\ QueueOK
  <2>1. task = "alive"
    BY <1>5 DEF IInv, SetHasLiving, HandledIsInSet
  <2>2. QueueOK /\ sendList \in Seq(Msgs)
    BY TypeParts DEF IInv, QueueOK
  <2> QED BY <1>1, <2>1, <2>2 DEF StreamInOrder
<1>6. CASE RecvProcessReturns
  <2>1. at # "wait"
    BY <1>6 DEF RecvProcessReturns
  <2>2. CASE DestroySelf
    BY <1>5, <2>1, <2>2, PartType, OrderedEnd
  <2>3. CASE ~DestroySelf
    <3>1. UNCHANGED <<accepted, wire, cur, curSent, sendList, task>>
      BY <1>6, <2>3 DEF RecvProcessReturns, tvars
    <3> QED BY <1>2, <3>1
  <2> QED BY <2>2, <2>3
<1>7. CASE SendProcess
  <2>1. /\ task = "alive" /\ wire \in Seq(Cells) /\ accepted \in Seq(Msgs) /\ sendList \in Seq(Msgs)
        /\ Ahead(PartLeft, sendList) = Concat(accepted) /\ QueueOK
    <3>1. at # "wait"
      BY <1>7 DEF SendProcess
    <3> QED BY <1>5, <3>1
  <2>2. CASE cur # None /\ SendData(cur, curSent, sendList)
    <3>1. cur \in Msgs /\ curSent \in Nat /\ curSent < Size[cur] /\ PartLeft = Units(cur, curSent, Size[cur])
      BY <2>1, <2>2 DEF QueueOK, PartLeft
    <3>2. TcpSendData(cur, curSent, sendList)
      BY <1>1, <2>2 DEF SendData
    <3> QED BY <1>1, <2>1, <3>1, <3>2, OrderedSend
  <2>3. CASE cur = None /\ sendList # <<>> /\ SendData(Head(sendList), curSent, Tail(sendList))
    <3>1. PICK h \in Msgs, r \in Seq(Msgs) : h = Head(sendList) /\ r = Tail(sendList)
      <4>1. Head(sendList) \in Msgs /\ Tail(sendList) \in Seq(Msgs)
        BY <2>1, <2>3
      <4> QED BY <4>1
    <3>2. TcpSendData(h, 0, r) /\ 0 < Size[h] /\ Size[h] \in Nat
      BY <1>1, <2>1, <2>3, <3>1, SendPathAssumption DEF SendData, QueueOK
    <3>3. Concat(sendList) = Units(h, 0, Size[h]) \o Concat(r)
      BY <2>1, <2>3, <3>1, ConcatTail DEF Bytes
    <3>4. /\ PartLeft = <<>> /\ wire \o <<>> = wire
      BY <2>1, <2>3, JoinNone DEF PartLeft
    <3>5. (wire \o Units(h, 0, Size[h])) \o Concat(r) = wire \o (Units(h, 0, Size[h]) \o Concat(r))
      <4>1. Units(h, 0, Size[h]) \in Seq(Cells) /\ Concat(r) \in Seq(Cells)
        BY <3>1, BytesType, ConcatType DEF Bytes
      <4>2. Regroups(wire, Units(h, 0, Size[h]), Concat(r))
        BY <2>1, <4>1, JoinInside, Zenon
      <4> QED BY <4>2 DEF Regroups
    <3>6. Ahead(Units(h, 0, Size[h]), r) = Concat(accepted)
      BY <2>1, <3>3, <3>4, <3>5 DEF Ahead
    <3>7. 0 \in Nat
      OBVIOUS
    <3> QED BY <1>1, <2>1, <3>2, <3>6, <3>7, OrderedSend
  <2>4. CASE ~Pending /\ NothingToSend
    BY <1>2, <2>4 DEF NothingToSend, tvars
  <2> QED BY <1>7, <2>2, <2>3, <2>4 DEF SendProcess
<1> QED BY <1>3, <1>4, <1>6, <1>7 DEF Next, Reactor

LEMMA BothSayNothingLost == IInv /\ InOrder /\ StreamInOrder => NothingLost
<1> SUFFICES ASSUME IInv, InOrder, StreamInOrder PROVE NothingLost
  OBVIOUS
<1>1. CASE kind = "udp"
  BY <1>1, OrderSaysNothingLost
<1>2. CASE kind = "tcp"
  BY <1>2 DEF NothingLost, StreamInOrder, Ahead, PartLeft
<1> QED BY <1>1, <1>2, SendPathAssumption DEF IInv, TypeOK

(* No byte of a stream is lost, repeated or overtaken, whatever the sizes  *)
(* of the pieces it leaves in, and no datagram leaves out of turn; when an *)
(* error ends the task the peer has a prefix (mytask.cpp:147-185, 285-330).*)
THEOREM NothingIsLost == Spec => []NothingLost
<1>1. Init => IInv /\ InOrder /\ StreamInOrder
  BY IInvInit, OrderInit, OrderedInit
<1>2. IInv /\ InOrder /\ StreamInOrder /\ [Next]_vars => (IInv /\ InOrder /\ StreamInOrder)'
  BY IInvStep, OrderStep, OrderedStep
<1>3. IInv /\ InOrder /\ StreamInOrder => NothingLost
  BY BothSayNothingLost
<1> QED BY <1>1, <1>2, <1>3, PTL DEF Spec
-----------------------------------------------------------------------------
(* The receiving half of a TCP task: TcpFraming, for any frames and any    *)
(* width of a length.  Types first, and that every access is inside the    *)
(* buffer; then, what the buffer and the socket hold between them as long  *)
(* as no frame was cut, which is what FramesIntact and NeverCrashes take.  *)

(* What FramingTypeOK says of the buffer, of the frame being read, and of  *)
(* the rest.                                                               *)
MemOK == mem \in [0 .. Cap - 1 -> Data] /\ offset \in 0 .. Cap
ReadOK == /\ \/ state = "ReadPacketLen" /\ getOffset = 0
             \/ state = "ReadPacket" /\ getOffset = 2 /\ offset >= 2 /\ total # 0
          /\ total \in 0 .. Cap - 1 /\ dataSize \in Range16
NetOK == /\ phase \in {"recv", "parse"} /\ life \in {"open", "closed", "crashed"}
         /\ net \in Seq(Data) /\ next \in 1 .. Len(Total) + 1
         /\ peer \in {"open", "closed", "reset"} /\ cut \in BOOLEAN
         /\ phase = "parse" => life = "open"

(* The size of the body belongs to the length read; while a task waits for *)
(* bytes there is room for some.                                           *)
SizeFits == state = "ReadPacket" => dataSize = DataSize(total)
RoomLeft == life = "open" /\ phase = "recv" => offset < Cap

BufferInv == MemOK /\ ReadOK /\ NetOK /\ SizeFits /\ RoomLeft

LEMMA BufferTypes == BufferInv => FramingTypeOK
BY DEF BufferInv, MemOK, ReadOK, NetOK, FramingTypeOK

LEMMA LengthFacts ==
  /\ MaxShort \in Nat /\ Cap \in Nat /\ Cap >= 4 /\ Cap = 2 * (MaxShort + 1)
  /\ Len(Total) \in Nat /\ DOMAIN Total = 1 .. Len(Total)
  /\ \A f \in DOMAIN Total : Total[f] \in 2 .. Cap - 1
BY TcpFramingAssumption

(* The signed size of a length.                                            *)
LEMMA SizeOf ==
  ASSUME NEW len \in 0 .. Cap - 1, len # 0
  PROVE  /\ DataSize(len) \in Range16
         /\ DataSize(len) >= 0 => DataSize(len) = len - 2
         /\ DataSize(len) < 0 => len = 1 \/ len - 2 > MaxShort
BY LengthFacts DEF DataSize, Range16

LEMMA JumpFits == BufferInv => JumpBuffer \in 0 .. offset
BY LengthFacts DEF BufferInv, MemOK, ReadOK, JumpBuffer

LEMMA BufferInit == FramingInit => BufferInv
<1> SUFFICES ASSUME FramingInit PROVE BufferInv
  OBVIOUS
<1>1. MemOK
  BY LengthFacts DEF FramingInit, MemOK, Data
<1>2. ReadOK
  <2>1. 0 \in 0 .. Cap - 1 /\ 0 \in Range16
    BY LengthFacts DEF Range16
  <2> QED BY <2>1 DEF FramingInit, ReadOK
<1>3. NetOK
  <2>1. 1 \in 1 .. Len(Total) + 1 /\ <<>> \in Seq(Data)
    BY LengthFacts
  <2> QED BY <2>1 DEF FramingInit, NetOK
<1> QED BY <1>1, <1>2, <1>3, LengthFacts DEF BufferInv, SizeFits, RoomLeft, FramingInit

(* What RecvProcess reads as a length is one, and of a frame's own bytes   *)
(* that of the frame.                                                      *)
LEMMA LengthRead ==
  ASSUME BufferInv, state = "ReadPacketLen", offset >= 2, NEW len,
         len \in (IF getOffset + 2 > offset THEN {0} ELSE Short(getOffset))
  PROVE  len \in 0 .. Cap - 1 /\ Jumped(2) = 2
<1>1. getOffset = 0 /\ mem[0] \in Data /\ offset \in 0 .. Cap
  BY LengthFacts DEF BufferInv, MemOK, ReadOK
<1>2. mem[0][1] # 0 => mem[0][1] \in DOMAIN Total
  BY <1>1 DEF Data, Junk
<1>3. Jumped(2) = 2
  BY <1>1, LengthFacts DEF Jumped
<1>4. Short(0) \subseteq 0 .. Cap - 1
  BY <1>2, LengthFacts DEF Short
<1> QED BY <1>1, <1>3, <1>4

(* recv: what arrives is put behind read position and fits.               *)
LEMMA BufferRecv == ASSUME BufferInv, Recv PROVE BufferInv'
<1>1. PICK n \in 1 .. MaxReceive \cap 1 .. Len(net) :
        /\ mem' = [i \in 0 .. Cap - 1 |->
                     IF i \in JumpBuffer .. JumpBuffer + n - 1
                     THEN net[i - JumpBuffer + 1] ELSE mem[i]]
        /\ offset' = offset + n
        /\ net' = SubSeq(net, n + 1, Len(net))
        /\ cut' = (cut \/ net[n][2] # Total[net[n][1]])
  BY DEF Recv
<1>2. UNCHANGED <<getOffset, state, total, dataSize, life, next, peer>> /\ phase' = "parse"
  BY DEF Recv, svars
<1>3. JumpBuffer \in Nat
  BY JumpFits, LengthFacts DEF BufferInv, MemOK
<1>4. net \in Seq(Data) /\ n \in 1 .. Len(net)
  BY <1>1 DEF BufferInv, NetOK
<1>5. MemOK'
  <2>1. offset' \in 0 .. Cap
    BY <1>1, LengthFacts DEF BufferInv, MemOK, MaxReceive
  <2>2. ASSUME NEW i \in 0 .. Cap - 1, i \in JumpBuffer .. JumpBuffer + n - 1
        PROVE  net[i - JumpBuffer + 1] \in Data
    <3>1. i - JumpBuffer + 1 \in 1 .. Len(net)
      BY <1>3, <1>4, <2>2, LengthFacts
    <3> QED BY <1>4, <3>1, ElementOfSeq
  <2>3. ASSUME NEW i \in 0 .. Cap - 1 PROVE mem[i] \in Data
    BY DEF BufferInv, MemOK
  <2> QED BY <1>1, <2>1, <2>2, <2>3, Zenon DEF MemOK
<1>6. net' \in Seq(Data)
  BY <1>1, <1>4
<1>7. ReadOK'
  BY <1>1, <1>2, <1>5, LengthFacts DEF BufferInv, MemOK, ReadOK
<1>8. NetOK'
  <2>1. cut' \in BOOLEAN
    BY <1>1, Zenon DEF BufferInv, NetOK
  <2>2. life = "open"
    BY DEF Recv
  <2> QED BY <1>2, <1>6, <2>1, <2>2 DEF BufferInv, NetOK
<1> QED BY <1>2, <1>5, <1>7, <1>8 DEF BufferInv, SizeFits, RoomLeft, DataSize

(* A frame is taken out: the rest moves to the front.                      *)
LEMMA BufferProcess ==
  ASSUME BufferInv, ReadPacket, dataSize >= 0, state' = "ReadPacketLen",
         ProcessOnePacket, UNCHANGED <<total, dataSize, phase, life, net, next, peer, cut>>
  PROVE  BufferInv'
<1>1. Jumped(dataSize) \in 0 .. offset
  BY LengthFacts DEF BufferInv, MemOK, ReadOK, Jumped, Range16
<1>2. /\ mem' = [i \in 0 .. Cap - 1 |->
                   IF i < offset - Jumped(dataSize) THEN mem[i + Jumped(dataSize)] ELSE mem[i]]
      /\ offset' = offset - Jumped(dataSize) /\ getOffset' = 0
  BY DEF ProcessOnePacket, AlignBuf
<1>3. MemOK'
  <2>1. offset' \in 0 .. Cap
    BY <1>1, <1>2, LengthFacts DEF BufferInv, MemOK
  <2>2. ASSUME NEW i \in 0 .. Cap - 1, i < offset - Jumped(dataSize)
        PROVE  mem[i + Jumped(dataSize)] \in Data
    BY <1>1, <2>2, LengthFacts DEF BufferInv, MemOK
  <2>3. ASSUME NEW i \in 0 .. Cap - 1 PROVE mem[i] \in Data
    BY DEF BufferInv, MemOK
  <2> QED BY <1>2, <2>1, <2>2, <2>3, Zenon DEF MemOK
<1>4. ReadOK' /\ NetOK'
  BY <1>2 DEF BufferInv, ReadOK, NetOK
<1>5. phase = "parse" /\ phase' = "parse"
  BY DEF ReadPacket
<1> QED BY <1>3, <1>4, <1>5 DEF BufferInv, SizeFits, RoomLeft

LEMMA FrameElements ==
  ASSUME NEW f \in DOMAIN Total
  PROVE  /\ Frame(f) \in Seq(Data) /\ Len(Frame(f)) = Total[f]
         /\ \A j \in 1 .. Total[f] : Frame(f)[j] = <<f, j>>
<1>1. Total[f] \in Nat /\ Total[f] <= Cap - 1 /\ Cap \in Nat
  BY LengthFacts
<1>2. Frame(f) = [i \in 1 .. Total[f] |-> <<f, i>>]
  BY DEF Frame
<1>3. \A i \in 1 .. Total[f] : <<f, i>> \in Data
  BY <1>1 DEF Data
<1>4. Frame(f) \in Seq(Data)
  BY <1>1, <1>2, <1>3
<1>5. DOMAIN Frame(f) = 1 .. Total[f]
  BY <1>2
<1>6. Len(Frame(f)) = Total[f]
  BY <1>1, <1>4, <1>5, LenProperties
<1> QED BY <1>2, <1>4, <1>6

LEMMA BufferNext ==
  ASSUME BufferInv, [FramingNext]_framingVars PROVE BufferInv'
<1>0. ASSUME UNCHANGED <<mem, offset, getOffset, state, total, dataSize>>, NetOK', RoomLeft'
      PROVE  BufferInv'
  <2>1. MemOK' /\ ReadOK' /\ SizeFits'
    BY <1>0 DEF BufferInv, MemOK, ReadOK, SizeFits, DataSize
  <2> QED BY <1>0, <2>1 DEF BufferInv
<1>1. ASSUME phase' = "recv", life' \in {"closed", "crashed"}, UNCHANGED <<bvars, svars, pvars, cut>>
      PROVE  BufferInv'
  BY <1>0, <1>1 DEF BufferInv, NetOK, RoomLeft, bvars, svars, pvars
<1>2. CASE Recv
  BY <1>2, BufferRecv
<1>3. CASE RecvNothing
  <2>1. CASE Destroy
    BY <1>1, <2>1 DEF Destroy
  <2>2. CASE phase' = "parse" /\ UNCHANGED <<bvars, svars, life, pvars, cut, delivered>>
    <3>1. life = "open"
      BY <1>3 DEF RecvNothing
    <3> QED BY <1>0, <2>2, <3>1 DEF BufferInv, NetOK, RoomLeft, bvars, svars, pvars
  <2> QED BY <1>3, <2>1, <2>2 DEF RecvNothing
<1>4. CASE MoreNeeded
  <2>1. offset < Cap
    BY <1>4, LengthFacts DEF MoreNeeded, BufferInv, MemOK
  <2> QED BY <1>0, <1>4, <2>1 DEF MoreNeeded, BufferInv, NetOK, RoomLeft, bvars, svars, pvars
<1>5. CASE ReadPacketLen
  <2>1. CASE Destroy
    BY <1>1, <2>1 DEF Destroy
  <2>2. ASSUME NEW len \in (IF getOffset + 2 > offset THEN {0} ELSE Short(getOffset)), len # 0,
               state' = "ReadPacket", total' = len, dataSize' = DataSize(len),
               getOffset' = Jumped(2), UNCHANGED <<mem, offset, phase, life, pvars, cut>>
        PROVE  BufferInv'
    <3>1. len \in 0 .. Cap - 1 /\ Jumped(2) = 2 /\ offset >= 2
      BY <1>5, LengthRead DEF ReadPacketLen
    <3>2. dataSize' \in Range16
      BY <2>2, <3>1, SizeOf
    <3>3. MemOK' /\ NetOK'
      BY <2>2 DEF BufferInv, MemOK, NetOK, pvars
    <3>4. ReadOK'
      BY <2>2, <3>1, <3>2 DEF ReadOK, Range16
    <3>5. SizeFits' /\ RoomLeft'
      BY <2>2 DEF BufferInv, SizeFits, RoomLeft, DataSize
    <3> QED BY <3>3, <3>4, <3>5 DEF BufferInv
  <2> QED BY <1>5, <2>1, <2>2 DEF ReadPacketLen
<1>6. CASE ReadPacket
  <2>1. CASE ~PacketFinished /\ phase' = "recv" /\ UNCHANGED <<bvars, svars, life, pvars, cut, delivered>>
    <3>1. offset < Cap
      BY <1>6, <2>1, LengthFacts DEF ReadPacket, PacketFinished, BufferInv, MemOK, ReadOK
    <3> QED BY <1>0, <2>1, <3>1 DEF BufferInv, NetOK, RoomLeft, bvars, svars, pvars
  <2>2. CASE /\ dataSize >= 0 /\ ProcessOnePacket /\ state' = "ReadPacketLen"
             /\ UNCHANGED <<total, dataSize, phase, life, pvars, cut>>
    BY <1>6, <2>2, BufferProcess DEF pvars
  <2>3. CASE /\ life' = "crashed" /\ phase' = "recv"
             /\ UNCHANGED <<bvars, svars, pvars, cut, delivered>>
    BY <1>1, <2>3
  <2> QED BY <1>6, <2>1, <2>2, <2>3 DEF ReadPacket
<1>7. CASE PeerSends
  <2>1. next \in DOMAIN Total /\ Total[next] \in 2 .. Cap - 1
    BY <1>7, LengthFacts DEF PeerSends, BufferInv, NetOK
  <2>2. Frame(next) \in Seq(Data)
    BY <2>1, FrameElements
  <2>3. net' \in Seq(Data)
    BY <1>7, <2>2 DEF PeerSends, BufferInv, NetOK
  <2>4. next' \in 1 .. Len(Total) + 1
    BY <1>7, <2>1, LengthFacts DEF PeerSends
  <2> QED BY <1>0, <1>7, <2>3, <2>4 DEF PeerSends, BufferInv, NetOK, RoomLeft, bvars, svars, pvars
<1>8. CASE PeerCloses
  BY <1>0, <1>8 DEF PeerCloses, BufferInv, NetOK, RoomLeft, bvars, svars, pvars
<1>9. CASE UNCHANGED framingVars
  BY <1>0, <1>9 DEF framingVars, BufferInv, NetOK, RoomLeft, bvars, svars, pvars
<1> QED BY <1>2, <1>3, <1>4, <1>5, <1>6, <1>7, <1>8, <1>9 DEF FramingNext, RecvProcess

(* However the stream is cut, the read position is at the start of the     *)
(* buffer when a length is next and right behind that length when a body   *)
(* is (CTcpTask::RecvProcess over CVBuffer).                               *)
THEOREM TcpTypes == FramingSpec => []FramingTypeOK
<1>1. FramingInit => BufferInv
  BY BufferInit
<1>2. BufferInv /\ [FramingNext]_framingVars => BufferInv'
  BY BufferNext
<1>3. BufferInv => FramingTypeOK
  BY BufferTypes
<1> QED BY <1>1, <1>2, <1>3, PTL DEF FramingSpec

(* The body of a finished frame lies in the buffer.                        *)
LEMMA BufferSafe == ASSUME BufferInv PROVE StaysInBuffer
<1> USE LengthFacts, JumpFits DEF BufferInv, MemOK
<1>1. ASSUME phase = "recv", life = "open"
      PROVE  MaxReceive > 0 /\ JumpBuffer + MaxReceive <= Cap
  BY <1>1 DEF RoomLeft, MaxReceive
<1>2. ASSUME state = "ReadPacket", PacketFinished
      PROVE  dataSize < 0 \/ JumpBuffer + dataSize <= offset
  <2>1. total \in 0 .. Cap - 1 /\ total # 0 /\ getOffset = 2 /\ dataSize = DataSize(total)
    BY <1>2 DEF ReadOK, SizeFits
  <2>2. dataSize \in Int /\ (dataSize >= 0 => dataSize = total - 2)
    BY <2>1, SizeOf DEF Range16
  <2> QED BY <1>2, <2>1, <2>2 DEF PacketFinished, JumpBuffer
<1> QED BY <1>1, <1>2 DEF StaysInBuffer

(* Neither recv nor the copy of ProcessOnePacket leaves the buffer, and    *)
(* recv is never given no room.                                            *)
THEOREM TcpStaysInBuffer == FramingSpec => []StaysInBuffer
<1>1. FramingInit => BufferInv
  BY BufferInit
<1>2. BufferInv /\ [FramingNext]_framingVars => BufferInv'
  BY BufferNext
<1>3. BufferInv => StaysInBuffer
  BY BufferSafe
<1> QED BY <1>1, <1>2, <1>3, PTL DEF FramingSpec
-----------------------------------------------------------------------------
(* Bytes that are whole frames, from frame f to the one before g, said of  *)
(* each byte: all of its frame is around it, and behind the last byte of a *)
(* frame comes the next frame.                                             *)
Around(q, k, x, i) ==
  /\ x \in DOMAIN Total /\ i \in 1 .. Total[x]
  /\ \A j \in 1 .. Total[x] : k - i + j \in 1 .. Len(q) /\ q[k - i + j] = <<x, j>>
Framed(q) == \A k \in 1 .. Len(q) : Around(q, k, q[k][1], q[k][2])
Ends(b) == b[2] = Total[b[1]]
Following(q, g) == \A k \in 1 .. Len(q) : Ends(q[k]) =>
  IF k = Len(q) THEN g = q[k][1] + 1 ELSE q[k + 1] = <<q[k][1] + 1, 1>>
Starts(q, f, g) == IF Len(q) = 0 THEN f = g ELSE q[1] = <<f, 1>>
Whole(q, f, g) == Framed(q) /\ Following(q, g) /\ Starts(q, f, g)

(* The first frame of whole frames.                                        *)
LEMMA FirstFrame ==
  ASSUME NEW q \in Seq(Data), NEW f, NEW g, Whole(q, f, g), Len(q) # 0
  PROVE  /\ f \in DOMAIN Total /\ Total[f] \in 2 .. Len(q)
         /\ \A j \in 1 .. Total[f] : q[j] = <<f, j>>
<1>1. q[1] = <<f, 1>> /\ 1 \in 1 .. Len(q)
  BY DEF Whole, Starts
<1>2. /\ f \in DOMAIN Total
      /\ \A j \in 1 .. Total[f] : 1 - 1 + j \in 1 .. Len(q) /\ q[1 - 1 + j] = <<f, j>>
  <2>1. q[1][1] = f /\ q[1][2] = 1
    BY <1>1
  <2>2. Around(q, 1, q[1][1], q[1][2])
    BY <1>1, Zenon DEF Whole, Framed
  <2>3. Around(q, 1, f, 1)
    BY <2>1, <2>2, Zenon
  <2> QED BY <2>3 DEF Around
<1>3. Total[f] \in Int /\ Total[f] >= 2 /\ Len(q) \in Nat
  BY <1>2, LengthFacts
<1>4. \A j \in 1 .. Total[f] : 1 - 1 + j = j
  BY <1>3
<1>5. \A j \in 1 .. Total[f] : j \in 1 .. Len(q) /\ q[j] = <<f, j>>
  BY <1>2, <1>4
<1>6. Total[f] \in 1 .. Total[f]
  BY <1>3
<1>7. Total[f] \in 1 .. Len(q)
  BY <1>5, <1>6
<1> QED BY <1>2, <1>3, <1>5, <1>7

(* Behind a byte that ends a frame begin whole frames.                     *)
LEMMA RestFramed ==
  ASSUME NEW q \in Seq(Data), NEW f, NEW g, Whole(q, f, g),
         NEW n \in 1 .. Len(q), Ends(q[n])
  PROVE  Whole(SubSeq(q, n + 1, Len(q)), q[n][1] + 1, g)
<1> DEFINE r == SubSeq(q, n + 1, Len(q))
<1>0. PICK L : L = Len(q)
  OBVIOUS
<1>1. L \in Nat /\ n \in Nat /\ n <= L
  BY <1>0
<1>2. Len(r) = L - n /\ \A k \in 1 .. L - n : r[k] = q[k + n]
  BY RestElements, <1>0, <1>1
<1>3. ASSUME NEW k \in 1 .. L - n, NEW x, NEW i, x = q[k + n][1], i = q[k + n][2]
      PROVE  Around(r, k, x, i)
  <2>1. k + n \in 1 .. L
    BY <1>1
  <2>2. /\ x \in DOMAIN Total /\ i \in 1 .. Total[x]
        /\ \A j \in 1 .. Total[x] : (k + n) - i + j \in 1 .. L /\ q[(k + n) - i + j] = <<x, j>>
    <3>1. Around(q, k + n, x, i)
      BY <1>0, <1>3, <2>1, Zenon DEF Whole, Framed
    <3>2. /\ x \in DOMAIN Total /\ i \in 1 .. Total[x]
          /\ \A j \in 1 .. Total[x] : (k + n) - i + j \in 1 .. Len(q) /\ q[(k + n) - i + j] = <<x, j>>
      BY <3>1, Zenon DEF Around
    <3> QED BY <1>0, <3>2, Zenon
  <2>3. Total[x] \in Nat /\ k \in Nat /\ i \in Nat
    <3>1. Total[x] \in Nat
      BY <2>2, LengthFacts
    <3> QED BY <2>2, <3>1
  <2>4. k - i >= 0
    <3> SUFFICES ASSUME k - i < 0 PROVE FALSE
      BY <2>3
    <3>1. i - k \in 1 .. Total[x] /\ (k + n) - i + (i - k) = n
      BY <1>1, <2>2, <2>3
    <3>2. q[n] = <<x, i - k>>
      BY <2>2, <3>1
    <3>3. i - k = Total[x]
      BY <3>2 DEF Ends
    <3> QED BY <2>2, <2>3, <3>3
  <2>5. ASSUME NEW j \in 1 .. Total[x]
        PROVE  k - i + j \in 1 .. L - n /\ r[k - i + j] = <<x, j>>
    <3>1. (k + n) - i + j \in 1 .. L /\ q[(k + n) - i + j] = <<x, j>>
      BY <2>2
    <3>2. k - i + j \in 1 .. L - n /\ (k - i + j) + n = (k + n) - i + j
      BY <1>1, <2>3, <2>4, <3>1
    <3> QED BY <1>2, <3>1, <3>2
  <2> HIDE DEF r
  <2> QED BY <1>2, <2>2, <2>5 DEF Around
<1>4. Framed(r)
  <2> SUFFICES ASSUME NEW k \in 1 .. L - n PROVE Around(r, k, r[k][1], r[k][2])
    BY <1>2 DEF Framed
  <2>1. r[k] = q[k + n]
    BY <1>2
  <2> HIDE DEF r
  <2> QED BY <1>3, <2>1, Zenon
<1>5. Following(r, g)
  <2> SUFFICES ASSUME NEW k \in 1 .. L - n, Ends(r[k])
               PROVE  IF k = L - n THEN g = r[k][1] + 1 ELSE r[k + 1] = <<r[k][1] + 1, 1>>
    BY <1>2 DEF Following
  <2>1. r[k] = q[k + n] /\ k + n \in 1 .. L
    <3>1. k + n \in 1 .. L
      BY <1>1
    <3> QED BY <1>2, <3>1, Zenon
  <2>2. IF k + n = L THEN g = q[k + n][1] + 1 ELSE q[k + n + 1] = <<q[k + n][1] + 1, 1>>
    BY <1>0, <2>1, Zenon DEF Whole, Following
  <2>3. k # L - n => k + 1 \in 1 .. L - n /\ (k + 1) + n = k + n + 1
    BY <1>1
  <2>4. k = L - n <=> k + n = L
    BY <1>1
  <2> HIDE DEF r
  <2> QED BY <1>2, <2>1, <2>2, <2>3, <2>4
<1>6. Starts(r, q[n][1] + 1, g)
  <2>1. IF n = L THEN g = q[n][1] + 1 ELSE q[n + 1] = <<q[n][1] + 1, 1>>
    BY <1>0 DEF Whole, Following
  <2>2. n # L => 1 \in 1 .. L - n /\ 1 + n = n + 1
    BY <1>1
  <2>3. Len(r) = 0 <=> n = L
    BY <1>1, <1>2
  <2> HIDE DEF r
  <2> QED BY <1>2, <2>1, <2>2, <2>3 DEF Starts
<1> QED BY <1>4, <1>5, <1>6 DEF Whole

(* And up to that byte they are whole too.                                 *)
LEMMA FirstFramed ==
  ASSUME NEW q \in Seq(Data), NEW f, NEW g, Whole(q, f, g),
         NEW n \in 1 .. Len(q), Ends(q[n])
  PROVE  Whole(SubSeq(q, 1, n), f, q[n][1] + 1)
<1> DEFINE r == SubSeq(q, 1, n)
<1>0. PICK L : L = Len(q)
  OBVIOUS
<1>1. L \in Nat /\ n \in Nat /\ n <= L
  BY <1>0
<1>2. Len(r) = n /\ \A k \in 1 .. n : r[k] = q[k]
  BY FirstElements, <1>0, <1>1
<1>3. ASSUME NEW k \in 1 .. n, NEW x, NEW i, x = q[k][1], i = q[k][2]
      PROVE  Around(r, k, x, i)
  <2>1. k \in 1 .. L
    BY <1>1
  <2>2. /\ x \in DOMAIN Total /\ i \in 1 .. Total[x]
        /\ \A j \in 1 .. Total[x] : k - i + j \in 1 .. L /\ q[k - i + j] = <<x, j>>
    <3>1. Around(q, k, x, i)
      BY <1>0, <1>3, <2>1, Zenon DEF Whole, Framed
    <3>2. /\ x \in DOMAIN Total /\ i \in 1 .. Total[x]
          /\ \A j \in 1 .. Total[x] : k - i + j \in 1 .. Len(q) /\ q[k - i + j] = <<x, j>>
      BY <3>1, Zenon DEF Around
    <3> QED BY <1>0, <3>2, Zenon
  <2>3. Total[x] \in Nat /\ k \in Nat /\ i \in Nat
    <3>1. Total[x] \in Nat
      BY <2>2, LengthFacts
    <3> QED BY <2>2, <3>1
  <2>4. k - i + Total[x] <= n
    <3> SUFFICES ASSUME k - i + Total[x] > n PROVE FALSE
      BY <1>1, <2>3
    <3>1. n - k + i \in 1 .. Total[x] /\ k - i + (n - k + i) = n
      BY <1>1, <2>2, <2>3
    <3>2. q[n] = <<x, n - k + i>>
      BY <2>2, <3>1
    <3>3. n - k + i = Total[x]
      BY <3>2 DEF Ends
    <3> QED BY <1>1, <2>3, <3>3
  <2>5. ASSUME NEW j \in 1 .. Total[x]
        PROVE  k - i + j \in 1 .. n /\ r[k - i + j] = <<x, j>>
    <3>1. k - i + j \in 1 .. L /\ q[k - i + j] = <<x, j>>
      BY <2>2
    <3>2. k - i + j \in 1 .. n
      BY <1>1, <2>3, <2>4, <3>1
    <3> QED BY <1>2, <3>1, <3>2
  <2> HIDE DEF r
  <2> QED BY <1>2, <2>2, <2>5 DEF Around
<1>4. Framed(r)
  <2> SUFFICES ASSUME NEW k \in 1 .. n PROVE Around(r, k, r[k][1], r[k][2])
    BY <1>2 DEF Framed
  <2>1. r[k] = q[k]
    BY <1>2
  <2> HIDE DEF r
  <2> QED BY <1>3, <2>1, Zenon
<1>5. Following(r, q[n][1] + 1)
  <2> SUFFICES ASSUME NEW k \in 1 .. n, Ends(r[k])
               PROVE  IF k = n THEN q[n][1] + 1 = r[k][1] + 1 ELSE r[k + 1] = <<r[k][1] + 1, 1>>
    BY <1>2 DEF Following
  <2>1. r[k] = q[k] /\ k \in 1 .. L
    BY <1>1, <1>2
  <2>2. IF k = L THEN g = q[k][1] + 1 ELSE q[k + 1] = <<q[k][1] + 1, 1>>
    BY <1>0, <2>1, Zenon DEF Whole, Following
  <2>3. k # n => k + 1 \in 1 .. n /\ k # L
    BY <1>1
  <2> HIDE DEF r
  <2> QED BY <1>2, <2>1, <2>2, <2>3
<1>6. Starts(r, f, q[n][1] + 1)
  BY <1>0, <1>1, <1>2 DEF Whole, Starts
<1> QED BY <1>4, <1>5, <1>6 DEF Whole

(* Another frame behind them.                                              *)
LEMMA MoreFramed ==
  ASSUME NEW q \in Seq(Data), NEW f, NEW g \in DOMAIN Total, Whole(q, f, g)
  PROVE  Whole(q \o Frame(g), f, g + 1)
<1> DEFINE r == q \o Frame(g)
           L == Len(q)
           T == Total[g]
<1>1. L \in Nat /\ T \in Nat /\ T >= 2
  BY LengthFacts
<1>2. Frame(g) \in Seq(Data) /\ Len(Frame(g)) = T /\ \A j \in 1 .. T : Frame(g)[j] = <<g, j>>
  BY FrameElements
<1>3. /\ Len(r) = L + T
      /\ \A k \in 1 .. L : r[k] = q[k]
      /\ \A j \in 1 .. T : r[L + j] = <<g, j>>
  <2>1. /\ Len(r) = Len(q) + Len(Frame(g))
        /\ \A k \in 1 .. Len(q) : r[k] = q[k]
        /\ \A j \in 1 .. Len(Frame(g)) : r[Len(q) + j] = Frame(g)[j]
    <3> HIDE DEF T, L
    <3>1. ASSUME NEW p \in Seq(Data)
          PROVE  /\ Len(q \o p) = Len(q) + Len(p)
                 /\ \A k \in 1 .. Len(q) : (q \o p)[k] = q[k]
                 /\ \A j \in 1 .. Len(p) : (q \o p)[Len(q) + j] = p[j]
      BY JoinedElements
    <3> QED BY <1>2, <3>1
  <2> HIDE DEF r, T
  <2> QED BY <1>2, <2>1
<1>4. ASSUME NEW k \in 1 .. L, NEW x, NEW i, x = q[k][1], i = q[k][2]
      PROVE  Around(r, k, x, i)
  <2>1. Around(q, k, x, i)
    BY <1>4, Zenon DEF Whole, Framed
  <2>2. ASSUME NEW j \in 1 .. Total[x]
        PROVE  k - i + j \in 1 .. L + T /\ r[k - i + j] = <<x, j>>
    <3>1. k - i + j \in 1 .. L /\ q[k - i + j] = <<x, j>>
      BY <2>1 DEF Around
    <3> QED BY <1>1, <1>3, <3>1
  <2> HIDE DEF r, T
  <2> QED BY <1>3, <2>1, <2>2 DEF Around
<1>5. ASSUME NEW j \in 1 .. T PROVE Around(r, L + j, g, j)
  <2>1. ASSUME NEW l \in 1 .. T PROVE (L + j) - j + l \in 1 .. L + T /\ (L + j) - j + l = L + l
    BY <1>1
  <2> HIDE DEF r
  <2> QED BY <1>3, <2>1 DEF Around
<1>6. ASSUME NEW k \in 1 .. L + T, k \notin 1 .. L PROVE k - L \in 1 .. T /\ L + (k - L) = k
  BY <1>1, <1>6
<1>7. Framed(r)
  <2> SUFFICES ASSUME NEW k \in 1 .. L + T PROVE Around(r, k, r[k][1], r[k][2])
    BY <1>3 DEF Framed
  <2>1. CASE k \in 1 .. L
    <3>1. r[k] = q[k]
      BY <1>3, <2>1
    <3> HIDE DEF r, L
    <3> QED BY <1>4, <2>1, <3>1, Zenon
  <2>2. CASE k \notin 1 .. L
    <3>1. r[k] = <<g, k - L>> /\ k - L \in 1 .. T /\ L + (k - L) = k
      BY <1>3, <1>6, <2>2
    <3>2. r[k][1] = g /\ r[k][2] = k - L
      BY <3>1
    <3>3. Around(r, L + (k - L), g, k - L)
      BY <1>5, <3>1
    <3> HIDE DEF r, L, T
    <3> QED BY <3>1, <3>2, <3>3, Zenon
  <2> QED BY <2>1, <2>2
<1>8. Following(r, g + 1)
  <2> SUFFICES ASSUME NEW k \in 1 .. L + T, Ends(r[k])
               PROVE  IF k = L + T THEN g + 1 = r[k][1] + 1 ELSE r[k + 1] = <<r[k][1] + 1, 1>>
    BY <1>3 DEF Following
  <2>1. CASE k \in 1 .. L /\ k # L
    <3>0. k + 1 \in 1 .. L /\ k # L + T
      BY <1>1, <2>1
    <3>1. r[k] = q[k] /\ r[k + 1] = q[k + 1] /\ k # L + T
      BY <1>3, <2>1, <3>0, Zenon
    <3>2. q[k + 1] = <<q[k][1] + 1, 1>>
      BY <2>1, <3>1 DEF Whole, Following
    <3> QED BY <3>1, <3>2, Zenon
  <2>2. CASE k \in 1 .. L /\ k = L
    <3>1. r[k] = q[k] /\ 1 \in 1 .. T /\ k # L + T
      BY <1>1, <1>3, <2>2
    <3>2. g = q[k][1] + 1
      BY <2>2, <3>1 DEF Whole, Following
    <3>3. r[L + 1] = <<g, 1>>
      BY <1>3, <3>1
    <3> QED BY <2>2, <3>1, <3>2, <3>3
  <2>3. CASE k \notin 1 .. L
    <3>1. r[k] = <<g, k - L>>
      BY <1>3, <1>6, <2>3
    <3>2. r[k][1] = g /\ k - L = T
      BY <3>1 DEF Ends
    <3>3. k = L + T
      BY <1>1, <3>2
    <3> QED BY <3>2, <3>3
  <2> QED BY <2>1, <2>2, <2>3
<1>9. Starts(r, f, g + 1)
  <2>1. CASE L = 0
    <3>1. f = g /\ 1 \in 1 .. T /\ L + 1 = 1
      BY <1>1, <2>1 DEF Whole, Starts
    <3>2. r[1] = <<f, 1>> /\ Len(r) # 0
      BY <1>1, <1>3, <2>1, <3>1
    <3> QED BY <3>2 DEF Starts
  <2>2. CASE L # 0
    <3>1. q[1] = <<f, 1>> /\ 1 \in 1 .. L
      BY <1>1, <2>2 DEF Whole, Starts
    <3>2. r[1] = <<f, 1>> /\ Len(r) # 0
      BY <1>1, <1>3, <3>1
    <3> QED BY <3>2 DEF Starts
  <2> QED BY <2>1, <2>2
<1> QED BY <1>7, <1>8, <1>9 DEF Whole
-----------------------------------------------------------------------------
(* As long as no frame was cut: d bodies have been handed on; the buffer   *)
(* holds the frames behind them, whole, the socket those from h on, all of *)
(* them sent; RecvProcess leaves nothing in the buffer, and has read the   *)
(* length of the first frame in it.                                        *)
Held == [k \in 1 .. offset |-> mem[k - 1]]
Before(q, g) == \A k \in 1 .. Len(q) : q[k][1] < g
Bodies(d) == [k \in 1 .. d |-> Body(k)]
Waiting(d, h) == /\ Whole(Held, d + 1, h) /\ Before(Held, next)
                 /\ phase = "recv" => offset = 0
                 /\ state = "ReadPacket" => total = Total[d + 1]
Stage(d, h) == /\ delivered = Bodies(d)
               /\ Whole(net, h, next) /\ Before(net, next)
               /\ life = "open" => Waiting(d, h)
Stream == ~cut => \E d \in 0 .. next - 1, h \in Int : Stage(d, h)

LEMMA HeldElements ==
  ASSUME BufferInv
  PROVE  Held \in Seq(Data) /\ Len(Held) = offset /\ \A k \in 1 .. offset : Held[k] = mem[k - 1]
<1>1. offset \in Nat /\ offset <= Cap /\ Cap \in Nat
  BY LengthFacts DEF BufferInv, MemOK
<1>2. \A k \in 1 .. offset : mem[k - 1] \in Data
  BY <1>1 DEF BufferInv, MemOK
<1>3. Held \in Seq(Data)
  BY <1>1, <1>2 DEF Held
<1>4. DOMAIN Held = 1 .. offset
  BY DEF Held
<1>5. Len(Held) = offset
  BY <1>1, <1>3, <1>4, LenProperties
<1> QED BY <1>3, <1>5 DEF Held

LEMMA StreamInit == ASSUME FramingInit PROVE Stream
<1>1. Held = <<>> /\ Len(Held) = 0 /\ Len(<<>>) = 0
  BY DEF FramingInit, Held
<1>2. Whole(Held, 1, 1) /\ Whole(net, 1, 1) /\ Before(Held, 1) /\ Before(net, 1)
  BY <1>1 DEF FramingInit, Whole, Framed, Following, Starts, Before
<1>3. Bodies(0) = <<>>
  BY DEF Bodies
<1>4. Stage(0, 1)
  BY <1>2, <1>3 DEF Stage, Waiting, FramingInit
<1> QED BY <1>4 DEF Stream, FramingInit

(* Nothing is in the buffer while the task waits for bytes: a frame in it  *)
(* would be finished.                                                      *)
LEMMA FrameWaiting ==
  ASSUME BufferInv, NEW d \in Nat, NEW h, Whole(Held, d + 1, h), offset # 0
  PROVE  /\ d + 1 \in DOMAIN Total /\ Total[d + 1] \in 2 .. offset
         /\ \A j \in 1 .. Total[d + 1] : mem[j - 1] = <<d + 1, j>>
<1>1. Held \in Seq(Data) /\ Len(Held) = offset /\ \A k \in 1 .. offset : Held[k] = mem[k - 1]
  BY HeldElements
<1>2. /\ d + 1 \in DOMAIN Total /\ Total[d + 1] \in 2 .. offset
      /\ \A j \in 1 .. Total[d + 1] : Held[j] = <<d + 1, j>>
  BY <1>1, FirstFrame
<1>3. offset \in Nat
  BY DEF BufferInv, MemOK
<1>4. ASSUME NEW j \in 1 .. Total[d + 1] PROVE mem[j - 1] = <<d + 1, j>>
  <2>1. j \in 1 .. offset
    BY <1>2, <1>3
  <2> QED BY <1>1, <1>2, <2>1, Zenon
<1> QED BY <1>2, <1>4

LEMMA StreamRecv == ASSUME BufferInv, Stream, Recv PROVE Stream'
<1> SUFFICES ASSUME ~cut' PROVE Stream'
  BY DEF Stream
<1>1. PICK n \in 1 .. MaxReceive \cap 1 .. Len(net) :
        /\ mem' = [i \in 0 .. Cap - 1 |->
                     IF i \in JumpBuffer .. JumpBuffer + n - 1
                     THEN net[i - JumpBuffer + 1] ELSE mem[i]]
        /\ offset' = offset + n
        /\ net' = SubSeq(net, n + 1, Len(net))
        /\ cut' = (cut \/ net[n][2] # Total[net[n][1]])
  BY DEF Recv
<1>2. /\ UNCHANGED <<state, total, life, next, delivered>> /\ phase' = "parse"
      /\ life = "open" /\ phase = "recv"
  BY DEF Recv, svars
<1>3. ~cut /\ Ends(net[n])
  BY <1>1, Zenon DEF Ends
<1>4. PICK d \in 0 .. next - 1, h \in Int : Stage(d, h)
  BY <1>3 DEF Stream
<1>5. net \in Seq(Data) /\ n \in 1 .. Len(net) /\ next \in Nat
  BY <1>1, LengthFacts DEF BufferInv, NetOK
<1>6. offset = 0 /\ JumpBuffer = 0 /\ state = "ReadPacketLen"
  BY <1>2, <1>4 DEF Stage, Waiting, BufferInv, ReadOK, JumpBuffer
<1>7. Held' = SubSeq(net, 1, n)
  <2>1. n \in Nat /\ n <= Cap /\ Cap \in Nat
    BY <1>1, <1>5, <1>6, LengthFacts DEF MaxReceive
  <2>2. offset' = n
    BY <1>1, <1>6, <2>1
  <2>4. ASSUME NEW k \in 1 .. n PROVE mem'[k - 1] = net[k]
    <3>1. /\ k - 1 \in 0 .. Cap - 1 /\ k - 1 \in JumpBuffer .. JumpBuffer + n - 1
          /\ k - 1 - JumpBuffer + 1 = k
      BY <1>6, <2>1
    <3> QED BY <1>1, <3>1
  <2>3. Held' = [k \in 1 .. n |-> net[k]]
    BY <2>2, <2>4 DEF Held
  <2> QED BY <1>5, <2>1, <2>3
<1>8. d + 1 = h
  <2>1. Len(Held) = 0
    BY <1>6, HeldElements
  <2> QED BY <1>2, <1>4, <2>1 DEF Stage, Waiting, Whole, Starts
<1>9. Whole(net, d + 1, next) /\ Before(net, next)
  BY <1>4, <1>8 DEF Stage
<1>10. PICK e \in Int : e = net[n][1] + 1
  <2>1. net[n][1] \in Int
    <3>1. Around(net, n, net[n][1], net[n][2])
      BY <1>5, <1>9, Zenon DEF Whole, Framed
    <3> QED BY <3>1, LengthFacts DEF Around
  <2> QED BY <2>1
<1>11. Whole(Held', d + 1, e) /\ Whole(net', e, next)
  <2>1. Whole(SubSeq(net, 1, n), d + 1, e) /\ Whole(SubSeq(net, n + 1, Len(net)), e, next)
    BY <1>3, <1>5, <1>9, <1>10, FirstFramed, RestFramed
  <2> QED BY <1>1, <1>7, <2>1
<1>12. Before(Held', next) /\ Before(net', next)
  BY <1>1, <1>5, <1>7, <1>9, FirstElements, RestElements DEF Before
<1>13. Stage(d, e)'
  BY <1>2, <1>4, <1>6, <1>11, <1>12 DEF Stage, Waiting
<1> QED BY <1>2, <1>13 DEF Stream

(* The length read is that of the next frame.                              *)
LEMMA StreamLength ==
  ASSUME BufferInv, Stream, ReadPacketLen PROVE Stream'
<1> SUFFICES ASSUME ~cut', life' = "open" PROVE Stream'
  <2>1. CASE life' # "open"
    BY <2>1 DEF Stream, Stage, ReadPacketLen, Destroy, pvars
  <2> QED BY <2>1 DEF Stream
<1>1. PICK len \in (IF getOffset + 2 > offset THEN {0} ELSE Short(getOffset)) :
        /\ state' = "ReadPacket" /\ total' = len
        /\ UNCHANGED <<mem, offset, phase, life, pvars, cut, delivered>>
  BY DEF ReadPacketLen, Destroy
<1>2. phase = "parse" /\ state = "ReadPacketLen" /\ offset >= 2
  BY DEF ReadPacketLen
<1>3. ~cut /\ life = "open" /\ UNCHANGED <<net, next>>
  BY <1>1 DEF pvars
<1>4. PICK d \in 0 .. next - 1, h \in Int : Stage(d, h)
  BY <1>3 DEF Stream
<1>5. d \in Nat /\ d + 1 # 0 /\ 1 + 1 = 2 /\ 0 + 1 = 1 /\ 1 - 1 = 0 /\ 2 - 1 = 1
  BY <1>4 DEF BufferInv, NetOK
<1>6. /\ d + 1 \in DOMAIN Total /\ Total[d + 1] \in 2 .. offset
      /\ \A j \in 1 .. Total[d + 1] : mem[j - 1] = <<d + 1, j>>
  <2>1. Whole(Held, d + 1, h) /\ offset # 0
    BY <1>2, <1>3, <1>4 DEF Stage, Waiting
  <2> QED BY <1>5, <2>1, FrameWaiting
<1>7. mem[0] = <<d + 1, 1>> /\ mem[1] = <<d + 1, 2>>
  <2>1. 1 \in 1 .. Total[d + 1] /\ 2 \in 1 .. Total[d + 1]
    BY <1>6, LengthFacts
  <2>2. mem[1 - 1] = <<d + 1, 1>> /\ mem[2 - 1] = <<d + 1, 2>>
    BY <1>6, <2>1
  <2> QED BY <1>5, <2>2
<1>8. Short(0) = {Total[d + 1]}
  <2>1. mem[0][1] = d + 1
    BY <1>7
  <2> QED BY <1>5, <1>7, <2>1 DEF Short
<1>9. getOffset = 0 /\ offset \in Nat
  BY <1>2 DEF BufferInv, MemOK, ReadOK
<1>10. total' = Total[d + 1]
  BY <1>1, <1>2, <1>8, <1>9
<1>11. Held' = Held
  BY <1>1 DEF Held
<1>12. Stage(d, h)'
  BY <1>1, <1>2, <1>3, <1>4, <1>10, <1>11 DEF Stage, Waiting
<1> QED BY <1>3, <1>4, <1>12 DEF Stream

LEMMA BodyElements ==
  ASSUME NEW f \in DOMAIN Total
  PROVE  Body(f) = [i \in 1 .. Total[f] - 2 |-> <<f, i + 2>>]
<1>1. Total[f] \in Nat /\ Total[f] >= 2
  BY LengthFacts
<1>2. /\ Frame(f) \in Seq(Data) /\ Len(Frame(f)) = Total[f]
      /\ \A j \in 1 .. Total[f] : Frame(f)[j] = <<f, j>>
  BY FrameElements
<1>3. Body(f) = [i \in 1 .. Total[f] - 2 |-> Frame(f)[i + 2]]
  BY <1>1, <1>2 DEF Body
<1> QED BY <1>1, <1>2, <1>3

LEMMA OneMoreBody ==
  ASSUME NEW d \in Nat PROVE Append(Bodies(d), Body(d + 1)) = Bodies(d + 1)
<1>1. Bodies(d) \in Seq({Body(k) : k \in 1 .. d}) /\ Len(Bodies(d)) = d
  BY DEF Bodies
<1> QED BY <1>1 DEF Bodies

(* What is handed on is the body of the next frame, and the rest stays.    *)
LEMMA StreamProcess ==
  ASSUME BufferInv, Stream, ReadPacket, PacketFinished, dataSize >= 0,
         state' = "ReadPacketLen", ProcessOnePacket,
         UNCHANGED <<total, dataSize, phase, life, net, next, peer, cut>>
  PROVE  Stream'
<1> SUFFICES ASSUME ~cut PROVE \E d \in 0 .. next - 1, h \in Int : Stage(d, h)'
  BY DEF Stream
<1>1. phase = "parse" /\ state = "ReadPacket" /\ offset # 0 /\ offset \in Nat /\ next \in Nat
  BY LengthFacts DEF ReadPacket, BufferInv, MemOK, NetOK
<1>2. PICK d \in 0 .. next - 1, h \in Int : Stage(d, h)
  BY DEF Stream
<1>3. d \in Nat /\ life = "open"
  BY <1>1, <1>2 DEF BufferInv, NetOK
<1>4. /\ d + 1 \in DOMAIN Total /\ Total[d + 1] \in 2 .. offset
      /\ \A j \in 1 .. Total[d + 1] : mem[j - 1] = <<d + 1, j>>
  BY <1>1, <1>2, <1>3, FrameWaiting DEF Stage, Waiting
<1>5. PICK T : T = Total[d + 1]
  OBVIOUS
<1>6. T \in 2 .. offset /\ T \in Nat /\ T \in 1 .. T
  BY <1>1, <1>4, <1>5
<1>7. getOffset = 2 /\ total = T /\ dataSize = T - 2
  <2>1. getOffset = 2 /\ total = T
    BY <1>1, <1>2, <1>3, <1>5 DEF Stage, Waiting, BufferInv, ReadOK
  <2>2. dataSize = DataSize(T) /\ T \in 0 .. Cap - 1 /\ T # 0
    BY <1>1, <1>6, <2>1 DEF BufferInv, ReadOK, SizeFits
  <2> QED BY <2>1, <2>2, SizeOf
<1>8. Jumped(dataSize) = T
  BY <1>1, <1>6, <1>7 DEF Jumped
<1>9. delivered' = Append(delivered, Body(d + 1))
  <2>1. \A i \in 1 .. T - 2 : mem[JumpBuffer + i - 1] = <<d + 1, i + 2>>
    <3> SUFFICES ASSUME NEW i \in 1 .. T - 2 PROVE mem[JumpBuffer + i - 1] = <<d + 1, i + 2>>
      OBVIOUS
    <3>1. offset > 2 /\ i + 2 \in 1 .. T /\ (i + 2) - 1 = 2 + i - 1
      BY <1>1, <1>6
    <3>2. JumpBuffer = 2
      BY <1>7, <3>1 DEF JumpBuffer
    <3>3. mem[(i + 2) - 1] = <<d + 1, i + 2>>
      BY <1>4, <1>5, <3>1
    <3> QED BY <3>1, <3>2, <3>3
  <2>2. Body(d + 1) = [i \in 1 .. T - 2 |-> <<d + 1, i + 2>>]
    BY <1>4, <1>5, BodyElements
  <2>3. [i \in 1 .. dataSize |-> mem[JumpBuffer + i - 1]] = Body(d + 1)
    BY <1>7, <2>1, <2>2
  <2> QED BY <2>3 DEF ProcessOnePacket
<1>10. delivered' = Bodies(d + 1)
  BY <1>2, <1>3, <1>9, OneMoreBody DEF Stage
<1>11. Held \in Seq(Data) /\ Len(Held) = offset /\ \A k \in 1 .. offset : Held[k] = mem[k - 1]
  BY HeldElements
<1>12. Held' = SubSeq(Held, T + 1, Len(Held))
  <2>1. /\ offset' = offset - T
        /\ mem' = [i \in 0 .. Cap - 1 |-> IF i < offset - T THEN mem[i + T] ELSE mem[i]]
    BY <1>8 DEF ProcessOnePacket, AlignBuf
  <2>2. offset <= Cap /\ Cap \in Nat
    BY LengthFacts DEF BufferInv, MemOK
  <2>3. \A k \in 1 .. offset - T : mem'[k - 1] = Held[k + T]
    <3> SUFFICES ASSUME NEW k \in 1 .. offset - T PROVE mem'[k - 1] = Held[k + T]
      OBVIOUS
    <3>1. k - 1 \in 0 .. Cap - 1 /\ k - 1 < offset - T /\ k - 1 + T = k + T - 1
      BY <1>1, <1>6, <2>2
    <3>4. k + T \in 1 .. offset
      BY <1>1, <1>6
    <3>2. mem'[k - 1] = mem[k - 1 + T]
      BY <2>1, <3>1
    <3>3. PICK m \in 1 .. offset : m = k + T /\ m - 1 = k - 1 + T
      BY <1>1, <1>6, <3>4
    <3>5. Held[m] = mem[m - 1]
      BY <1>11, Zenon
    <3> QED BY <3>2, <3>3, <3>5, Zenon
  <2>4. Held' = [k \in 1 .. offset - T |-> Held[k + T]]
    BY <2>1, <2>3 DEF Held
  <2>5. Len(SubSeq(Held, T + 1, Len(Held))) = offset - T
    BY <1>1, <1>6, <1>11
  <2> QED BY <1>1, <1>6, <1>11, <2>4
<1>13. Whole(Held, d + 1, h) /\ Before(Held, next)
  BY <1>2, <1>3 DEF Stage, Waiting
<1>14. Held[T] = <<d + 1, T>> /\ Held[T][1] = d + 1 /\ Ends(Held[T]) /\ T \in 1 .. Len(Held)
  <2>1. Held[T] = <<d + 1, T>>
    <3>1. T \in 1 .. offset
      BY <1>1, <1>6
    <3>2. mem[T - 1] = <<d + 1, T>>
      BY <1>4, <1>5, <1>6, Zenon
    <3> QED BY <1>11, <3>1, <3>2, Zenon
  <2> QED BY <1>1, <1>5, <1>6, <1>11, <2>1 DEF Ends
<1>15. Whole(Held', (d + 1) + 1, h)
  BY <1>11, <1>12, <1>13, <1>14, RestFramed
<1>16. Before(Held', next)
  BY <1>1, <1>6, <1>11, <1>12, <1>13, RestElements DEF Before
<1>17. d + 1 < next
  BY <1>13, <1>14 DEF Before
<1>18. Stage(d + 1, h)'
  BY <1>1, <1>2, <1>10, <1>15, <1>16 DEF Stage, Waiting
<1> QED BY <1>1, <1>3, <1>17, <1>18

(* The peer's next frame joins the socket's.                               *)
LEMMA StreamSends ==
  ASSUME BufferInv, Stream, PeerSends PROVE Stream'
<1> SUFFICES ASSUME ~cut PROVE \E d \in 0 .. next' - 1, h \in Int : Stage(d, h)'
  BY DEF Stream, PeerSends
<1>1. PICK d \in 0 .. next - 1, h \in Int : Stage(d, h)
  BY DEF Stream
<1>2. next \in Nat /\ next \in DOMAIN Total /\ net \in Seq(Data)
  BY LengthFacts DEF PeerSends, BufferInv, NetOK
<1>3. /\ net' = net \o Frame(next) /\ next' = next + 1
      /\ UNCHANGED <<mem, offset, state, total, phase, life, delivered>>
  BY DEF PeerSends, bvars, svars
<1>4. Whole(net', h, next')
  BY <1>1, <1>2, <1>3, MoreFramed DEF Stage
<1>5. Before(net', next')
  <2>1. PICK f : f = Frame(next)
    OBVIOUS
  <2>2. f \in Seq(Data) /\ \A k \in 1 .. Len(f) : f[k][1] = next
    BY <1>2, <2>1, FrameElements
  <2>3. /\ Len(net') = Len(net) + Len(f)
        /\ \A k \in 1 .. Len(net) : net'[k] = net[k]
        /\ \A k \in 1 .. Len(f) : net'[Len(net) + k] = f[k]
    BY <1>2, <1>3, <2>1, <2>2, JoinedElements
  <2>4. \A k \in 1 .. Len(net) : net[k][1] < next
    BY <1>1 DEF Stage, Before
  <2>5. Len(net) \in Nat /\ Len(f) \in Nat
    BY <1>2, <2>2
  <2> SUFFICES ASSUME NEW k \in 1 .. Len(net) + Len(f) PROVE net'[k][1] < next + 1
    BY <1>3, <2>3 DEF Before
  <2>6. CASE k \in 1 .. Len(net)
    <3>1. net'[k] = net[k] /\ net[k][1] < next
      BY <2>3, <2>4, <2>6
    <3>2. net[k][1] \in Int
      <4>1. Around(net, k, net[k][1], net[k][2])
        BY <1>1, <2>6, Zenon DEF Stage, Whole, Framed
      <4> QED BY <4>1, LengthFacts DEF Around
    <3> QED BY <1>2, <3>1, <3>2
  <2>7. CASE k \notin 1 .. Len(net)
    <3>1. k - Len(net) \in 1 .. Len(f) /\ Len(net) + (k - Len(net)) = k
      BY <2>5, <2>7
    <3>2. net'[k] = f[k - Len(net)]
      BY <2>3, <3>1
    <3>3. net'[k][1] = next
      BY <2>2, <3>1, <3>2
    <3> QED BY <1>2, <3>3
  <2> QED BY <2>6, <2>7
<1>6. life = "open" => Waiting(d, h)'
  <2> SUFFICES ASSUME life = "open" PROVE Waiting(d, h)'
    OBVIOUS
  <2>1. Waiting(d, h)
    BY <1>1 DEF Stage
  <2>2. Held' = Held
    BY <1>3 DEF Held
  <2>3. \A k \in 1 .. Len(Held) : Held[k][1] \in Int
    <3> SUFFICES ASSUME NEW k \in 1 .. Len(Held) PROVE Held[k][1] \in Int
      OBVIOUS
    <3>1. Around(Held, k, Held[k][1], Held[k][2])
      BY <2>1, Zenon DEF Waiting, Whole, Framed
    <3> QED BY <3>1, LengthFacts DEF Around
  <2>4. Before(Held, next + 1)
    BY <1>2, <2>1, <2>3 DEF Waiting, Before
  <2> QED BY <1>3, <2>1, <2>2, <2>4 DEF Waiting
<1>7. Stage(d, h)'
  BY <1>1, <1>3, <1>4, <1>5, <1>6 DEF Stage
<1> QED BY <1>2, <1>3, <1>7

LEMMA StreamNext ==
  ASSUME BufferInv, Stream, [FramingNext]_framingVars PROVE Stream'
<1>1. ASSUME life' # "open", UNCHANGED <<pvars, cut, delivered>> PROVE Stream'
  BY <1>1 DEF Stream, Stage, pvars
<1>2. ASSUME UNCHANGED <<bvars, svars, life, net, next, cut, delivered>>,
             life = "open" /\ phase' = "recv" => phase = "recv" \/ offset = 0
      PROVE  Stream'
  <2>1. Held' = Held
    BY <1>2 DEF Held, bvars
  <2>2. UNCHANGED <<net, next, offset, state, total, cut, life, delivered>>
    BY <1>2 DEF bvars, svars
  <2>3. ASSUME NEW d, NEW h, Stage(d, h) PROVE Stage(d, h)'
    BY <1>2, <2>1, <2>2, <2>3 DEF Stage, Waiting
  <2> QED BY <2>2, <2>3 DEF Stream
<1>3. ASSUME ~cut, life = "open", offset # 0
      PROVE  offset >= 2 /\ (state = "ReadPacket" => total <= offset)
  <2>1. PICK d \in 0 .. next - 1, h \in Int : Stage(d, h)
    BY <1>3 DEF Stream
  <2>2. d \in Nat /\ offset \in Nat
    BY DEF BufferInv, MemOK, NetOK
  <2>3. Whole(Held, d + 1, h) /\ (state = "ReadPacket" => total = Total[d + 1])
    BY <1>3, <2>1 DEF Stage, Waiting
  <2>4. Total[d + 1] \in 2 .. offset
    BY <1>3, <2>2, <2>3, FrameWaiting
  <2> QED BY <2>2, <2>3, <2>4
<1>4. CASE Recv
  BY <1>4, StreamRecv
<1>5. CASE RecvNothing
  BY <1>1, <1>2, <1>5 DEF RecvNothing, Destroy, pvars
<1>6. CASE MoreNeeded
  <2>1. CASE cut
    BY <1>6, <2>1 DEF MoreNeeded, Stream
  <2>2. CASE ~cut
    <3>1. life = "open" /\ offset \in Nat
      BY <1>6 DEF MoreNeeded, BufferInv, MemOK, NetOK
    <3>2. offset = 0
      BY <1>3, <1>6, <2>2, <3>1 DEF MoreNeeded
    <3> QED BY <1>2, <1>6, <3>2 DEF MoreNeeded, pvars
  <2> QED BY <2>1, <2>2
<1>7. CASE ReadPacketLen
  BY <1>7, StreamLength
<1>8. CASE ReadPacket
  <2>1. CASE ~PacketFinished /\ phase' = "recv" /\ UNCHANGED <<bvars, svars, life, pvars, cut, delivered>>
    <3>1. CASE cut
      BY <2>1, <3>1 DEF Stream
    <3>2. CASE ~cut
      <4>1. life = "open" /\ offset \in Nat /\ offset # 0 /\ total \in Int /\ state = "ReadPacket"
        BY <1>8, LengthFacts DEF ReadPacket, BufferInv, MemOK, ReadOK, NetOK
      <4>2. total <= offset
        BY <1>3, <3>2, <4>1
      <4> QED BY <2>1, <4>1, <4>2 DEF PacketFinished
    <3> QED BY <3>1, <3>2
  <2>2. CASE /\ PacketFinished /\ dataSize >= 0
             /\ ProcessOnePacket /\ state' = "ReadPacketLen"
             /\ UNCHANGED <<total, dataSize, phase, life, pvars, cut>>
    BY <1>8, <2>2, StreamProcess DEF pvars
  <2>3. CASE /\ life' = "crashed" /\ phase' = "recv"
             /\ UNCHANGED <<bvars, svars, pvars, cut, delivered>>
    BY <1>1, <2>3
  <2> QED BY <1>8, <2>1, <2>2, <2>3 DEF ReadPacket
<1>9. CASE PeerSends
  BY <1>9, StreamSends
<1>10. CASE PeerCloses
  BY <1>2, <1>10 DEF PeerCloses
<1>11. CASE UNCHANGED framingVars
  BY <1>2, <1>11 DEF framingVars, pvars
<1> QED BY <1>4, <1>5, <1>6, <1>7, <1>8, <1>9, <1>10, <1>11 DEF FramingNext, RecvProcess

LEMMA StreamIntact ==
  ASSUME BufferInv, Stream PROVE FramesIntact
<1> SUFFICES ASSUME ~cut
             PROVE  IsPrefix(delivered, [f \in 1 .. next - 1 |-> Body(f)])
  BY DEF FramesIntact
<1>1. PICK d \in 0 .. next - 1, h \in Int : Stage(d, h)
  BY DEF Stream
<1>2. next \in Nat
  BY LengthFacts DEF BufferInv, NetOK
<1>3. delivered = Bodies(d)
  BY <1>1 DEF Stage
<1>4. ASSUME NEW e \in 0 .. next - 1
      PROVE  Bodies(e) \in Seq({Body(k) : k \in 1 .. next - 1}) /\ Len(Bodies(e)) = e
  <2>1. Bodies(e) \in Seq({Body(k) : k \in 1 .. next - 1})
    <3>1. PICK S : S = {Body(j) : j \in 1 .. next - 1}
      OBVIOUS
    <3>2. e \in Nat /\ \A k \in 1 .. e : Body(k) \in S
      BY <1>2, <3>1
    <3>3. Bodies(e) \in [1 .. e -> S]
      BY <3>2 DEF Bodies
    <3>4. Bodies(e) \in Seq(S)
      BY <3>2, <3>3
    <3> QED BY <3>1, <3>4
  <2>2. DOMAIN Bodies(e) = 1 .. e
    BY DEF Bodies
  <2> QED BY <1>2, <2>1, <2>2, LenProperties
<1>5. \A k \in 1 .. d : Bodies(d)[k] = Bodies(next - 1)[k]
  BY <1>2 DEF Bodies
<1>6. IsPrefix(Bodies(d), Bodies(next - 1))
  <2>1. next - 1 \in 0 .. next - 1
    BY <1>2, LengthFacts DEF BufferInv, NetOK
  <2>2. /\ Bodies(d) \in Seq({Body(k) : k \in 1 .. next - 1}) /\ Len(Bodies(d)) = d
        /\ Bodies(next - 1) \in Seq({Body(k) : k \in 1 .. next - 1})
        /\ Len(Bodies(next - 1)) = next - 1
    BY <1>4, <2>1
  <2> QED BY <1>2, <1>5, <2>2 DEF IsPrefix
<1> QED BY <1>3, <1>6 DEF Bodies

(* As long as no recv ends inside a frame, the bodies of the frames sent   *)
(* are handed on, intact and in order, whatever their number and sizes.    *)
THEOREM TcpFramesIntact == FramingSpec => []FramesIntact
<1>1. FramingInit => BufferInv /\ Stream
  BY BufferInit, StreamInit
<1>2. BufferInv /\ Stream /\ [FramingNext]_framingVars => BufferInv' /\ Stream'
  BY BufferNext, StreamNext
<1>3. BufferInv /\ Stream => FramesIntact
  BY StreamIntact
<1> QED BY <1>1, <1>2, <1>3, PTL DEF FramingSpec

LEMMA StillSent ==
  ASSUME NEW n \in Nat, NEW m \in Nat, n <= m, NEW f \in 1 .. n - 1
  PROVE  f \in 1 .. m - 1
OBVIOUS

LEMMA CrashNext ==
  ASSUME BufferInv, Stream, NeverCrashes, [FramingNext]_framingVars
  PROVE  NeverCrashes'
<1>1. next \in Nat /\ next' \in Nat /\ next <= next'
  <2>1. next' = next \/ next' = next + 1
    BY DEF FramingNext, RecvProcess, framingVars, Recv, RecvNothing, MoreNeeded, ReadPacketLen, ReadPacket,
           PeerSends, PeerCloses, Destroy, pvars
  <2> QED BY <2>1, LengthFacts DEF BufferInv, NetOK
<1>2. cut => cut'
  BY Zenon DEF FramingNext, RecvProcess, framingVars, Recv, RecvNothing, MoreNeeded, ReadPacketLen, ReadPacket,
         PeerSends, PeerCloses, Destroy, pvars
<1>3. CASE life' = life
  <2> SUFFICES ASSUME life = "crashed", ~cut PROVE \E f \in 1 .. next' - 1 : Total[f] - 2 > MaxShort
    BY <1>2, <1>3 DEF NeverCrashes
  <2>1. PICK f \in 1 .. next - 1 : Total[f] - 2 > MaxShort
    BY DEF NeverCrashes
  <2>2. f \in 1 .. next' - 1
    BY <1>1, StillSent
  <2> QED BY <2>1, <2>2
<1>4. CASE life' = "closed"
  BY <1>4 DEF NeverCrashes
<1>5. CASE ReadPacket /\ PacketFinished /\ dataSize < 0 /\ life' = "crashed" /\ UNCHANGED <<next, cut>>
  <2> SUFFICES ASSUME ~cut PROVE \E f \in 1 .. next - 1 : Total[f] - 2 > MaxShort
    BY <1>5 DEF NeverCrashes
  <2>1. PICK d \in 0 .. next - 1, h \in Int : Stage(d, h)
    BY DEF Stream
  <2>2. /\ d \in Nat /\ life = "open" /\ state = "ReadPacket" /\ offset # 0 /\ offset \in Nat
        /\ total \in 0 .. Cap - 1 /\ total # 0 /\ dataSize = DataSize(total)
    BY <1>1, <1>5, <2>1, LengthFacts DEF ReadPacket, BufferInv, MemOK, ReadOK, NetOK, SizeFits
  <2>3. Whole(Held, d + 1, h) /\ Before(Held, next) /\ total = Total[d + 1]
    BY <2>1, <2>2 DEF Stage, Waiting
  <2>4. d + 1 \in DOMAIN Total /\ Total[d + 1] \in 2 .. offset
    BY <2>2, <2>3, FrameWaiting
  <2>5. Total[d + 1] - 2 > MaxShort
    BY <1>5, <2>2, <2>3, <2>4, SizeOf
  <2>6. d + 1 < next
    <3>1. Len(Held) = offset
      BY HeldElements
    <3>2. 1 \in 1 .. Len(Held) /\ Held[1] = <<d + 1, 1>>
      BY <2>2, <2>3, <3>1 DEF Whole, Starts
    <3>3. Held[1][1] = d + 1
      BY <3>2
    <3> QED BY <2>3, <3>2, <3>3 DEF Before
  <2>7. d + 1 \in 1 .. next - 1
    BY <1>1, <2>2, <2>6
  <2> QED BY <2>5, <2>7
<1> QED BY <1>3, <1>4, <1>5
        DEF FramingNext, RecvProcess, framingVars, Recv, RecvNothing, MoreNeeded, ReadPacketLen, ReadPacket,
            PeerSends, PeerCloses, Destroy, pvars

(* Only a frame whose body is larger than a short, or a misread length of  *)
(* a cut one, kills the process.                                           *)
THEOREM TcpNeverCrashes == FramingSpec => []NeverCrashes
<1>1. FramingInit => BufferInv /\ Stream /\ NeverCrashes
  BY BufferInit, StreamInit DEF FramingInit, NeverCrashes
<1>2. BufferInv /\ Stream /\ NeverCrashes /\ [FramingNext]_framingVars => BufferInv' /\ Stream' /\ NeverCrashes'
  BY BufferNext, StreamNext, CrashNext
<1> QED BY <1>1, <1>2, PTL DEF FramingSpec
=============================================================================
