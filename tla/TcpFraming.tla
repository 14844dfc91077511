----------------------------- MODULE TcpFraming -----------------------------
(***************************************************************************)
(* The receiving half of CTcpTask (src/common/mytask.cpp:35-145) over its  *)
(* CVBuffer (buffer.h, buffer.cpp).  A frame is a 16-bit length, which     *)
(* counts itself, and a body.  RecvProcess receives once, at the buffer's  *)
(* read position, and takes every finished frame out of the buffer.        *)
(*                                                                         *)
(* A byte is <<f, i>>: byte i of frame f.  Two bytes read as a length are  *)
(* that of frame f when they are its first two, and any length otherwise.  *)
(*                                                                         *)
(* SendPath is the other half of the class; the two share no name, so that *)
(* one module can speak of both.                                           *)
(***************************************************************************)
EXTENDS Integers, Sequences, SequencesExt

CONSTANTS Total,     \* Total[f]: the length of frame f, prefix included
          Cap,       \* MAX_CVBUFFER_SIZE; the largest length is Cap - 1
          MaxShort   \* the largest m_iDataSize: as many bits as a length, one for the sign

ASSUME TcpFramingAssumption == /\ MaxShort \in Nat \ {0} /\ Cap = 2 * (MaxShort + 1)
                               /\ Total \in Seq(2 .. Cap - 1)

VARIABLES mem,        \* m_Buffer
          offset,     \* m_uOffset: the bytes in the buffer
          getOffset,  \* m_uGetOffset: the read position
          state,      \* m_state
          total,      \* m_iTotalPackLen
          dataSize,   \* m_iDataSize
          phase,      \* "recv" when RecvProcess is not running, or in its "parse" loop
          life,       \* "open", "closed" by DestroySelf, or "crashed"
          net,        \* bytes sent and not yet received
          next,       \* the peer's next frame
          peer,       \* "open", "closed", or "reset": the connection is broken
          cut,        \* history: some recv ended inside a frame
          delivered   \* history: bodies given to PutMsgToList
bvars == <<mem, offset, getOffset>>
svars == <<state, total, dataSize>>
pvars == <<net, next, peer>>    \* and cut, which only Recv changes
framingVars == <<bvars, svars, phase, life, pvars, cut, delivered>>

Junk == <<0, 0>>                       \* memory nobody wrote
Frame(f) == [i \in 1 .. Total[f] |-> <<f, i>>]
Body(f) == SubSeq(Frame(f), 3, Total[f])

FramingInit ==
  /\ mem = [i \in 0 .. Cap - 1 |-> Junk] /\ offset = 0 /\ getOffset = 0
  /\ state = "ReadPacketLen" /\ total = 0 /\ dataSize = 0
  /\ phase = "recv" /\ life = "open"
  /\ net = <<>> /\ next = 1 /\ peer = "open" /\ cut = FALSE
  /\ delivered = <<>>
-----------------------------------------------------------------------------
(* CVBuffer.                                                               *)
JumpBuffer == IF offset > getOffset THEN getOffset ELSE 0

Short(i) == LET f == mem[i][1]
            IN IF f # 0 /\ mem[i] = <<f, 1>> /\ mem[i + 1] = <<f, 2>>
               THEN {Total[f]} ELSE 0 .. Cap - 1

Jumped(n) == IF getOffset + n > offset THEN offset ELSE getOffset + n

(* Mutant: the read position is moved and the rest left where it is. *)
AlignBufNot(get) == getOffset' = get /\ UNCHANGED <<mem, offset>>

(* AlignBuf: what is behind read position `get' moves to the front. *)
AlignBuf(get) == /\ mem' = [i \in 0 .. Cap - 1 |->
                              IF i < offset - get THEN mem[i + get] ELSE mem[i]]
                 /\ offset' = offset - get
                 /\ getOffset' = 0
-----------------------------------------------------------------------------
Destroy == /\ life' = "closed" /\ phase' = "recv"
           /\ UNCHANGED <<bvars, svars, pvars, cut, delivered>>

MaxReceive == Cap - offset

(* recv returns any part of what there is and fits.  (A reset throws away  *)
(* what waits, unless it comes while recv copies: both are possible here.) *)
Recv == /\ life = "open" /\ phase = "recv"
        /\ \E n \in 1 .. MaxReceive \cap 1 .. Len(net) :
                /\ mem' = [i \in 0 .. Cap - 1 |->
                             IF i \in JumpBuffer .. JumpBuffer + n - 1
                             THEN net[i - JumpBuffer + 1] ELSE mem[i]]
                /\ offset' = offset + n
                /\ net' = SubSeq(net, n + 1, Len(net))
                /\ cut' = (cut \/ net[n][2] # Total[net[n][1]])
        /\ phase' = "parse"
        /\ UNCHANGED <<getOffset, svars, life, next, peer, delivered>>

(* recv answers 0 when the peer has closed, and when it has no room, and   *)
(* -1, other than EAGAIN and EINTR, when the connection is broken.         *)
RecvNothing == /\ life = "open" /\ phase = "recv"
               /\ \/ MaxReceive # 0 /\ net = <<>> /\ peer = "closed" /\ Destroy
                  \/ peer = "reset" /\ Destroy
                  \/ /\ MaxReceive = 0 /\ phase' = "parse"
                     /\ UNCHANGED <<bvars, svars, life, pvars, cut, delivered>>

(* The loop ends with the buffer empty, or with too little for a length.   *)
MoreNeeded == /\ phase = "parse"
              /\ offset = 0 \/ (state = "ReadPacketLen" /\ offset < 2)
              /\ phase' = "recv"
              /\ UNCHANGED <<bvars, svars, life, pvars, cut, delivered>>

(* Mutant: one bit less. *)
DataSizeNarrow(len) == IF len - 2 > MaxShort \div 2 THEN len - 2 - (MaxShort + 1) ELSE len - 2

DataSize(len) == IF len - 2 > MaxShort THEN len - 2 - 2 * (MaxShort + 1) ELSE len - 2

ReadPacketLen ==
  /\ phase = "parse" /\ state = "ReadPacketLen" /\ offset >= 2
  /\ \E len \in (IF getOffset + 2 > offset THEN {0} ELSE Short(getOffset)) :
       \/ len = 0 /\ Destroy
       \/ /\ len # 0
          /\ state' = "ReadPacket" /\ total' = len /\ dataSize' = DataSize(len)
          /\ getOffset' = Jumped(2)
          /\ UNCHANGED <<mem, offset, phase, life, pvars, cut, delivered>>

(* Mutants: what is there is taken for all; one byte too many is awaited.  *)
PacketFinishedAny == TRUE
PacketFinishedLate == total < offset

PacketFinished == total <= offset

(* Mutant: the body is copied from the start of the buffer. *)
ProcessOnePacketFromStart ==
  /\ delivered' = Append(delivered, [i \in 1 .. dataSize |-> mem[i - 1]])
  /\ AlignBuf(Jumped(dataSize))

(* A negative length is taken for an enormous one by CSendMsg's copy.      *)
ProcessOnePacket ==
  /\ delivered' = Append(delivered, [i \in 1 .. dataSize |-> mem[JumpBuffer + i - 1]])
  /\ AlignBuf(Jumped(dataSize))

ReadPacket ==
  /\ phase = "parse" /\ state = "ReadPacket" /\ offset > 0
  /\ \/ /\ ~PacketFinished
        /\ phase' = "recv"
        /\ UNCHANGED <<bvars, svars, life, pvars, cut, delivered>>
     \/ /\ PacketFinished /\ dataSize >= 0
        /\ ProcessOnePacket
        /\ state' = "ReadPacketLen"
        /\ UNCHANGED <<total, dataSize, phase, life, pvars, cut>>
     \/ /\ PacketFinished /\ dataSize < 0
        /\ life' = "crashed" /\ phase' = "recv"
        /\ UNCHANGED <<bvars, svars, pvars, cut, delivered>>
-----------------------------------------------------------------------------
(* The peer sends whole frames, and they join what has not been received.  *)
PeerSends == /\ peer = "open" /\ next <= Len(Total)
             /\ net' = net \o Frame(next)
             /\ next' = next + 1
             /\ UNCHANGED <<bvars, svars, phase, life, peer, cut, delivered>>

PeerCloses == /\ peer # "reset"
              /\ peer' \in {"closed", "reset"} \ {peer}
              /\ UNCHANGED <<bvars, svars, phase, life, net, next, cut, delivered>>

RecvProcess == Recv \/ RecvNothing \/ MoreNeeded \/ ReadPacketLen \/ ReadPacket
FramingNext == RecvProcess \/ PeerSends \/ PeerCloses

FramingSpec == FramingInit /\ [][FramingNext]_framingVars

(* epoll is level-triggered: what waits in the socket is received.         *)
FramingFairSpec == FramingSpec /\ WF_framingVars(RecvProcess)
-----------------------------------------------------------------------------
Range16 == - MaxShort - 1 .. MaxShort
Data == {Junk} \cup {<<f, i>> : f \in DOMAIN Total, i \in 1 .. Cap - 1}

(* Types, and: however the stream is cut, the read position is at the      *)
(* start of the buffer when a length is next and right behind that length  *)
(* when a body is (the recv of mytask.cpp:68 and the copy of line 45 both  *)
(* address the buffer by it).                                              *)
FramingTypeOK ==
  /\ mem \in [0 .. Cap - 1 -> Data]
  /\ offset \in 0 .. Cap
  /\ \/ state = "ReadPacketLen" /\ getOffset = 0
     \/ state = "ReadPacket" /\ getOffset = 2 /\ offset >= 2 /\ total # 0
  /\ total \in 0 .. Cap - 1 /\ dataSize \in Range16
  /\ phase \in {"recv", "parse"} /\ life \in {"open", "closed", "crashed"}
  /\ net \in Seq(Data) /\ next \in 1 .. Len(Total) + 1
  /\ peer \in {"open", "closed", "reset"} /\ cut \in BOOLEAN

(* However the stream is cut, both accesses stay where they should: recv   *)
(* is given no more room than the memory behind the read position has      *)
(* (mytask.cpp:66-68), and never none, for a buffer too full to receive    *)
(* would hide that the peer closed (lines 69-79); and ProcessOnePacket     *)
(* copies nothing but received bytes (lines 37, 45).                       *)
StaysInBuffer ==
  /\ phase = "recv" /\ life = "open" => MaxReceive > 0 /\ JumpBuffer + MaxReceive <= Cap
  /\ phase = "parse" /\ state = "ReadPacket" /\ PacketFinished =>
       dataSize < 0 \/ JumpBuffer + dataSize <= offset

(* As long as no recv ends inside a frame: what is handed on are the       *)
(* bodies of the frames sent, all of them, in the order sent, however many *)
(* arrive together (mytask.cpp:133, "process one complete packet").        *)
FramesIntact == ~cut => IsPrefix(delivered, [f \in 1 .. next - 1 |-> Body(f)])

(* A frame of which a part has arrived is not lost while the rest is       *)
(* awaited: receiving more keeps what was received (mytask.cpp:108-109 and *)
(* 129-130, "more  data needed").                                          *)
ReceivedIsKept == [][Recv => \A i \in 0 .. offset - 1 : mem'[i] = mem[i]]_framingVars

(* Only a frame whose body is larger than a short, or a misread length of  *)
(* a cut one, kills the process (mytask.cpp:122 and 45).                   *)
NeverCrashes == life = "crashed" => cut \/ \E f \in 1 .. next - 1 : Total[f] - 2 > MaxShort

(* Every frame sent is handed on, unless the peer closes or resets, or a   *)
(* frame is cut or too large; the task does not close by itself            *)
(* (mytask.cpp:115-119).                                                   *)
EveryFrameDelivered == \A f \in DOMAIN Total :
  next > f ~> peer # "open" \/ cut \/ life = "crashed" \/ Len(delivered) >= f
=============================================================================
