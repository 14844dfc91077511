----------------------------- MODULE MCSendPath -----------------------------
(* Instances of SendPath for TLC: message m has m bytes.                   *)
EXTENDS SendPath

Messages == 1 .. 3
ByteSize == [m \in Messages |-> m]
=============================================================================
