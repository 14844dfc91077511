---------------------------- MODULE MCTcpFraming ----------------------------
(* Instances of TcpFraming for TLC: a buffer of 8 bytes, so that lengths   *)
(* are at most 7 and a signed size at most 3; the last frame exceeds it.   *)
EXTENDS TcpFraming

Frames == <<4, 2, 6>>
=============================================================================
