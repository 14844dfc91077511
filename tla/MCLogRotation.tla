--------------------------- MODULE MCLogRotation ---------------------------
(* Three types: ERRORTYPE and FATALTYPE share a file; LOGTYPE has its own  *)
(* and is on for ever (writeRunInfo.cpp:37-46).                            *)
EXTENDS LogRotation
CONSTANTS error, fatal, log

MCSuffix == [k \in {error, fatal, log} |-> IF k = log THEN ".frame" ELSE ".error"]
MCInitFlag == [k \in {error, fatal, log} |-> IF k = log THEN 2 ELSE 1]
MCMaxRecords == [s \in {".error", ".frame"} |-> IF s = ".error" THEN 6 ELSE 1]
=============================================================================
