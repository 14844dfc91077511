---------------------------- MODULE LogRotation ----------------------------
(***************************************************************************)
(* The log of a process (src/common/writeRunInfo.cpp, class WriteRunInfo). *)
(* Each log type has a flag, a counter and the suffix of its file; several *)
(* types have the same suffix.  LogWrite (and LogWriteData, which differs  *)
(* in what it prints) tests the flag and then, holding m_logMutex, stats   *)
(* the file, renames it to <file>_<counter> when it is too large, opens it *)
(* for appending, writes one record and closes it.  WriteStat takes the    *)
(* same mutex for a file of its own, and logs when it cannot open that.    *)
(*                                                                         *)
(* Sizes are counted in records.  A record reaches the file when fclose    *)
(* flushes it: a crash before that loses it.  Files outlive the process,   *)
(* counters and flags do not.                                              *)
(***************************************************************************)
EXTENDS Integers, Sequences, SequencesExt, FiniteSets

CONSTANTS Threads, Nobody,  \* threads that log; holder of a free mutex
          Types,            \* log types
          Suffix,           \* sFileNameSuffix of each
          StatType,         \* LOGTYPE, to which WriteStat reports
          InitFlag,         \* nLogOff: 0 off, 1 on, 2 on for ever
          Slots,            \* 10: the counters run modulo this
          MaxLogSize,       \* MAXLOGSIZE
          NoType,           \* no type of a suffix has rotated yet
          MaxRecords,       \* bound: records that reach each file
          MaxFaults         \* bound: restarts and failed calls of the system

ASSUME LogAssumption == /\ Nobody \notin Threads /\ NoType \notin Types
                        /\ StatType \in Types
                        /\ InitFlag \in [Types -> 0 .. 2]
                        /\ Slots \in Nat \ {0} /\ MaxLogSize \in Nat
                        /\ MaxFaults \in Nat
FileNames == {Suffix[k] : k \in Types}

VARIABLES mutex,    \* the thread holding m_logMutex
          flag,     \* nLogOff of each type
          fileNum,  \* nFileNum of each type
          live,     \* the current file of each suffix, <<>> if there is none
          old,      \* old[s][n]: the file with number n, <<>> if there is none
          pc, type, \* per thread: its next operation; nLogType of its call
                    \* (StatType between calls)
          written,  \* history: records that reached the files of a suffix
          gone,     \* history: records in files that were renamed over
          rotator,  \* history: the one type of the suffix that has rotated
          clean,    \* history: its counter has the suffix's files in order
          faults    \* restarts and failures so far
fvars == <<live, old, written, gone, rotator, clean>>
logVars == <<mutex, flag, fileNum, fvars, pc, type, faults>>

Numbers == 0 .. Slots - 1
LogInit ==
  /\ mutex = Nobody /\ flag = InitFlag /\ fileNum = [k \in Types |-> 0]
  /\ live = [s \in FileNames |-> <<>>]
  /\ old = [s \in FileNames |-> [n \in Numbers |-> <<>>]]
  /\ pc = [t \in Threads |-> "idle"] /\ type = [t \in Threads |-> StatType]
  /\ written = [s \in FileNames |-> 0] /\ gone = [s \in FileNames |-> {}]
  /\ rotator = [s \in FileNames |-> NoType] /\ clean = [s \in FileNames |-> TRUE]
  /\ faults = 0

Goto(t, label) == pc' = [pc EXCEPT ![t] = label]
Fault == faults < MaxFaults /\ faults' = faults + 1
File(t) == Suffix[type[t]]
-----------------------------------------------------------------------------
(* SetLogFlag, from any thread and without the mutex. *)
SetLogFlag(k, f) == /\ flag[k] # 2
                    /\ flag' = [flag EXCEPT ![k] = f]
                    /\ UNCHANGED <<mutex, fileNum, fvars, pc, type, faults>>

(* LogWrite of a type that is on; for one that is off it returns at once.  *)
LogWrite(t, k) == /\ pc[t] = "idle" /\ flag[k] # 0
                  /\ Goto(t, "lock") /\ type' = [type EXCEPT ![t] = k]
                  /\ UNCHANGED <<mutex, flag, fileNum, fvars, faults>>

WriteStat(t) == /\ pc[t] = "idle"
                /\ Goto(t, "statlock")
                /\ UNCHANGED <<mutex, flag, fileNum, fvars, type, faults>>

(* Mutant: the mutex is not waited for. *)
LockUnguarded(t) == /\ pc[t] \in {"lock", "statlock"}
                    /\ mutex' = t
                    /\ Goto(t, IF pc[t] = "lock" THEN "stat" ELSE "statopen")
                    /\ UNCHANGED <<flag, fileNum, fvars, type, faults>>

Lock(t) == /\ pc[t] \in {"lock", "statlock"} /\ mutex = Nobody
           /\ mutex' = t
           /\ Goto(t, IF pc[t] = "lock" THEN "stat" ELSE "statopen")
           /\ UNCHANGED <<flag, fileNum, fvars, type, faults>>

(* stat; a file that is too large is to be renamed.  Nothing is asked of a *)
(* file that stat fails on, whether or not it is there.                    *)
Stat(t) == /\ pc[t] = "stat"
           /\ \/ /\ Goto(t, IF Len(live[File(t)]) > MaxLogSize THEN "rename" ELSE "open")
                 /\ UNCHANGED faults
              \/ Fault /\ Goto(t, "open")
           /\ UNCHANGED <<mutex, flag, fileNum, fvars, type>>
-----------------------------------------------------------------------------
(* Mutant: the rename comes before the counter is advanced. *)
SlotBefore(n) == n

NextNumber(n) == (n + 1) % Slots
Slot(n) == (n + 1) % Slots

(* The type's counter is advanced and the file renamed to it, over what    *)
(* had that name.  The result of rename is ignored.                        *)
Rename(t) ==
  LET s == File(t)
      n == Slot(fileNum[type[t]])
  IN /\ pc[t] = "rename"
     /\ fileNum' = [fileNum EXCEPT ![type[t]] = NextNumber(@)]
     /\ \/ /\ old' = [old EXCEPT ![s][n] = live[s]]
           /\ live' = [live EXCEPT ![s] = <<>>]
           /\ gone' = [gone EXCEPT ![s] = @ \cup ToSet(old[s][n])]
           /\ rotator' = [rotator EXCEPT ![s] = type[t]]
           /\ clean' = [clean EXCEPT ![s] = @ /\ rotator[s] \in {NoType, type[t]}]
           /\ UNCHANGED faults
        \/ /\ Fault
           /\ clean' = [clean EXCEPT ![s] = FALSE]
           /\ UNCHANGED <<old, live, gone, rotator>>
     /\ Goto(t, "open")
     /\ UNCHANGED <<mutex, flag, type, written>>

(* Mutant: the file is opened with "w+". *)
Truncated(f, r) == <<r>>

Appended(f, r) == Append(f, r)

(* fopen, fprintf, fclose: one record, at the end of the current file. *)
Write(t) == LET s == File(t)
            IN /\ pc[t] = "open" /\ written[s] < MaxRecords[s]
               /\ written' = [written EXCEPT ![s] = @ + 1]
               /\ live' = [live EXCEPT ![s] = Appended(@, written[s] + 1)]
               /\ Goto(t, "unlock")
               /\ UNCHANGED <<mutex, flag, fileNum, old, gone, rotator, clean, type, faults>>

(* Mutant: the early return keeps the mutex. *)
OpenFailsLocked(t) == /\ pc[t] = "open" /\ Fault
                      /\ Goto(t, "idle")
                      /\ UNCHANGED <<mutex, flag, fileNum, fvars, type>>

(* fopen fails: the record is dropped. *)
OpenFails(t) == /\ pc[t] = "open" /\ Fault
                /\ Goto(t, "unlock")
                /\ UNCHANGED <<mutex, flag, fileNum, fvars, type>>

Unlock(t) == /\ pc[t] = "unlock"
             /\ mutex' = Nobody
             /\ Goto(t, "idle") /\ type' = [type EXCEPT ![t] = StatType]
             /\ UNCHANGED <<flag, fileNum, fvars, faults>>

(* WriteStat after Lock: its own file is written; or it cannot be opened,  *)
(* and that is logged by WriteLog, once the mutex is free again.           *)
StatOpen(t) == /\ pc[t] = "statopen"
               /\ mutex' = Nobody
               /\ \/ Goto(t, "idle") /\ UNCHANGED <<type, faults>>
                  \/ /\ Fault
                     /\ IF flag[StatType] = 0 THEN Goto(t, "idle") ELSE Goto(t, "lock")
                     /\ type' = [type EXCEPT ![t] = StatType]
               /\ UNCHANGED <<flag, fileNum, fvars>>

(* The process ends, at any point, and is started again. *)
Restart == /\ Fault
           /\ mutex' = Nobody /\ flag' = InitFlag /\ fileNum' = [k \in Types |-> 0]
           /\ pc' = [t \in Threads |-> "idle"] /\ type' = [t \in Threads |-> StatType]
           /\ clean' = [s \in FileNames |-> clean[s] /\ rotator[s] = NoType]
           /\ UNCHANGED <<live, old, written, gone, rotator>>
-----------------------------------------------------------------------------
Inside(t) == \/ Lock(t) \/ Stat(t) \/ Rename(t) \/ Write(t) \/ OpenFails(t)
             \/ Unlock(t) \/ StatOpen(t)
LogNext ==
  \/ \E t \in Threads : (\E k \in Types : LogWrite(t, k)) \/ WriteStat(t) \/ Inside(t)
  \/ \E k \in Types, f \in {0, 1} : SetLogFlag(k, f)
  \/ Restart

LogSpec == LogInit /\ [][LogNext]_logVars

(* A thread inside a call goes on, and gets the mutex when it is free again *)
(* and again.  The bound on records must not stop it: see CallsReturn.     *)
LogFairSpec == LogSpec /\ \A t \in Threads : WF_logVars(Inside(t)) /\ SF_logVars(Lock(t))
-----------------------------------------------------------------------------
(* The threads' places (the calls in LogWrite and WriteStat), and the      *)
(* types; a counter never leaves 0 .. Slots - 1 (writeRunInfo.cpp:353-354).*)
Labels == {"idle", "lock", "stat", "rename", "open", "unlock", "statlock", "statopen"}
LogTypeOK ==
  /\ mutex \in Threads \cup {Nobody}
  /\ flag \in [Types -> 0 .. 2] /\ fileNum \in [Types -> Numbers]
  /\ live \in [FileNames -> Seq(Nat)] /\ old \in [FileNames -> [Numbers -> Seq(Nat)]]
  /\ pc \in [Threads -> Labels] /\ type \in [Threads -> Types]
  /\ written \in [FileNames -> Nat] /\ gone \in [FileNames -> SUBSET Nat]
  /\ rotator \in [FileNames -> Types \cup {NoType}]
  /\ clean \in [FileNames -> BOOLEAN]
  /\ faults \in Nat

(* While only one type of a suffix has rotated its files, in one life of   *)
(* the process, reading the numbered files from the one after the counter, *)
(* round to the counter, and then the current file, gives the latest       *)
(* records, in order and without a gap: what a rotation destroys is always *)
(* the oldest (writeRunInfo.cpp:349-357).                                  *)
InOrder(s) == LET n == IF rotator[s] = NoType THEN 0 ELSE fileNum[rotator[s]]
              IN FlattenSeq([i \in 1 .. Slots |-> old[s][(n + i) % Slots]]) \o live[s]
ReadsAsOne ==
  \A s \in FileNames : clean[s] =>
    LET read == InOrder(s) IN \A i \in DOMAIN read : read[i] = written[s] - Len(read) + i

(* Whatever counters are shared, lost or mixed, a record once written is   *)
(* in one file, or went with a file that was renamed over.                 *)
Holders(s, r) == {n \in Numbers : r \in ToSet(old[s][n])}
                 \cup (IF r \in ToSet(live[s]) THEN {Slots} ELSE {})
NothingElseLost ==
  \A s \in FileNames : \A r \in 1 .. written[s] :
    IF r \in gone[s] THEN Holders(s, r) = {} ELSE Cardinality(Holders(s, r)) = 1

(* Only a file that was too large is ever renamed: two threads that both   *)
(* saw it so cannot rename it twice, the second time almost empty, because *)
(* stat and rename are under one mutex (writeRunInfo.cpp:345-360).         *)
RotatedFull == \A s \in FileNames, n \in Numbers :
                 old[s][n] = <<>> \/ Len(old[s][n]) > MaxLogSize

(* Every call returns, whatever fails: each path unlocks the mutex, and    *)
(* WriteStat does so before it calls WriteLog, which takes it again        *)
(* (writeRunInfo.cpp:139-144, 363-366).                                    *)
CallsReturn == \A t \in Threads : pc[t] # "idle" ~> pc[t] = "idle" \/ \E s \in FileNames : written[s] = MaxRecords[s]
=============================================================================
