---------------------------- MODULE SupportProofs ----------------------------
(***************************************************************************)
(* What the servers lean on, for any values of the constants: the log of a *)
(* process (LogRotation) and its registration in the directory             *)
(* (ZookClient).                                                           *)
(*                                                                         *)
(* The log: only a file that was too large is renamed (RotatedFull); every *)
(* record is in one file, or went with a file renamed over                 *)
(* (NothingElseLost); the files of one rotator read as one, in order       *)
(* (ReadsAsOne); whatever fails and however often the process is started   *)
(* again.  Its invariant carries over from the stat to the rename what the *)
(* thread saw: as long as it holds the mutex, the file it is about to      *)
(* rename is as large as it was.                                           *)
(*                                                                         *)
(* The directory: a quiet client is up to date and registered              *)
(* (QuietIsCurrent, QuietIsRegistered), its callbacks add up to its list   *)
(* (ToldIsKnown), and take away only what is gone (DelIsGoneOrDown).  The  *)
(* first two are not inductive: between a change and the next read the     *)
(* list is wrong.  The invariant says what then stands in for them: while  *)
(* connected, a list that is not current is announced by an event to come, *)
(* or is still to be read by the handler that runs; and the same for the   *)
(* node.                                                                   *)
(***************************************************************************)
EXTENDS LogRotation, ZookClient, SequenceLemmas, FiniteSetTheorems

(***************************************************************************)
(* The log.                                                                *)
(***************************************************************************)
(* Between lock and unlock a thread is the holder of the mutex. *)
InCall == {"stat", "rename", "open", "unlock", "statopen"}
Held == \A t \in Threads : pc[t] \in InCall => mutex = t

(* What Stat found is still so at the rename. *)
StillFull == \A t \in Threads : pc[t] = "rename" => Len(live[File(t)]) > MaxLogSize

LogInv == LogTypeOK /\ Held /\ StillFull /\ RotatedFull

LEMMA NumbersAre == /\ 0 \in Numbers
                    /\ \A n \in Numbers : NextNumber(n) \in Numbers /\ Slot(n) \in Numbers
BY LogAssumption DEF Numbers, NextNumber, Slot

LEMMA NamesAre == \A k \in Types : Suffix[k] \in FileNames
BY DEF FileNames

LEMMA LogInitInv == LogInit => LogInv
BY LogAssumption, NumbersAre DEF LogInit, LogInv, LogTypeOK, Held, InCall, StillFull, RotatedFull, Labels

(* Steps that leave the files and the counters alone. *)
LEMMA OutsideKeeps ==
  ASSUME LogInv, UNCHANGED <<fileNum, fvars>>,
         \/ \E k \in Types, f \in {0, 1} : SetLogFlag(k, f)
         \/ \E t \in Threads : \/ \E k \in Types : LogWrite(t, k)
                               \/ WriteStat(t) \/ Lock(t) \/ Stat(t) \/ OpenFails(t)
                               \/ Unlock(t) \/ StatOpen(t)
         \/ UNCHANGED logVars
  PROVE  LogInv'
<1> USE LogAssumption DEF LogInv, fvars, InCall
<1>1. RotatedFull'
  BY DEF RotatedFull
<1>2. CASE \E k \in Types, f \in {0, 1} : SetLogFlag(k, f)
  <2>1. LogTypeOK' /\ UNCHANGED <<pc, type, mutex>>
    BY <1>2 DEF SetLogFlag, LogTypeOK
  <2> QED BY <1>1, <2>1 DEF Held, StillFull, File
<1>3. ASSUME NEW t \in Threads, NEW k \in Types, LogWrite(t, k)  PROVE LogInv'
  <2>1. LogTypeOK' /\ Held' /\ StillFull'
    BY <1>3 DEF LogWrite, Goto, LogTypeOK, Held, StillFull, File, Labels
  <2> QED BY <1>1, <2>1
<1>4. ASSUME NEW t \in Threads,
             WriteStat(t) \/ Lock(t) \/ OpenFails(t) \/ Unlock(t) \/ StatOpen(t)
      PROVE  LogInv'
  <2> DEFINE goes(l) == pc' = [pc EXCEPT ![t] = l]
  <2>1. /\ flag' = flag
        /\ faults' = faults \/ faults' = faults + 1
        /\ type' = type \/ type' = [type EXCEPT ![t] = StatType]
    BY <1>4 DEF WriteStat, Lock, OpenFails, Unlock, StatOpen, Fault
  <2>2. \/ goes("statlock") /\ mutex' = mutex
        \/ (goes("stat") \/ goes("statopen")) /\ mutex = Nobody /\ mutex' = t
        \/ goes("unlock") /\ mutex' = mutex /\ pc[t] = "open"
        \/ /\ goes("idle") \/ goes("lock")
           /\ mutex' = Nobody /\ pc[t] \in {"unlock", "statopen"}
    BY <1>4 DEF WriteStat, Lock, OpenFails, Unlock, StatOpen, Goto
  <2>3. pc' \in [Threads -> Labels] /\ mutex' \in Threads \cup {Nobody}
    BY <2>2 DEF LogTypeOK, Labels
  <2>4. type' \in [Threads -> Types] /\ faults' \in Nat
    <3>1. type \in [Threads -> Types] /\ faults \in Nat
      BY DEF LogTypeOK
    <3>2. type' \in [Threads -> Types]
      BY <2>1, <3>1
    <3>3. faults' \in Nat
      BY <2>1, <3>1
    <3> QED BY <3>2, <3>3
  <2>5. LogTypeOK'
    BY <2>1, <2>3, <2>4 DEF LogTypeOK
  <2>6. /\ \A u \in Threads : u # t => pc'[u] = pc[u] /\ type'[u] = type[u]
        /\ pc'[t] # "rename"
        /\ \/ pc'[t] \notin InCall /\ mutex' = mutex
           \/ mutex = Nobody /\ mutex' = t
           \/ pc[t] = "open" /\ mutex' = mutex
           \/ pc'[t] \notin InCall /\ mutex' = Nobody /\ pc[t] \in InCall
    <3>1. pc \in [Threads -> Labels] /\ type \in [Threads -> Types]
      BY DEF LogTypeOK
    <3>2. \A l : goes(l) => pc'[t] = l /\ \A u \in Threads : u # t => pc'[u] = pc[u]
      BY <3>1
    <3>3. \A u \in Threads : u # t => type'[u] = type[u]
      BY <2>1, <3>1
    <3> HIDE DEF goes
    <3> QED BY <2>2, <3>2, <3>3
  <2>7. Held'
    BY <2>6 DEF Held
  <2>8. StillFull'
    BY <2>6 DEF StillFull, File
  <2> QED BY <1>1, <2>5, <2>7, <2>8
<1>5. ASSUME NEW t \in Threads, Stat(t)  PROVE LogInv'
  <2>1. faults' \in Nat
    BY <1>5 DEF Stat, Fault, LogTypeOK
  <2>2. CASE Goto(t, IF Len(live[File(t)]) > MaxLogSize THEN "rename" ELSE "open")
    BY <1>1, <1>5, <2>1, <2>2 DEF Stat, Goto, LogTypeOK, Held, StillFull, File, Labels
  <2>3. CASE Goto(t, "open")
    BY <1>1, <1>5, <2>1, <2>3 DEF Stat, Goto, LogTypeOK, Held, StillFull, File, Labels
  <2> QED BY <1>5, <2>2, <2>3 DEF Stat
<1>6. CASE UNCHANGED logVars
  BY <1>6 DEF logVars, LogTypeOK, Held, StillFull, RotatedFull, File
<1> QED BY <1>2, <1>3, <1>4, <1>5, <1>6

LEMMA OutsideUnchanged ==
  ASSUME \/ \E k \in Types, f \in {0, 1} : SetLogFlag(k, f)
         \/ \E t \in Threads : \/ \E k \in Types : LogWrite(t, k)
                               \/ WriteStat(t) \/ Lock(t) \/ Stat(t) \/ OpenFails(t)
                               \/ Unlock(t) \/ StatOpen(t)
         \/ UNCHANGED logVars
  PROVE  UNCHANGED <<fileNum, fvars>>
BY DEF SetLogFlag, LogWrite, WriteStat, Lock, Stat, OpenFails, Unlock, StatOpen, logVars

(* The file renamed was too large; nobody else is between stat and rename. *)
LEMMA RenameKeeps ==
  ASSUME LogInv, NEW t \in Threads, Rename(t)
  PROVE  LogInv'
<1> USE LogAssumption DEF LogInv, InCall
<1> DEFINE s == File(t)
           n == Slot(fileNum[type[t]])
<1>1. s \in FileNames /\ type[t] \in Types /\ n \in Numbers
      /\ NextNumber(fileNum[type[t]]) \in Numbers
  BY NumbersAre, NamesAre DEF LogTypeOK, File
<1>2. /\ pc[t] = "rename" /\ pc' = [pc EXCEPT ![t] = "open"]
      /\ fileNum' = [fileNum EXCEPT ![type[t]] = NextNumber(fileNum[type[t]])]
      /\ UNCHANGED <<mutex, flag, type, written>>
  BY DEF Rename, Goto
<1>3. \/ /\ old' = [old EXCEPT ![s][n] = live[s]]
         /\ live' = [live EXCEPT ![s] = <<>>]
         /\ gone' = [gone EXCEPT ![s] = gone[s] \cup ToSet(old[s][n])]
         /\ rotator' = [rotator EXCEPT ![s] = type[t]]
         /\ UNCHANGED faults
      \/ UNCHANGED <<old, live, gone, rotator>> /\ faults' = faults + 1
  BY DEF Rename, Fault
<1>4. clean' \in [FileNames -> BOOLEAN]
  <2>1. \/ clean' = [clean EXCEPT ![s] = clean[s] /\ rotator[s] \in {NoType, type[t]}]
        \/ clean' = [clean EXCEPT ![s] = FALSE]
    BY DEF Rename
  <2>2. clean \in [FileNames -> BOOLEAN] /\ (clean[s] /\ rotator[s] \in {NoType, type[t]}) \in BOOLEAN
    BY DEF LogTypeOK
  <2> QED BY <2>1, <2>2, Zenon
<1>5. ToSet(old[s][n]) \in SUBSET Nat
  <2>1. old[s][n] \in Seq(Nat)
    BY <1>1 DEF LogTypeOK
  <2> QED BY <2>1 DEF ToSet
<1>6. LogTypeOK'
  <2>1. old' \in [FileNames -> [Numbers -> Seq(Nat)]]
    <3>1. live[s] \in Seq(Nat)
      BY <1>1 DEF LogTypeOK
    <3>2. [old[s] EXCEPT ![n] = live[s]] \in [Numbers -> Seq(Nat)]
      BY <1>1, <3>1, Zenon DEF LogTypeOK
    <3>3. CASE old' = [old EXCEPT ![s][n] = live[s]]
      BY <1>1, <3>2, <3>3 DEF LogTypeOK
    <3> QED BY <1>3, <3>3 DEF LogTypeOK
  <2>2. live' \in [FileNames -> Seq(Nat)]
    <3>1. <<>> \in Seq(Nat)
      OBVIOUS
    <3> QED BY <1>1, <1>3, <3>1 DEF LogTypeOK
  <2>5. gone' \in [FileNames -> SUBSET Nat]
    <3>1. gone[s] \cup ToSet(old[s][n]) \in SUBSET Nat
      BY <1>1, <1>5 DEF LogTypeOK
    <3> QED BY <1>1, <1>3, <3>1 DEF LogTypeOK
  <2>6. rotator' \in [FileNames -> Types \cup {NoType}]
    BY <1>1, <1>3 DEF LogTypeOK
  <2>3. fileNum' \in [Types -> Numbers] /\ pc' \in [Threads -> Labels]
    BY <1>1, <1>2 DEF LogTypeOK, Labels
  <2>4. faults' \in Nat
    BY <1>3 DEF LogTypeOK
  <2> QED BY <1>2, <1>4, <2>1, <2>2, <2>3, <2>4, <2>5, <2>6 DEF LogTypeOK
<1>7. Held' /\ StillFull'
  <2>1. \A u \in Threads : u # t => pc[u] # "rename"
    BY <1>2 DEF Held
  <2> QED BY <1>2, <2>1 DEF Held, StillFull, LogTypeOK
<1>8. RotatedFull'
  <2>1. Len(live[s]) > MaxLogSize
    BY <1>2 DEF StillFull
  <2>2. CASE old' = [old EXCEPT ![s][n] = live[s]]
    <3> SUFFICES ASSUME NEW r \in FileNames, NEW m \in Numbers
                 PROVE  old'[r][m] = <<>> \/ Len(old'[r][m]) > MaxLogSize
      BY DEF RotatedFull
    <3>1. CASE r = s /\ m = n
      <4>1. old'[r][m] = live[s]
        BY <1>1, <2>2, <3>1, Zenon DEF LogTypeOK
      <4> QED BY <2>1, <4>1
    <3>2. CASE ~(r = s /\ m = n)
      <4>1. old'[r][m] = old[r][m]
        BY <1>1, <2>2, <3>2 DEF LogTypeOK
      <4> QED BY <4>1 DEF RotatedFull
    <3> QED BY <3>1, <3>2
  <2>3. CASE old' = old
    BY <2>3 DEF RotatedFull
  <2> QED BY <1>3, <2>2, <2>3
<1> QED BY <1>6, <1>7, <1>8

LEMMA WriteKeeps ==
  ASSUME LogInv, NEW t \in Threads, Write(t)
  PROVE  LogInv'
<1> USE LogAssumption DEF LogInv, InCall
<1> DEFINE s == File(t)
<1>1. s \in FileNames /\ type[t] \in Types
  BY NamesAre DEF LogTypeOK, File
<1>2. /\ pc[t] = "open" /\ pc' = [pc EXCEPT ![t] = "unlock"]
      /\ written' = [written EXCEPT ![s] = written[s] + 1]
      /\ live' = [live EXCEPT ![s] = Append(live[s], written[s] + 1)]
      /\ UNCHANGED <<mutex, flag, fileNum, old, gone, rotator, clean, type, faults>>
  BY DEF Write, Goto, Appended
<1>3. LogTypeOK'
  <2>1. live' \in [FileNames -> Seq(Nat)] /\ written' \in [FileNames -> Nat]
    BY <1>1, <1>2 DEF LogTypeOK
  <2>2. pc' \in [Threads -> Labels]
    BY <1>1, <1>2 DEF LogTypeOK, Labels
  <2> QED BY <1>2, <2>1, <2>2 DEF LogTypeOK
<1>4. Held' /\ StillFull'
  <2>1. \A u \in Threads : u # t => pc[u] # "rename"
    BY <1>2 DEF Held
  <2> QED BY <1>2, <2>1 DEF Held, StillFull, LogTypeOK
<1>5. RotatedFull'
  BY <1>2 DEF RotatedFull
<1> QED BY <1>3, <1>4, <1>5

LEMMA RestartKeeps ==
  ASSUME LogInv, Restart
  PROVE  LogInv'
<1> USE LogAssumption DEF LogInv, InCall
<1>1. clean' \in [FileNames -> BOOLEAN]
  BY Zenon DEF Restart, LogTypeOK
<1>2. LogTypeOK'
  BY <1>1, NumbersAre DEF Restart, Fault, LogTypeOK, Labels
<1>3. Held' /\ StillFull' /\ RotatedFull'
  BY DEF Restart, Held, StillFull, RotatedFull
<1> QED BY <1>2, <1>3
-----------------------------------------------------------------------------
LEMMA LogInductive == LogInv /\ [LogNext]_logVars => LogInv'
<1> SUFFICES ASSUME LogInv, [LogNext]_logVars PROVE LogInv'
  OBVIOUS
<1>1. CASE Restart
  BY <1>1, RestartKeeps
<1>2. CASE \E t \in Threads : Rename(t)
  BY <1>2, RenameKeeps
<1>3. CASE \E t \in Threads : Write(t)
  BY <1>3, WriteKeeps
<1>4. CASE \/ \E k \in Types, f \in {0, 1} : SetLogFlag(k, f)
           \/ \E t \in Threads : \/ \E k \in Types : LogWrite(t, k)
                                 \/ WriteStat(t) \/ Lock(t) \/ Stat(t) \/ OpenFails(t)
                                 \/ Unlock(t) \/ StatOpen(t)
           \/ UNCHANGED logVars
  BY <1>4, OutsideKeeps, OutsideUnchanged
<1> QED BY <1>1, <1>2, <1>3, <1>4 DEF LogNext, Inside

(* For any threads, types and sizes, and through any failures and          *)
(* restarts: only a file that was too large is ever renamed                *)
(* (writeRunInfo.cpp:345-360), and the counters stay in their range.       *)
THEOREM RotatesOnlyFull == LogSpec => [](LogTypeOK /\ RotatedFull)
<1>1. LogInv => LogTypeOK /\ RotatedFull
  BY DEF LogInv
<1> QED BY <1>1, LogInitInv, LogInductive, PTL DEF LogSpec
-----------------------------------------------------------------------------
(***************************************************************************)
(* Every record is accounted for: in at most one file, and in none exactly *)
(* when it is gone; and no file holds one that was not written yet, so     *)
(* that the next to be written is nowhere.                                 *)
(***************************************************************************)
Accounted ==
  \A s \in FileNames :
    /\ gone[s] \subseteq 1 .. written[s] /\ ToSet(live[s]) \subseteq 1 .. written[s]
    /\ \A n \in Numbers : ToSet(old[s][n]) \subseteq 1 .. written[s]
InOnePlace ==
  \A s \in FileNames : \A r \in 1 .. written[s] :
    /\ r \in gone[s] <=> Holders(s, r) = {}
    /\ \A x, y \in Holders(s, r) : x = y

LEMMA HoldersAre ==
  ASSUME NEW s, NEW r, NEW x
  PROVE  x \in Holders(s, r) <=> \/ x \in Numbers /\ r \in ToSet(old[s][x])
                                 \/ x = Slots /\ r \in ToSet(live[s])
BY DEF Holders

LEMMA ToSetEmpty == ToSet(<<>>) = {}
BY DEF ToSet

LEMMA ToSetAppend ==
  ASSUME NEW S, NEW f \in Seq(S), NEW e \in S
  PROVE  ToSet(Append(f, e)) = ToSet(f) \cup {e}
<1>1. PICK g \in Seq(S), n \in Nat :
        /\ g = Append(f, e) /\ n = Len(f) /\ Len(g) = n + 1 /\ g[n + 1] = e
        /\ \A i \in 1 .. n : f[i] = g[i]
  <2>1. /\ Append(f, e) \in Seq(S) /\ Len(f) \in Nat /\ Len(Append(f, e)) = Len(f) + 1
        /\ \A i \in 1 .. Len(f) : f[i] = Append(f, e)[i]
        /\ Append(f, e)[Len(f) + 1] = e
    BY AppendElements
  <2> QED BY <2>1, Zenon
<1>2. DOMAIN f = 1 .. n /\ DOMAIN g = 1 .. n + 1
  BY <1>1
<1>3. \A i \in 1 .. n + 1 : i \in 1 .. n \/ i = n + 1
  BY <1>1
<1>4. \A i \in 1 .. n : i \in 1 .. n + 1
  BY <1>1
<1>5. n + 1 \in 1 .. n + 1
  BY <1>1
<1>6. ToSet(f) = {f[i] : i \in 1 .. n} /\ ToSet(g) = {g[i] : i \in 1 .. n + 1}
  BY <1>2 DEF ToSet
<1> QED BY <1>1, <1>3, <1>4, <1>5, <1>6

LEMMA PlaceInit == LogInit => Accounted /\ InOnePlace
<1> SUFFICES ASSUME LogInit PROVE Accounted /\ InOnePlace
  OBVIOUS
<1>1. ASSUME NEW s \in FileNames
      PROVE /\ gone[s] = {} /\ written[s] = 0 /\ ToSet(live[s]) = {}
            /\ \A n \in Numbers : ToSet(old[s][n]) = {}
  BY ToSetEmpty DEF LogInit
<1>2. Accounted
  BY <1>1 DEF Accounted
<1>3. InOnePlace
  BY <1>1 DEF InOnePlace
<1> QED BY <1>2, <1>3

(* A file too large becomes the file of a number; what had that is gone.   *)
LEMMA PlaceRename ==
  ASSUME LogInv, Accounted, InOnePlace, NEW t \in Threads, Rename(t)
  PROVE  Accounted' /\ InOnePlace'
<1> DEFINE s == File(t)
           n == Slot(fileNum[type[t]])
<1>1. s \in FileNames /\ n \in Numbers /\ Slots \notin Numbers
  <2>1. s \in FileNames /\ n \in Numbers
    BY NumbersAre, NamesAre DEF LogInv, LogTypeOK, File
  <2>2. Slots \notin Numbers
    BY LogAssumption DEF Numbers
  <2> QED BY <2>1, <2>2
<1>2. written' = written
  BY DEF Rename
<1>3. CASE UNCHANGED <<old, live, gone>>
  BY <1>2, <1>3 DEF Accounted, InOnePlace, Holders
<1>4. CASE /\ old' = [old EXCEPT ![s][n] = live[s]]
           /\ live' = [live EXCEPT ![s] = <<>>]
           /\ gone' = [gone EXCEPT ![s] = gone[s] \cup ToSet(old[s][n])]
  <2> HIDE DEF s, n
  <2>1. ASSUME NEW u \in FileNames, u # s
        PROVE  old'[u] = old[u] /\ live'[u] = live[u] /\ gone'[u] = gone[u]
    BY <1>4, <2>1 DEF LogInv, LogTypeOK
  <2>2. /\ ToSet(live'[s]) = {} /\ gone'[s] = gone[s] \cup ToSet(old[s][n])
        /\ old'[s][n] = live[s] /\ \A m \in Numbers : m # n => old'[s][m] = old[s][m]
    <3>1. live'[s] = <<>> /\ gone'[s] = gone[s] \cup ToSet(old[s][n])
      BY <1>1, <1>4 DEF LogInv, LogTypeOK
    <3>2. old'[s] = [old[s] EXCEPT ![n] = live[s]] /\ old[s] \in [Numbers -> Seq(Nat)]
      BY <1>1, <1>4 DEF LogInv, LogTypeOK
    <3>3. old'[s][n] = live[s] /\ \A m \in Numbers : m # n => old'[s][m] = old[s][m]
      BY <1>1, <3>2, Zenon
    <3> QED BY <3>1, <3>3, ToSetEmpty
  <2>3. Accounted'
    <3> SUFFICES ASSUME NEW u \in FileNames
                 PROVE  /\ gone'[u] \subseteq 1 .. written[u] /\ ToSet(live'[u]) \subseteq 1 .. written[u]
                        /\ \A m \in Numbers : ToSet(old'[u][m]) \subseteq 1 .. written[u]
      BY <1>2 DEF Accounted
    <3>1. CASE u = s
      BY <1>1, <2>2, <3>1, Zenon DEF Accounted
    <3>2. CASE u # s
      BY <2>1, <3>2 DEF Accounted
    <3> QED BY <3>1, <3>2
  <2>4. ASSUME NEW u \in FileNames, NEW r \in 1 .. written[u]
        PROVE  /\ r \in gone'[u] <=> Holders(u, r)' = {}
               /\ \A x, y \in Holders(u, r)' : x = y
    <3>1. CASE u # s
      <4>1. Holders(u, r)' = Holders(u, r)
        BY <2>1, <3>1 DEF Holders
      <4> QED BY <2>1, <3>1, <4>1 DEF InOnePlace
    <3>2. CASE u = s
      <4>1. \A x : x \in Holders(u, r)' <=> \/ x \in Numbers /\ r \in ToSet(old'[u][x])
                                            \/ x = Slots /\ r \in ToSet(live'[u])
        BY DEF Holders
      <4>2. \A x : x \in Holders(u, r) <=> \/ x \in Numbers /\ r \in ToSet(old[u][x])
                                           \/ x = Slots /\ r \in ToSet(live[u])
        BY HoldersAre
      <4>3. \A x : x \in Holders(u, r)' <=> \/ x \in Holders(u, r) /\ x # n /\ x # Slots
                                            \/ x = n /\ Slots \in Holders(u, r)
        <5>1. \A x : x \in Numbers => x # Slots
          BY <1>1
        <5> QED BY <1>1, <2>2, <3>2, <4>1, <4>2, <5>1, Zenon
      <4>4. n \in Holders(u, r) <=> r \in ToSet(old[u][n])
        BY <1>1, <4>2
      <4>5. /\ r \in gone[u] <=> Holders(u, r) = {}
            /\ \A x, y \in Holders(u, r) : x = y
        BY DEF InOnePlace
      <4>6. r \in gone'[u] <=> r \in gone[u] \/ n \in Holders(u, r)
        BY <2>2, <3>2, <4>4
      <4>7. n # Slots
        BY <1>1
      <4> QED BY <4>3, <4>5, <4>6, <4>7
    <3> QED BY <3>1, <3>2
  <2>5. InOnePlace'
    BY <1>2, <2>4 DEF InOnePlace
  <2> QED BY <2>3, <2>5
<1> QED BY <1>3, <1>4 DEF Rename

(* A record more, in the current file and in no other.                     *)
LEMMA PlaceWrite ==
  ASSUME LogInv, Accounted, InOnePlace, NEW t \in Threads, Write(t)
  PROVE  Accounted' /\ InOnePlace'
<1> DEFINE s == File(t)
           w == written[s]
<1>1. s \in FileNames /\ w \in Nat /\ live[s] \in Seq(Nat) /\ Slots \notin Numbers
  <2>1. s \in FileNames /\ w \in Nat /\ live[s] \in Seq(Nat)
    BY NamesAre DEF LogInv, LogTypeOK, File
  <2>2. Slots \notin Numbers
    BY LogAssumption DEF Numbers
  <2> QED BY <2>1, <2>2
<1>2. /\ written' = [written EXCEPT ![s] = w + 1]
      /\ live' = [live EXCEPT ![s] = Append(live[s], w + 1)]
      /\ UNCHANGED <<old, gone>>
  BY DEF Write, Appended
<1> HIDE DEF s, w
<1>3. ASSUME NEW u \in FileNames, u # s
      PROVE  live'[u] = live[u] /\ written'[u] = written[u]
  BY <1>2, <1>3 DEF LogInv, LogTypeOK
<1>4. written'[s] = w + 1 /\ ToSet(live'[s]) = ToSet(live[s]) \cup {w + 1} /\ written[s] = w
  <2>1. written'[s] = w + 1 /\ live'[s] = Append(live[s], w + 1) /\ written[s] = w
    BY <1>1, <1>2 DEF LogInv, LogTypeOK, w
  <2>2. w + 1 \in Nat
    BY <1>1
  <2>3. PICK v \in Nat : v = w + 1
    BY <2>2
  <2>4. ToSet(Append(live[s], v)) = ToSet(live[s]) \cup {v}
    BY <1>1, ToSetAppend
  <2> QED BY <2>1, <2>3, <2>4
<1>5. /\ gone[s] \subseteq 1 .. w /\ ToSet(live[s]) \subseteq 1 .. w
      /\ \A n \in Numbers : ToSet(old[s][n]) \subseteq 1 .. w
  BY <1>1, <1>4 DEF Accounted
<1>6. PICK v \in Nat : v = w + 1 /\ v \notin 1 .. w /\ v \in 1 .. v /\ 1 .. v = (1 .. w) \cup {v}
  BY <1>1
<1>7. Accounted'
  <2> SUFFICES ASSUME NEW u \in FileNames
               PROVE  /\ gone[u] \subseteq 1 .. written'[u] /\ ToSet(live'[u]) \subseteq 1 .. written'[u]
                      /\ \A m \in Numbers : ToSet(old[u][m]) \subseteq 1 .. written'[u]
    BY <1>2 DEF Accounted
  <2>1. CASE u = s
    <3>1. written'[u] = v /\ ToSet(live'[u]) = ToSet(live[s]) \cup {v}
      BY <1>4, <1>6, <2>1
    <3> QED BY <1>5, <1>6, <2>1, <3>1, Zenon
  <2>2. CASE u # s
    BY <1>3, <2>2 DEF Accounted
  <2> QED BY <2>1, <2>2
<1>8. ASSUME NEW u \in FileNames, NEW r \in 1 .. written'[u]
      PROVE  /\ r \in gone[u] <=> Holders(u, r)' = {}
             /\ \A x, y \in Holders(u, r)' : x = y
  <2>1. \A x : x \in Holders(u, r)' <=> \/ x \in Numbers /\ r \in ToSet(old[u][x])
                                        \/ x = Slots /\ r \in ToSet(live'[u])
    BY <1>2 DEF Holders
  <2>2. \A x : x \in Holders(u, r) <=> \/ x \in Numbers /\ r \in ToSet(old[u][x])
                                       \/ x = Slots /\ r \in ToSet(live[u])
    BY HoldersAre
  <2>3. CASE u = s /\ r = v
    <3>1. r \notin gone[u] /\ r \in ToSet(live'[u]) /\ \A n \in Numbers : r \notin ToSet(old[u][n])
      BY <1>4, <1>5, <1>6, <2>3
    <3>2. \A x : x \in Holders(u, r)' <=> x = Slots
      BY <2>1, <3>1, Zenon
    <3> QED BY <3>1, <3>2
  <2>4. CASE u # s \/ r # v
    <3>1. r \in ToSet(live'[u]) <=> r \in ToSet(live[u])
      BY <1>3, <1>4, <1>6, <2>4
    <3>2. r \in 1 .. written[u]
      BY <1>3, <1>4, <1>6, <2>4
    <3>3. Holders(u, r)' = Holders(u, r)
      BY <2>1, <2>2, <3>1
    <3> QED BY <3>2, <3>3 DEF InOnePlace
  <2> QED BY <2>3, <2>4
<1>9. InOnePlace'
  BY <1>2, <1>8 DEF InOnePlace
<1> QED BY <1>7, <1>9

LEMMA PlaceStep == LogInv /\ Accounted /\ InOnePlace /\ [LogNext]_logVars => (Accounted /\ InOnePlace)'
<1> SUFFICES ASSUME LogInv, Accounted, InOnePlace, [LogNext]_logVars PROVE Accounted' /\ InOnePlace'
  OBVIOUS
<1>1. CASE UNCHANGED <<old, live, gone, written>>
  BY <1>1 DEF Accounted, InOnePlace, Holders
<1>2. CASE \E t \in Threads : Rename(t)
  BY <1>2, PlaceRename
<1>3. CASE \E t \in Threads : Write(t)
  BY <1>3, PlaceWrite
<1>4. CASE \/ \E k \in Types, f \in {0, 1} : SetLogFlag(k, f)
           \/ \E t \in Threads : \/ \E k \in Types : LogWrite(t, k)
                                 \/ WriteStat(t) \/ Lock(t) \/ Stat(t) \/ OpenFails(t)
                                 \/ Unlock(t) \/ StatOpen(t)
           \/ UNCHANGED logVars
           \/ Restart
  <2>1. UNCHANGED <<old, live, gone, written>>
    BY <1>4, OutsideUnchanged DEF fvars, Restart
  <2> QED BY <1>1, <2>1
<1> QED BY <1>2, <1>3, <1>4 DEF LogNext, Inside

(* Whatever counters are shared, lost or mixed up, and whatever fails, a   *)
(* record once written is in one file, or went with a file that was        *)
(* renamed over (writeRunInfo.cpp:349-357).                                *)
THEOREM RecordsAccounted == LogSpec => []NothingElseLost
<1>1. ASSUME InOnePlace PROVE NothingElseLost
  <2> SUFFICES ASSUME NEW s \in FileNames, NEW r \in 1 .. written[s]
               PROVE  IF r \in gone[s] THEN Holders(s, r) = {} ELSE Cardinality(Holders(s, r)) = 1
    BY DEF NothingElseLost
  <2>1. /\ r \in gone[s] <=> Holders(s, r) = {}
        /\ \A x, y \in Holders(s, r) : x = y
    BY <1>1 DEF InOnePlace
  <2>2. CASE r \notin gone[s]
    <3>1. PICK x : x \in Holders(s, r)
      BY <2>1, <2>2
    <3>2. Holders(s, r) = {x}
      BY <2>1, <3>1
    <3> QED BY <2>2, <3>2, FS_Singleton
  <2> QED BY <2>1, <2>2
<1>2. LogInit => LogInv /\ Accounted /\ InOnePlace
  BY LogInitInv, PlaceInit
<1>3. LogInv /\ Accounted /\ InOnePlace /\ [LogNext]_logVars => (LogInv /\ Accounted /\ InOnePlace)'
  BY LogInductive, PlaceStep
<1> QED BY <1>1, <1>2, <1>3, PTL DEF LogSpec
-----------------------------------------------------------------------------
(***************************************************************************)
(* The files read as one.  What the invariant adds to ReadsAsOne: the type *)
(* that has rotated the files of a suffix has that suffix, so that no      *)
(* other suffix moves its counter; and where none has, all counters are    *)
(* still 0, so that the first may begin.                                   *)
(***************************************************************************)
Counter(s) == IF rotator[s] = NoType THEN 0 ELSE fileNum[rotator[s]]
Counted ==
  \A s \in FileNames :
    /\ rotator[s] # NoType => Suffix[rotator[s]] = s
    /\ clean[s] /\ rotator[s] = NoType => \A k \in Types : Suffix[k] = s => fileNum[k] = 0

(* The numbered files in the order in which they are read, from the one    *)
(* after number n; records without a gap, of which w is the last.          *)
Round(f, n) == [i \in 1 .. Slots |-> f[(n + i) % Slots]]
AsOne(read, w) == \A i \in DOMAIN read : read[i] = w - Len(read) + i

Latest(s) == AsOne(FlattenSeq(Round(old[s], Counter(s))) \o live[s], written[s])

LEMMA ReadIs == /\ ReadsAsOne <=> \A s \in FileNames : clean[s] => Latest(s)
                /\ ReadsAsOne' <=> \A s \in FileNames : clean'[s] => Latest(s)'
BY Zenon DEF ReadsAsOne, InOrder, Counter, Round, AsOne, Latest

(* The numbers wrap around once.                                           *)
LEMMA Wraps ==
  ASSUME NEW a \in 0 .. 2 * Slots - 1
  PROVE  a % Slots = IF a < Slots THEN a ELSE a - Slots
BY LogAssumption

LEMMA RoundElements ==
  ASSUME NEW S, NEW f \in [Numbers -> S], NEW n \in Numbers
  PROVE  /\ Round(f, n) \in Seq(S) /\ Len(Round(f, n)) = Slots
         /\ \A i \in 1 .. Slots : Round(f, n)[i] = f[(n + i) % Slots]
<1>1. \A i \in 1 .. Slots : (n + i) % Slots \in Numbers
  BY LogAssumption DEF Numbers
<1>2. \A i \in 1 .. Slots : f[(n + i) % Slots] \in S
  BY <1>1
<1>3. Slots \in Nat
  BY LogAssumption
<1> QED BY <1>2, <1>3 DEF Round

(* Counting from the next number is counting one further from this one.    *)
LEMMA Places ==
  ASSUME NEW n \in Numbers, NEW m, m = Slot(n)
  PROVE  /\ m \in Numbers
         /\ (m + Slots) % Slots = m
         /\ \A i \in 1 .. Slots - 1 :
              /\ (m + i) % Slots = (n + (i + 1)) % Slots /\ (m + i) % Slots # m
              /\ (m + i) % Slots \in Numbers
<1>1. Slots \in Nat \ {0} /\ n \in 0 .. Slots - 1
  BY LogAssumption DEF Numbers
<1>2. m = IF n + 1 < Slots THEN n + 1 ELSE n + 1 - Slots
  <2>1. PICK a \in 0 .. 2 * Slots - 1 : a = n + 1
    BY <1>1
  <2>2. a % Slots = IF a < Slots THEN a ELSE a - Slots
    BY Wraps
  <2>3. m = a % Slots
    BY <2>1, Zenon DEF Slot
  <2> QED BY <1>1, <2>1, <2>2, <2>3
<1>3. m \in 0 .. Slots - 1
  BY <1>1, <1>2
<1>4. (m + Slots) % Slots = m
  <2>1. PICK a \in 0 .. 2 * Slots - 1 : a = m + Slots
    BY <1>1, <1>3
  <2>2. a % Slots = IF a < Slots THEN a ELSE a - Slots
    BY Wraps
  <2> QED BY <1>1, <1>3, <2>1, <2>2
<1>5. ASSUME NEW i \in 1 .. Slots - 1
      PROVE  /\ (m + i) % Slots = (n + (i + 1)) % Slots /\ (m + i) % Slots # m
             /\ (m + i) % Slots \in 0 .. Slots - 1
  <2>1. PICK a \in 0 .. 2 * Slots - 1, b \in 0 .. 2 * Slots - 1 : a = m + i /\ b = n + (i + 1)
    BY <1>1, <1>3
  <2>2. a % Slots = IF a < Slots THEN a ELSE a - Slots
    BY Wraps
  <2>3. b % Slots = IF b < Slots THEN b ELSE b - Slots
    BY Wraps
  <2>4. a % Slots \in 0 .. Slots - 1 /\ a % Slots = b % Slots /\ a % Slots # m
    BY <1>1, <1>2, <2>1, <2>2, <2>3
  <2> QED BY <2>1, <2>4
<1> QED BY <1>3, <1>4, <1>5 DEF Numbers

(* f numbers elements of S; g is f with e put at number m; and then the    *)
(* round of g begins one further on and ends with e.                       *)
Numbered(f, S) == f \in [Numbers -> S]
Replaces(g, f, m, e) == g = [f EXCEPT ![m] = e]
Turned(f, g, n, e) == Round(f, n) # <<>> /\ Round(g, Slot(n)) = Append(Tail(Round(f, n)), e)

(* A rotation drops the file read first and reads the new one last.        *)
LEMMA Rotated ==
  ASSUME NEW S, NEW f, Numbered(f, S), NEW n \in Numbers, NEW e \in S,
         NEW g, Replaces(g, f, Slot(n), e)
  PROVE  Turned(f, g, n, e)
<1>0. PICK m : m = Slot(n)
  OBVIOUS
<1>1. Slots \in Nat /\ Slots # 0
  BY LogAssumption
<1>2. /\ m \in Numbers
      /\ (m + Slots) % Slots = m
      /\ \A i \in 1 .. Slots - 1 :
           /\ (m + i) % Slots = (n + (i + 1)) % Slots /\ (m + i) % Slots # m
           /\ (m + i) % Slots \in Numbers
  BY <1>0, Places
<1>3. /\ g \in [Numbers -> S] /\ g[m] = e
      /\ \A x \in Numbers : x # m => g[x] = f[x]
  BY <1>0, <1>2 DEF Replaces, Numbered
<1>4. PICK p \in Seq(S) : /\ p = Round(f, n) /\ Len(p) = Slots
                          /\ \A i \in 1 .. Slots : p[i] = f[(n + i) % Slots]
  BY RoundElements DEF Numbered
<1>5. PICK q \in Seq(S) : /\ q = Round(g, m) /\ Len(q) = Slots
                          /\ \A i \in 1 .. Slots : q[i] = g[(m + i) % Slots]
  <2>1. PICK h \in [Numbers -> S], c \in Numbers : h = g /\ c = m
    BY <1>2, <1>3, Zenon
  <2>2. /\ Round(h, c) \in Seq(S) /\ Len(Round(h, c)) = Slots
        /\ \A i \in 1 .. Slots : Round(h, c)[i] = h[(c + i) % Slots]
    BY RoundElements
  <2>3. /\ Round(g, m) \in Seq(S) /\ Len(Round(g, m)) = Slots
        /\ \A i \in 1 .. Slots : Round(g, m)[i] = g[(m + i) % Slots]
    BY <2>1, <2>2
  <2> QED BY <2>3, Zenon
<1>6. p # <<>>
  BY <1>1, <1>4
<1>7. PICK t \in Seq(S), k \in Nat : /\ t = Tail(p) /\ k = Len(t) /\ Slots = k + 1
                                     /\ \A i \in 1 .. k : t[i] = p[i + 1]
  <2>1. PICK t \in Seq(S), k \in Nat, l \in Nat :
          /\ t = Tail(p) /\ k = Len(t) /\ l = Len(p) /\ l = k + 1
          /\ \A i \in 1 .. k : t[i] = p[i + 1]
          /\ Head(p) = p[1] /\ p[1] \in S
    BY <1>6, TailElements, Zenon
  <2>2. Slots = k + 1
    BY <1>4, <2>1
  <2> QED BY <2>1, <2>2, Zenon
<1>8. PICK r \in Seq(S) : /\ r = Append(t, e) /\ Len(r) = k + 1 /\ r[k + 1] = e
                          /\ \A i \in 1 .. k : t[i] = r[i]
  <2>1. /\ Append(t, e) \in Seq(S) /\ Len(Append(t, e)) = Len(t) + 1
        /\ \A i \in 1 .. Len(t) : t[i] = Append(t, e)[i]
        /\ Append(t, e)[Len(t) + 1] = e
    BY AppendElements
  <2> QED BY <1>7, <2>1, Zenon
<1>9. ASSUME NEW i \in 1 .. Slots PROVE q[i] = r[i]
  <2>1. CASE i = Slots
    <3>1. q[i] = g[m]
      <4>1. q[i] = g[(m + i) % Slots]
        BY <1>5
      <4>2. (m + i) % Slots = m
        BY <1>2, <2>1
      <4> QED BY <4>1, <4>2, Zenon
    <3>2. r[i] = e
      BY <1>7, <1>8, <2>1
    <3> QED BY <1>3, <3>1, <3>2
  <2>2. CASE i # Slots
    <3>1. i \in 1 .. Slots - 1 /\ i \in 1 .. k /\ i + 1 \in 1 .. Slots
      BY <1>1, <1>7, <2>2
    <3>2. q[i] = f[(n + (i + 1)) % Slots]
      <4>1. (m + i) % Slots \in Numbers
        BY <1>2, <3>1
      <4>2. (m + i) % Slots = (n + (i + 1)) % Slots /\ (m + i) % Slots # m
        BY <1>2, <3>1
      <4>3. g[(m + i) % Slots] = f[(m + i) % Slots]
        BY <1>3, <4>1, <4>2
      <4> QED BY <1>5, <4>2, <4>3
    <3>3. r[i] = p[i + 1]
      BY <1>7, <1>8, <3>1
    <3>4. p[i + 1] = f[(n + (i + 1)) % Slots]
      BY <1>4, <3>1
    <3> QED BY <3>2, <3>3, <3>4
  <2> QED BY <2>1, <2>2
<1>10. q = r
  BY <1>5, <1>7, <1>8, <1>9, SameElements
<1> QED BY <1>0, <1>4, <1>5, <1>6, <1>7, <1>8, <1>10 DEF Turned

(* Records as one: none; one more; those behind the first of them.         *)
LEMMA AsOneNone == ASSUME NEW w PROVE AsOne(<<>>, w)
BY DEF AsOne

LEMMA AsOneMore ==
  ASSUME NEW r \in Seq(Nat), NEW w \in Nat, AsOne(r, w)
  PROVE  AsOne(Append(r, w + 1), w + 1)
<1>1. PICK v \in Nat : v = w + 1
  OBVIOUS
<1>2. PICK q \in Seq(Nat), n \in Nat :
        /\ q = Append(r, v) /\ n = Len(r) /\ Len(q) = n + 1 /\ q[n + 1] = v
        /\ \A i \in 1 .. n : r[i] = q[i]
  <2>1. /\ Append(r, v) \in Seq(Nat) /\ Len(r) \in Nat /\ Len(Append(r, v)) = Len(r) + 1
        /\ \A i \in 1 .. Len(r) : r[i] = Append(r, v)[i]
        /\ Append(r, v)[Len(r) + 1] = v
    BY AppendElements
  <2> QED BY <2>1, Zenon
<1>3. DOMAIN r = 1 .. n /\ DOMAIN q = 1 .. n + 1
  BY <1>2
<1>4. \A i \in 1 .. n : r[i] = w - n + i
  BY <1>2, <1>3 DEF AsOne
<1>5. \A i \in 1 .. n + 1 : q[i] = v - (n + 1) + i
  BY <1>1, <1>2, <1>4
<1>6. AsOne(q, v)
  BY <1>2, <1>3, <1>5 DEF AsOne
<1> QED BY <1>1, <1>2, <1>6

LEMMA AsOneRest ==
  ASSUME NEW h \in Seq(Nat), NEW r \in Seq(Nat), NEW w \in Nat, AsOne(h \o r, w)
  PROVE  AsOne(r, w)
<1>1. PICK q \in Seq(Nat), n \in Nat, m \in Nat :
        /\ q = h \o r /\ m = Len(h) /\ n = Len(r) /\ Len(q) = m + n
        /\ \A i \in 1 .. n : q[m + i] = r[i]
  <2>1. /\ h \o r \in Seq(Nat) /\ Len(h \o r) = Len(h) + Len(r)
        /\ \A i \in 1 .. Len(r) : (h \o r)[Len(h) + i] = r[i]
        /\ Len(h) \in Nat /\ Len(r) \in Nat
    BY JoinedElements
  <2> QED BY <2>1
<1>2. DOMAIN r = 1 .. n /\ DOMAIN q = 1 .. m + n
  BY <1>1
<1>3. \A i \in 1 .. m + n : q[i] = w - (m + n) + i
  BY <1>1, <1>2 DEF AsOne
<1>4. ASSUME NEW i \in 1 .. n PROVE r[i] = w - n + i
  <2>1. m + i \in 1 .. m + n /\ w - (m + n) + (m + i) = w - n + i
    OBVIOUS
  <2> QED BY <1>1, <1>3, <2>1
<1> QED BY <1>1, <1>2, <1>4 DEF AsOne

(* Files without a record read as none.                                    *)
LEMMA FlattenNone ==
  ASSUME NEW s \in Seq(Seq({}))
  PROVE  FlattenSeq(s) = <<>>
<1>1. FlattenSeq(s) \in Seq({})
  BY FlattenType
<1>2. \A q \in Seq({}) : q = <<>>
  OBVIOUS
<1> QED BY <1>1, <1>2

LEMMA ReadInit == LogInit => Counted /\ ReadsAsOne
<1> SUFFICES ASSUME LogInit PROVE Counted /\ ReadsAsOne
  OBVIOUS
<1>1. Counted
  BY DEF LogInit, Counted
<1>2. ASSUME NEW s \in FileNames
      PROVE  Latest(s)
  <2>1. old[s] = [n \in Numbers |-> <<>>] /\ live[s] = <<>> /\ Counter(s) = 0
    BY DEF LogInit, Counter
  <2>2. old[s] \in [Numbers -> Seq({})]
    BY <2>1
  <2>3. Round(old[s], Counter(s)) \in Seq(Seq({}))
    BY <2>1, <2>2, NumbersAre, RoundElements
  <2>4. FlattenSeq(Round(old[s], Counter(s))) = <<>>
    BY <2>3, FlattenNone
  <2>5. <<>> \o <<>> = <<>>
    OBVIOUS
  <2> QED BY <2>1, <2>4, <2>5, AsOneNone DEF Latest
<1> QED BY <1>1, <1>2, ReadIs

LEMMA ReadTypes ==
  ASSUME LogInv, NEW s \in FileNames
  PROVE  /\ Counter(s) \in Numbers /\ old[s] \in [Numbers -> Seq(Nat)] /\ live[s] \in Seq(Nat) /\ written[s] \in Nat
         /\ Round(old[s], Counter(s)) \in Seq(Seq(Nat))
         /\ FlattenSeq(Round(old[s], Counter(s))) \in Seq(Nat)
<1>1. old[s] \in [Numbers -> Seq(Nat)] /\ live[s] \in Seq(Nat) /\ written[s] \in Nat
  BY DEF LogInv, LogTypeOK
<1>2. Counter(s) \in Numbers
  BY NumbersAre DEF LogInv, LogTypeOK, Counter
<1>3. Round(old[s], Counter(s)) \in Seq(Seq(Nat))
  BY <1>1, <1>2, RoundElements
<1> QED BY <1>1, <1>2, <1>3, FlattenType

(* A rotation that works turns the files round by one; one that does not   *)
(* advances the counter alone, after which the files are not clean.        *)
LEMMA ReadRename ==
  ASSUME LogInv, Counted, ReadsAsOne, NEW t \in Threads, Rename(t)
  PROVE  Counted' /\ ReadsAsOne'
<1>1. PICK s \in FileNames, k \in Types, n \in Numbers :
        /\ s = File(t) /\ k = type[t] /\ n = Slot(fileNum[k]) /\ n = NextNumber(fileNum[k])
        /\ Suffix[k] = s /\ k # NoType
  <2>1. type[t] \in Types /\ fileNum[type[t]] \in Numbers
    BY DEF LogInv, LogTypeOK
  <2>2. File(t) \in FileNames /\ Suffix[type[t]] = File(t) /\ type[t] # NoType
    BY <2>1, NamesAre, LogAssumption DEF File
  <2>3. Slot(fileNum[type[t]]) \in Numbers /\ Slot(fileNum[type[t]]) = NextNumber(fileNum[type[t]])
    BY <2>1, NumbersAre DEF NextNumber, Slot
  <2> QED BY <2>1, <2>2, <2>3
<1>2. /\ fileNum' = [fileNum EXCEPT ![k] = n] /\ written' = written
      /\ \/ /\ old' = [old EXCEPT ![s][n] = live[s]]
            /\ live' = [live EXCEPT ![s] = <<>>]
            /\ rotator' = [rotator EXCEPT ![s] = k]
            /\ clean' = [clean EXCEPT ![s] = clean[s] /\ rotator[s] \in {NoType, k}]
         \/ /\ clean' = [clean EXCEPT ![s] = FALSE]
            /\ UNCHANGED <<old, live, rotator>>
  BY <1>1 DEF Rename
<1>3. ASSUME NEW u \in FileNames, u # s
      PROVE  /\ old'[u] = old[u] /\ live'[u] = live[u] /\ rotator'[u] = rotator[u] /\ clean'[u] = clean[u]
             /\ Counter(u)' = Counter(u)
  <2>1. old'[u] = old[u] /\ live'[u] = live[u] /\ rotator'[u] = rotator[u] /\ clean'[u] = clean[u]
    BY <1>2, <1>3 DEF LogInv, LogTypeOK
  <2>2. rotator[u] # k
    BY <1>1, <1>3 DEF Counted
  <2>3. rotator[u] # NoType => fileNum'[rotator[u]] = fileNum[rotator[u]]
    BY <1>2, <2>2 DEF LogInv, LogTypeOK
  <2> QED BY <2>1, <2>3 DEF Counter
<1>4. CASE clean' = [clean EXCEPT ![s] = FALSE] /\ UNCHANGED <<old, live, rotator>>
  <2>1. ~clean'[s]
    BY <1>1, <1>4 DEF LogInv, LogTypeOK
  <2>2. Counted'
    <3> SUFFICES ASSUME NEW u \in FileNames
                 PROVE  /\ rotator'[u] # NoType => Suffix[rotator'[u]] = u
                        /\ clean'[u] /\ rotator'[u] = NoType => \A j \in Types : Suffix[j] = u => fileNum'[j] = 0
      BY DEF Counted
    <3>1. rotator'[u] # NoType => Suffix[rotator'[u]] = u
      BY <1>4 DEF Counted
    <3>2. ASSUME clean'[u], rotator'[u] = NoType, NEW j \in Types, Suffix[j] = u PROVE fileNum'[j] = 0
      <4>1. u # s /\ j # k
        BY <1>1, <2>1, <3>2
      <4>2. fileNum'[j] = fileNum[j] /\ clean[u] /\ rotator[u] = NoType
        BY <1>2, <1>3, <3>2, <4>1 DEF LogInv, LogTypeOK
      <4> QED BY <3>2, <4>2 DEF Counted
    <3> QED BY <3>1, <3>2
  <2>3. ReadsAsOne'
    <3>1. ASSUME NEW u \in FileNames, clean'[u]
          PROVE  Latest(u)'
      <4>1. u # s
        BY <2>1, <3>1
      <4> QED BY <1>2, <1>3, <3>1, <4>1, ReadIs DEF Latest
    <3> QED BY <3>1, ReadIs
  <2> QED BY <2>2, <2>3
<1>5. CASE /\ old' = [old EXCEPT ![s][n] = live[s]]
           /\ live' = [live EXCEPT ![s] = <<>>]
           /\ rotator' = [rotator EXCEPT ![s] = k]
           /\ clean' = [clean EXCEPT ![s] = clean[s] /\ rotator[s] \in {NoType, k}]
  <2>1. /\ old'[s] = [old[s] EXCEPT ![n] = live[s]] /\ live'[s] = <<>> /\ rotator'[s] = k
        /\ clean'[s] => clean[s] /\ rotator[s] \in {NoType, k}
        /\ fileNum'[k] = n
    BY <1>1, <1>2, <1>5 DEF LogInv, LogTypeOK
  <2>2. Counted'
    <3> SUFFICES ASSUME NEW u \in FileNames
                 PROVE  /\ rotator'[u] # NoType => Suffix[rotator'[u]] = u
                        /\ clean'[u] /\ rotator'[u] = NoType => \A j \in Types : Suffix[j] = u => fileNum'[j] = 0
      BY DEF Counted
    <3>1. CASE u = s
      BY <1>1, <2>1, <3>1
    <3>2. CASE u # s
      <4>1. \A j \in Types : Suffix[j] = u => fileNum'[j] = fileNum[j]
        BY <1>1, <1>2, <3>2 DEF LogInv, LogTypeOK
      <4> QED BY <1>3, <3>2, <4>1 DEF Counted
    <3> QED BY <3>1, <3>2
  <2>3. ASSUME clean'[s]
        PROVE  Latest(s)'
    <3>1. clean[s] /\ Counter(s) = fileNum[k] /\ Counter(s)' = n /\ n = Slot(Counter(s))
      <4>1. clean[s] /\ (rotator[s] = NoType \/ rotator[s] = k) /\ k # NoType
        BY <1>1, <2>1, <2>3
      <4>2. rotator[s] = NoType => fileNum[k] = 0
        BY <1>1, <4>1 DEF Counted
      <4>3. Counter(s) = fileNum[k]
        BY <4>1, <4>2 DEF Counter
      <4>4. Counter(s)' = n
        BY <2>1, <4>1 DEF Counter
      <4> QED BY <1>1, <4>1, <4>3, <4>4
    <3>2. /\ Counter(s) \in Numbers /\ old[s] \in [Numbers -> Seq(Nat)] /\ live[s] \in Seq(Nat) /\ written[s] \in Nat
          /\ Round(old[s], Counter(s)) \in Seq(Seq(Nat))
      BY <1>1, ReadTypes
    <3>3. PICK p \in Seq(Seq(Nat)), l \in Seq(Nat) : p = Round(old[s], Counter(s)) /\ l = live[s]
      BY <3>2
    <3>4. p # <<>> /\ Round(old'[s], n) = Append(Tail(p), l)
      <4>1. PICK f \in [Numbers -> Seq(Nat)], c \in Numbers : f = old[s] /\ c = Counter(s)
        BY <3>2
      <4> DEFINE g == old'[s]
      <4>2. n = Slot(c) /\ Replaces(g, f, Slot(c), l)
        BY <2>1, <3>1, <3>3, <4>1 DEF Replaces
      <4> HIDE DEF g
      <4>3. Turned(f, g, c, l)
        <5>1. Numbered(f, Seq(Nat))
          BY DEF Numbered
        <5> QED BY <4>2, <5>1, Rotated, Zenon
      <4> QED BY <3>3, <4>1, <4>2, <4>3 DEF Turned, g
    <3>5. PICK q \in Seq(Seq(Nat)), h \in Seq(Nat) : q = Tail(p) /\ h = Head(p)
      <4>1. Tail(p) \in Seq(Seq(Nat)) /\ Head(p) \in Seq(Nat)
        BY <3>4
      <4> QED BY <4>1
    <3>6. PICK x \in Seq(Nat) : x = FlattenSeq(q)
      BY FlattenType
    <3>7. FlattenSeq(p) = h \o x
      BY <3>4, <3>5, <3>6, FlattenTail
    <3>8. FlattenSeq(Append(q, l)) = x \o l
      BY <3>6, FlattenAppend
    <3>9. AsOne((h \o x) \o l, written[s])
      BY <1>1, <3>1, <3>3, <3>7, ReadIs DEF Latest
    <3>10. PICK y \in Seq(Nat) : y = x \o l
      BY JoinType
    <3>11. AsOne(h \o y, written[s])
      <4>1. Regroups(h, x, l)
        BY JoinInside, Zenon
      <4> QED BY <3>9, <3>10, <4>1 DEF Regroups
    <3>12. AsOne(y, written[s])
      BY <3>2, <3>11, AsOneRest
    <3>13. y \o <<>> = y
      BY JoinNone
    <3>14. FlattenSeq(Round(old'[s], Counter(s)')) = y
      BY <3>1, <3>4, <3>5, <3>8, <3>10
    <3> QED BY <1>2, <2>1, <3>12, <3>13, <3>14 DEF Latest
  <2>4. ReadsAsOne'
    <3>1. ASSUME NEW u \in FileNames, clean'[u]
          PROVE  Latest(u)'
      <4>1. CASE u # s
        BY <1>2, <1>3, <3>1, <4>1, ReadIs DEF Latest
      <4> QED BY <2>3, <3>1, <4>1
    <3> QED BY <3>1, ReadIs
  <2> QED BY <2>2, <2>4
<1> QED BY <1>2, <1>4, <1>5

LEMMA ReadWrite ==
  ASSUME LogInv, Counted, ReadsAsOne, NEW t \in Threads, Write(t)
  PROVE  Counted' /\ ReadsAsOne'
<1> DEFINE s == File(t)
           w == written[s]
<1>1. s \in FileNames
  BY NamesAre DEF LogInv, LogTypeOK, File
<1>2. /\ written' = [written EXCEPT ![s] = w + 1]
      /\ live' = [live EXCEPT ![s] = Append(live[s], w + 1)]
      /\ UNCHANGED <<old, fileNum, rotator, clean>>
  BY DEF Write, Appended
<1> HIDE DEF s, w
<1>3. Counted'
  BY <1>2 DEF Counted
<1>4. \A u \in FileNames : Counter(u)' = Counter(u)
  BY <1>2 DEF Counter
<1>5. ASSUME NEW u \in FileNames, clean[u]
      PROVE  Latest(u)'
  <2>1. CASE u # s
    <3>1. live'[u] = live[u] /\ written'[u] = written[u]
      BY <1>2, <2>1 DEF LogInv, LogTypeOK
    <3> QED BY <1>2, <1>4, <1>5, <3>1, ReadIs DEF Latest
  <2>2. CASE u = s
    <3>1. PICK x \in Seq(Nat), l \in Seq(Nat), v \in Nat :
            x = FlattenSeq(Round(old[u], Counter(u))) /\ l = live[u] /\ v = written[u]
      BY ReadTypes
    <3>2. live'[u] = Append(l, v + 1) /\ written'[u] = v + 1
      BY <1>1, <1>2, <2>2, <3>1 DEF LogInv, LogTypeOK, w
    <3>3. AsOne(x \o l, v)
      BY <1>5, <3>1, ReadIs DEF Latest
    <3>4. AsOne(Append(x \o l, v + 1), v + 1)
      BY <3>3, JoinType, AsOneMore
    <3>5. x \o Append(l, v + 1) = Append(x \o l, v + 1)
      OBVIOUS
    <3> QED BY <1>2, <1>4, <3>1, <3>2, <3>4, <3>5 DEF Latest
  <2> QED BY <2>1, <2>2
<1>6. ReadsAsOne'
  <2>1. ASSUME NEW u \in FileNames, clean'[u]
        PROVE  Latest(u)'
    BY <1>2, <1>5, <2>1
  <2> QED BY <2>1, ReadIs
<1> QED BY <1>3, <1>6

(* The counters begin again at 0: what has rotated is no longer clean.     *)
LEMMA ReadRestart ==
  ASSUME LogInv, Counted, ReadsAsOne, Restart
  PROVE  Counted' /\ ReadsAsOne'
<1>1. /\ UNCHANGED <<live, old, written, rotator>> /\ \A k \in Types : fileNum'[k] = 0
      /\ \A s \in FileNames : clean'[s] => clean[s] /\ rotator[s] = NoType
  BY DEF Restart
<1>2. Counted'
  BY <1>1 DEF Counted
<1>3. ASSUME NEW s \in FileNames, clean'[s]
      PROVE  Latest(s)'
  <2>1. clean[s] /\ Counter(s)' = Counter(s)
    BY <1>1, <1>3 DEF Counter
  <2> QED BY <1>1, <2>1, ReadIs DEF Latest
<1> QED BY <1>2, <1>3, ReadIs

LEMMA ReadStep == LogInv /\ Counted /\ ReadsAsOne /\ [LogNext]_logVars => (Counted /\ ReadsAsOne)'
<1> SUFFICES ASSUME LogInv, Counted, ReadsAsOne, [LogNext]_logVars PROVE Counted' /\ ReadsAsOne'
  OBVIOUS
<1>1. CASE Restart
  BY <1>1, ReadRestart
<1>2. CASE \E t \in Threads : Rename(t)
  BY <1>2, ReadRename
<1>3. CASE \E t \in Threads : Write(t)
  BY <1>3, ReadWrite
<1>4. CASE \/ \E k \in Types, f \in {0, 1} : SetLogFlag(k, f)
           \/ \E t \in Threads : \/ \E k \in Types : LogWrite(t, k)
                                 \/ WriteStat(t) \/ Lock(t) \/ Stat(t) \/ OpenFails(t)
                                 \/ Unlock(t) \/ StatOpen(t)
           \/ UNCHANGED logVars
  <2>1. UNCHANGED <<fileNum, old, live, written, rotator, clean>>
    BY <1>4, OutsideUnchanged DEF fvars
  <2>2. Counted'
    BY <2>1, Zenon DEF Counted
  <2>3. \A s \in FileNames : InOrder(s)' = InOrder(s)
    BY <2>1, Zenon DEF InOrder
  <2>4. ReadsAsOne'
    BY <2>1, <2>3, Zenon DEF ReadsAsOne
  <2> QED BY <2>2, <2>4
<1> QED BY <1>1, <1>2, <1>3, <1>4 DEF LogNext, Inside

(* While one type has rotated the files of a suffix, in one life of the    *)
(* process, they read in order and without a gap up to the latest record:  *)
(* what a rotation destroys is the oldest (writeRunInfo.cpp:349-357).      *)
THEOREM ReadsInOrder == LogSpec => []ReadsAsOne
<1>1. LogInit => LogInv /\ Counted /\ ReadsAsOne
  BY LogInitInv, ReadInit
<1>2. LogInv /\ Counted /\ ReadsAsOne /\ [LogNext]_logVars => (LogInv /\ Counted /\ ReadsAsOne)'
  BY LogInductive, ReadStep
<1> QED BY <1>1, <1>2, PTL DEF LogSpec
-----------------------------------------------------------------------------
(***************************************************************************)
(* The directory.                                                          *)
(***************************************************************************)
InNews(e) == \E i \in 1 .. Len(news) : news[i] = e

(* An expiry is only announced, and handled, in an expired session.        *)
ExpiryIsOver == (at = "init" \/ InNews(Expired)) => conn = "expired"

Current(p) == vecHost[p] = children[p] /\ watch[p]
Fresh(p) == conn = "up" => \/ Current(p)
                           \/ p \in todo
                           \/ InNews(Connected)
                           \/ InNews(Child(p))

Free == node \in {None, session}   \* a create would leave it registered
Registering == conn = "up" => \/ node = session
                              \/ InNews(Connected)
                              \/ at \in {"exists", "delete"}
                              \/ Free /\ (at = "create" \/ creating)

IInv == /\ TypeOK /\ ToldIsKnown /\ ExpiryIsOver
        /\ \A p \in Paths : Fresh(p)
        /\ Registering
-----------------------------------------------------------------------------
(* The events are different from each other.                               *)
LEMMA EventsDiffer == /\ Connected # Expired
                      /\ \A p : Child(p) # Connected /\ Child(p) # Expired
                      /\ \A p, q : Child(p) = Child(q) => p = q
<1>1. Connected.type = "connected" /\ Expired.type = "expired"
  BY DEF Connected, Expired
<1>2. \A p : Child(p).type = "child" /\ Child(p).path = p
  BY DEF Child
<1> QED BY <1>1, <1>2

LEMMA EventsAre == Connected \in Events /\ Expired \in Events /\ \A p \in Paths : Child(p) \in Events
BY DEF Events

(* Taking the first event off, or adding one, keeps all the others.        *)
LEMMA TailKeeps ==
  ASSUME NEW E, NEW s \in Seq(E), s # <<>>, NEW i \in 1 .. Len(s), s[i] # Head(s)
  PROVE  \E j \in 1 .. Len(Tail(s)) : Tail(s)[j] = s[i]
<1>1. i # 1 /\ i - 1 \in 1 .. Len(Tail(s))
  OBVIOUS
<1>2. Tail(s)[i - 1] = s[i]
  BY <1>1
<1> QED BY <1>1, <1>2

LEMMA TailAdds ==
  ASSUME NEW E, NEW s \in Seq(E), s # <<>>, NEW i \in 1 .. Len(Tail(s))
  PROVE  \E j \in 1 .. Len(s) : s[j] = Tail(s)[i]
<1>1. i + 1 \in 1 .. Len(s) /\ s[i + 1] = Tail(s)[i]
  OBVIOUS
<1> QED BY <1>1

LEMMA AppendHas ==
  ASSUME NEW E, NEW s \in Seq(E), NEW e \in E
  PROVE  /\ \E j \in 1 .. Len(Append(s, e)) : Append(s, e)[j] = e
         /\ \A i \in 1 .. Len(s) : \E j \in 1 .. Len(Append(s, e)) : Append(s, e)[j] = s[i]
         /\ \A j \in 1 .. Len(Append(s, e)) : Append(s, e)[j] = e \/ \E i \in 1 .. Len(s) : s[i] = Append(s, e)[j]
<1>1. Len(Append(s, e)) = Len(s) + 1 /\ Append(s, e)[Len(s) + 1] = e
  OBVIOUS
<1>2. \A i \in 1 .. Len(s) : Append(s, e)[i] = s[i]
  OBVIOUS
<1> QED BY <1>1, <1>2

(* What each change of `news' does to the events in it.                    *)
LEMMA NewsTail ==
  ASSUME TypeOK, news # <<>>, news' = Tail(news), NEW e
  PROVE  /\ InNews(e) /\ e # Head(news) => InNews(e)'
         /\ InNews(e)' => InNews(e)
         /\ news' \in Seq(Events) /\ Head(news) \in Events /\ InNews(Head(news))
<1>1. news \in Seq(Events)
  BY DEF TypeOK
<1>2. InNews(e) /\ e # Head(news) => InNews(e)'
  BY <1>1, TailKeeps DEF InNews
<1>3. InNews(e)' => InNews(e)
  BY <1>1, TailAdds DEF InNews
<1>4. news' \in Seq(Events) /\ Head(news) \in Events /\ InNews(Head(news))
  BY <1>1 DEF InNews
<1> QED BY <1>2, <1>3, <1>4

LEMMA NewsAppend ==
  ASSUME TypeOK, NEW f \in Events, news' = Append(news, f), NEW e
  PROVE  /\ InNews(f)'
         /\ InNews(e) => InNews(e)'
         /\ InNews(e)' => InNews(e) \/ e = f
         /\ news' \in Seq(Events)
<1>1. news \in Seq(Events)
  BY DEF TypeOK
<1>2. news' \in Seq(Events)
  BY <1>1
<1> QED BY <1>1, <1>2, AppendHas DEF InNews

LEMMA NewsSame == ASSUME news' = news, NEW e PROVE InNews(e)' = InNews(e)
BY DEF InNews

LEMMA NewsNone == ASSUME news = <<>>, NEW e PROVE ~InNews(e)
BY DEF InNews
-----------------------------------------------------------------------------
(* Every step keeps the types.                                             *)
LEMMA TypeStep == TypeOK /\ [Next]_vars => TypeOK'
<1> USE ZookAssumption DEF zvars, lvars, cvars
<1> SUFFICES ASSUME TypeOK, [Next]_vars PROVE TypeOK'
  OBVIOUS
<1>1. ASSUME HandleEvent PROVE TypeOK'
  <2>1. news' \in Seq(Events)
    BY <1>1, NewsTail DEF HandleEvent
  <2>2. /\ at' \in {"idle", "exists", "delete", "create", "observe", "init", "crashed"}
        /\ todo' \subseteq Paths /\ (todo' = {}) = (at' \in {"idle", "init", "crashed"})
    <3>1. CASE at' = "exists" /\ todo' = Paths
      BY <3>1
    <3>2. CASE at' = "init" /\ todo' = todo
      BY <1>1, <3>2 DEF HandleEvent, TypeOK
    <3>3. ASSUME NEW p \in Paths, at' = "observe" /\ todo' = {p}
          PROVE  /\ at' \in {"idle", "exists", "delete", "create", "observe", "init", "crashed"}
                 /\ todo' \subseteq Paths /\ (todo' = {}) = (at' \in {"idle", "init", "crashed"})
      BY <3>3
    <3> QED BY <1>1, <3>1, <3>2, <3>3 DEF HandleEvent
  <2>3. UNCHANGED <<children, node, losses, changes, session, conn, watch, missed, creating, vecHost, told>>
    BY <1>1 DEF HandleEvent
  <2> QED BY <2>1, <2>2, <2>3 DEF TypeOK
<1>2. ASSUME Exists PROVE TypeOK'
  <2>1. CASE Crash
    <3>1. <<>> \in Seq(Events) /\ NoPath \in [Paths -> BOOLEAN]
      BY DEF NoPath
    <3> QED BY <1>2, <2>1, <3>1 DEF Exists, Crash, TypeOK
  <2>2. CASE ~Crash
    BY <1>2, <2>2 DEF Exists, TypeOK
  <2> QED BY <2>1, <2>2
<1>3. ASSUME Delete PROVE TypeOK'
  BY <1>3 DEF Delete, TypeOK, None
<1>4. ASSUME Create PROVE TypeOK'
  BY <1>4 DEF Create, TypeOK
<1>5. ASSUME NEW p \in Paths, UpdateServer(p) PROVE TypeOK'
  <2>1. vecHost' \in [Paths -> SUBSET Servers] /\ watch' \in [Paths -> BOOLEAN]
    <3>1. PICK new \in SUBSET Servers :
            /\ \/ watch' = [watch EXCEPT ![p] = TRUE]
               \/ watch' = watch
            /\ vecHost' = [vecHost EXCEPT ![p] = new]
      BY <1>5 DEF UpdateServer
    <3>2. vecHost' \in [Paths -> SUBSET Servers]
      BY <3>1 DEF TypeOK
    <3>3. watch' \in [Paths -> BOOLEAN]
      BY <3>1 DEF TypeOK
    <3> QED BY <3>2, <3>3
  <2>2. told' \in [Paths -> SUBSET Servers]
    BY <1>5 DEF UpdateServer, Report, TypeOK
  <2>3. todo' \subseteq Paths /\ (todo' = {}) = (at' \in {"idle", "init", "crashed"})
    BY <1>5 DEF UpdateServer, TypeOK
  <2> QED BY <1>5, <2>1, <2>2, <2>3 DEF UpdateServer, TypeOK
<1>6. ASSUME Reinit PROVE TypeOK'
  <2>1. news' \in Seq(Events) /\ watch' \in [Paths -> BOOLEAN] /\ missed' \in [Paths -> BOOLEAN]
    BY <1>6 DEF Reinit, NoPath
  <2>2. session' \in 1 .. MaxSession /\ conn' \in {"up", "down", "expired", "closed"}
    BY <1>6 DEF Reinit, TypeOK
  <2>3. at' = "idle" /\ todo' = {} /\ creating' \in BOOLEAN
    BY <1>6 DEF Reinit, TypeOK
  <2> QED BY <1>6, <2>1, <2>2, <2>3 DEF Reinit, TypeOK
<1>7. ASSUME Reconnect PROVE TypeOK'
  <2>1. news' \in Seq(Events)
    BY <1>7, EventsAre, NewsAppend DEF Reconnect
  <2> QED BY <1>7, <2>1 DEF Reconnect, TypeOK
<1>8. ASSUME NEW p \in Paths, DeliverMissed(p) PROVE TypeOK'
  <2>1. news' \in Seq(Events)
    BY <1>8, EventsAre, NewsAppend DEF DeliverMissed
  <2> QED BY <1>8, <2>1 DEF DeliverMissed, TypeOK
<1>9. ASSUME ApplyCreate PROVE TypeOK'
  <2>1. node' \in -1 .. MaxSession
    BY <1>9 DEF ApplyCreate, TypeOK
  <2> QED BY <1>9, <2>1 DEF ApplyCreate, TypeOK
<1>10. ASSUME LoseConnection PROVE TypeOK'
  <2>1. losses' \in 0 .. MaxLoss
    BY <1>10 DEF LoseConnection, TypeOK
  <2> QED BY <1>10, <2>1 DEF LoseConnection, TypeOK
<1>11. ASSUME ExpireSession PROVE TypeOK'
  <2>1. news' \in Seq(Events)
    BY <1>11, EventsAre, NewsAppend DEF ExpireSession
  <2>2. node' \in -1 .. MaxSession
    BY <1>11 DEF ExpireSession, TypeOK, None
  <2> QED BY <1>11, <2>1, <2>2 DEF ExpireSession, TypeOK
<1>12. ASSUME OldNodeExpires PROVE TypeOK'
  BY <1>12 DEF OldNodeExpires, TypeOK, None
<1>13. ASSUME NEW p \in Paths, NEW s \in Servers, OtherServer(p, s) PROVE TypeOK'
  <2>1. news' \in Seq(Events)
    BY <1>13, EventsAre, NewsAppend DEF OtherServer, TypeOK
  <2>2. /\ children' \in [Paths -> SUBSET Servers]
        /\ watch' \in [Paths -> BOOLEAN] /\ missed' \in [Paths -> BOOLEAN]
    BY <1>13 DEF OtherServer, TypeOK
  <2> QED BY <1>13, <2>1, <2>2 DEF OtherServer, TypeOK
<1>14. CASE UNCHANGED vars
  BY <1>14 DEF vars, TypeOK
<1> QED
  BY <1>1, <1>2, <1>3, <1>4, <1>5, <1>6, <1>7, <1>8, <1>9, <1>10, <1>11, <1>12, <1>13, <1>14
  DEF Next, Client

(* The two callbacks of a report turn the old list into the new one.       *)
LEMMA ToldStep == TypeOK /\ ToldIsKnown /\ [Next]_vars => ToldIsKnown'
<1> USE DEF zvars, lvars, cvars
<1> SUFFICES ASSUME TypeOK, ToldIsKnown, [Next]_vars PROVE ToldIsKnown'
  OBVIOUS
<1>1. ASSUME NEW p \in Paths, UpdateServer(p) PROVE ToldIsKnown'
  <2>1. PICK new \in SUBSET Servers : Report(p, new) /\ vecHost' = [vecHost EXCEPT ![p] = new]
    BY <1>1 DEF UpdateServer
  <2>2. (told[p] \cup (new \ vecHost[p])) \ (vecHost[p] \ new) = new
    BY DEF ToldIsKnown
  <2> QED BY <2>1, <2>2 DEF Report, ToldIsKnown
<1>2. CASE UNCHANGED <<vecHost, told>>
  BY <1>2 DEF ToldIsKnown
<1> QED
  BY <1>1, <1>2 DEF Next, Client, vars, HandleEvent, Exists, Delete, Create, Reinit, Reconnect,
     ApplyCreate, DeliverMissed, LoseConnection, ExpireSession, OldNodeExpires, OtherServer

(* An expired session stays so until its event is handled: nothing brings  *)
(* its connection back.                                                    *)
LEMMA ExpiryStep == TypeOK /\ ExpiryIsOver /\ [Next]_vars => ExpiryIsOver'
<1> USE DEF zvars, lvars, cvars
<1> SUFFICES ASSUME TypeOK, ExpiryIsOver, [Next]_vars PROVE ExpiryIsOver'
  OBVIOUS
<1>1. ASSUME HandleEvent PROVE ExpiryIsOver'
  <2>1. InNews(Expired)' => InNews(Expired)
    BY <1>1, NewsTail DEF HandleEvent
  <2>2. Head(news) = Expired => InNews(Expired)
    BY <1>1, NewsTail DEF HandleEvent
  <2> QED BY <1>1, <2>1, <2>2 DEF HandleEvent, ExpiryIsOver
<1>2. ASSUME Reinit PROVE ExpiryIsOver'
  BY <1>2 DEF Reinit, ExpiryIsOver, InNews
<1>3. ASSUME Reconnect PROVE ExpiryIsOver'
  <2>1. InNews(Expired)' => InNews(Expired)
    BY <1>3, EventsAre, EventsDiffer, NewsAppend DEF Reconnect
  <2> QED BY <1>3, <2>1 DEF Reconnect, ExpiryIsOver
<1>4. ASSUME NEW p \in Paths, DeliverMissed(p) PROVE ExpiryIsOver'
  <2>1. InNews(Expired)' => InNews(Expired)
    BY <1>4, EventsAre, EventsDiffer, NewsAppend DEF DeliverMissed
  <2> QED BY <1>4, <2>1 DEF DeliverMissed, ExpiryIsOver
<1>5. ASSUME ExpireSession PROVE ExpiryIsOver'
  BY <1>5 DEF ExpireSession, ExpiryIsOver
<1>6. ASSUME NEW p \in Paths, NEW s \in Servers, OtherServer(p, s) PROVE ExpiryIsOver'
  <2>1. InNews(Expired)' => InNews(Expired)
    BY <1>6, EventsAre, EventsDiffer, NewsAppend, NewsSame DEF OtherServer
  <2> QED BY <1>6, <2>1 DEF OtherServer, ExpiryIsOver
<1>7. ASSUME (Exists /\ ~Crash) \/ Delete \/ Create \/ \E p \in Paths : UpdateServer(p) PROVE ExpiryIsOver'
  <2>1. InNews(Expired)' = InNews(Expired)
    BY <1>7, NewsSame DEF Exists, Delete, Create, UpdateServer
  <2> QED BY <1>7, <2>1 DEF Exists, Delete, Create, UpdateServer, ExpiryIsOver
<1>8. ASSUME ApplyCreate \/ LoseConnection \/ OldNodeExpires \/ UNCHANGED vars PROVE ExpiryIsOver'
  <2>1. InNews(Expired)' = InNews(Expired)
    BY <1>8, NewsSame DEF ApplyCreate, LoseConnection, OldNodeExpires, vars
  <2> QED BY <1>8, <2>1 DEF ApplyCreate, LoseConnection, OldNodeExpires, vars, ExpiryIsOver
<1>9. ASSUME Exists, Crash PROVE ExpiryIsOver'
  BY <1>9 DEF Crash, ExpiryIsOver, InNews
<1> QED BY <1>1, <1>2, <1>3, <1>4, <1>5, <1>6, <1>7, <1>8, <1>9 DEF Next, Client
-----------------------------------------------------------------------------
(* A list that is no longer current has an event to come, or is read next. *)
LEMMA FreshStep ==
  ASSUME TypeOK, ExpiryIsOver, NEW p \in Paths, Fresh(p), [Next]_vars
  PROVE  Fresh(p)'
<1> USE DEF zvars, lvars, cvars
<1>1. ASSUME HandleEvent PROVE Fresh(p)'
  <2>1. CASE Head(news) = Connected
    <3>1. todo' = Paths
      BY <1>1, <2>1, EventsDiffer DEF HandleEvent
    <3> QED BY <3>1 DEF Fresh
  <2>2. CASE Head(news) = Expired
    <3>1. InNews(Expired)
      BY <1>1, <2>2, NewsTail DEF HandleEvent
    <3>2. conn' = "expired"
      BY <1>1, <3>1 DEF HandleEvent, ExpiryIsOver
    <3> QED BY <3>2 DEF Fresh
  <2>3. ASSUME NEW q \in Paths, Head(news) = Child(q) PROVE Fresh(p)'
    <3>1. /\ conn' = conn /\ todo = {} /\ todo' = {q}
          /\ vecHost' = vecHost /\ children' = children /\ watch' = watch
      BY <1>1, <2>3, EventsDiffer DEF HandleEvent, TypeOK
    <3>2. InNews(Connected) => InNews(Connected)'
      BY <1>1, <2>3, EventsDiffer, NewsTail DEF HandleEvent
    <3>3. InNews(Child(p)) /\ p # q => InNews(Child(p))'
      BY <1>1, <2>3, EventsDiffer, NewsTail DEF HandleEvent
    <3> QED BY <3>1, <3>2, <3>3 DEF Fresh, Current
  <2> QED BY <1>1, <2>1, <2>2, <2>3 DEF HandleEvent
<1>2. ASSUME (Exists /\ ~Crash) \/ Delete \/ Create \/ ApplyCreate \/ OldNodeExpires \/ UNCHANGED vars
      PROVE  Fresh(p)'
  <2>1. UNCHANGED <<conn, vecHost, children, watch, todo, news>>
    BY <1>2 DEF Exists, Delete, Create, ApplyCreate, OldNodeExpires, vars
  <2>2. InNews(Connected)' = InNews(Connected) /\ InNews(Child(p))' = InNews(Child(p))
    BY <2>1, NewsSame
  <2> QED BY <2>1, <2>2 DEF Fresh, Current
<1>3. ASSUME NEW q \in Paths, UpdateServer(q) PROVE Fresh(p)'
  <2>1. UNCHANGED <<conn, children, news>> /\ todo' = todo \ {q}
    BY <1>3 DEF UpdateServer
  <2>2. InNews(Connected)' = InNews(Connected) /\ InNews(Child(p))' = InNews(Child(p))
    BY <2>1, NewsSame
  <2>3. CASE p = q
    <3>1. conn = "up" => vecHost'[p] = children[p] /\ watch'[p] = TRUE
      BY <1>3, <2>3 DEF UpdateServer, TypeOK
    <3> QED BY <2>1, <3>1 DEF Fresh, Current
  <2>4. CASE p # q
    <3>1. vecHost'[p] = vecHost[p] /\ watch'[p] = watch[p]
      BY <1>3, <2>4 DEF UpdateServer, TypeOK
    <3>2. p \in todo => p \in todo'
      BY <2>1, <2>4
    <3> QED BY <2>1, <2>2, <3>1, <3>2 DEF Fresh, Current
  <2> QED BY <2>3, <2>4
<1>4. ASSUME Reinit \/ LoseConnection \/ ExpireSession PROVE Fresh(p)'
  <2>1. conn' # "up"
    BY <1>4 DEF Reinit, LoseConnection, ExpireSession
  <2> QED BY <2>1 DEF Fresh
<1>5. ASSUME Reconnect PROVE Fresh(p)'
  <2>1. InNews(Connected)'
    BY <1>5, EventsAre, NewsAppend DEF Reconnect
  <2> QED BY <2>1 DEF Fresh
<1>6. ASSUME NEW q \in Paths, DeliverMissed(q) PROVE Fresh(p)'
  <2>1. UNCHANGED <<conn, vecHost, children, watch, todo>>
    BY <1>6 DEF DeliverMissed
  <2>2. (InNews(Connected) => InNews(Connected)') /\ (InNews(Child(p)) => InNews(Child(p))')
    BY <1>6, EventsAre, NewsAppend DEF DeliverMissed
  <2> QED BY <2>1, <2>2 DEF Fresh, Current
<1>7. ASSUME NEW q \in Paths, NEW s \in Servers, OtherServer(q, s) PROVE Fresh(p)'
  <2>1. UNCHANGED <<conn, vecHost, todo>>
    BY <1>7 DEF OtherServer
  <2>2. (InNews(Connected) => InNews(Connected)') /\ (InNews(Child(p)) => InNews(Child(p))')
    BY <1>7, EventsAre, NewsAppend, NewsSame DEF OtherServer
  <2>3. CASE p = q /\ watch[p] /\ conn = "up"
    <3>1. InNews(Child(p))'
      BY <1>7, <2>3, EventsAre, NewsAppend DEF OtherServer
    <3> QED BY <3>1 DEF Fresh
  <2>4. CASE p # q
    <3>1. children'[p] = children[p] /\ watch'[p] = watch[p]
      BY <1>7, <2>4 DEF OtherServer, TypeOK
    <3> QED BY <2>1, <2>2, <3>1 DEF Fresh, Current
  <2>5. CASE ~watch[p] \/ conn # "up"
    BY <2>1, <2>2, <2>5 DEF Fresh, Current
  <2> QED BY <2>3, <2>4, <2>5
<1>8. ASSUME Crash PROVE Fresh(p)'
  BY <1>8 DEF Crash, Fresh
<1> QED BY <1>1, <1>2, <1>3, <1>4, <1>5, <1>6, <1>7, <1>8 DEF Next, Client

(* A node that is not this session's is replaced by the handler that runs  *)
(* or will run, or its place is free for the create that is under way.     *)
LEMMA RegisteringStep == TypeOK /\ ExpiryIsOver /\ Registering /\ [Next]_vars => Registering'
<1> USE DEF zvars, lvars, cvars
<1> SUFFICES ASSUME TypeOK, ExpiryIsOver, Registering, [Next]_vars PROVE Registering'
  OBVIOUS
<1>1. ASSUME HandleEvent PROVE Registering'
  <2>1. CASE Head(news) = Connected
    <3>1. at' = "exists"
      BY <1>1, <2>1, EventsDiffer DEF HandleEvent
    <3> QED BY <3>1 DEF Registering
  <2>2. CASE Head(news) = Expired
    <3>1. InNews(Expired)
      BY <1>1, <2>2, NewsTail DEF HandleEvent
    <3>2. conn' = "expired"
      BY <1>1, <3>1 DEF HandleEvent, ExpiryIsOver
    <3> QED BY <3>2 DEF Registering
  <2>3. ASSUME NEW q \in Paths, Head(news) = Child(q) PROVE Registering'
    <3>1. UNCHANGED <<conn, node, session, creating>> /\ at = "idle"
      BY <1>1 DEF HandleEvent
    <3>2. InNews(Connected) => InNews(Connected)'
      BY <1>1, <2>3, EventsDiffer, NewsTail DEF HandleEvent
    <3> QED BY <3>1, <3>2 DEF Registering, Free
  <2> QED BY <1>1, <2>1, <2>2, <2>3 DEF HandleEvent
<1>2. ASSUME Exists, ~Crash PROVE Registering'
  <2>1. UNCHANGED <<conn, node, session>>
    BY <1>2 DEF Exists
  <2>2. conn = "up" => at' = "delete" \/ (Free /\ at' = "create")
    BY <1>2 DEF Exists, Free
  <2> QED BY <2>1, <2>2 DEF Registering, Free
<1>3. ASSUME Delete PROVE Registering'
  BY <1>3 DEF Delete, Registering, Free
<1>4. ASSUME Create PROVE Registering'
  <2>1. InNews(Connected)' = InNews(Connected)
    BY <1>4, NewsSame DEF Create
  <2> QED BY <1>4, <2>1 DEF Create, Registering, Free
<1>5. ASSUME NEW q \in Paths, UpdateServer(q) PROVE Registering'
  <2>1. InNews(Connected)' = InNews(Connected)
    BY <1>5, NewsSame DEF UpdateServer
  <2> QED BY <1>5, <2>1 DEF UpdateServer, Registering, Free
<1>6. ASSUME Reinit \/ LoseConnection \/ ExpireSession \/ Crash PROVE Registering'
  <2>1. conn' # "up"
    BY <1>6 DEF Reinit, LoseConnection, ExpireSession, Crash
  <2> QED BY <2>1 DEF Registering
<1>7. ASSUME Reconnect PROVE Registering'
  <2>1. InNews(Connected)'
    BY <1>7, EventsAre, NewsAppend DEF Reconnect
  <2> QED BY <2>1 DEF Registering
<1>8. ASSUME NEW q \in Paths, DeliverMissed(q) PROVE Registering'
  <2>1. InNews(Connected) => InNews(Connected)'
    BY <1>8, EventsAre, NewsAppend DEF DeliverMissed
  <2> QED BY <1>8, <2>1 DEF DeliverMissed, Registering, Free
<1>9. ASSUME ApplyCreate PROVE Registering'
  <2>1. InNews(Connected)' = InNews(Connected)
    BY <1>9, NewsSame DEF ApplyCreate
  <2>2. Free => node' = session'
    BY <1>9 DEF ApplyCreate, Free
  <2>3. node = session => node' = session'
    BY <1>9 DEF ApplyCreate
  <2> QED BY <1>9, <2>1, <2>2, <2>3 DEF ApplyCreate, Registering
<1>10. ASSUME OldNodeExpires PROVE Registering'
  <2>1. InNews(Connected)' = InNews(Connected)
    BY <1>10, NewsSame DEF OldNodeExpires
  <2>2. node # session /\ ~Free
    BY <1>10 DEF OldNodeExpires, Free, None, TypeOK
  <2> QED BY <1>10, <2>1, <2>2 DEF OldNodeExpires, Registering
<1>11. ASSUME NEW q \in Paths, NEW s \in Servers, OtherServer(q, s) PROVE Registering'
  <2>1. InNews(Connected) => InNews(Connected)'
    BY <1>11, EventsAre, NewsAppend, NewsSame DEF OtherServer
  <2> QED BY <1>11, <2>1 DEF OtherServer, Registering, Free
<1>12. CASE UNCHANGED vars
  <2>1. InNews(Connected)' = InNews(Connected)
    BY <1>12, NewsSame DEF vars
  <2> QED BY <1>12, <2>1 DEF vars, Registering, Free
<1> QED
  BY <1>1, <1>2, <1>3, <1>4, <1>5, <1>6, <1>7, <1>8, <1>9, <1>10, <1>11, <1>12 DEF Next, Client
-----------------------------------------------------------------------------
(* The state the constructor leaves, before any event, is in it.           *)
LEMMA IInvInit == Init => IInv
<1> SUFFICES ASSUME Init PROVE IInv
  OBVIOUS
<1>1. TypeOK
  <2>1. [p \in Paths |-> {}] \in [Paths -> SUBSET Servers] /\ NoPath \in [Paths -> BOOLEAN]
    BY DEF NoPath
  <2>2. <<>> \in Seq(Events)
    OBVIOUS
  <2>3. {-1, 0} \subseteq -1 .. MaxSession /\ 0 \in 0 .. MaxLoss /\ 0 \in 0 .. MaxChange /\ 1 \in 1 .. MaxSession
    BY ZookAssumption
  <2>4. node \in -1 .. MaxSession
    BY <2>3 DEF Init, None
  <2> QED BY <2>1, <2>2, <2>3, <2>4 DEF Init, TypeOK
<1>2. ToldIsKnown /\ \A e : ~InNews(e)
  BY NewsNone DEF Init, ToldIsKnown
<1>3. ExpiryIsOver /\ conn # "up"
  BY <1>2 DEF Init, ExpiryIsOver
<1> QED BY <1>1, <1>2, <1>3 DEF IInv, Fresh, Registering

LEMMA IInvStep == IInv /\ [Next]_vars => IInv'
<1> SUFFICES ASSUME IInv, [Next]_vars PROVE IInv'
  OBVIOUS
<1>1. \A p \in Paths : Fresh(p)'
  BY FreshStep DEF IInv
<1> QED BY <1>1, TypeStep, ToldStep, ExpiryStep, RegisteringStep DEF IInv

(* With nothing to handle the events and handlers that would stand in for  *)
(* the list and the node are absent.                                       *)
LEMMA IInvQuiet == IInv => QuietIsCurrent /\ QuietIsRegistered
<1> SUFFICES ASSUME IInv, Quiet PROVE /\ vecHost = children /\ \A p \in Paths : watch[p]
                                      /\ ~creating => node = session
  BY DEF QuietIsCurrent, QuietIsRegistered
<1>1. \A e : ~InNews(e)
  BY NewsNone DEF Quiet
<1>2. todo = {}
  BY DEF Quiet, IInv, TypeOK
<1>3. \A p \in Paths : vecHost[p] = children[p] /\ watch[p]
  BY <1>1, <1>2 DEF IInv, Fresh, Current, Quiet
<1>4. vecHost = children
  BY <1>3 DEF IInv, TypeOK
<1>5. ~creating => node = session
  BY <1>1 DEF IInv, Registering, Quiet
<1> QED BY <1>3, <1>4, <1>5

THEOREM ZookInvariant == Spec => []IInv
<1>1. IInv /\ [Next]_vars => IInv'
  BY IInvStep
<1> QED BY IInvInit, <1>1, PTL DEF Spec

(* Whatever is lost, expires or changes while a handler runs or between    *)
(* two of them: when the client is connected and at rest, it knows exactly *)
(* the servers registered and watches for the next change                  *)
(* (zooClient.cpp:147-151, 228-230, 303).                                  *)
THEOREM QuietClientIsCurrent == Spec => []QuietIsCurrent
BY ZookInvariant, IInvQuiet, PTL

(* And unless its create is still under way, its own node exists and       *)
(* belongs to its present session (zooClient.cpp:258-271).                 *)
THEOREM QuietClientIsRegistered == Spec => []QuietIsRegistered
BY ZookInvariant, IInvQuiet, PTL

(* The callbacks' additions and deletions always add up to the client's    *)
(* list (zooClient.cpp:413-461).                                           *)
THEOREM ToldAddsUp == Spec => [](TypeOK /\ ToldIsKnown)
<1>1. IInv => TypeOK /\ ToldIsKnown
  BY DEF IInv
<1> QED BY ZookInvariant, <1>1, PTL

(* A step that takes a server away from what the callbacks added up to.    *)
Taken(p) == \A s \in told[p] \ told'[p] : s \notin children[p] \/ conn # "up"

LEMMA TakenByUpdate ==
  ASSUME IInv, [Next]_vars, NEW p \in Paths
  PROVE  Taken(p)
<1>1. ASSUME NEW q \in Paths, UpdateServer(q) PROVE Taken(p)
  <2>1. PICK new \in SUBSET Servers :
          /\ conn = "up" => new = children[q]
          /\ Report(q, new)
    BY <1>1 DEF UpdateServer
  <2>2. told'[p] = IF p = q THEN (told[p] \cup (new \ vecHost[p])) \ (vecHost[p] \ new) ELSE told[p]
    BY <2>1 DEF Report, IInv, TypeOK
  <2>3. ASSUME NEW s \in told[p] \ told'[p] PROVE p = q /\ s \notin new
    BY <2>2, <2>3
  <2> QED BY <2>1, <2>3 DEF Taken
<1>2. ASSUME UNCHANGED told PROVE Taken(p)
  BY <1>2 DEF Taken
<1>3. (\E q \in Paths : UpdateServer(q)) \/ UNCHANGED told
  BY DEF Next, Client, HandleEvent, Exists, Delete, Create, Reinit, Reconnect, ApplyCreate,
         DeliverMissed, LoseConnection, ExpireSession, OldNodeExpires, OtherServer, vars, cvars
<1> QED BY <1>1, <1>2, <1>3

(* A callback takes a server away only when the ensemble does not have it, *)
(* or could not be asked (zooClient.cpp:316-329).                          *)
THEOREM DeletedIsGone == Spec => DelIsGoneOrDown
<1>1. IInv /\ [Next]_vars =>
        [\A p \in Paths : \A s \in told[p] \ told'[p] : s \notin children[p] \/ conn # "up"]_vars
  BY TakenByUpdate DEF Taken
<1> QED BY ZookInvariant, <1>1, PTL DEF Spec, DelIsGoneOrDown
=============================================================================
