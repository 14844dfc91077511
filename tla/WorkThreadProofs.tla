-------------------------- MODULE WorkThreadProofs --------------------------
(***************************************************************************)
(* The worker, its owner and any number of putters around one queue.       *)
(*                                                                         *)
(* Every step of WorkThread is a step of SynQueue or none, so all that is  *)
(* proved of the queue holds of m_pMsgList; Life adds where worker and     *)
(* owner stand with respect to each other.  The three promises of the      *)
(* class follow: tokens and messages are counted exactly (SynQueueProofs), *)
(* and once the owner drains, nobody else is at the queue.                 *)
(***************************************************************************)
EXTENDS WorkThread, FiniteSetTheorems, TLAPS

(* The results about the queue, for this queue. *)
QP == INSTANCE SynQueueProofs WITH Producers <- Putters, Consumers <- {Worker, Owner},
                                   Pris <- {"none"}

LEMMA QueueAssumptions ==
  QP!ThreadsAssumption /\ QP!MsgsAssumption /\ QP!PrisAssumption /\ QP!MaxSizeAssumption
<1>1. IsFiniteSet({Worker, Owner})
  <2>1. IsFiniteSet({})
    BY FS_EmptySet
  <2>2. IsFiniteSet({} \cup {Worker})
    BY <2>1, FS_AddElement
  <2>3. IsFiniteSet(({} \cup {Worker}) \cup {Owner})
    BY <2>2, FS_AddElement
  <2>4. (({} \cup {Worker}) \cup {Owner}) = {Worker, Owner}
    OBVIOUS
  <2> QED BY <2>3, <2>4, Zenon
<1>2. \A S : IsFiniteSet(S) => QP!IsFiniteSet(S)
  BY DEF IsFiniteSet, QP!IsFiniteSet
<1>3. QP!ThreadsAssumption
  BY <1>1, <1>2, WorkThreadAssumption DEF QP!ThreadsAssumption
<1> QED BY <1>3, WorkThreadAssumption DEF QP!MsgsAssumption, QP!PrisAssumption, QP!MaxSizeAssumption

QueueInv == QP!IInv /\ QP!Hold

LEMMA QueueInit == Init => QueueInv
BY QueueAssumptions, QP!InitIInv, QP!HoldInit
   DEF Init, QueueInv, Q!Init, QP!Init, Q!Threads, QP!Threads

LEMMA QueueNext == ASSUME QueueInv, QP!Next \/ UNCHANGED QP!vars PROVE QueueInv'
BY QueueAssumptions, QP!NextIInv, QP!HoldNext DEF QueueInv

(* The two instances of SynQueue have the same actions. *)
LEMMA SamePut ==
  ASSUME NEW p \in Putters, (\E m \in Msgs : Q!PutCall(p, m, "none")) \/ Q!PutStep(p)
  PROVE  QP!Next
<1>1. ASSUME NEW m \in Msgs, Q!PutCall(p, m, "none")
      PROVE  QP!PutCall(p, m, "none")
  BY <1>1 DEF Q!PutCall, QP!PutCall, Q!Goto, QP!Goto
<1>2. Q!PutStep(p) => QP!PutStep(p)
  BY DEF Q!PutStep, Q!PutWait, Q!PutLock, Q!PutPush, Q!PutUnlock, Q!PutPost, Q!Lock,
              Q!Unlock, Q!Goto, Q!Pushed,
              QP!PutStep, QP!PutWait, QP!PutLock, QP!PutPush, QP!PutUnlock, QP!PutPost, QP!Lock,
              QP!Unlock, QP!Goto, QP!Pushed
<1> QED BY <1>1, <1>2 DEF QP!Next

LEMMA SameGet ==
  ASSUME NEW c \in {Worker, Owner}, Q!GetCall(c) \/ GetInside(c) \/ Q!Release(c)
  PROVE  QP!Next
<1>1. QP!GetStep(c)
  BY DEF GetInside, Q!GetCall, Q!GetWait, Q!GetLock, Q!GetRead, Q!GetPop, Q!GetUnlock, Q!GetPost,
         Q!Release, Q!Lock, Q!Unlock, Q!Goto,
         QP!GetStep, QP!GetCall, QP!GetWait, QP!GetLock, QP!GetRead, QP!GetPop, QP!GetUnlock,
         QP!GetPost, QP!Release, QP!Lock, QP!Unlock, QP!Goto
<1> QED BY <1>1 DEF QP!Next

LEMMA StepsQueue == [Next]_vars => QP!Next \/ UNCHANGED QP!vars
<1> SUFFICES ASSUME [Next]_vars PROVE QP!Next \/ UNCHANGED QP!vars
  OBVIOUS
<1>1. UNCHANGED queueVars => UNCHANGED QP!vars
  BY DEF queueVars, QP!vars
<1>2. ASSUME NEW p \in Putters, PutMsgToInputList(p) PROVE QP!Next
  BY <1>2, SamePut DEF PutMsgToInputList
<1>3. CASE WorkerStep
  BY <1>1, <1>3, SameGet DEF WorkerStep, RunTest, RunGet, RunProcess
<1>4. CASE OwnerStep
  BY <1>1, <1>4, SameGet
     DEF OwnerStep, SetRunFlag, Start, Stop, Join, DestroyBegin, Drain, DrainTest, DrainGet
<1>5. CASE UNCHANGED vars
  BY <1>1, <1>5 DEF vars
<1> QED BY <1>2, <1>3, <1>4, <1>5 DEF Next
-----------------------------------------------------------------------------
(* Where the parties stand.  The worker is in get() exactly when Run says  *)
(* so; nobody else is at the queue from the drain on; a message processed  *)
(* after Stop was the last, for the flag is down and the worker out of     *)
(* get(); in get() for the drain, the owner has a message to find.         *)
LifeType == /\ runFlag \in {0, 1}
            /\ work \in {"unborn", "test", "get", "exited"}
            /\ own \in {"made", "armed", "started", "stopped", "quiet", "drain", "destroyed"}
            /\ late \in {0, 1}
Parties == /\ work \in {"test", "get"} => own \in {"started", "stopped"}
           /\ pc[Owner] # "idle" => own = "drain"
           /\ work # "get" => pc[Worker] = "idle"
           /\ own \in {"drain", "destroyed"} => \A p \in Putters : pc[p] = "idle"
Flag == /\ own = "stopped" => runFlag = 0
        /\ late = 1 => runFlag = 0 /\ work # "get" /\ own \notin {"made", "armed", "started"}
Draining == /\ own = "drain" /\ pc[Owner] = "wait" => queue # <<>>
            /\ own = "destroyed" => queue = <<>>
Life == LifeType /\ Parties /\ Flag /\ Draining

IInv == QueueInv /\ Life

LEMMA LifeInit == Init => Life
BY DEF Init, Q!Init, Q!Threads, Life, LifeType, Parties, Flag, Draining

LEMMA Everyone == /\ Putters \subseteq QP!Threads /\ Worker \in QP!Threads /\ Owner \in QP!Threads
                  /\ Worker # Owner /\ Worker \notin Putters /\ Owner \notin Putters
BY WorkThreadAssumption DEF QP!Threads

LEMMA QueueTypes == QueueInv => /\ DOMAIN pc = QP!Threads /\ pc = [t \in QP!Threads |-> pc[t]]
                                /\ queue \in Seq(Msgs)
BY DEF QueueInv, QP!IInv, QP!Shape, QP!Types

LEMMA PutterKeepsLife == ASSUME IInv, NEW p \in Putters, PutMsgToInputList(p) PROVE Life'
<1>1. /\ UNCHANGED <<runFlag, work, own, late>>
      /\ \A t \in QP!Threads \ {p} : pc'[t] = pc[t]
      /\ own # "destroyed" /\ own # "drain"
  <2>1. pc = [t \in QP!Threads |-> pc[t]] /\ p \in QP!Threads
    BY QueueTypes, Everyone DEF IInv
  <2>2. \E l : pc' = [pc EXCEPT ![p] = l]
    BY DEF PutMsgToInputList, Q!PutCall, Q!PutStep, Q!PutWait, Q!PutLock, Q!PutPush, Q!PutUnlock,
           Q!PutPost, Q!Lock, Q!Unlock, Q!Goto
  <2>3. own \notin {"drain", "destroyed"} \/ pc[p] # "idle"
    BY DEF PutMsgToInputList, Q!PutStep, Q!PutWait, Q!PutLock, Q!PutPush, Q!PutUnlock, Q!PutPost,
           Q!Lock, Q!Unlock
  <2>4. UNCHANGED <<runFlag, work, own, late>>
    BY DEF PutMsgToInputList
  <2> QED BY <2>1, <2>2, <2>3, <2>4 DEF IInv, Life, Parties
<1>2. pc'[Owner] = pc[Owner] /\ pc'[Worker] = pc[Worker]
  BY <1>1, Everyone
<1> QED BY <1>1, <1>2 DEF IInv, Life, LifeType, Parties, Flag, Draining

LEMMA WorkerKeepsLife == ASSUME IInv, WorkerStep PROVE Life'
<1>1. pc = [t \in QP!Threads |-> pc[t]]
  BY QueueTypes DEF IInv
<1>2. /\ work \in {"test", "get"} /\ own \in {"started", "stopped"}
      /\ UNCHANGED <<own, runFlag>> /\ pc[Owner] = "idle"
  BY DEF WorkerStep, RunTest, RunGet, RunProcess, IInv, Life, Parties
<1>3. CASE RunTest
  <2>1. /\ late' = late
        /\ \/ runFlag = 1 /\ work' = "get" /\ pc' = [pc EXCEPT ![Worker] = "wait"]
           \/ work' = "exited" /\ pc' = pc /\ pc[Worker] = "idle"
    BY <1>3 DEF RunTest, Q!GetCall, Q!Goto, queueVars, IInv, Life, Parties
  <2> QED BY <1>1, <1>2, <2>1, Everyone DEF IInv, Life, LifeType, Parties, Flag, Draining
<1>4. CASE RunGet
  <2>1. /\ work = "get" /\ work' = "get" /\ late' = late /\ \E l : pc' = [pc EXCEPT ![Worker] = l]
    BY <1>4 DEF RunGet, GetInside, Q!GetWait, Q!GetLock, Q!GetRead, Q!GetPop, Q!GetUnlock,
                Q!GetPost, Q!Lock, Q!Unlock, Q!Goto
  <2> QED BY <1>1, <1>2, <2>1, Everyone DEF IInv, Life, LifeType, Parties, Flag, Draining
<1>5. CASE RunProcess
  <2>1. /\ work = "get" /\ work' = "test" /\ pc' = [pc EXCEPT ![Worker] = "idle"]
        /\ late' = late \/ (own = "stopped" /\ late' = late + 1)
    BY <1>5 DEF RunProcess, Q!Release, Q!Goto
  <2>2. late = 0 /\ (late' = 1 => runFlag = 0 /\ own = "stopped") /\ late' \in {0, 1}
    BY <2>1 DEF IInv, Life, LifeType, Flag
  <2>3. pc'[Worker] = "idle" /\ pc'[Owner] = "idle" /\ \A p \in Putters : pc'[p] = pc[p]
    BY <1>1, <1>2, <2>1, Everyone
  <2> QED BY <1>2, <2>1, <2>2, <2>3 DEF IInv, Life, LifeType, Parties, Flag, Draining
<1> QED BY <1>3, <1>4, <1>5 DEF WorkerStep

LEMMA OwnerKeepsLife == ASSUME IInv, OwnerStep PROVE Life'
<1>1. pc = [t \in QP!Threads |-> pc[t]] /\ queue \in Seq(Msgs)
  BY QueueTypes DEF IInv
<1>2. CASE SetRunFlag \/ Start \/ Stop \/ Join \/ DestroyBegin
  <2>1. UNCHANGED <<pc, queue, late>>
    BY <1>2 DEF SetRunFlag, Start, Stop, Join, DestroyBegin, queueVars
  <2>2. LifeType' /\ Parties' /\ Flag'
    BY <1>2, <2>1 DEF SetRunFlag, Start, Stop, Join, DestroyBegin, IInv, Life, LifeType, Parties, Flag
  <2>3. own' \in {"armed", "started", "stopped", "quiet", "drain"} /\ pc[Owner] = "idle"
    BY <1>2 DEF SetRunFlag, Start, Stop, Join, DestroyBegin, IInv, Life, Parties
  <2> QED BY <2>1, <2>2, <2>3 DEF Draining, Life
<1>3. CASE DrainTest
  <2>1. /\ own = "drain" /\ UNCHANGED <<runFlag, work, late>> /\ pc[Owner] = "idle" /\ queue' = queue
        /\ \/ queue # <<>> /\ own' = own /\ pc' = [pc EXCEPT ![Owner] = "wait"]
           \/ queue = <<>> /\ own' = "destroyed" /\ pc' = pc
    BY <1>1, <1>3 DEF DrainTest, Q!GetCall, Q!Goto, queueVars
  <2> QED BY <1>1, <2>1, Everyone DEF IInv, Life, LifeType, Parties, Flag, Draining
<1>4. CASE DrainGet
  <2>1. /\ own = "drain" /\ UNCHANGED <<runFlag, work, own, late>>
        /\ \E l \in {"lock", "read", "pop", "unlock", "post", "held", "idle"} :
             pc' = [pc EXCEPT ![Owner] = l]
    BY <1>4 DEF DrainGet, GetInside, Q!GetWait, Q!GetLock, Q!GetRead, Q!GetPop, Q!GetUnlock,
                Q!GetPost, Q!Lock, Q!Unlock, Q!Release, Q!Goto
  <2>2. pc'[Owner] # "wait" /\ \A t \in QP!Threads \ {Owner} : pc'[t] = pc[t]
    BY <1>1, <2>1, Everyone
  <2> QED BY <2>1, <2>2, Everyone DEF IInv, Life, LifeType, Parties, Flag, Draining
<1> QED BY <1>2, <1>3, <1>4 DEF OwnerStep, Drain

LEMMA InvInductive == /\ Init => IInv
                      /\ IInv /\ [Next]_vars => IInv'
<1>1. Init => IInv
  BY QueueInit, LifeInit DEF IInv
<1>2. ASSUME IInv, [Next]_vars PROVE IInv'
  <2>1. QueueInv'
    BY <1>2, StepsQueue, QueueNext DEF IInv
  <2>2. UNCHANGED vars => Life'
    BY <1>2 DEF vars, queueVars, IInv, Life, LifeType, Parties, Flag, Draining
  <2>3. Life'
    BY <1>2, <2>2, PutterKeepsLife, WorkerKeepsLife, OwnerKeepsLife DEF Next, IInv
  <2> QED BY <2>1, <2>3 DEF IInv
<1> QED BY <1>1, <1>2

LEMMA WorkThreadInvariant == Spec => []IInv
BY InvInductive, PTL DEF Spec
-----------------------------------------------------------------------------
(* The types, and the worker's and the owner's use of the queue apart.     *)
THEOREM PartiesFit == Spec => []TypeOK
<1>1. IInv => TypeOK
  <2> SUFFICES ASSUME IInv PROVE TypeOK
    OBVIOUS
  <2>1. QP!TypeOK
    BY QueueAssumptions, QP!IInvImplies DEF IInv, QueueInv
  <2>2. Q!TypeOK
    BY <2>1 DEF Q!TypeOK, QP!TypeOK, Q!Threads, QP!Threads, Q!ProducerLabels, QP!ProducerLabels,
                Q!ConsumerLabels, QP!ConsumerLabels
  <2> QED BY <2>2 DEF TypeOK, IInv, Life, LifeType, Parties
<1> QED BY <1>1, WorkThreadInvariant, PTL

(* The destructor's unlocked size() can be trusted: a read token is free   *)
(* for the get() that follows it (work_thread.cpp:17-19).                  *)
THEOREM DestructorGoesOn == Spec => []DrainNeverBlocks
<1>1. IInv => DrainNeverBlocks
  <2> SUFFICES ASSUME IInv, own = "drain", pc[Owner] = "wait" PROVE semRead > 0
    BY DEF DrainNeverBlocks
  <2>1. (\A p \in Putters : pc[p] = "idle") /\ pc[Worker] = "idle" /\ queue # <<>>
    BY DEF IInv, Life, Parties, Draining
  <2>2. QP!PRead(pc) = 0
    BY <2>1, QueueAssumptions, QP!CountNone DEF QP!PRead, QP!PReadAt
  <2>3. QP!CRead(pc) = 0
    BY <2>1, QueueAssumptions, QP!CountNone DEF QP!CRead, QP!CReadAt
  <2>4. semRead \in Nat /\ Len(queue) <= semRead
    BY <2>2, <2>3 DEF IInv, QueueInv, QP!IInv, QP!Tokens
  <2>5. Len(queue) \in Nat /\ Len(queue) # 0
    BY <2>1, QueueTypes DEF IInv
  <2> QED BY <2>4, <2>5
<1> QED BY <1>1, WorkThreadInvariant, PTL

(* No message outlives the object (work_thread.cpp:15-23, 51-61).          *)
THEOREM NoneOutlives == Spec => []NothingLeaks
<1>1. IInv => NothingLeaks
  <2> SUFFICES ASSUME IInv, own = "destroyed", NEW m \in live PROVE FALSE
    BY DEF NothingLeaks
  <2>1. queue = <<>> /\ \A t \in QP!Threads : pc[t] = "idle"
    BY DEF IInv, Life, Parties, Draining, QP!Threads
  <2>2. \A t \in QP!Threads : pMsg[t] = NULL
    BY <2>1 DEF IInv, QueueInv, QP!Hold, QP!EmptyHanded
  <2>3. m # NULL
    BY WorkThreadAssumption DEF IInv, QueueInv, QP!IInv, QP!Shape, QP!Types
  <2>4. QP!Kept
    BY DEF IInv, QueueInv, QP!Hold
  <2>5. 1 .. Len(queue) = {}
    BY <2>1
  <2> QED BY <2>2, <2>3, <2>4, <2>5 DEF QP!Kept
<1> QED BY <1>1, WorkThreadInvariant, PTL

(* At most one message is processed after Stop has returned                *)
(* (work_thread.h:25, work_thread.cpp:48-61).                              *)
THEOREM OneAfterStop == Spec => []AtMostOneAfterStop
<1>1. IInv => AtMostOneAfterStop
  BY DEF IInv, Life, LifeType, AtMostOneAfterStop
<1> QED BY <1>1, WorkThreadInvariant, PTL
=============================================================================
