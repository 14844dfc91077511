----------------------------- MODULE WorkThread -----------------------------
(***************************************************************************)
(* CWorkThread (src/common/work_thread.h, work_thread.cpp): a thread that  *)
(* takes messages from its own CSynQueue and processes them until its run  *)
(* flag is cleared.  Three kinds of threads meet in one object:            *)
(*                                                                         *)
(*   the putters  call PutMsgToInputList, that is m_pMsgList.put;          *)
(*   the worker   executes Run;                                            *)
(*   the owner    constructs the object, calls Start and Stop, waits for   *)
(*                the thread to end and destroys the object.               *)
(*                                                                         *)
(* The queue is the one of module SynQueue, step by step; its consumers    *)
(* are the worker and, in the destructor, the owner.  What the class       *)
(* leaves to derived classes and callers is external to src/common:        *)
(* setting m_nRunFlag before Start, joining m_nThreadId before the         *)
(* destructor, and not calling PutMsgToInputList once that has begun.      *)
(***************************************************************************)
EXTENDS Integers, Sequences, FiniteSets, Functions

CONSTANTS Putters,        \* threads that call PutMsgToInputList
          Worker, Owner,  \* the thread Start creates; the object's owner
          Msgs,           \* addresses of CSendMsg objects
          NULL, Nobody,   \* null pointer; holder of a free mutex
          MaxSize         \* MAX_QUEUE_SIZE

ASSUME WorkThreadAssumption == /\ IsFiniteSet(Putters)
                               /\ Worker # Owner /\ {Worker, Owner} \cap Putters = {}
                               /\ Nobody \notin Putters \cup {Worker, Owner}
                               /\ NULL \notin Msgs
                               /\ MaxSize \in Nat \ {0}

VARIABLES semWrite, semRead, mutex, queue, pc, pMsg, pri, live,  \* of m_pMsgList
          runFlag,  \* m_nRunFlag
          work,     \* where the worker is in Run
          own,      \* how far the owner is in the life of the object
          late      \* history: messages processed after Stop returned
queueVars == <<semWrite, semRead, mutex, queue, pc, pMsg, pri, live>>
vars == <<queueVars, runFlag, work, own, late>>

Q == INSTANCE SynQueue WITH Producers <- Putters, Consumers <- {Worker, Owner},
                            Pris <- {"none"}

(* The constructor: the flag is 0 and no thread exists. *)
Init == /\ Q!Init
        /\ runFlag = 0
        /\ work = "unborn"
        /\ own = "made"
        /\ late = 0
-----------------------------------------------------------------------------
(* PutMsgToInputList; no new call is made once the destructor has begun.   *)
PutMsgToInputList(p) == /\ \/ /\ own \notin {"drain", "destroyed"}
                              /\ \E m \in Msgs : Q!PutCall(p, m, "none")
                           \/ Q!PutStep(p)
                        /\ UNCHANGED <<runFlag, work, own, late>>
-----------------------------------------------------------------------------
(* Mutant: the worker stops when it finds nothing to do. *)
RunTestIdle == /\ work = "test"
               /\ IF runFlag = 1 /\ queue # <<>> THEN Q!GetCall(Worker) /\ work' = "get"
                                                 ELSE work' = "exited" /\ UNCHANGED queueVars
               /\ UNCHANGED <<runFlag, own, late>>

(* Mutant: the worker empties its queue before it stops. *)
RunTestDrain == /\ work = "test"
                /\ IF runFlag = 1 \/ queue # <<>> THEN Q!GetCall(Worker) /\ work' = "get"
                                                  ELSE work' = "exited" /\ UNCHANGED queueVars
                /\ UNCHANGED <<runFlag, own, late>>

(* Run: the flag is tested, then get() is called whatever happens to it.   *)
RunTest == /\ work = "test"
           /\ IF runFlag = 1 THEN /\ Q!GetCall(Worker)
                                  /\ work' = "get"
                             ELSE /\ work' = "exited"
                                  /\ UNCHANGED queueVars
           /\ UNCHANGED <<runFlag, own, late>>

(* A step of get() below the call and above the return. *)
GetInside(t) == \/ Q!GetWait(t) \/ Q!GetLock(t) \/ Q!GetRead(t)
                \/ Q!GetPop(t) \/ Q!GetUnlock(t) \/ Q!GetPost(t)

RunGet == work = "get" /\ GetInside(Worker) /\ UNCHANGED <<runFlag, work, own, late>>

(* Mutant: the message is not deleted after Process. *)
RunProcessKeep == /\ work = "get" /\ pc[Worker] = "held"
                  /\ pc' = [pc EXCEPT ![Worker] = "idle"]
                  /\ pMsg' = [pMsg EXCEPT ![Worker] = NULL]
                  /\ work' = "test"
                  /\ late' = IF own = "stopped" THEN late + 1 ELSE late
                  /\ UNCHANGED <<semWrite, semRead, mutex, queue, pri, live, runFlag, own>>

(* Process(pMsg), whose result is ignored, and delete, unless pMsg is NULL. *)
RunProcess == /\ work = "get"
              /\ Q!Release(Worker)
              /\ work' = "test"
              /\ late' = IF own = "stopped" /\ pMsg[Worker] # NULL
                         THEN late + 1 ELSE late
              /\ UNCHANGED <<runFlag, own>>
-----------------------------------------------------------------------------
(* A derived class sets the protected flag: no member of the class does.   *)
SetRunFlag == /\ own = "made"
              /\ runFlag' = 1
              /\ own' = "armed"
              /\ UNCHANGED <<queueVars, work, late>>

(* Start: pthread_create may fail, and then there is nothing to join. *)
Start == /\ own = "armed"
         /\ \/ work' = "test" /\ own' = "started"
            \/ own' = "quiet" /\ UNCHANGED work
         /\ UNCHANGED <<queueVars, runFlag, late>>

(* Mutant: the flag is not cleared. *)
StopNothing == /\ own = "started"
               /\ own' = "stopped"
               /\ UNCHANGED <<queueVars, runFlag, work, late>>

Stop == /\ own = "started"
        /\ runFlag' = 0
        /\ own' = "stopped"
        /\ UNCHANGED <<queueVars, work, late>>

Join == /\ own = "stopped" /\ work = "exited"
        /\ own' = "quiet"
        /\ UNCHANGED <<queueVars, runFlag, work, late>>

(* The destructor may begin when no call of PutMsgToInputList is under way. *)
DestroyBegin == /\ own = "quiet" /\ \A p \in Putters : pc[p] = "idle"
                /\ own' = "drain"
                /\ UNCHANGED <<queueVars, runFlag, work, late>>

(* Mutant: do ... while (size()). *)
DrainTestDoWhile == /\ own = "drain" /\ pc[Owner] = "idle"
                    /\ Q!GetCall(Owner)
                    /\ UNCHANGED <<runFlag, work, own, late>>

(* while (size()): an unlocked look at the deque, then get() and delete.   *)
DrainTest == /\ own = "drain" /\ pc[Owner] = "idle"
             /\ IF Len(queue) # 0 THEN Q!GetCall(Owner) /\ UNCHANGED own
                                  ELSE own' = "destroyed" /\ UNCHANGED queueVars
             /\ UNCHANGED <<runFlag, work, late>>

DrainGet == /\ own = "drain"
            /\ GetInside(Owner) \/ Q!Release(Owner)
            /\ UNCHANGED <<runFlag, work, own, late>>
-----------------------------------------------------------------------------
WorkerStep == RunTest \/ RunGet \/ RunProcess
Drain == DrainTest \/ DrainGet
OwnerStep == SetRunFlag \/ Start \/ Stop \/ Join \/ DestroyBegin \/ Drain
Next == WorkerStep \/ OwnerStep \/ \E p \in Putters : PutMsgToInputList(p)

Spec == Init /\ [][Next]_vars

(* Threads that can run are scheduled; a put or a destructor once begun    *)
(* goes on.  Whether to call put, Stop or the destructor is the callers'.  *)
Fairness == /\ WF_vars(WorkerStep) /\ WF_vars(Drain)
            /\ \A p \in Putters : WF_vars(Q!PutStep(p) /\ UNCHANGED <<runFlag, work, own, late>>)
FairSpec == Spec /\ Fairness
-----------------------------------------------------------------------------
(* The states of the three parties fit together: only a started object has *)
(* a worker in its loop, and none of its messages is touched by the owner  *)
(* before the worker has ended (work_thread.cpp:15-23, 35-63).             *)
TypeOK == /\ Q!TypeOK
          /\ runFlag \in {0, 1}
          /\ work \in {"unborn", "test", "get", "exited"}
          /\ own \in {"made", "armed", "started", "stopped", "quiet", "drain", "destroyed"}
          /\ work \in {"test", "get"} => own \in {"started", "stopped"}
          /\ pc[Owner] # "idle" => own = "drain"
          /\ late \in Nat

(* The destructor trusts size(), which takes neither the mutex nor a       *)
(* token, and then calls get(), which would block for ever if the count    *)
(* and the semaphore disagreed (work_thread.cpp:17-19).                    *)
DrainNeverBlocks == own = "drain" /\ pc[Owner] = "wait" => semRead > 0

(* Every message handed to PutMsgToInputList is deleted by the worker or   *)
(* by the destructor: none outlives the object.                            *)
NothingLeaks == own = "destroyed" => live = {}

(* Stop only clears the flag, which the worker tests between messages: it  *)
(* may still process the message it was getting, and no second one.        *)
AtMostOneAfterStop == late <= 1

(* While the object runs, every queued message is taken, or Stop is called. *)
QueuedIsProcessed == \A m \in Msgs :
  m \in Range(queue) /\ own = "started" ~> m \notin Range(queue) \/ own # "started"

(* Stop does not wake a worker blocked in get(); the next message does.    *)
MessageEndsStopped == own = "stopped" /\ queue # <<>> ~> work = "exited"
=============================================================================
