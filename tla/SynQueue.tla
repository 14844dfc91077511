------------------------------ MODULE SynQueue ------------------------------
(***************************************************************************)
(* CSynQueue<T> (src/common/synqueue_t.h): a deque of pointers guarded by  *)
(* a mutex, with two counting semaphores.  m_sem_write counts the slots    *)
(* that may still be filled and starts at m_maxsize - 1; m_sem_read counts *)
(* the messages that may be taken and starts at 0.  Every call is the      *)
(* sequence of its synchronisation operations, one step each, so that all  *)
(* interleavings of the calling threads are explored:                      *)
(*                                                                         *)
(*   put : sem_wait(write)  lock  push           unlock  sem_post(read)    *)
(*   get : sem_wait(read)   lock  read-front pop unlock  sem_post(write)   *)
(*                                                                         *)
(* get() reads the first element and removes it by two operations on the   *)
(* deque (lines 67 and 68), which only the mutex keeps together.           *)
(* Message objects are allocated by the caller of put and deleted by the   *)
(* caller of get, as CWorkThread::Run does; an address may be used again   *)
(* after that.                                                             *)
(***************************************************************************)
EXTENDS Integers, Sequences, FiniteSets, Functions

CONSTANTS Producers,  \* threads that call put
          Consumers,  \* threads that call get
          Msgs,       \* addresses of message objects
          NULL,       \* the null pointer
          Pris,       \* "none": put(pMsg); "high": put(pMsg, CQUE_PRI_HIGH);
                      \* "other": put(pMsg, pri) with any other priority
          Nobody,     \* the holder of a free mutex
          MaxSize     \* MAX_QUEUE_SIZE

ASSUME ThreadsAssumption == /\ IsFiniteSet(Producers) /\ IsFiniteSet(Consumers)
                            /\ Producers \cap Consumers = {}
                            /\ Nobody \notin Producers \cup Consumers
ASSUME MsgsAssumption == NULL \notin Msgs
ASSUME PrisAssumption == Pris \subseteq {"none", "high", "other"}
ASSUME MaxSizeAssumption == MaxSize \in Nat \ {0}

VARIABLES semWrite, semRead,  \* values of the two semaphores
          mutex,              \* the thread holding m_mutex_write, or Nobody
          queue,              \* m_queue, front first
          pc,                 \* per thread: the next operation of its call
          pMsg,               \* per thread: the local pMsg of put and get
          pri,                \* per producer: the argument pri of its put
          live                \* message objects allocated and not yet deleted
vars == <<semWrite, semRead, mutex, queue, pc, pMsg, pri, live>>

Threads == Producers \cup Consumers

Goto(t, label) == pc' = [pc EXCEPT ![t] = label]
At(S, labels) == {t \in S : pc[t] \in labels}

Init == /\ semWrite = MaxSize - 1
        /\ semRead = 0
        /\ mutex = Nobody
        /\ queue = <<>>
        /\ pc = [t \in Threads |-> "idle"]
        /\ pMsg = [t \in Threads |-> NULL]
        /\ pri = [p \in Producers |-> "none"]
        /\ live = {}
-----------------------------------------------------------------------------
(* Mutant: the mutex is not waited for. *)
LockUnguarded(t, next) == /\ pc[t] = "lock"
                          /\ mutex' = t
                          /\ Goto(t, next)
                          /\ UNCHANGED <<semWrite, semRead, queue, pMsg, pri, live>>

(* Both calls lock and unlock m_mutex_write around their use of m_queue. *)
Lock(t, next) == /\ pc[t] = "lock" /\ mutex = Nobody
                 /\ mutex' = t
                 /\ Goto(t, next)
                 /\ UNCHANGED <<semWrite, semRead, queue, pMsg, pri, live>>

Unlock(t) == /\ pc[t] = "unlock"
             /\ mutex' = Nobody
             /\ Goto(t, "post")
             /\ UNCHANGED <<semWrite, semRead, queue, pMsg, pri, live>>
-----------------------------------------------------------------------------
(* put: the caller hands over a message object it has just allocated. *)
PutCall(p, m, k) == /\ pc[p] = "idle" /\ m \notin live
                    /\ live' = live \cup {m}
                    /\ pMsg' = [pMsg EXCEPT ![p] = m]
                    /\ pri' = [pri EXCEPT ![p] = k]
                    /\ Goto(p, "wait")
                    /\ UNCHANGED <<semWrite, semRead, mutex, queue>>

PutWait(p) == /\ pc[p] = "wait" /\ semWrite > 0
              /\ semWrite' = semWrite - 1
              /\ Goto(p, "lock")
              /\ UNCHANGED <<semRead, mutex, queue, pMsg, pri, live>>

PutLock(p) == Lock(p, "push")

(* Mutant: CQUE_PRI_HIGH is ignored. *)
PushedAtBack(q, m, k) == IF k = "other" THEN q ELSE Append(q, m)

(* Mutant: only one of the two overloads queues. *)
PushedHighOnly(q, m, k) == IF k = "high" THEN <<m>> \o q ELSE q

(* A priority other than CQUE_PRI_HIGH matches no branch: nothing is queued. *)
Pushed(q, m, k) == CASE k = "none" -> Append(q, m)
                     [] k = "high" -> <<m>> \o q
                     [] OTHER      -> q

PutPush(p) == /\ pc[p] = "push"
              /\ queue' = Pushed(queue, pMsg[p], pri[p])
              /\ pMsg' = [pMsg EXCEPT ![p] = NULL]
              /\ Goto(p, "unlock")
              /\ UNCHANGED <<semWrite, semRead, mutex, pri, live>>

PutUnlock(p) == Unlock(p)

PutPost(p) == /\ pc[p] = "post"
              /\ semRead' = semRead + 1
              /\ pri' = [pri EXCEPT ![p] = "none"]
              /\ Goto(p, "idle")
              /\ UNCHANGED <<semWrite, mutex, queue, pMsg, live>>
-----------------------------------------------------------------------------
GetCall(c) == /\ pc[c] = "idle"
              /\ Goto(c, "wait")
              /\ UNCHANGED <<semWrite, semRead, mutex, queue, pMsg, pri, live>>

GetWait(c) == /\ pc[c] = "wait" /\ semRead > 0
              /\ semRead' = semRead - 1
              /\ Goto(c, "lock")
              /\ UNCHANGED <<semWrite, mutex, queue, pMsg, pri, live>>

GetLock(c) == Lock(c, "read")

(* The first element, if there is one; pMsg stays NULL otherwise. *)
GetRead(c) == /\ pc[c] = "read"
              /\ IF queue # <<>>
                 THEN /\ pMsg' = [pMsg EXCEPT ![c] = Head(queue)]
                      /\ Goto(c, "pop")
                 ELSE /\ UNCHANGED pMsg
                      /\ Goto(c, "unlock")
              /\ UNCHANGED <<semWrite, semRead, mutex, queue, pri, live>>

GetPop(c) == /\ pc[c] = "pop"
             /\ queue' = Tail(queue)
             /\ Goto(c, "unlock")
             /\ UNCHANGED <<semWrite, semRead, mutex, pMsg, pri, live>>

GetUnlock(c) == Unlock(c)

(* Mutant: the slot is given back only while there are more messages. *)
GetPostIfMore(c) == /\ pc[c] = "post"
                    /\ semWrite' = IF queue = <<>> THEN semWrite ELSE semWrite + 1
                    /\ Goto(c, "held")
                    /\ UNCHANGED <<semRead, mutex, queue, pMsg, pri, live>>

GetPost(c) == /\ pc[c] = "post"
              /\ semWrite' = semWrite + 1
              /\ Goto(c, "held")
              /\ UNCHANGED <<semRead, mutex, queue, pMsg, pri, live>>

(* The caller is done with what get returned: it deletes the object, or    *)
(* skips a NULL.                                                           *)
Release(c) == /\ pc[c] = "held"
              /\ live' = live \ {pMsg[c]}
              /\ pMsg' = [pMsg EXCEPT ![c] = NULL]
              /\ Goto(c, "idle")
              /\ UNCHANGED <<semWrite, semRead, mutex, queue, pri>>
-----------------------------------------------------------------------------
PutStep(p) == PutWait(p) \/ PutLock(p) \/ PutPush(p) \/ PutUnlock(p) \/ PutPost(p)
GetStep(c) == \/ GetCall(c) \/ GetWait(c) \/ GetLock(c) \/ GetRead(c)
              \/ GetPop(c) \/ GetUnlock(c) \/ GetPost(c) \/ Release(c)

Next == \/ \E p \in Producers : \/ \E m \in Msgs, k \in Pris : PutCall(p, m, k)
                                \/ PutStep(p)
        \/ \E c \in Consumers : GetStep(c)

Spec == Init /\ [][Next]_vars
-----------------------------------------------------------------------------
ProducerLabels == {"idle", "wait", "lock", "push", "unlock", "post"}
ConsumerLabels == {"idle", "wait", "lock", "read", "pop", "unlock", "post", "held"}

(* Each variable has its type; the semaphores never exceed the value       *)
(* MaxSize - 1 that m_sem_write starts from (synqueue_t.h:23).             *)
TypeOK == /\ semWrite \in 0 .. MaxSize - 1
          /\ semRead \in 0 .. MaxSize - 1
          /\ mutex \in Threads \cup {Nobody}
          /\ queue \in Seq(Msgs)
          /\ pc \in [Threads -> ProducerLabels \cup ConsumerLabels]
          /\ \A p \in Producers : pc[p] \in ProducerLabels
          /\ \A c \in Consumers : pc[c] \in ConsumerLabels
          /\ pMsg \in [Threads -> Msgs \cup {NULL}]
          /\ pri \in [Producers -> {"none"} \cup Pris]
          /\ live \subseteq Msgs

(* Tokens are neither made nor lost: what put takes from m_sem_write it    *)
(* gives to m_sem_read, and get gives it back, so at any moment the two    *)
(* semaphores and the threads between their sem_wait and their sem_post    *)
(* account for the MaxSize - 1 tokens the constructor made.                *)
TokenConservation ==
  semWrite + semRead
    + Cardinality(At(Producers, {"lock", "push", "unlock", "post"}))
    + Cardinality(At(Consumers, {"lock", "read", "pop", "unlock", "post"}))
    = MaxSize - 1

(* Messages for which a read token exists or is in a thread's hands: the   *)
(* free ones, those of producers that have pushed but not posted, those of *)
(* consumers that have waited but not popped.                              *)
ReadTokens == semRead + Cardinality(At(Producers, {"unlock", "post"}))
                      + Cardinality(At(Consumers, {"lock", "read", "pop"}))

(* The deque never holds more messages than put may admit, whatever the    *)
(* interleaving: no message is queued without its token (lines 36-42).     *)
QueueBacked == Len(queue) <= ReadTokens /\ Len(queue) <= MaxSize - 1

(* No message is delivered twice, and none is in two hands: a live message *)
(* is either in the queue, at one place, or with exactly one thread -- its *)
(* producer before the push or its consumer after the pop.  This is what   *)
(* the mutex is for (lines 38-40 and 63-70), and what makes `delete pMsg'  *)
(* after get() right.                                                      *)
Owners(m) == {t \in Threads : pMsg[t] = m /\ pc[t] # "pop"}
SoleOwner ==
  /\ \A i, j \in DOMAIN queue : queue[i] = queue[j] => i = j
  /\ \A m \in Range(queue) : m \in live /\ Owners(m) = {}
  /\ \A m \in Msgs : \A t, u \in Owners(m) : t = u

(* A put that returned has queued its message: no live message is lost,    *)
(* with neither a thread nor the queue holding its address.                *)
NoLeak == \A m \in live : m \in Range(queue) \/ Owners(m) # {}

(* A consumer that has passed sem_wait finds a message: the test for the   *)
(* empty deque in get() (line 65) never fails, and get() never returns     *)
(* NULL to a caller that would mistake it for a message.                   *)
GetFindsMessage == \A c \in Consumers : pc[c] \in {"read", "pop"} => queue # <<>>

(* The comment on m_sem_read (line 88) calls it the number of elements     *)
(* that can be read: there are never more read tokens than elements.       *)
ReadTokensAreElements == semRead <= Len(queue)

-----------------------------------------------------------------------------
(* The abstract queue: put takes effect at the push, get at the pop.       *)
StageOf(label) == CASE label = "idle" -> "idle"
                    [] label \in {"wait", "lock", "push", "read", "pop"} -> "called"
                    [] OTHER -> "done"
EndOf(k) == IF k = "high" THEN "front" ELSE "back"

Abs == INSTANCE BoundedDeque WITH
         Ends  <- {EndOf(k) : k \in Pris},
         Bound <- MaxSize - 1,
         items <- queue,
         stage <- [t \in Threads |-> StageOf(pc[t])],
         val   <- [t \in Threads |-> IF pc[t] = "pop" THEN NULL ELSE pMsg[t]],
         end   <- [p \in Producers |-> EndOf(pri[p])]

(* The semaphores and the mutex implement the abstract bounded deque:      *)
(* every step of the code is a step of BoundedDeque or changes nothing it  *)
(* can see, so order, capacity and single delivery are as promised there.  *)
ImplementsDeque == Abs!Spec
=============================================================================
