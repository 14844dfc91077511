---------------------------- MODULE BoundedDeque ----------------------------
(***************************************************************************)
(* What the message queue of src/common/synqueue_t.h promises the threads  *)
(* that share it, with each call reduced to three instants: it is made, it *)
(* takes effect, it returns.  There are no semaphores and no mutex here.   *)
(*                                                                         *)
(*   - put(pMsg) adds at the back, put(pMsg, CQUE_PRI_HIGH) at the front,  *)
(*     and waits while there are Bound messages;                           *)
(*   - get() removes the front message and waits while there is none: a    *)
(*     caller never receives NULL;                                         *)
(*   - a message is with one caller or in the queue, never with two.       *)
(***************************************************************************)
EXTENDS Integers, Sequences, Functions

CONSTANTS Producers, Consumers,  \* the threads that call put, and get
          Msgs,                  \* addresses of message objects
          NULL,                  \* the null pointer
          Ends,                  \* the ends put may add at: "back", "front"
          Bound                  \* the number of messages the queue may hold

VARIABLES items,   \* the queued messages, front first
          stage,   \* per thread: no call, a call under way, its effect done
          val,     \* per thread: the message it has in its hands
          end      \* per producer: the end its call adds at
vars == <<items, stage, val, end>>

Init == /\ items = <<>>
        /\ stage = [t \in Producers \cup Consumers |-> "idle"]
        /\ val = [t \in Producers \cup Consumers |-> NULL]
        /\ end = [p \in Producers |-> "back"]

InUse == Range(items) \cup Range(val)

PutCall(p, m, e) == /\ stage[p] = "idle" /\ m \notin InUse
                    /\ stage' = [stage EXCEPT ![p] = "called"]
                    /\ val' = [val EXCEPT ![p] = m]
                    /\ end' = [end EXCEPT ![p] = e]
                    /\ UNCHANGED items

PutEffect(p) == /\ stage[p] = "called" /\ Len(items) < Bound
                /\ items' = IF end[p] = "front" THEN <<val[p]>> \o items
                                                ELSE Append(items, val[p])
                /\ stage' = [stage EXCEPT ![p] = "done"]
                /\ val' = [val EXCEPT ![p] = NULL]
                /\ UNCHANGED end

PutReturn(p) == /\ stage[p] = "done"
                /\ stage' = [stage EXCEPT ![p] = "idle"]
                /\ end' = [end EXCEPT ![p] = "back"]
                /\ UNCHANGED <<items, val>>

GetCall(c) == /\ stage[c] = "idle"
              /\ stage' = [stage EXCEPT ![c] = "called"]
              /\ UNCHANGED <<items, val, end>>

GetEffect(c) == /\ stage[c] = "called" /\ items # <<>>
                /\ val' = [val EXCEPT ![c] = Head(items)]
                /\ items' = Tail(items)
                /\ stage' = [stage EXCEPT ![c] = "done"]
                /\ UNCHANGED end

(* The consumer has finished with the message and deletes it. *)
Release(c) == /\ stage[c] = "done"
              /\ val' = [val EXCEPT ![c] = NULL]
              /\ stage' = [stage EXCEPT ![c] = "idle"]
              /\ UNCHANGED <<items, end>>

Next == \/ \E p \in Producers : \/ \E m \in Msgs, e \in Ends : PutCall(p, m, e)
                                \/ PutEffect(p)
                                \/ PutReturn(p)
        \/ \E c \in Consumers : GetCall(c) \/ GetEffect(c) \/ Release(c)

Spec == Init /\ [][Next]_vars
=============================================================================
