---------------------------- MODULE BoundedQueue ----------------------------
(***************************************************************************)
(* BoundedQueue<T>: a closable bounded queue on one mutex and two          *)
(* condition variables.  The mutex makes each call atomic except where it  *)
(* waits; a waiting thread runs again when it was notified (or woke        *)
(* spuriously) and then tests its predicate anew.  The operators below are *)
(* the outcomes a call may have; the module that uses the queue joins each *)
(* outcome to what its thread does next.                                   *)
(***************************************************************************)
EXTENDS Naturals, Sequences

CONSTANT Capacity   \* capacity_

ASSUME CapacityAssumption == Capacity \in Nat \ {0}

VARIABLES
  queue,     \* queue_
  closed,    \* closed_
  notEmpty,  \* threads waiting on not_empty_
  notFull    \* threads waiting on not_full_

queueVars == <<queue, closed, notEmpty, notFull>>

QueueInit == queue = <<>> /\ closed = FALSE /\ notEmpty = {} /\ notFull = {}

(* notify_one: some waiting thread, if there is one, runs again.           *)
NotifyOne(waiters) ==
  IF waiters = {} THEN {{}} ELSE {waiters \ {t} : t \in waiters}

HasRoom == Len(queue) < Capacity

(* push: a closed queue swallows the item, an open one with room takes it  *)
(* and notifies one pop, a full one makes the caller wait.                 *)
Push(item) ==
  /\ closed \/ HasRoom
  /\ queue' = IF closed THEN queue ELSE Append(queue, item)
  /\ notEmpty' \in IF closed THEN {notEmpty} ELSE NotifyOne(notEmpty)
  /\ UNCHANGED <<closed, notFull>>

PushWaits(t) ==
  /\ ~closed /\ ~HasRoom
  /\ notFull' = notFull \cup {t}
  /\ UNCHANGED <<queue, closed, notEmpty>>

(* Mutant: pop does not notify a push that waits for room.                 *)
AfterPop_NoNotify == {notFull}

(* The threads that still wait for room after an item was taken.           *)
AfterPop == NotifyOne(notFull)

(* pop: an item while there is one, even from a closed queue; the caller   *)
(* waits on an empty open queue and is told the end by a closed one.       *)
Pop ==
  /\ queue # <<>>
  /\ queue' = Tail(queue)
  /\ notFull' \in AfterPop
  /\ UNCHANGED <<closed, notEmpty>>

PopWaits(t) ==
  /\ queue = <<>> /\ ~closed
  /\ notEmpty' = notEmpty \cup {t}
  /\ UNCHANGED <<queue, closed, notFull>>

PopEnds == queue = <<>> /\ closed /\ UNCHANGED queueVars

(* Mutant: close sets the flag and notifies nobody.                        *)
Close_NoNotify ==
  closed' = TRUE /\ UNCHANGED <<queue, notEmpty, notFull>>

(* close: both condition variables are notified.                           *)
Close ==
  /\ closed' = TRUE
  /\ notEmpty' = {}
  /\ notFull' = {}
  /\ UNCHANGED queue

(* Condition variables may wake a thread without a notification.           *)
SpuriousWakeup(t) ==
  /\ t \in notEmpty \cup notFull
  /\ notEmpty' = notEmpty \ {t}
  /\ notFull' = notFull \ {t}
  /\ UNCHANGED <<queue, closed>>

Waiting(t) == t \in notEmpty \cup notFull

=============================================================================
