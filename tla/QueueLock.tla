----------------------------- MODULE QueueLock -----------------------------
(***************************************************************************)
(* What lock->osq promises its users (kernel/locking/mutex.c and           *)
(* rwsem-xadd.c): one holder, waiters served in the order of arrival, and  *)
(* a waiter may leave the queue without the lock.  Osq.tla implements it.  *)
(***************************************************************************)
EXTENDS ListSeq

CONSTANTS Cpus, NULL

VARIABLES holder, waiting

qvars == <<holder, waiting>>

Init == holder = NULL /\ waiting = <<>>

(* osq_lock() of a free lock *)
LockFree(c) ==
  /\ holder = NULL /\ waiting = <<>>
  /\ holder' = c
  /\ UNCHANGED waiting

Enqueue(c) ==
  /\ c # holder /\ ~Contains(waiting, c)
  /\ waiting' = Append(waiting, c)
  /\ UNCHANGED holder

Acquire(c) ==
  /\ holder = NULL /\ waiting # <<>> /\ Head(waiting) = c
  /\ holder' = c
  /\ waiting' = Tail(waiting)

GiveUp(c) ==
  /\ Contains(waiting, c)
  /\ waiting' = list_del(waiting, c)
  /\ UNCHANGED holder

Release(c) ==
  /\ holder = c
  /\ holder' = NULL
  /\ UNCHANGED waiting

Next ==
  \E c \in Cpus :
    LockFree(c) \/ Enqueue(c) \/ Acquire(c) \/ GiveUp(c) \/ Release(c)

Spec == Init /\ [][Next]_qvars

============================================================================
