------------------------------- MODULE RWSem -------------------------------
(***************************************************************************)
(* The reader/writer semaphore of kernel/locking/rwsem.c and               *)
(* rwsem-xadd.c, as built for x86-64 with CONFIG_RWSEM_SPIN_ON_OWNER and   *)
(* without lock debugging: the fast paths of arch/x86/include/asm/rwsem.h  *)
(* and arch/x86/lib/rwsem.S, writers spinning on the owner, and the slow   *)
(* paths with their wait list.                                             *)
(*                                                                         *)
(* sem->count holds two numbers.  Its low half counts those that hold the  *)
(* lock or are trying to; the rest is RWSEM_WAITING_BIAS once for a        *)
(* non-empty wait list and once for each (would-be) writer.                *)
(*                                                                         *)
(* Every access to the count is an action of its own.  An action that      *)
(* needs wait_lock takes it together with its first access to shared       *)
(* state, and the last one before it is dropped drops it.  The wait list   *)
(* is only touched under wait_lock.  A reader's waiter.task is non-NULL    *)
(* exactly while the reader is on the list, so the list stands for both.   *)
(*                                                                         *)
(* need_resched(), rt_task() and owner->on_cpu are read from the           *)
(* scheduler: the model lets each be either value each time.               *)
(***************************************************************************)
EXTENDS ListSeq, FiniteSets

CONSTANTS
  Tasks,             \* the tasks that use the semaphore
  NULL,              \* the null task pointer
  RWSEM_ACTIVE_MASK, \* the low half of the count, as a bit mask
  MaxCalls           \* bound on the number of down_*() calls

ASSUME NullAssumption == NULL \notin Tasks
ASSUME TasksAssumption == IsFiniteSet(Tasks)
ASSUME MaskAssumption == RWSEM_ACTIVE_MASK \in Nat /\ RWSEM_ACTIVE_MASK > Cardinality(Tasks)
ASSUME MaxCallsAssumption == MaxCalls \in Nat

VARIABLES
  count,      \* sem->count
  owner,      \* sem->owner, set by writers only
  osq,        \* sem->osq: the spinners, the one whose turn it is first
  wait_lock,  \* the task that holds sem->wait_lock
  wait_list,  \* sem->wait_list, oldest waiter first
  pc,         \* where a task is, see PC
  op,         \* what a task called: read, write, up or downgrade
  state,      \* the task's scheduler state
  seen,       \* the owner a spinner read last
  tsk,        \* the reader a waker is about to wake
  calls       \* down_*() calls made so far

vars == <<count, owner, osq, wait_lock, wait_list, pc, op, state, seen, tsk, calls>>

----------------------------------------------------------------------------

RWSEM_WAITING_BIAS == -RWSEM_ACTIVE_MASK - 1
RWSEM_ACTIVE_READ_BIAS == 1
RWSEM_ACTIVE_WRITE_BIAS == RWSEM_WAITING_BIAS + 1

(* n & RWSEM_ACTIVE_MASK *)
Active(n) == n % (RWSEM_ACTIVE_MASK + 1)

PC == {"idle",
       \* rwsem_down_read_failed()
       "read_failed", "set_state", "check", "schedule",
       \* rwsem_down_write_failed() and rwsem_optimistic_spin()
       "write_failed", "can_spin", "osq_lock", "osq_wait", "spin",
       "spin_on_owner", "try_unqueued", "spin_set_owner", "spin_osq_unlock",
       "osq_unlock", "slow", "try_write", "relock", "add_waiting",
       "slow_set_owner",
       \* __rwsem_do_wake()
       "do_wake", "undo_grant", "count_readers", "grant", "grant_wake",
       \* the caller has the lock
       "reading", "write_set_owner", "writing",
       \* up_write(), downgrade_write() and the wakers
       "up_write", "wake", "wake_trylock", "wake_lock", "downgrade",
       "downgrade_wake"}

IsReader(t) == op[t] = "read"

Goto(t, from, to) ==
  /\ pc[t] = from
  /\ pc' = [pc EXCEPT ![t] = to]

----------------------------------------------------------------------------

(* __init_rwsem() *)
Init ==
  /\ count = 0
  /\ owner = NULL
  /\ osq = <<>>
  /\ wait_lock = NULL
  /\ wait_list = <<>>
  /\ pc = [t \in Tasks |-> "idle"]
  /\ op = [t \in Tasks |-> "none"]
  /\ state = [t \in Tasks |-> "RUNNING"]
  /\ seen = [t \in Tasks |-> NULL]
  /\ tsk = [t \in Tasks |-> NULL]
  /\ calls = 0

Call(t, o) ==
  /\ calls < MaxCalls
  /\ calls' = calls + 1
  /\ op' = [op EXCEPT ![t] = o]

(* down_read(): the reader has the lock unless the count is negative. *)
down_read(t) ==
  /\ Call(t, "read")
  /\ count' = count + RWSEM_ACTIVE_READ_BIAS
  /\ Goto(t, "idle", IF count' < 0 THEN "read_failed" ELSE "reading")
  /\ UNCHANGED <<owner, osq, wait_lock, wait_list, state, seen, tsk>>

(* Faulty: looks for active lockers and not for queued ones. *)
down_read_trylock_Barge(t) ==
  /\ Call(t, "read")
  /\ Active(count) = 0
  /\ count' = count + RWSEM_ACTIVE_READ_BIAS
  /\ Goto(t, "idle", "reading")
  /\ UNCHANGED <<owner, osq, wait_lock, wait_list, state, seen, tsk>>

(* down_read_trylock(); a failed call changes nothing. *)
down_read_trylock(t) ==
  /\ Call(t, "read")
  /\ count >= 0
  /\ count' = count + RWSEM_ACTIVE_READ_BIAS
  /\ Goto(t, "idle", "reading")
  /\ UNCHANGED <<owner, osq, wait_lock, wait_list, state, seen, tsk>>

(* down_write(): the writer has the lock if nobody was active, even if     *)
(* others are queued.                                                      *)
down_write(t) ==
  /\ Call(t, "write")
  /\ count' = count + RWSEM_ACTIVE_WRITE_BIAS
  /\ Goto(t, "idle", IF Active(count) = 0 THEN "write_set_owner" ELSE "write_failed")
  /\ UNCHANGED <<owner, osq, wait_lock, wait_list, state, seen, tsk>>

(* down_write_trylock(); a failed call changes nothing. *)
down_write_trylock(t) ==
  /\ Call(t, "write")
  /\ Active(count) = 0
  /\ count' = count + RWSEM_ACTIVE_WRITE_BIAS
  /\ Goto(t, "idle", "write_set_owner")
  /\ UNCHANGED <<owner, osq, wait_lock, wait_list, state, seen, tsk>>

(* rwsem_set_owner() at the end of down_write() *)
WriteSetOwner(t) ==
  /\ Goto(t, "write_set_owner", "writing")
  /\ owner' = t
  /\ UNCHANGED <<count, osq, wait_lock, wait_list, op, state, seen, tsk, calls>>

----------------------------------------------------------------------------
(* __rwsem_do_wake(), entered at "do_wake" with wait_lock held *)

(* The end of __rwsem_do_wake(), and what its callers do next: drop        *)
(* wait_lock, then wait for the lock (rwsem_down_read_failed()), sleep (in *)
(* rwsem_down_write_failed(), which saw active readers and does not try    *)
(* for the lock now), or return (rwsem_wake(), rwsem_downgrade_wake()).    *)
WakeDone(t, from, woken) ==
  /\ Goto(t, from, CASE op[t] = "read" -> "set_state"
                     [] op[t] = "write" -> "schedule"
                     [] op[t] = "up" -> "idle"
                     [] op[t] = "downgrade" -> "reading")
  /\ op' = [op EXCEPT ![t] = CASE op[t] = "up" -> "none"
                               [] op[t] = "downgrade" -> "read"
                               [] OTHER -> op[t]]
  /\ state' = [u \in Tasks |-> CASE u = t /\ op[t] = "write" -> "UNINTERRUPTIBLE"
                                 [] u \in woken -> "RUNNING"
                                 [] OTHER -> state[u]]
  /\ wait_lock' = NULL

(* A writer at the head of the list is woken if the caller wakes anybody   *)
(* (RWSEM_WAKE_ANY); it stays queued and has to win the lock itself.       *)
WakeWriter(t) ==
  /\ pc[t] = "do_wake" /\ ~IsReader(Head(wait_list))
  /\ WakeDone(t, "do_wake", IF op[t] \in {"read", "up"} THEN {Head(wait_list)} ELSE {})
  /\ UNCHANGED <<count, owner, osq, wait_list, seen, tsk, calls>>

(* Faulty: does not look for a writer that stole the lock. *)
ReaderGrant_NoCheck(t) ==
  /\ pc[t] = "do_wake" /\ IsReader(Head(wait_list))
  /\ IF op[t] = "downgrade"
     THEN Goto(t, "do_wake", "count_readers") /\ UNCHANGED count
     ELSE /\ count' = count + RWSEM_ACTIVE_READ_BIAS
          /\ Goto(t, "do_wake", "count_readers")
  /\ UNCHANGED <<owner, osq, wait_lock, wait_list, op, state, seen, tsk, calls>>

(* try_reader_grant: make one reader active before counting them, unless   *)
(* the caller itself is one (RWSEM_WAKE_READ_OWNED).                       *)
ReaderGrant(t) ==
  /\ pc[t] = "do_wake" /\ IsReader(Head(wait_list))
  /\ IF op[t] = "downgrade"
     THEN Goto(t, "do_wake", "count_readers") /\ UNCHANGED count
     ELSE /\ count' = count + RWSEM_ACTIVE_READ_BIAS
          /\ Goto(t, "do_wake", IF count < RWSEM_WAITING_BIAS
                                THEN "undo_grant" ELSE "count_readers")
  /\ UNCHANGED <<owner, osq, wait_lock, wait_list, op, state, seen, tsk, calls>>

(* Faulty: gives up even if the writer has left since. *)
UndoGrant_NoRetry(t) ==
  /\ count' = count - RWSEM_ACTIVE_READ_BIAS
  /\ WakeDone(t, "undo_grant", {})
  /\ UNCHANGED <<owner, osq, wait_list, seen, tsk, calls>>

(* A writer stole the lock: undo, and retry if it has left since. *)
UndoGrant(t) ==
  /\ count' = count - RWSEM_ACTIVE_READ_BIAS
  /\ IF Active(count') # 0
     THEN WakeDone(t, "undo_grant", {})
     ELSE /\ Goto(t, "undo_grant", "do_wake")
          /\ UNCHANGED <<op, wait_lock, state>>
  /\ UNCHANGED <<owner, osq, wait_list, seen, tsk, calls>>

(* The readers at the front of the list *)
FrontReaders ==
  LET writers == {i \in 1..Len(wait_list) : ~IsReader(wait_list[i])}
  IN  {i \in 1..Len(wait_list) : \A j \in writers : i < j}

(* Faulty: the waiting bias stays although the list gets empty. *)
CountReaders_KeepBias(t) ==
  LET woken == Cardinality(FrontReaders)
      had   == IF op[t] = "downgrade" THEN 0 ELSE 1
  IN  /\ Goto(t, "count_readers", "grant")
      /\ count' = count + woken * RWSEM_ACTIVE_READ_BIAS - had
      /\ UNCHANGED <<owner, osq, wait_lock, wait_list, op, state, seen, tsk, calls>>

(* Make all readers at the front of the list active, and take the waiting  *)
(* bias away if nobody is queued behind them.                              *)
CountReaders(t) ==
  LET woken == Cardinality(FrontReaders)
      had   == IF op[t] = "downgrade" THEN 0 ELSE RWSEM_ACTIVE_READ_BIAS
  IN  /\ Goto(t, "count_readers", "grant")
      /\ count' = count + woken * RWSEM_ACTIVE_READ_BIAS - had
                  - (IF woken = Len(wait_list) THEN RWSEM_WAITING_BIAS ELSE 0)
      /\ UNCHANGED <<owner, osq, wait_lock, wait_list, op, state, seen, tsk, calls>>

(* Faulty: wakes the reader first and then clears its waiter.task. *)
Grant_WakeFirst(t) ==
  \/ /\ Goto(t, "grant", "grant_wake")
     /\ state' = [state EXCEPT ![Head(wait_list)] = "RUNNING"]
     /\ UNCHANGED <<count, owner, osq, wait_lock, wait_list, op, seen, tsk, calls>>
  \/ /\ pc[t] = "grant_wake"
     /\ wait_list' = Tail(wait_list)
     /\ IF wait_list' # <<>> /\ IsReader(Head(wait_list'))
        THEN Goto(t, "grant_wake", "grant") /\ UNCHANGED <<op, state, wait_lock>>
        ELSE WakeDone(t, "grant_wake", {})
     /\ UNCHANGED <<count, owner, osq, seen, tsk, calls>>

(* Give each of them the lock: clear its waiter.task, then wake it.  It    *)
(* may see its task cleared, return and even call again before the wakeup. *)
Grant(t) ==
  \/ /\ Goto(t, "grant", "grant_wake")
     /\ tsk' = [tsk EXCEPT ![t] = Head(wait_list)]
     /\ wait_list' = Tail(wait_list)
     /\ UNCHANGED <<count, owner, osq, wait_lock, op, state, seen, calls>>
  \/ /\ IF wait_list # <<>> /\ IsReader(Head(wait_list))
        THEN /\ Goto(t, "grant_wake", "grant")
             /\ state' = [state EXCEPT ![tsk[t]] = "RUNNING"]
             /\ UNCHANGED <<op, wait_lock>>
        ELSE WakeDone(t, "grant_wake", {tsk[t]})
     /\ tsk' = [tsk EXCEPT ![t] = NULL]
     /\ UNCHANGED <<count, owner, osq, wait_list, seen, calls>>

----------------------------------------------------------------------------
(* rwsem_down_read_failed() *)

(* Queue up and stop being active.  If that leaves nobody active, or only  *)
(* readers and nobody queued in front, wake the front of the queue.        *)
ReadFailed(t) ==
  LET adjustment == (IF wait_list = <<>> THEN RWSEM_WAITING_BIAS ELSE 0) - RWSEM_ACTIVE_READ_BIAS
  IN  /\ wait_lock = NULL
      /\ wait_list' = list_add_tail(wait_list, t)
      /\ count' = count + adjustment
      /\ IF \/ count' = RWSEM_WAITING_BIAS
            \/ count' > RWSEM_WAITING_BIAS /\ wait_list = <<>>
         THEN Goto(t, "read_failed", "do_wake") /\ wait_lock' = t
         ELSE Goto(t, "read_failed", "set_state") /\ UNCHANGED wait_lock
      /\ UNCHANGED <<owner, osq, op, state, seen, tsk, calls>>

(* set_task_state(tsk, TASK_UNINTERRUPTIBLE), in both slow paths. *)
SetState(t) ==
  /\ Goto(t, "set_state", "check")
  /\ state' = [state EXCEPT ![t] = "UNINTERRUPTIBLE"]
  /\ UNCHANGED <<count, owner, osq, wait_lock, wait_list, op, seen, tsk, calls>>

(* A reader looks at its waiter.task, a writer at the count. *)
CheckWait(t) ==
  /\ CASE IsReader(t) /\ Contains(wait_list, t) -> Goto(t, "check", "schedule") /\ UNCHANGED state
       [] IsReader(t) /\ ~Contains(wait_list, t) ->
            Goto(t, "check", "reading") /\ state' = [state EXCEPT ![t] = "RUNNING"]
       [] ~IsReader(t) -> /\ Goto(t, "check", IF Active(count) # 0 THEN "schedule" ELSE "relock")
                          /\ UNCHANGED state
  /\ UNCHANGED <<count, owner, osq, wait_lock, wait_list, op, seen, tsk, calls>>

(* schedule() returns when somebody has woken the task.  Wakeups that have *)
(* nothing to do with this semaphore are left out: both loops look again   *)
(* at what they wait for.                                                  *)
Schedule(t) ==
  /\ state[t] = "RUNNING"
  /\ Goto(t, "schedule", "set_state")
  /\ UNCHANGED <<count, owner, osq, wait_lock, wait_list, op, state, seen, tsk, calls>>

----------------------------------------------------------------------------
(* rwsem_down_write_failed() and rwsem_optimistic_spin() *)

(* Take the write bias of the fast path back. *)
WriteFailed(t) ==
  /\ Goto(t, "write_failed", "can_spin")
  /\ count' = count - RWSEM_ACTIVE_WRITE_BIAS
  /\ UNCHANGED <<owner, osq, wait_lock, wait_list, op, state, seen, tsk, calls>>

(* rwsem_can_spin_on_owner(): not if the task has to reschedule, if the    *)
(* owner is not running, or if there is none and somebody is active.       *)
CanSpin(t) ==
  /\ \/ /\ owner # NULL \/ Active(count) = 0
        /\ Goto(t, "can_spin", "osq_lock")
     \/ Goto(t, "can_spin", "slow")
  /\ UNCHANGED <<count, owner, osq, wait_lock, wait_list, op, state, seen, tsk, calls>>

(* osq_lock(): joins the queue of spinners, waits for its turn, or gives   *)
(* up when it has to reschedule.                                           *)
OsqLock(t) ==
  /\ \/ /\ Goto(t, "osq_lock", IF osq = <<>> THEN "spin" ELSE "osq_wait")
        /\ osq' = Append(osq, t)
     \/ Goto(t, "osq_wait", "spin") /\ Head(osq) = t /\ UNCHANGED osq
     \/ Goto(t, "osq_wait", "slow") /\ osq' = list_del(osq, t)
  /\ UNCHANGED <<count, owner, wait_lock, wait_list, op, state, seen, tsk, calls>>

(* The head of the spin loop: read sem->owner. *)
Spin(t) ==
  /\ Goto(t, "spin", IF owner = NULL THEN "try_unqueued" ELSE "spin_on_owner")
  /\ seen' = [seen EXCEPT ![t] = owner]
  /\ UNCHANGED <<count, owner, osq, wait_lock, wait_list, op, state, tsk, calls>>

Free == count = 0 \/ count = RWSEM_WAITING_BIAS

(* rwsem_spin_on_owner(): spins while the owner is the one seen, unless    *)
(* that one stops running or this task has to reschedule.  Without a new   *)
(* owner it goes on only if the lock looks free: readers may have it.      *)
SpinOnOwner(t) ==
  /\ \/ owner = seen[t] /\ Goto(t, "spin_on_owner", "osq_unlock")
     \/ /\ owner # seen[t]
        /\ Goto(t, "spin_on_owner", IF owner # NULL \/ Free THEN "try_unqueued" ELSE "osq_unlock")
  /\ UNCHANGED <<count, owner, osq, wait_lock, wait_list, op, state, seen, tsk, calls>>

(* rwsem_try_write_lock_unqueued(): takes a lock that nobody has, past any *)
(* waiters.  On failure it spins on, or leaves if it saw no owner and has  *)
(* to reschedule or is a realtime task.                                    *)
TryUnqueued(t) ==
  /\ \/ /\ Free
        /\ count' = count + RWSEM_ACTIVE_WRITE_BIAS
        /\ Goto(t, "try_unqueued", "spin_set_owner")
     \/ ~Free /\ UNCHANGED count /\ Goto(t, "try_unqueued", "spin")
     \/ /\ ~Free /\ seen[t] = NULL
        /\ UNCHANGED count /\ Goto(t, "try_unqueued", "osq_unlock")
  /\ UNCHANGED <<owner, osq, wait_lock, wait_list, op, state, seen, tsk, calls>>

(* rwsem_set_owner() after spinning *)
SpinSetOwner(t) ==
  /\ Goto(t, "spin_set_owner", "spin_osq_unlock")
  /\ owner' = t
  /\ UNCHANGED <<count, osq, wait_lock, wait_list, op, state, seen, tsk, calls>>

(* osq_unlock(), with the lock taken or on the way to the slow path. *)
OsqUnlock(t) ==
  /\ \/ Goto(t, "spin_osq_unlock", "write_set_owner")
     \/ Goto(t, "osq_unlock", "slow")
  /\ osq' = Tail(osq)
  /\ seen' = [seen EXCEPT ![t] = NULL]
  /\ UNCHANGED <<count, owner, wait_lock, wait_list, op, state, tsk, calls>>

(* Queue up.  The first waiter adds the waiting bias; one behind others    *)
(* gets the readers among them going if readers have the lock.  It tries   *)
(* for the lock if nobody is active, else it sets its state and sleeps.    *)
SlowLock(t) ==
  LET waiting == wait_list # <<>>
      next == CASE count' = RWSEM_WAITING_BIAS -> "try_write"
                [] waiting /\ count' > RWSEM_WAITING_BIAS -> "do_wake"
                [] OTHER -> "schedule"
  IN  /\ wait_lock = NULL
      /\ wait_list' = list_add_tail(wait_list, t)
      /\ count' = count + (IF waiting THEN 0 ELSE RWSEM_WAITING_BIAS)
      /\ Goto(t, "slow", next)
      /\ wait_lock' = IF next = "schedule" THEN NULL ELSE t
      /\ state' = IF next = "do_wake" THEN state ELSE [state EXCEPT ![t] = "UNINTERRUPTIBLE"]
      /\ UNCHANGED <<owner, osq, op, seen, tsk, calls>>

(* rwsem_try_write_lock(): cmpxchg of the waiting bias to the write bias,  *)
(* on the first try or after retaking wait_lock.  On failure back to sleep *)
(* without wait_lock.                                                      *)
TryWriteLock(t) ==
  /\ \/ pc[t] = "try_write"
     \/ pc[t] = "relock" /\ wait_lock = NULL
  /\ IF count = RWSEM_WAITING_BIAS
     THEN /\ count' = RWSEM_ACTIVE_WRITE_BIAS
          /\ wait_lock' = t
          /\ Goto(t, pc[t], IF Len(wait_list) = 1 THEN "slow_set_owner" ELSE "add_waiting")
     ELSE /\ UNCHANGED count
          /\ wait_lock' = NULL
          /\ Goto(t, pc[t], "schedule")
  /\ UNCHANGED <<owner, osq, wait_list, op, state, seen, tsk, calls>>

(* The lock is taken and others are still queued: their bias goes back in. *)
AddWaiting(t) ==
  /\ Goto(t, "add_waiting", "slow_set_owner")
  /\ count' = count + RWSEM_WAITING_BIAS
  /\ UNCHANGED <<owner, osq, wait_lock, wait_list, op, state, seen, tsk, calls>>

(* rwsem_set_owner(), leave the list, drop wait_lock *)
SlowSetOwner(t) ==
  /\ Goto(t, "slow_set_owner", "write_set_owner")
  /\ owner' = t
  /\ wait_list' = list_del(wait_list, t)
  /\ state' = [state EXCEPT ![t] = "RUNNING"]
  /\ wait_lock' = NULL
  /\ UNCHANGED <<count, osq, op, seen, tsk, calls>>

----------------------------------------------------------------------------
(* up_read(), up_write(), downgrade_write() *)

(* The end of __up_read() and __up_write(): call rwsem_wake() if somebody  *)
(* waits and nobody is active any more.                                    *)
Up(t, bias) ==
  /\ count' = count - bias
  /\ IF count' < 0 /\ Active(count') = 0
     THEN Goto(t, pc[t], "wake") /\ op' = [op EXCEPT ![t] = "up"]
     ELSE Goto(t, pc[t], "idle") /\ op' = [op EXCEPT ![t] = "none"]
  /\ UNCHANGED <<owner, osq, wait_lock, wait_list, state, seen, tsk, calls>>

up_read(t) == pc[t] = "reading" /\ Up(t, RWSEM_ACTIVE_READ_BIAS)

(* rwsem_clear_owner(), for up_write() or for downgrade_write() *)
ClearOwner(t) ==
  /\ Goto(t, "writing", "up_write") \/ Goto(t, "writing", "downgrade")
  /\ owner' = NULL
  /\ UNCHANGED <<count, osq, wait_lock, wait_list, op, state, seen, tsk, calls>>

up_write(t) == pc[t] = "up_write" /\ Up(t, RWSEM_ACTIVE_WRITE_BIAS)

(* rwsem_wake(): are there spinners? *)
HasSpinner(t) ==
  /\ Goto(t, "wake", IF osq # <<>> THEN "wake_trylock" ELSE "wake_lock")
  /\ UNCHANGED <<count, owner, osq, wait_lock, wait_list, op, state, seen, tsk, calls>>

(* With spinners, the wakeup is left to them if wait_lock is busy. *)
WakeTrylock(t) ==
  /\ wait_lock # NULL
  /\ Goto(t, "wake_trylock", "idle")
  /\ op' = [op EXCEPT ![t] = "none"]
  /\ UNCHANGED <<count, owner, osq, wait_lock, wait_list, state, seen, tsk, calls>>

(* rwsem_wake() and rwsem_downgrade_wake() with wait_lock: wake unless the *)
(* list is empty.                                                          *)
WakeLocked(t) ==
  /\ pc[t] \in {"wake_trylock", "wake_lock", "downgrade_wake"}
  /\ wait_lock = NULL
  /\ IF wait_list # <<>>
     THEN Goto(t, pc[t], "do_wake") /\ wait_lock' = t /\ UNCHANGED <<op, state>>
     ELSE WakeDone(t, pc[t], {})
  /\ UNCHANGED <<count, owner, osq, wait_list, seen, tsk, calls>>

(* __downgrade_write(): the writer's waiting bias goes, its active one     *)
(* stays; if others wait, the readers in front of the queue may come in.   *)
downgrade_write(t) ==
  /\ count' = count - RWSEM_WAITING_BIAS
  /\ IF count' < 0
     THEN Goto(t, "downgrade", "downgrade_wake") /\ op' = [op EXCEPT ![t] = "downgrade"]
     ELSE Goto(t, "downgrade", "reading") /\ op' = [op EXCEPT ![t] = "read"]
  /\ UNCHANGED <<owner, osq, wait_lock, wait_list, state, seen, tsk, calls>>

----------------------------------------------------------------------------

Step(t) ==
  \/ WriteSetOwner(t)
  \/ WakeWriter(t) \/ ReaderGrant(t) \/ UndoGrant(t) \/ CountReaders(t) \/ Grant(t)
  \/ ReadFailed(t) \/ SetState(t) \/ CheckWait(t) \/ Schedule(t)
  \/ WriteFailed(t) \/ CanSpin(t) \/ OsqLock(t) \/ Spin(t) \/ SpinOnOwner(t)
  \/ TryUnqueued(t) \/ SpinSetOwner(t) \/ OsqUnlock(t)
  \/ SlowLock(t) \/ TryWriteLock(t) \/ AddWaiting(t) \/ SlowSetOwner(t)
  \/ up_read(t) \/ ClearOwner(t) \/ up_write(t)
  \/ HasSpinner(t) \/ WakeTrylock(t) \/ WakeLocked(t) \/ downgrade_write(t)

Next ==
  \E t \in Tasks :
    \/ down_read(t) \/ down_read_trylock(t)
    \/ down_write(t) \/ down_write_trylock(t)
    \/ Step(t)

Spec == Init /\ [][Next]_vars

(* A running task is eventually scheduled and a holder gives the lock      *)
(* back; nobody has to call down_read() or down_write().                   *)
FairSpec == Spec /\ \A t \in Tasks : WF_vars(Step(t))

----------------------------------------------------------------------------

TypeOK ==
  /\ count \in Int
  /\ owner \in Tasks \cup {NULL}
  /\ osq \in Seq(Tasks)
  /\ wait_lock \in Tasks \cup {NULL}
  /\ wait_list \in Seq(Tasks)
  /\ pc \in [Tasks -> PC]
  /\ op \in [Tasks -> {"none", "read", "write", "up", "downgrade"}]
  /\ state \in [Tasks -> {"RUNNING", "UNINTERRUPTIBLE"}]
  /\ seen \in [Tasks -> Tasks \cup {NULL}]
  /\ tsk \in [Tasks -> Tasks \cup {NULL}]
  /\ calls \in 0..MaxCalls

(* Those inside __rwsem_do_wake() *)
WakingPC == {"do_wake", "undo_grant", "count_readers", "grant", "grant_wake"}

(* Those that have the lock for reading: a reader that was granted it has  *)
(* it before it knows.                                                     *)
Readers ==
  {t \in Tasks :
     \/ pc[t] = "reading"
     \/ op[t] = "read" /\ ~Contains(wait_list, t)
        /\ pc[t] \in {"set_state", "check", "schedule"} \cup WakingPC
     \/ op[t] = "downgrade"}

(* Those that have it for writing *)
Writers ==
  {t \in Tasks : pc[t] \in {"spin_set_owner", "spin_osq_unlock", "add_waiting",
                            "slow_set_owner", "write_set_owner", "writing",
                            "up_write", "downgrade"}}

----------------------------------------------------------------------------

(* The semaphore is a reader/writer lock: whatever way a task came by it   *)
(* (fast path, trylock, spinning past the queue, the queue, a grant by     *)
(* another task, a downgrade), every change of who has it is one that      *)
(* RWLock allows.                                                          *)
RW == INSTANCE RWLock WITH readers <- Readers, writers <- Writers
IsRWLock == RW!Spec

(* The readers a waker has made active but not yet given the lock *)
InGrant ==
  LET Pending(t) == CASE pc[t] = "undo_grant" -> 1
                      [] pc[t] = "count_readers" -> IF op[t] = "downgrade" THEN 0 ELSE 1
                      [] pc[t] \in {"grant", "grant_wake"} -> Cardinality(FrontReaders)
                      [] OTHER -> 0
  IN  IF wait_lock = NULL THEN 0 ELSE Pending(wait_lock)

(* The count is the sum of what everybody put in: one for each reader that *)
(* has the lock, is being granted it or is about to fail, a write bias for *)
(* the writer and those about to fail, and one waiting bias while somebody *)
(* waits.                                                                  *)
CountDecodes ==
  LET failing(p) == {t \in Tasks : pc[t] = p}
      mid(ps) == wait_lock # NULL /\ pc[wait_lock] \in ps
      waiters == IF mid({"add_waiting"}) THEN 0
                 ELSE IF mid({"slow_set_owner"}) THEN (IF Len(wait_list) > 1 THEN 1 ELSE 0)
                 ELSE IF mid({"grant", "grant_wake"})
                      THEN (IF Len(wait_list) > Cardinality(FrontReaders) THEN 1 ELSE 0)
                 ELSE IF wait_list # <<>> THEN 1 ELSE 0
  IN  count = RWSEM_ACTIVE_READ_BIAS
                * (Cardinality(Readers \cup failing("read_failed")) + InGrant)
              + RWSEM_ACTIVE_WRITE_BIAS * Cardinality(Writers \cup failing("write_failed"))
              + RWSEM_WAITING_BIAS * waiters

(* Those that will look at the count or wake the queue before they sleep   *)
(* or return *)
Responsible ==
  {t \in Tasks :
     \/ pc[t] \in WakingPC \cup {"read_failed", "write_failed", "can_spin",
          "osq_lock", "osq_wait", "spin", "spin_on_owner", "try_unqueued",
          "osq_unlock", "slow", "try_write", "relock", "wake", "wake_trylock",
          "wake_lock", "downgrade_wake"}
     \/ /\ op[t] = "write" /\ Contains(wait_list, t)
        /\ state[t] = "RUNNING" \/ pc[t] = "check"}

(* No wakeup is lost: while somebody is queued, somebody has the lock and  *)
(* will wake the queue, or somebody is on the way who takes the lock or    *)
(* wakes the queue.                                                        *)
NoLostWakeup == wait_list # <<>> => Readers \cup Writers \cup Responsible # {}

(* Readers do not overtake queued writers: a task that gets the lock for   *)
(* reading, other than by downgrading, has no writer queued before it.     *)
NoBarging ==
  [][\A t \in Readers' \ (Readers \cup Writers) :
       LET before == IF Contains(wait_list, t) THEN IndexOf(wait_list, t) ELSE Len(wait_list)
       IN  \A i \in 1..before : IsReader(wait_list[i])]_vars

(* Every call returns, once the tasks stop making new ones. *)
EveryCallReturns == \A t \in Tasks : pc[t] # "idle" ~> pc[t] = "idle"

============================================================================
