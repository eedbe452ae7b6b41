------------------------------- MODULE Mutex -------------------------------
(***************************************************************************)
(* The sleeping mutex of kernel/locking/mutex.c, as built for x86-64 with  *)
(* CONFIG_MUTEX_SPIN_ON_OWNER and without mutex or lock debugging: the     *)
(* fast paths of arch/x86/include/asm/mutex_64.h, optimistic spinning on   *)
(* the owner, and the slow path with its wait list.                        *)
(*                                                                         *)
(* lock->count is changed by atomic instructions with or without           *)
(* lock->wait_lock, so every access to it is an action of its own.  An     *)
(* action that needs wait_lock takes it together with its first access to  *)
(* the count, and the last one before it is dropped drops it.  The wait    *)
(* list is only touched under wait_lock.                                   *)
(*                                                                         *)
(* need_resched(), rt_task() and owner->on_cpu are read from the           *)
(* scheduler: the model lets each be either value each time.               *)
(***************************************************************************)
EXTENDS ListSeq

CONSTANTS
  Tasks,       \* the tasks that use the mutex
  NULL,        \* the null task pointer
  WaitStates,  \* the task states callers wait in
  SentSignals, \* the kinds of signals sent to them
  MaxCalls     \* bound on the number of mutex_lock*() and mutex_trylock() calls

States == {"UNINTERRUPTIBLE", "INTERRUPTIBLE", "KILLABLE"}

Signals == {"none", "ordinary", "fatal"}

ASSUME NullAssumption == NULL \notin Tasks
ASSUME WaitStatesAssumption == WaitStates \subseteq States
ASSUME SentSignalsAssumption == SentSignals \subseteq Signals \ {"none"}
ASSUME MaxCallsAssumption == MaxCalls \in Nat

VARIABLES
  count,      \* lock->count: 1 free, 0 locked, negative: locked, maybe waiters
  owner,      \* lock->owner
  osq,        \* the task that holds lock->osq (see Osq.tla)
  wait_lock,  \* the task that holds lock->wait_lock
  wait_list,  \* lock->wait_list, oldest waiter first
  pc,         \* where a task is, see PC
  state,      \* the state argument of the task's __mutex_lock_common()
  seen,       \* the owner a spinner read last
  signal,     \* the signal pending for a task
  calls       \* lock calls made so far

vars == <<count, owner, osq, wait_lock, wait_list, pc, state, seen, signal, calls>>

----------------------------------------------------------------------------

PC == {"idle",
       \* mutex_optimistic_spin()
       "can_spin", "osq_lock", "spin", "spin_on_owner", "try_acquire",
       "spin_set_owner", "spin_osq_unlock", "osq_unlock",
       \* __mutex_lock_common(), after spinning
       "slow", "try_xchg", "loop", "loop_xchg", "check", "sleep", "woken",
       "remove_waiter", "slow_set_owner",
       \* the caller holds the mutex
       "fast_set_owner", "critical",
       \* mutex_unlock()
       "unlock", "slow_unlock", "wake"}

(* The tasks that took the mutex and have not given it back. *)
HoldingPC == {"spin_set_owner", "spin_osq_unlock", "remove_waiter",
              "slow_set_owner", "fast_set_owner", "critical", "unlock",
              "slow_unlock"}

Holders == {t \in Tasks : pc[t] \in HoldingPC}

(* include/linux/sched.h: does a pending signal end a sleep in state st?   *)
signal_pending_state(st, s) ==
  \/ st = "INTERRUPTIBLE" /\ s # "none"
  \/ st = "KILLABLE" /\ s = "fatal"

Goto(t, from, to) ==
  /\ pc[t] = from
  /\ pc' = [pc EXCEPT ![t] = to]

----------------------------------------------------------------------------

(* __mutex_init() *)
Init ==
  /\ count = 1
  /\ owner = NULL
  /\ osq = NULL
  /\ wait_lock = NULL
  /\ wait_list = <<>>
  /\ pc = [t \in Tasks |-> "idle"]
  /\ state = [t \in Tasks |-> "UNINTERRUPTIBLE"]
  /\ seen = [t \in Tasks |-> NULL]
  /\ signal = [t \in Tasks |-> "none"]
  /\ calls = 0

(* Faulty: looks at the count before the decrement. *)
mutex_lock_OldCount(t, st) ==
  /\ calls < MaxCalls
  /\ calls' = calls + 1
  /\ count' = count - 1
  /\ Goto(t, "idle", IF count < 0 THEN "can_spin" ELSE "fast_set_owner")
  /\ state' = [state EXCEPT ![t] = st]
  /\ UNCHANGED <<owner, osq, wait_lock, wait_list, seen, signal>>

(* mutex_lock(), mutex_lock_interruptible(), mutex_lock_killable(): the    *)
(* fast path decrements the count and has the mutex if it was 1.           *)
mutex_lock(t, st) ==
  /\ calls < MaxCalls
  /\ calls' = calls + 1
  /\ count' = count - 1
  /\ Goto(t, "idle", IF count' < 0 THEN "can_spin" ELSE "fast_set_owner")
  /\ state' = [state EXCEPT ![t] = st]
  /\ UNCHANGED <<owner, osq, wait_lock, wait_list, seen, signal>>

(* mutex_trylock(): cmpxchg of 1 to 0; a failed call changes nothing. *)
mutex_trylock(t) ==
  /\ calls < MaxCalls
  /\ calls' = calls + 1
  /\ IF count = 1
     THEN count' = 0 /\ Goto(t, "idle", "fast_set_owner")
     ELSE UNCHANGED count /\ Goto(t, "idle", "idle")
  /\ UNCHANGED <<owner, osq, wait_lock, wait_list, state, seen, signal>>

(* mutex_set_owner() after a fast path. *)
FastSetOwner(t) ==
  /\ Goto(t, "fast_set_owner", "critical")
  /\ owner' = t
  /\ UNCHANGED <<count, osq, wait_lock, wait_list, state, seen, signal, calls>>

----------------------------------------------------------------------------
(* mutex_optimistic_spin() *)

(* mutex_can_spin_on_owner(): no when the task has to reschedule or the    *)
(* owner is not running, yes when there is no owner.                       *)
CanSpin(t) ==
  /\ \/ Goto(t, "can_spin", "osq_lock")
     \/ Goto(t, "can_spin", "slow")
  /\ UNCHANGED <<count, owner, osq, wait_lock, wait_list, state, seen, signal, calls>>

(* osq_lock(): waits for its turn, or gives up when it has to reschedule.  *)
OsqLock(t) ==
  /\ \/ Goto(t, "osq_lock", "spin") /\ osq = NULL /\ osq' = t
     \/ Goto(t, "osq_lock", "slow") /\ UNCHANGED osq
  /\ UNCHANGED <<count, owner, wait_lock, wait_list, state, seen, signal, calls>>

(* The head of the spin loop: read lock->owner. *)
Spin(t) ==
  /\ Goto(t, "spin", IF owner = NULL THEN "try_acquire" ELSE "spin_on_owner")
  /\ seen' = [seen EXCEPT ![t] = owner]
  /\ UNCHANGED <<count, owner, osq, wait_lock, wait_list, state, signal, calls>>

(* mutex_spin_on_owner(): spins while the owner is the one seen, unless    *)
(* that one stops running or this task has to reschedule.                  *)
SpinOnOwner(t) ==
  /\ \/ owner # seen[t] /\ Goto(t, "spin_on_owner", "try_acquire")
     \/ owner = seen[t] /\ Goto(t, "spin_on_owner", "osq_unlock")
  /\ UNCHANGED <<count, owner, osq, wait_lock, wait_list, state, seen, signal, calls>>

(* mutex_try_to_acquire(): cmpxchg of 1 to 0.  On failure it spins on, or  *)
(* leaves if it saw no owner and has to reschedule or is a realtime task.  *)
TryAcquire(t) ==
  /\ \/ count = 1 /\ count' = 0 /\ Goto(t, "try_acquire", "spin_set_owner")
     \/ count # 1 /\ UNCHANGED count /\ Goto(t, "try_acquire", "spin")
     \/ /\ count # 1 /\ seen[t] = NULL
        /\ UNCHANGED count /\ Goto(t, "try_acquire", "osq_unlock")
  /\ UNCHANGED <<owner, osq, wait_lock, wait_list, state, seen, signal, calls>>

(* mutex_set_owner() after spinning. *)
SpinSetOwner(t) ==
  /\ Goto(t, "spin_set_owner", "spin_osq_unlock")
  /\ owner' = t
  /\ UNCHANGED <<count, osq, wait_lock, wait_list, state, seen, signal, calls>>

(* osq_unlock(), with the mutex taken or on the way to the slow path. *)
OsqUnlock(t) ==
  /\ \/ Goto(t, "spin_osq_unlock", "critical")
     \/ Goto(t, "osq_unlock", "slow")
  /\ osq' = NULL
  /\ seen' = [seen EXCEPT ![t] = NULL]
  /\ UNCHANGED <<count, owner, wait_lock, wait_list, state, signal, calls>>

----------------------------------------------------------------------------
(* __mutex_lock_common(), the slow path *)

(* Takes wait_lock and looks at the count once more: an xchg follows if    *)
(* the mutex is free, otherwise the waiter is queued.                      *)
SlowLock(t) ==
  /\ wait_lock = NULL
  /\ wait_lock' = t
  /\ IF count = 1
     THEN Goto(t, "slow", "try_xchg") /\ UNCHANGED wait_list
     ELSE Goto(t, "slow", "loop") /\ wait_list' = list_add_tail(wait_list, t)
  /\ UNCHANGED <<count, owner, osq, state, seen, signal, calls>>

(* xchg of the count to 0; somebody may have taken the mutex since. *)
TryXchg(t) ==
  /\ count' = 0
  /\ IF count = 1
     THEN Goto(t, "try_xchg", "slow_set_owner") /\ UNCHANGED wait_list
     ELSE Goto(t, "try_xchg", "loop") /\ wait_list' = list_add_tail(wait_list, t)
  /\ UNCHANGED <<owner, osq, wait_lock, state, seen, signal, calls>>

(* The head of the wait loop, entered with wait_lock held or, after        *)
(* schedule_preempt_disabled(), retaking it: is the count non-negative?    *)
Loop(t) ==
  LET next == IF count >= 0 THEN "loop_xchg" ELSE "check"
  IN  /\ \/ Goto(t, "loop", next) /\ UNCHANGED wait_lock
         \/ Goto(t, "woken", next) /\ wait_lock = NULL /\ wait_lock' = t
      /\ UNCHANGED <<count, owner, osq, wait_list, state, seen, signal, calls>>

(* Faulty: the count is left as for a mutex without waiters. *)
LoopXchg_NotContended(t) ==
  /\ count' = 0
  /\ Goto(t, "loop_xchg", IF count = 1 THEN "remove_waiter" ELSE "check")
  /\ UNCHANGED <<owner, osq, wait_lock, wait_list, state, seen, signal, calls>>

(* xchg of the count to -1, which marks the mutex contended whether or not *)
(* it gives t the mutex.                                                   *)
LoopXchg(t) ==
  /\ count' = -1
  /\ Goto(t, "loop_xchg", IF count = 1 THEN "remove_waiter" ELSE "check")
  /\ UNCHANGED <<owner, osq, wait_lock, wait_list, state, seen, signal, calls>>

(* Faulty: an interrupted waiter stays queued. *)
Check_NoListDel(t) ==
  /\ wait_lock' = NULL
  /\ Goto(t, "check", IF signal_pending_state(state[t], signal[t])
                      THEN "idle" ELSE "sleep")
  /\ UNCHANGED <<count, owner, osq, wait_list, state, seen, signal, calls>>

(* Not acquired: give up with -EINTR on a signal, else drop wait_lock and  *)
(* sleep.                                                                  *)
Check(t) ==
  /\ wait_lock' = NULL
  /\ IF signal_pending_state(state[t], signal[t])
     THEN Goto(t, "check", "idle") /\ wait_list' = list_del(wait_list, t)
     ELSE Goto(t, "check", "sleep") /\ UNCHANGED wait_list
  /\ UNCHANGED <<count, owner, osq, state, seen, signal, calls>>

(* Acquired: leave the wait list, and set the count to 0 if that is empty. *)
RemoveWaiter(t) ==
  /\ Goto(t, "remove_waiter", "slow_set_owner")
  /\ wait_list' = list_del(wait_list, t)
  /\ count' = IF wait_list' = <<>> THEN 0 ELSE count
  /\ UNCHANGED <<owner, osq, wait_lock, state, seen, signal, calls>>

(* mutex_set_owner() in the slow path, then wait_lock is dropped. *)
SlowSetOwner(t) ==
  /\ Goto(t, "slow_set_owner", "critical")
  /\ owner' = t
  /\ wait_lock' = NULL
  /\ UNCHANGED <<count, osq, wait_list, state, seen, signal, calls>>

----------------------------------------------------------------------------
(* mutex_unlock() *)

(* Faulty: the owner is not cleared. *)
mutex_unlock_KeepOwner(t) ==
  /\ Goto(t, "critical", "unlock")
  /\ UNCHANGED <<count, owner, osq, wait_lock, wait_list, state, seen, signal, calls>>

(* Faulty: a task may unlock a mutex it does not have. *)
mutex_unlock_NotHeld(t) ==
  /\ Goto(t, "critical", "unlock") \/ Goto(t, "idle", "unlock")
  /\ owner' = NULL
  /\ UNCHANGED <<count, osq, wait_lock, wait_list, state, seen, signal, calls>>

(* mutex_clear_owner() comes before the count is touched. *)
mutex_unlock(t) ==
  /\ Goto(t, "critical", "unlock")
  /\ owner' = NULL
  /\ UNCHANGED <<count, osq, wait_lock, wait_list, state, seen, signal, calls>>

(* The fast path increments the count; it is done if that made it positive. *)
FastUnlock(t) ==
  /\ count' = count + 1
  /\ Goto(t, "unlock", IF count' > 0 THEN "idle" ELSE "slow_unlock")
  /\ UNCHANGED <<owner, osq, wait_lock, wait_list, state, seen, signal, calls>>

(* Faulty: one more increment, as if nobody else had decremented. *)
SlowUnlock_Increment(t) ==
  /\ Goto(t, "slow_unlock", "wake")
  /\ count' = count + 1
  /\ UNCHANGED <<owner, osq, wait_lock, wait_list, state, seen, signal, calls>>

(* __mutex_unlock_common_slowpath(): first the mutex is made free... *)
SlowUnlock(t) ==
  /\ Goto(t, "slow_unlock", "wake")
  /\ count' = 1
  /\ UNCHANGED <<owner, osq, wait_lock, wait_list, state, seen, signal, calls>>

(* Faulty: wakes a waiter only if the mutex is still marked contended. *)
Wake_IfContended(t) ==
  /\ pc[t] = "wake"
  /\ wait_lock = NULL
  /\ pc' = [u \in Tasks |->
              CASE u = t -> "idle"
                [] u # t /\ wait_list # <<>> /\ u = Head(wait_list)
                         /\ pc[u] = "sleep" /\ count < 0 -> "woken"
                [] OTHER -> pc[u]]
  /\ UNCHANGED <<count, owner, osq, wait_lock, wait_list, state, seen, signal, calls>>

(* ... then, under wait_lock, the first waiter is woken.  It stays queued. *)
Wake(t) ==
  /\ pc[t] = "wake"
  /\ wait_lock = NULL
  /\ pc' = [u \in Tasks |->
              CASE u = t -> "idle"
                [] u # t /\ wait_list # <<>> /\ u = Head(wait_list)
                         /\ pc[u] = "sleep" -> "woken"
                [] OTHER -> pc[u]]
  /\ UNCHANGED <<count, owner, osq, wait_lock, wait_list, state, seen, signal, calls>>

----------------------------------------------------------------------------
(* The scheduler and the signal code, as the slow path uses them. *)

SendSignal(t) ==
  \E s \in SentSignals :
    /\ signal[t] = "none"
    /\ signal' = [signal EXCEPT ![t] = s]
    /\ pc' = IF pc[t] = "sleep" /\ signal_pending_state(state[t], s)
             THEN [pc EXCEPT ![t] = "woken"] ELSE pc
    /\ UNCHANGED <<count, owner, osq, wait_lock, wait_list, state, seen, calls>>

(* Back in user mode, a task takes its signal. *)
TakeSignal(t) ==
  /\ pc[t] = "idle" /\ signal[t] # "none"
  /\ signal' = [signal EXCEPT ![t] = "none"]
  /\ UNCHANGED <<count, owner, osq, wait_lock, wait_list, pc, state, seen, calls>>

Step(t) ==
  \/ FastSetOwner(t)
  \/ CanSpin(t) \/ OsqLock(t) \/ Spin(t) \/ SpinOnOwner(t) \/ TryAcquire(t)
  \/ SpinSetOwner(t) \/ OsqUnlock(t)
  \/ SlowLock(t) \/ TryXchg(t) \/ Loop(t) \/ LoopXchg(t) \/ Check(t)
  \/ RemoveWaiter(t) \/ SlowSetOwner(t)
  \/ mutex_unlock(t) \/ FastUnlock(t) \/ SlowUnlock(t) \/ Wake(t)

Next ==
  \E t \in Tasks :
    \/ \E st \in WaitStates : mutex_lock(t, st)
    \/ mutex_trylock(t)
    \/ Step(t)
    \/ SendSignal(t) \/ TakeSignal(t)

Spec == Init /\ [][Next]_vars

(* A running task is eventually scheduled and a holder unlocks; nobody has *)
(* to call mutex_lock() and no signal has to come.                         *)
FairSpec == Spec /\ \A t \in Tasks : WF_vars(Step(t))

----------------------------------------------------------------------------

TypeOK ==
  /\ count \in (0 - MaxCalls)..1
  /\ owner \in Tasks \cup {NULL}
  /\ osq \in Tasks \cup {NULL}
  /\ wait_lock \in Tasks \cup {NULL}
  /\ wait_list \in Seq(Tasks)
  /\ pc \in [Tasks -> PC]
  /\ state \in [Tasks -> States]
  /\ seen \in [Tasks -> Tasks \cup {NULL}]
  /\ signal \in [Tasks -> Signals]
  /\ calls \in 0..MaxCalls

(* At most one task has the mutex, by whichever of the fast path, trylock, *)
(* the spinners and the slow path it came.                                 *)
MutualExclusion == \A t, u \in Holders : t = u

(* The count tells the truth: it is 1 exactly when nobody has the mutex,   *)
(* although lockers that failed keep decrementing it and the slow path     *)
(* overwrites it with 0 and -1.                                            *)
CountMeaning == count <= 1 /\ (count = 1 <=> Holders = {})

(* Those that will yet look at the count again, or wake somebody who does. *)
Responsible ==
  {t \in Tasks : pc[t] \in {"wake", "slow_unlock", "woken", "loop", "loop_xchg",
                            "remove_waiter"}}

(* No waiter is left asleep: if somebody sleeps and the unlock to come     *)
(* would not wake him (the count is not negative), then somebody is on the *)
(* way who marks the mutex contended again, takes it or wakes the first    *)
(* waiter.                                                                 *)
NoLostWakeup ==
  (\E t \in Tasks : pc[t] = "sleep") /\ count >= 0 => Responsible # {}

(* lock->owner never names a task that does not have the mutex. *)
OwnerHolds == owner # NULL => owner \in Holders

(* wait_list links exactly the tasks in the wait loop, each once: a task   *)
(* that gets the mutex or is interrupted there takes itself off.           *)
WaitListExact ==
  /\ NoDuplicates(wait_list)
  /\ ToSet(wait_list) =
       {t \in Tasks : pc[t] \in {"loop", "loop_xchg", "check", "sleep", "woken",
                                 "remove_waiter"}}

(* Every lock call returns, with or without the mutex, and every unlock    *)
(* returns, once the tasks stop making new calls.                          *)
EveryCallReturns == \A t \in Tasks : pc[t] # "idle" ~> pc[t] = "idle"

============================================================================
