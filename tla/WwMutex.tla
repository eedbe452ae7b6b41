------------------------------ MODULE WwMutex ------------------------------
(***************************************************************************)
(* Wait/wound mutexes: the ww_mutex part of kernel/locking/mutex.c and     *)
(* include/linux/ww_mutex.h, as built for x86-64 without lock debugging.   *)
(*                                                                         *)
(* A task locks several ww_mutexes in any order under an acquire context,  *)
(* whose stamp tells its age.  A waiter that finds a lock held by an older *)
(* context while it holds others itself gets -EDEADLK; it then unlocks     *)
(* everything, waits for that lock with ww_mutex_lock_slow() and tries     *)
(* again.  A lock's ctx is written without wait_lock in the fast path and  *)
(* in ww_mutex_unlock(), and read under it by waiters, so accesses to ctx  *)
(* and to the count are actions of their own.                              *)
(*                                                                         *)
(* A task has one context at a time, so a ctx pointer is modelled by its   *)
(* task.  The mutex underneath is the one of Mutex.tla, with two things    *)
(* left out that do not matter for the contexts: owner and osq.  A task    *)
(* may spin or not, and stop spinning at any time; an iteration of the     *)
(* spin loop that does not get the lock changes nothing.                   *)
(***************************************************************************)
EXTENDS ListSeq, FiniteSets

CONSTANTS
  Tasks,      \* the tasks that lock
  Locks,      \* the ww_mutexes, all of one class
  NULL,       \* a null pointer
  Gone,       \* a pointer to a context that does not exist any more
  Plans,      \* the sequences of locks a task may want to lock
  Plain,      \* the tasks that lock without a context, one lock at a time
  Intr,       \* the tasks that use the interruptible functions
  ULONG_MAX,  \* the largest stamp
  FirstStamp, \* the class's stamp when the tasks start
  MaxCalls    \* bound on the number of times a task begins a plan

LONG_MAX == ULONG_MAX \div 2

ASSUME NullAssumption == {NULL, Gone} \cap (Tasks \cup Locks) = {} /\ NULL # Gone
ASSUME LocksAssumption == IsFiniteSet(Locks)
ASSUME PlansAssumption == \A t \in Tasks : Plans[t] \subseteq Seq(Locks) \ {<<>>}
ASSUME PlainAssumption ==
  Plain \subseteq Tasks /\ \A t \in Plain : \A p \in Plans[t] : Len(p) = 1
ASSUME StampAssumption ==
  ULONG_MAX \in Nat /\ ULONG_MAX % 2 = 1 /\ FirstStamp \in 0..ULONG_MAX
ASSUME MaxCallsAssumption == MaxCalls \in Nat

VARIABLES
  count,       \* lock->base.count
  ctx,         \* lock->ctx
  wait_lock,   \* who holds lock->base.wait_lock
  wait_list,   \* lock->base.wait_list, oldest waiter first
  class_stamp, \* ww_class->stamp
  stamp,       \* ctx->stamp of the task's context
  acquired,    \* ctx->acquired
  pc,          \* where a task is, see PC
  lock,        \* the lock a task locks or unlocks
  hold_ctx,    \* the context a waiter read from lock->ctx
  plan,        \* the locks a task wants, in order
  todo,        \* those it has still to ask for
  locked,      \* those it has, the last one first
  contended,   \* the lock it got -EDEADLK for
  signal,      \* the tasks that have a signal pending
  age,         \* the tasks that have a context, oldest first
  calls        \* plans begun so far

mutex == <<count, ctx, wait_lock, wait_list>>
context == <<class_stamp, stamp, acquired, age, calls>>
caller == <<plan, todo, locked, contended, signal>>
vars == <<mutex, context, pc, lock, hold_ctx, caller>>

----------------------------------------------------------------------------

PC == {"idle",
       \* __ww_mutex_lock(): fast path and ww_mutex_set_context_fastpath()
       "lock", "set_ctx", "read_count", "wake_all",
       \* mutex_optimistic_spin()
       "spin", "try",
       \* __mutex_lock_common()
       "slow", "try_xchg", "loop", "loop_xchg", "check", "check_stamp", "sleep",
       "woken", "remove_waiter", "skip_wait",
       \* the caller, and ww_mutex_unlock()
       "locked", "unlock", "unlock_count", "unlock_slow", "wake"}

Goto(t, from, to) ==
  /\ pc[t] = from
  /\ pc' = [pc EXCEPT ![t] = to]

(* wake_up_process() for those of a set of tasks that sleep *)
Woken(p, ts) == [u \in Tasks |-> IF u \in ts /\ p[u] = "sleep" THEN "woken" ELSE p[u]]

UseCtx(t) == t \notin Plain

(* Where a fast path that got the lock goes on *)
Got(t) == IF UseCtx(t) THEN "set_ctx" ELSE "locked"

----------------------------------------------------------------------------

(* ww_mutex_init() *)
Init ==
  /\ count = [l \in Locks |-> 1]
  /\ ctx = [l \in Locks |-> NULL]
  /\ wait_lock = [l \in Locks |-> NULL]
  /\ wait_list = [l \in Locks |-> <<>>]
  /\ class_stamp = FirstStamp
  /\ stamp = [t \in Tasks |-> 0]
  /\ acquired = [t \in Tasks |-> 0]
  /\ pc = [t \in Tasks |-> "idle"]
  /\ lock = [t \in Tasks |-> NULL]
  /\ hold_ctx = [t \in Tasks |-> NULL]
  /\ plan = [t \in Tasks |-> <<>>]
  /\ todo = [t \in Tasks |-> <<>>]
  /\ locked = [t \in Tasks |-> <<>>]
  /\ contended = [t \in Tasks |-> NULL]
  /\ signal = {}
  /\ age = <<>>
  /\ calls = 0

(* The caller wants the locks of a plan.  ww_acquire_init() takes a new    *)
(* stamp, which may wrap around.                                           *)
ww_acquire_init(t, p) ==
  /\ calls < MaxCalls
  /\ calls' = calls + 1
  /\ Goto(t, "idle", "lock")
  /\ plan' = [plan EXCEPT ![t] = p]
  /\ todo' = [todo EXCEPT ![t] = Tail(p)]
  /\ lock' = [lock EXCEPT ![t] = Head(p)]
  /\ IF UseCtx(t)
     THEN /\ class_stamp' = (class_stamp + 1) % (ULONG_MAX + 1)
          /\ stamp' = [stamp EXCEPT ![t] = class_stamp']
          /\ acquired' = [acquired EXCEPT ![t] = 0]
          /\ age' = Append(age, t)
     ELSE UNCHANGED <<class_stamp, stamp, acquired, age>>
  /\ UNCHANGED <<mutex, hold_ctx, locked, contended, signal>>

(* __ww_mutex_lock(), or mutex_lock() without a context: the fast path     *)
(* decrements the count and has the lock if it was 1.                      *)
ww_mutex_lock(t) ==
  LET l == lock[t]
  IN  /\ Goto(t, "lock", IF count[l] = 1 THEN Got(t) ELSE "spin")
      /\ count' = [count EXCEPT ![l] = count[l] - 1]
      /\ UNCHANGED <<ctx, wait_lock, wait_list, context, lock, hold_ctx, caller>>

(* ww_mutex_trylock(): cmpxchg of 1 to 0, without a context; if that fails *)
(* the caller does without the lock.                                       *)
ww_mutex_trylock(t) ==
  LET l == lock[t]
  IN  /\ pc[t] = "lock" /\ ~UseCtx(t)
      /\ IF count[l] = 1
         THEN Goto(t, "lock", "locked") /\ count' = [count EXCEPT ![l] = 0]
         ELSE Goto(t, "lock", "unlock") /\ UNCHANGED count
      /\ UNCHANGED <<ctx, wait_lock, wait_list, context, lock, hold_ctx, caller>>

(* ww_mutex_set_context_fastpath(): count the lock and set ctx, ... *)
SetCtx(t) ==
  LET l == lock[t]
  IN  /\ Goto(t, "set_ctx", "read_count")
      /\ acquired' = [acquired EXCEPT ![t] = acquired[t] + 1]
      /\ ctx' = [ctx EXCEPT ![l] = t]
      /\ UNCHANGED <<count, wait_lock, wait_list, class_stamp, stamp, age, calls,
                     lock, hold_ctx, caller>>

(* Faulty: nobody is woken. *)
ReadCount_NoWake(t) ==
  /\ Goto(t, "read_count", "locked")
  /\ UNCHANGED <<mutex, context, lock, hold_ctx, caller>>

(* ... then look whether the lock is contended, ... *)
ReadCount(t) ==
  /\ Goto(t, "read_count", IF count[lock[t]] = 0 THEN "locked" ELSE "wake_all")
  /\ UNCHANGED <<mutex, context, lock, hold_ctx, caller>>

(* ... and if so wake all waiters so that they look at ctx again. *)
WakeAll(t) ==
  LET l == lock[t]
  IN  /\ pc[t] = "wake_all"
      /\ wait_lock[l] = NULL
      /\ pc' = Woken([pc EXCEPT ![t] = "locked"], ToSet(wait_list[l]))
      /\ UNCHANGED <<mutex, context, lock, hold_ctx, caller>>

(* mutex_optimistic_spin(): a task that has other locks does not spin on a *)
(* lock whose ctx is set.                                                  *)
Spin(t) ==
  /\ \/ Goto(t, "spin", "slow")
     \/ /\ Goto(t, "spin", "try")
        /\ ~(UseCtx(t) /\ acquired[t] > 0 /\ ctx[lock[t]] # NULL)
  /\ UNCHANGED <<mutex, context, lock, hold_ctx, caller>>

(* mutex_try_to_acquire(): cmpxchg of 1 to 0 *)
TryAcquire(t) ==
  LET l == lock[t]
  IN  /\ \/ /\ Goto(t, "try", Got(t))
            /\ count[l] = 1
            /\ count' = [count EXCEPT ![l] = 0]
         \/ Goto(t, "try", "slow") /\ UNCHANGED count
      /\ UNCHANGED <<ctx, wait_lock, wait_list, context, lock, hold_ctx, caller>>

----------------------------------------------------------------------------
(* __mutex_lock_common(), the slow path; see Mutex.tla *)

SlowLock(t) ==
  LET l == lock[t]
  IN  /\ pc[t] = "slow"
      /\ wait_lock[l] = NULL
      /\ wait_lock' = [wait_lock EXCEPT ![l] = t]
      /\ IF count[l] = 1
         THEN Goto(t, "slow", "try_xchg") /\ UNCHANGED wait_list
         ELSE Goto(t, "slow", "loop")
              /\ wait_list' = [wait_list EXCEPT ![l] = list_add_tail(@, t)]
      /\ UNCHANGED <<count, ctx, context, lock, hold_ctx, caller>>

TryXchg(t) ==
  LET l == lock[t]
  IN  /\ pc[t] = "try_xchg"
      /\ count' = [count EXCEPT ![l] = 0]
      /\ IF count[l] = 1
         THEN Goto(t, "try_xchg", "skip_wait") /\ UNCHANGED wait_list
         ELSE Goto(t, "try_xchg", "loop")
              /\ wait_list' = [wait_list EXCEPT ![l] = list_add_tail(@, t)]
      /\ UNCHANGED <<ctx, wait_lock, context, lock, hold_ctx, caller>>

Loop(t) ==
  LET l    == lock[t]
      next == IF count[l] >= 0 THEN "loop_xchg" ELSE "check"
  IN  /\ \/ Goto(t, "loop", next) /\ UNCHANGED wait_lock
         \/ /\ Goto(t, "woken", next)
            /\ wait_lock[l] = NULL
            /\ wait_lock' = [wait_lock EXCEPT ![l] = t]
      /\ UNCHANGED <<count, ctx, wait_list, context, lock, hold_ctx, caller>>

LoopXchg(t) ==
  LET l == lock[t]
  IN  /\ Goto(t, "loop_xchg", IF count[l] = 1 THEN "remove_waiter" ELSE "check")
      /\ count' = [count EXCEPT ![l] = -1]
      /\ UNCHANGED <<ctx, wait_lock, wait_list, context, lock, hold_ctx, caller>>

(* Drop wait_lock and sleep. *)
Sleep(t, from) ==
  /\ Goto(t, from, "sleep")
  /\ wait_lock' = [wait_lock EXCEPT ![lock[t]] = NULL]
  /\ UNCHANGED <<wait_list, contended>>

(* Leave with an error: -EDEADLK if the lock is to be waited for later *)
Fail(t, from, to, deadlk) ==
  LET l == lock[t]
  IN  /\ Goto(t, from, to)
      /\ wait_list' = [wait_list EXCEPT ![l] = list_del(@, t)]
      /\ wait_lock' = [wait_lock EXCEPT ![l] = NULL]
      /\ contended' = [contended EXCEPT ![t] = IF deadlk THEN l ELSE NULL]

(* Not acquired.  If a signal is pending, -EINTR.  A task that has locks   *)
(* looks who holds this one: if it does itself, -EALREADY.                 *)
Check(t) ==
  LET c == ctx[lock[t]]
      look == UseCtx(t) /\ acquired[t] > 0
  IN  /\ pc[t] = "check"
      /\ \/ t \in signal /\ Fail(t, "check", "unlock", FALSE) /\ UNCHANGED hold_ctx
         \/ /\ t \notin signal
            /\ \/ (look => c = NULL) /\ Sleep(t, "check") /\ UNCHANGED hold_ctx
               \/ look /\ c = t /\ Fail(t, "check", "locked", FALSE) /\ UNCHANGED hold_ctx
               \/ /\ look /\ c \notin {NULL, t}
                  /\ Goto(t, "check", "check_stamp")
                  /\ hold_ctx' = [hold_ctx EXCEPT ![t] = c]
                  /\ UNCHANGED <<wait_lock, wait_list, contended>>
      /\ UNCHANGED <<count, ctx, context, lock, plan, todo, locked, signal>>

(* Faulty: compares stamps as they are. *)
Younger_NoWrap(a, b) == a > b

(* The test of __ww_mutex_lock_check_stamp(), which allows for wrapping.   *)
(* Contexts that exist at the same time do not have the same stamp, so     *)
(* comparing their addresses is left out.                                  *)
Younger(a, b) == a # b /\ (a - b) % (ULONG_MAX + 1) <= LONG_MAX

(* __ww_mutex_lock_check_stamp() reads the holder's stamp: whatever is     *)
(* there if the context is gone.  -EDEADLK if this task is younger.        *)
CheckStamp(t) ==
  LET h == hold_ctx[t]
  IN  /\ pc[t] = "check_stamp"
      /\ \/ /\ h # Gone => Younger(stamp[t], stamp[h])
            /\ Fail(t, "check_stamp", "unlock", TRUE)
         \/ /\ h # Gone => ~Younger(stamp[t], stamp[h])
            /\ Sleep(t, "check_stamp")
      /\ hold_ctx' = [hold_ctx EXCEPT ![t] = NULL]
      /\ UNCHANGED <<count, ctx, context, lock, plan, todo, locked, signal>>

(* ww_mutex_set_context_slowpath(), and wait_lock is dropped: set ctx and  *)
(* wake all waiters, with the waiters that are left in the list.           *)
SetCtxSlow(t, from, waiters) ==
  LET l == lock[t]
  IN  /\ pc[t] = from
      /\ IF UseCtx(t)
         THEN /\ acquired' = [acquired EXCEPT ![t] = acquired[t] + 1]
              /\ ctx' = [ctx EXCEPT ![l] = t]
              /\ pc' = Woken([pc EXCEPT ![t] = "locked"], ToSet(waiters))
         ELSE /\ pc' = [pc EXCEPT ![t] = "locked"]
              /\ UNCHANGED <<acquired, ctx>>
      /\ wait_lock' = [wait_lock EXCEPT ![l] = NULL]
      /\ UNCHANGED <<class_stamp, stamp, age, calls, lock, hold_ctx, caller>>

(* Faulty: the other waiters are not woken. *)
RemoveWaiter_NoWake(t) ==
  LET l == lock[t]
      waiters == list_del(wait_list[l], t)
  IN  /\ SetCtxSlow(t, "remove_waiter", <<>>)
      /\ wait_list' = [wait_list EXCEPT ![l] = waiters]
      /\ count' = [count EXCEPT ![l] = IF waiters = <<>> THEN 0 ELSE @]

(* Acquired in the wait loop: leave the list, and set the count to 0 if    *)
(* that is empty.                                                          *)
RemoveWaiter(t) ==
  LET l == lock[t]
      waiters == list_del(wait_list[l], t)
  IN  /\ SetCtxSlow(t, "remove_waiter", waiters)
      /\ wait_list' = [wait_list EXCEPT ![l] = waiters]
      /\ count' = [count EXCEPT ![l] = IF waiters = <<>> THEN 0 ELSE @]

(* Acquired at once under wait_lock *)
SkipWait(t) ==
  /\ SetCtxSlow(t, "skip_wait", wait_list[lock[t]])
  /\ UNCHANGED <<count, wait_list>>

----------------------------------------------------------------------------
(* The caller, as include/linux/ww_mutex.h asks it to behave *)

(* The lock function returned 0 or -EALREADY: go on with the plan, from    *)
(* the start after ww_mutex_lock_slow(), and unlock everything at its end. *)
Locked(t) ==
  LET l    == lock[t]
      rest == IF contended[t] = l THEN plan[t] ELSE todo[t]
  IN  /\ pc[t] = "locked"
      /\ locked' = [locked EXCEPT ![t] = IF Contains(@, l) THEN @ ELSE list_add(@, l)]
      /\ contended' = [contended EXCEPT ![t] = NULL]
      /\ IF rest = <<>>
         THEN Goto(t, "locked", "unlock") /\ UNCHANGED <<lock, todo>>
         ELSE /\ Goto(t, "locked", "lock")
              /\ lock' = [lock EXCEPT ![t] = Head(rest)]
              /\ todo' = [todo EXCEPT ![t] = Tail(rest)]
      /\ UNCHANGED <<mutex, context, hold_ctx, plan, signal>>

(* Everything is unlocked: after -EDEADLK call ww_mutex_lock_slow(), which *)
(* is ww_mutex_lock(), for the contended lock; otherwise ww_acquire_fini() *)
(* and return.                                                             *)
Unlocked(t) ==
  /\ pc[t] = "unlock" /\ locked[t] = <<>>
  /\ IF contended[t] # NULL
     THEN /\ Goto(t, "unlock", "lock")
          /\ lock' = [lock EXCEPT ![t] = contended[t]]
          /\ UNCHANGED <<age, hold_ctx, plan, todo, signal>>
     ELSE /\ Goto(t, "unlock", "idle")
          /\ lock' = [lock EXCEPT ![t] = NULL]
          /\ plan' = [plan EXCEPT ![t] = <<>>]
          /\ todo' = [todo EXCEPT ![t] = <<>>]
          /\ age' = IF UseCtx(t) THEN list_del(age, t) ELSE age
          /\ signal' = signal \ {t}
          /\ hold_ctx' = [u \in Tasks |-> IF hold_ctx[u] = t THEN Gone ELSE hold_ctx[u]]
  /\ UNCHANGED <<mutex, class_stamp, stamp, acquired, calls, locked, contended>>

----------------------------------------------------------------------------
(* ww_mutex_unlock() of one lock after the other *)

(* Faulty: mutex_unlock() is called instead. *)
ww_mutex_unlock_KeepCtx(t) ==
  /\ locked[t] # <<>>
  /\ Goto(t, "unlock", "unlock_count")
  /\ lock' = [lock EXCEPT ![t] = Head(locked[t])]
  /\ locked' = [locked EXCEPT ![t] = Tail(@)]
  /\ UNCHANGED <<mutex, context, hold_ctx, plan, todo, contended, signal>>

(* The lock is taken off the context, and ctx cleared before the count is  *)
(* touched.                                                                *)
ww_mutex_unlock(t) ==
  /\ locked[t] # <<>>
  /\ LET l == Head(locked[t])
     IN  /\ Goto(t, "unlock", "unlock_count")
         /\ lock' = [lock EXCEPT ![t] = l]
         /\ locked' = [locked EXCEPT ![t] = Tail(@)]
         /\ acquired' = IF ctx[l] = NULL THEN acquired
                        ELSE [acquired EXCEPT ![ctx[l]] = IF @ > 0 THEN @ - 1 ELSE @]
         /\ ctx' = [ctx EXCEPT ![l] = NULL]
  /\ UNCHANGED <<count, wait_lock, wait_list, class_stamp, stamp, age, calls,
                 hold_ctx, plan, todo, contended, signal>>

(* The rest is mutex_unlock(). *)
UnlockCount(t) ==
  LET l == lock[t]
  IN  /\ Goto(t, "unlock_count", IF count[l] + 1 > 0 THEN "unlock" ELSE "unlock_slow")
      /\ count' = [count EXCEPT ![l] = count[l] + 1]
      /\ UNCHANGED <<ctx, wait_lock, wait_list, context, lock, hold_ctx, caller>>

UnlockSlow(t) ==
  /\ Goto(t, "unlock_slow", "wake")
  /\ count' = [count EXCEPT ![lock[t]] = 1]
  /\ UNCHANGED <<ctx, wait_lock, wait_list, context, lock, hold_ctx, caller>>

Wake(t) ==
  LET waiters == wait_list[lock[t]]
  IN  /\ pc[t] = "wake"
      /\ wait_lock[lock[t]] = NULL
      /\ pc' = Woken([pc EXCEPT ![t] = "unlock"],
                     IF waiters = <<>> THEN {} ELSE {Head(waiters)})
      /\ UNCHANGED <<mutex, context, lock, hold_ctx, caller>>

----------------------------------------------------------------------------

(* The signal code; an interruptible sleeper is woken.  What is left of a  *)
(* signal when the task returns is forgotten: another one may come.        *)
Signal(t) ==
  /\ t \in Intr \ signal
  /\ pc[t] \in {"slow", "loop", "check", "sleep", "woken"}
  /\ signal' = signal \cup {t}
  /\ pc' = Woken(pc, {t})
  /\ UNCHANGED <<mutex, context, lock, hold_ctx, plan, todo, locked, contended>>

Step(t) ==
  \/ ww_mutex_lock(t) \/ ww_mutex_trylock(t)
  \/ SetCtx(t) \/ ReadCount(t) \/ WakeAll(t) \/ Spin(t) \/ TryAcquire(t)
  \/ SlowLock(t) \/ TryXchg(t) \/ Loop(t) \/ LoopXchg(t)
  \/ Check(t) \/ CheckStamp(t) \/ RemoveWaiter(t) \/ SkipWait(t)
  \/ Locked(t) \/ Unlocked(t)
  \/ ww_mutex_unlock(t) \/ UnlockCount(t) \/ UnlockSlow(t) \/ Wake(t)

Next ==
  \E t \in Tasks :
    \/ \E p \in Plans[t] : ww_acquire_init(t, p)
    \/ Step(t) \/ Signal(t)

Spec == Init /\ [][Next]_vars

(* A running task is eventually scheduled and gives its locks back; nobody *)
(* has to begin, and no signal has to come.                                *)
FairSpec == Spec /\ \A t \in Tasks : WF_vars(Step(t))

----------------------------------------------------------------------------

Older(t, u) == Contains(age, t) /\ Contains(age, u) /\ IndexOf(age, t) < IndexOf(age, u)

(* The tasks that have a lock *)
Holders(l) ==
  {t \in Tasks :
     \/ Contains(locked[t], l)
     \/ lock[t] = l /\ pc[t] \in {"set_ctx", "read_count", "wake_all", "remove_waiter",
                                  "skip_wait", "locked", "unlock_count", "unlock_slow"}}

(* A lock's ctx, and the number of locks that decides whether a waiter     *)
(* looks at it, are right: one task has a lock, it is the one ctx names,   *)
(* and acquired counts the locks whose ctx names the task.                 *)
ContextsRight ==
  /\ \A l \in Locks : \A t, u \in Holders(l) : t = u
  /\ \A l \in Locks : ctx[l] # NULL => ctx[l] \in Holders(l)
  /\ \A t \in Tasks : acquired[t] = Cardinality({l \in Locks : ctx[l] = t})

(* The tasks whose plans have a lock, and a lock that at most two have *)
Users(l) == {t \in Tasks : \E p \in Plans[t] : l \in ToSet(p)}
Paired(l) == \A t, u, v \in Users(l) : t = u \/ t = v \/ u = v

(* Nobody sleeps who has to back off, for a lock that two tasks share: a   *)
(* waiter that has other locks and sleeps behind an older context will be  *)
(* woken by the task that set the context, or by the unlock that came      *)
(* before.  With three tasks on a lock the code does not keep this: the    *)
(* fast path does not wake the second waiter, see NoDeadlock.              *)
SleepersMayWait ==
  \A t \in Tasks :
    LET l == lock[t]
    IN  pc[t] = "sleep" /\ Paired(l) /\ UseCtx(t) /\ acquired[t] > 0 /\ ctx[l] # NULL
          => \/ Older(t, ctx[l])
             \/ lock[ctx[l]] = l /\ pc[ctx[l]] \in {"read_count", "wake_all"}
             \/ t = Head(wait_list[l]) /\ \E u \in Tasks : lock[u] = l /\ pc[u] = "wake"

(* Only the younger of two contexts backs off, however often the stamps    *)
(* wrapped around, so the oldest one keeps its locks and gets what it      *)
(* waits for.  (The stamp of a context that is gone tells nothing.)        *)
OldestStays ==
  [][\A t \in Tasks :
       contended[t] = NULL /\ contended'[t] # NULL /\ hold_ctx[t] # Gone
         => Older(hold_ctx[t], t)]_vars

(* The test of ww_mutex_set_context_fastpath() does what its comment says: *)
(* if the count is 0 there is nobody to wake up.  Only the first waiter,   *)
(* whom the unlock before wakes, may have other locks then.  The code does *)
(* not see to this.                                                        *)
CountTells ==
  \A t \in Tasks :
    LET waiters == wait_list[lock[t]]
    IN  pc[t] = "read_count" /\ count[lock[t]] = 0
          => \A x \in ToSet(waiters) : UseCtx(x) /\ acquired[x] > 0 => x = Head(waiters)

(* No deadlock and no livelock in a run in which that test is never wrong: *)
(* every task gets its locks in whatever order it asks for them, or is     *)
(* interrupted, and returns.  Once it is wrong tasks may sleep for ever,   *)
(* see NoDeadlock.                                                         *)
EveryPlanEnds == []CountTells => \A t \in Tasks : pc[t] # "idle" ~> pc[t] = "idle"

(* Documentation/locking/ww-mutex-design.txt calls this a "Deadlock-Proof  *)
(* Mutex": never do all the tasks that have not returned sleep.            *)
NoDeadlock ==
  (\E t \in Tasks : pc[t] # "idle") => \E t \in Tasks : pc[t] \notin {"idle", "sleep"}

============================================================================
