----------------------------- MODULE Semaphore -----------------------------
(***************************************************************************)
(* The counting semaphore of kernel/locking/semaphore.c.                   *)
(*                                                                         *)
(* Every function takes sem->lock (a raw spinlock, interrupts off) around  *)
(* all it does and drops it only around schedule_timeout(), so an action   *)
(* is one critical section of sem->lock: a call of down*(), up(), or one   *)
(* turn of the loop of __down_common() after schedule_timeout() returned.  *)
(*                                                                         *)
(* The permits are anonymous: the code never records who holds one.  The   *)
(* holders ("held") exist only in the model, so that the properties can    *)
(* talk about them.                                                        *)
(***************************************************************************)
EXTENDS ListSeq

CONSTANTS
  Tasks,       \* the tasks that call down*() and up()
  InitCount,   \* the value given to sema_init()
  MaxTimeout,  \* longest finite timeout of down_timeout(), in jiffies
  MaxExtra     \* bound on the up() calls made by contexts that hold no permit

ASSUME TasksAssumption == IsFiniteSet(Tasks)
ASSUME InitCountAssumption == InitCount \in Nat
ASSUME MaxTimeoutAssumption == MaxTimeout \in Nat
ASSUME MaxExtraAssumption == MaxExtra \in Nat

VARIABLES
  count,      \* sem->count
  wait_list,  \* sem->wait_list: the waiters' tasks, oldest first
  waiter_up,  \* waiter.up of the semaphore_waiter on each task's stack
  sem_pc,     \* where a task is, see SemPC
  state,      \* the state argument of the task's __down_common()
  timeout,    \* jiffies left of the task's __down_common()
  signal,     \* the signal pending for a task
  extra       \* up() calls made so far by contexts that hold no permit

sem_vars == <<count, wait_list, waiter_up, sem_pc, state, timeout, signal, extra>>

----------------------------------------------------------------------------

(* "idle": outside the semaphore; "sleep": in schedule_timeout(), not yet  *)
(* woken; "woken": runnable again, about to retake sem->lock; "held": its  *)
(* last down*() returned 0.                                                *)
SemPC == {"idle", "sleep", "woken", "held"}

States == {"UNINTERRUPTIBLE", "INTERRUPTIBLE", "KILLABLE"}

Signals == {"none", "ordinary", "fatal"}

(* MAX_SCHEDULE_TIMEOUT: schedule_timeout() sleeps without a timer and     *)
(* returns it unchanged.                                                   *)
MAX_SCHEDULE_TIMEOUT == MaxTimeout + 1

Waiting(t) == sem_pc[t] \in {"sleep", "woken"}

(* A permit that __up() gave to a waiter that has not run since. *)
HandedOff(t) == Waiting(t) /\ waiter_up[t]

(* include/linux/sched.h: does a pending signal end a sleep in state st?   *)
signal_pending_state(st, s) ==
  \/ st = "INTERRUPTIBLE" /\ s # "none"
  \/ st = "KILLABLE" /\ s = "fatal"

----------------------------------------------------------------------------

(* sema_init() *)
SemInit ==
  /\ count = InitCount
  /\ wait_list = <<>>
  /\ waiter_up = [t \in Tasks |-> FALSE]
  /\ sem_pc = [t \in Tasks |-> "idle"]
  /\ state = [t \in Tasks |-> "UNINTERRUPTIBLE"]
  /\ timeout = [t \in Tasks |-> MAX_SCHEDULE_TIMEOUT]
  /\ signal = [t \in Tasks |-> "none"]
  /\ extra = 0

(* The common part of every down*(): the count is positive and one permit  *)
(* is taken without waiting.                                               *)
FastDown(t) ==
  /\ sem_pc[t] = "idle"
  /\ count > 0
  /\ count' = count - 1
  /\ sem_pc' = [sem_pc EXCEPT ![t] = "held"]
  /\ UNCHANGED <<wait_list, waiter_up, state, timeout, signal, extra>>

(* __down_common() up to its first schedule_timeout(): the waiter is       *)
(* queued last and the task sleeps.  A signal already pending or a timeout *)
(* that is not positive unqueues the waiter again under the same lock, so  *)
(* nothing changes and the call fails with -EINTR or -ETIME.               *)
SlowDown(t, st, to) ==
  /\ sem_pc[t] = "idle"
  /\ count = 0
  /\ IF signal_pending_state(st, signal[t]) \/ to <= 0
     THEN UNCHANGED <<wait_list, waiter_up, sem_pc, state, timeout>>
     ELSE /\ wait_list' = list_add_tail(wait_list, t)
          /\ waiter_up' = [waiter_up EXCEPT ![t] = FALSE]
          /\ sem_pc' = [sem_pc EXCEPT ![t] = "sleep"]
          /\ state' = [state EXCEPT ![t] = st]
          /\ timeout' = [timeout EXCEPT ![t] = to]
  /\ UNCHANGED <<count, signal, extra>>

down(t) ==
  FastDown(t) \/ SlowDown(t, "UNINTERRUPTIBLE", MAX_SCHEDULE_TIMEOUT)

down_interruptible(t) ==
  FastDown(t) \/ SlowDown(t, "INTERRUPTIBLE", MAX_SCHEDULE_TIMEOUT)

down_killable(t) ==
  FastDown(t) \/ SlowDown(t, "KILLABLE", MAX_SCHEDULE_TIMEOUT)

down_timeout(t) ==
  \E jiffies \in 0..MaxTimeout :
    FastDown(t) \/ SlowDown(t, "UNINTERRUPTIBLE", jiffies)

(* Fails, changing nothing, when count - 1 is negative. *)
down_trylock(t) ==
  FastDown(t) \/ (sem_pc[t] = "idle" /\ count - 1 < 0 /\ UNCHANGED sem_vars)

(* What schedule_timeout() may return to t: the jiffies left. *)
JiffiesLeft(t) ==
  IF timeout[t] = MAX_SCHEDULE_TIMEOUT THEN {timeout[t]} ELSE 0..timeout[t]

(* Faulty: the signal and the timeout are looked at before the permit. *)
Resume_SignalFirst(t) ==
  /\ sem_pc[t] = "woken"
  /\ \E left \in JiffiesLeft(t) :
       LET fail == signal_pending_state(state[t], signal[t]) \/ left <= 0
       IN  /\ sem_pc' = [sem_pc EXCEPT ![t] = CASE fail -> "idle"
                                                [] ~fail /\ waiter_up[t]  -> "held"
                                                [] ~fail /\ ~waiter_up[t] -> "sleep"]
           /\ wait_list' = IF fail THEN SelectSeq(wait_list, LAMBDA u : u # t)
                                   ELSE wait_list
           /\ timeout' = [timeout EXCEPT ![t] = left]
  /\ waiter_up' = [waiter_up EXCEPT ![t] = FALSE]
  /\ UNCHANGED <<count, state, signal, extra>>

(* Faulty: a waiter that gives up stays linked. *)
Resume_NoListDel(t) ==
  /\ sem_pc[t] = "woken"
  /\ \E left \in JiffiesLeft(t) :
       LET fail == signal_pending_state(state[t], signal[t]) \/ left <= 0
       IN  /\ sem_pc' = [sem_pc EXCEPT ![t] = CASE waiter_up[t] -> "held"
                                                [] ~waiter_up[t] /\ fail  -> "idle"
                                                [] ~waiter_up[t] /\ ~fail -> "sleep"]
           /\ timeout' = [timeout EXCEPT ![t] = left]
  /\ waiter_up' = [waiter_up EXCEPT ![t] = FALSE]
  /\ UNCHANGED <<count, wait_list, state, signal, extra>>

(* __down_common() after schedule_timeout(): one turn of its loop.  The    *)
(* permit is looked at before the signal and the timeout.  When it         *)
(* returns, its state and timeout are gone, which the model shows as their *)
(* initial values.                                                         *)
Resume(t) ==
  /\ sem_pc[t] = "woken"
  /\ \E left \in JiffiesLeft(t) :
       LET up == waiter_up[t]
           fail == signal_pending_state(state[t], signal[t]) \/ left <= 0
       IN  /\ sem_pc' = [sem_pc EXCEPT ![t] = CASE up   -> "held"
                                                [] ~up /\ fail  -> "idle"
                                                [] ~up /\ ~fail -> "sleep"]
           /\ wait_list' = IF ~up /\ fail THEN list_del(wait_list, t)
                                          ELSE wait_list
           /\ timeout' = [timeout EXCEPT ![t] = IF up \/ fail THEN MAX_SCHEDULE_TIMEOUT
                                                            ELSE left]
           /\ state' = [state EXCEPT ![t] = IF up \/ fail THEN "UNINTERRUPTIBLE" ELSE @]
  /\ waiter_up' = [waiter_up EXCEPT ![t] = FALSE]
  /\ UNCHANGED <<count, signal, extra>>

(* Faulty: the youngest waiter is served. *)
FirstWaiter_Youngest == Last(wait_list)

(* list_first_entry(&sem->wait_list) *)
FirstWaiter == Head(wait_list)

(* Faulty: the permit is counted and the first waiter left to compete. *)
ReleasePermit_Counted ==
  count' = count + 1 /\ UNCHANGED <<wait_list, waiter_up>>

(* The permit is counted when nobody waits; otherwise __up() hands it to   *)
(* the oldest waiter, never through sem->count.                            *)
ReleasePermit ==
  IF wait_list = <<>>
  THEN count' = count + 1 /\ UNCHANGED <<wait_list, waiter_up>>
  ELSE /\ wait_list' = list_del(wait_list, FirstWaiter)
       /\ waiter_up' = [waiter_up EXCEPT ![FirstWaiter] = TRUE]
       /\ UNCHANGED count

(* Faulty: no wake_up_process(). *)
Woken_Never(p) == p

(* wake_up_process() of the waiter __up() serves. *)
Woken(p) ==
  IF wait_list = <<>> THEN p ELSE [p EXCEPT ![FirstWaiter] = "woken"]

(* up() by a task that holds a permit. *)
up(t) ==
  /\ sem_pc[t] = "held"
  /\ ReleasePermit
  /\ sem_pc' = Woken([sem_pc EXCEPT ![t] = "idle"])
  /\ UNCHANGED <<state, timeout, signal, extra>>

(* up() "by tasks which have never called down()", or by an interrupt. *)
up_extra ==
  /\ extra < MaxExtra
  /\ extra' = extra + 1
  /\ ReleasePermit
  /\ sem_pc' = Woken(sem_pc)
  /\ UNCHANGED <<state, timeout, signal>>

----------------------------------------------------------------------------

(* The scheduler and the signal code, as __down_common() uses them. *)

(* send_signal(): a signal that can end t's sleep also wakes it. *)
SendSignal(t) ==
  \E s \in Signals \ {"none"} :
    /\ signal[t] = "none"
    /\ signal' = [signal EXCEPT ![t] = s]
    /\ sem_pc' = IF sem_pc[t] = "sleep" /\ signal_pending_state(state[t], s)
                 THEN [sem_pc EXCEPT ![t] = "woken"] ELSE sem_pc
    /\ UNCHANGED <<count, wait_list, waiter_up, state, timeout, extra>>

(* Back in user mode, a task takes its signal. *)
TakeSignal(t) ==
  /\ sem_pc[t] = "idle" /\ signal[t] # "none"
  /\ signal' = [signal EXCEPT ![t] = "none"]
  /\ UNCHANGED <<count, wait_list, waiter_up, sem_pc, state, timeout, extra>>

(* The timer armed by schedule_timeout() expires. *)
TimerExpires(t) ==
  /\ sem_pc[t] = "sleep" /\ timeout[t] # MAX_SCHEDULE_TIMEOUT
  /\ sem_pc' = [sem_pc EXCEPT ![t] = "woken"]
  /\ timeout' = [timeout EXCEPT ![t] = 0]
  /\ UNCHANGED <<count, wait_list, waiter_up, state, signal, extra>>

(* A wakeup that has nothing to do with this semaphore. *)
SpuriousWakeup(t) ==
  /\ sem_pc[t] = "sleep"
  /\ sem_pc' = [sem_pc EXCEPT ![t] = "woken"]
  /\ UNCHANGED <<count, wait_list, waiter_up, state, timeout, signal, extra>>

SemNext ==
  \/ \E t \in Tasks :
       \/ down(t) \/ down_interruptible(t) \/ down_killable(t)
       \/ down_timeout(t) \/ down_trylock(t)
       \/ Resume(t) \/ up(t)
       \/ SendSignal(t) \/ TakeSignal(t) \/ TimerExpires(t)
       \/ SpuriousWakeup(t)
  \/ up_extra

SemSpec == SemInit /\ [][SemNext]_sem_vars

(* A runnable task is eventually run, a holder eventually calls up() and a *)
(* timer that is armed eventually expires.  Nobody has to call down*().    *)
Fairness ==
  \A t \in Tasks :
    WF_sem_vars(Resume(t)) /\ WF_sem_vars(up(t)) /\ WF_sem_vars(TimerExpires(t))

SemFairSpec == SemSpec /\ Fairness

----------------------------------------------------------------------------

SemTypeOK ==
  /\ count \in Nat
  /\ wait_list \in Seq(Tasks)
  /\ waiter_up \in [Tasks -> BOOLEAN]
  /\ sem_pc \in [Tasks -> SemPC]
  /\ state \in [Tasks -> States]
  /\ timeout \in [Tasks -> 0..MAX_SCHEDULE_TIMEOUT]
  /\ signal \in [Tasks -> Signals]
  /\ extra \in 0..MaxExtra

SemHolders == {t \in Tasks : sem_pc[t] = "held" \/ HandedOff(t)}

(* No permit is lost or invented: the permits in sem->count, those held    *)
(* and those on their way to a woken waiter are the ones sema_init() and   *)
(* the extra up() calls put in, whatever signals, timeouts and up() calls  *)
(* race with each other.                                                   *)
PermitsConserved ==
  count + Cardinality(SemHolders) = InitCount + extra

(* A task never sleeps on the wait list while a permit is available: up()  *)
(* never counts a permit past a waiter (so a later down() cannot overtake  *)
(* it either).                                                             *)
NoPermitPastWaiters == wait_list # <<>> => count = 0

(* sem->wait_list links exactly the waiters that still wait for a permit,  *)
(* each once.  The list_del() of a timed out or interrupted waiter thus    *)
(* never unlinks an entry that __up() unlinked before, and __up() never    *)
(* reaches the stack of a task that left __down_common().                  *)
WaitListExact ==
  /\ ToSet(wait_list) = {t \in Tasks : Waiting(t) /\ ~waiter_up[t]}
  /\ NoDuplicates(wait_list)

(* A waiter that was given a permit has been woken to notice it. *)
HandoffWakes == \A t \in Tasks : HandedOff(t) => sem_pc[t] = "woken"

(* Permits are granted in the order of arrival: a step that gives u a      *)
(* permit leaves nobody waiting who queued before u.                       *)
Gains(u) == u \notin SemHolders /\ u \in SemHolders'

NoOvertaking ==
  [][\A u \in Tasks : Gains(u) =>
       \A i \in DOMAIN wait_list :
         (\A j \in 1..i : wait_list[j] # u) => wait_list[i] \notin ToSet(wait_list')
    ]_sem_vars

(* Every waiter leaves __down_common(): with a permit when nothing can     *)
(* interrupt it, since the holders release theirs.                         *)
EveryWaiterServed ==
  \A t \in Tasks :
    /\ Waiting(t) ~> ~Waiting(t)
    /\ (Waiting(t) /\ state[t] = "UNINTERRUPTIBLE"
                   /\ timeout[t] = MAX_SCHEDULE_TIMEOUT) ~> sem_pc[t] = "held"

============================================================================
