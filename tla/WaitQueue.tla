----------------------------- MODULE WaitQueue -----------------------------
(***************************************************************************)
(* The wait queues of kernel/sched/wait.c and include/linux/wait.h:        *)
(* wait_event() and its forms, wait_woken(), wait_on_bit(),                *)
(* wait_on_bit_lock(), and the wakeups.                                    *)
(*                                                                         *)
(* A waiter's queue entry is a variable on its stack.  The waker unlinks   *)
(* it when it wakes the waiter (autoremove_wake_function()), and the       *)
(* waiter looks at the entry without q->lock to find out whether it still  *)
(* has to unlink it itself (finish_wait()).  So the list is modelled by    *)
(* its pointers (ListOps.tla), and what is read without the lock, or       *)
(* written while somebody may so read it, is an action of its own.         *)
(* Everything else done under q->lock is one action.                       *)
(*                                                                         *)
(* What is waited for is that a bit gets clear.  An exclusive waiter then  *)
(* sets it, and clears it later with a wakeup, as users of exclusive waits *)
(* do: the bit is a lock.  Other waiters just see it clear.                *)
(***************************************************************************)
EXTENDS ListOps, Integers, FiniteSets

CONSTANTS
  Tasks,     \* the tasks that wait
  q,         \* the queue head
  NULL,      \* a null pointer
  Kinds,     \* how tasks wait, see AllKinds
  MaxCalls   \* bound on the number of waits

(* Task states as sets of bits; a wakeup's mode is such a set too. *)
TASK_RUNNING == {}
TASK_INTERRUPTIBLE == {"INTERRUPTIBLE"}
TASK_UNINTERRUPTIBLE == {"UNINTERRUPTIBLE"}
TASK_KILLABLE == {"UNINTERRUPTIBLE", "WAKEKILL"}
TASK_NORMAL == {"INTERRUPTIBLE", "UNINTERRUPTIBLE"}

(* A wait: the function ("event" is wait_event_*(), "woken" a loop of      *)
(* wait_woken(), "bit" wait_on_bit() or wait_on_bit_lock()), the state to  *)
(* sleep in, and whether WQ_FLAG_EXCLUSIVE is set.  Loops of wait_woken()  *)
(* begin with add_wait_queue(), which clears that flag, and those that     *)
(* leave for a signal do so by their own code.                             *)
AllKinds ==
  [how : {"event", "bit"}, exclusive : BOOLEAN,
   mode : {TASK_INTERRUPTIBLE, TASK_UNINTERRUPTIBLE, TASK_KILLABLE}]
  \cup [how : {"woken"}, exclusive : {FALSE}, mode : {TASK_UNINTERRUPTIBLE}]

ASSUME KindsAssumption == Kinds \subseteq AllKinds /\ Kinds # {}
ASSUME NodesAssumption == q \notin Tasks /\ NULL \notin Tasks \cup {q}
ASSUME MaxCallsAssumption == MaxCalls \in Nat

VARIABLES
  bit,     \* the bit waited for
  use,     \* is the queue used for wait_event_*() or for bits?
  mem,     \* the next and prev fields of q->task_list and of the entries
  lock,    \* who holds q->lock
  flag,    \* is WQ_FLAG_WOKEN set in the task's entry?
  kind,    \* how the task waits
  pc,      \* where the task is, see PC
  state,   \* the task's scheduler state
  signal,  \* is a fatal signal pending for the task?
  int,     \* did prepare_to_wait_event() return -ERESTARTSYS?
  walk,    \* a waker's curr, next, mode and nr_exclusive
  calls    \* waits begun so far

vars == <<bit, use, mem, lock, flag, kind, pc, state, signal, int, walk, calls>>

----------------------------------------------------------------------------

PC == {"idle",
       \* ___wait_event(), __wait_on_bit() and __wait_on_bit_lock()
       "prepare", "enqueue", "test", "schedule", "retest",
       \* finish_wait() and abort_exclusive_wait()
       "finish", "read_next", "read_prev", "unlink_self", "abort", "abort_lock",
       \* a loop of wait_woken()
       "woken_test", "set_state", "test_flag", "set_running", "clear_flag", "remove",
       \* the exclusive waiter has set the bit; its release
       "held", "active", "wake",
       \* __wake_up_common()
       "call", "call_wake", "unlink", "init_next", "init_prev"}

(* The places where a waiter still looks for a signal later *)
WaitPC == {"prepare", "enqueue", "test", "schedule", "retest"}

NoWalk == [curr |-> NULL, next |-> NULL, mode |-> {}, nr |-> 0]

(* What a task's kind is while it does not wait *)
NoKind == CHOOSE k \in Kinds : TRUE

Goto(t, from, to) ==
  /\ pc[t] = from
  /\ pc' = [pc EXCEPT ![t] = to]

SetState(t, s) == state' = [state EXCEPT ![t] = s]

(* include/linux/sched.h *)
signal_pending_state(t) ==
  signal[t] /\ kind[t].mode \cap {"INTERRUPTIBLE", "WAKEKILL"} # {}

(* The condition of wait_event_*(), or test_and_set_bit() and test_bit():  *)
(* exclusive waiters set the bit if it is clear.                           *)
Condition(k, Then, Else) ==
  IF bit THEN UNCHANGED bit /\ Else ELSE bit' = k.exclusive /\ Then

----------------------------------------------------------------------------

(* __init_waitqueue_head() *)
Init ==
  /\ bit = FALSE
  /\ use \in {"event", "bit"}
  /\ mem = LET self == [n \in Tasks \cup {q} |-> n] IN [next |-> self, prev |-> self]
  /\ lock = NULL
  /\ flag = [t \in Tasks |-> FALSE]
  /\ kind = [t \in Tasks |-> NoKind]
  /\ pc = [t \in Tasks |-> "idle"]
  /\ state = [t \in Tasks |-> TASK_RUNNING]
  /\ signal = [t \in Tasks |-> FALSE]
  /\ int = [t \in Tasks |-> FALSE]
  /\ walk = [t \in Tasks |-> NoWalk]
  /\ calls = 0

----------------------------------------------------------------------------
(* ___wait_event(), __wait_on_bit(), __wait_on_bit_lock() *)

(* A call: if the bit is clear it returns at once, else it sets up an      *)
(* entry that is in no list, or queues one for wait_woken().               *)
Wait(t, k) ==
  /\ calls < MaxCalls
  /\ calls' = calls + 1
  /\ use = (IF k.how = "bit" THEN "bit" ELSE "event")
  /\ pc[t] = "idle"
  /\ IF k.how = "woken"
     THEN /\ lock = NULL
          /\ mem' = list_add(mem, t, q)
          /\ kind' = [kind EXCEPT ![t] = k]
          /\ Goto(t, "idle", "woken_test")
          /\ UNCHANGED bit
     ELSE Condition(k,
            /\ Goto(t, "idle", IF k.exclusive THEN "held" ELSE "idle")
            /\ UNCHANGED <<mem, kind>>,
            /\ Goto(t, "idle", IF k.how = "event" THEN "prepare" ELSE "enqueue")
            /\ kind' = [kind EXCEPT ![t] = k]
            /\ mem' = INIT_LIST_HEAD(mem, t))
  /\ UNCHANGED <<use, lock, flag, state, signal, int, walk>>

(* prepare_to_wait_event(): -ERESTARTSYS if a signal is pending; it then   *)
(* neither queues the task nor sets its state.                             *)
Prepare(t) ==
  /\ Goto(t, "prepare", IF signal_pending_state(t) THEN "test" ELSE "enqueue")
  /\ int' = [int EXCEPT ![t] = signal_pending_state(t)]
  /\ UNCHANGED <<bit, use, mem, lock, flag, kind, state, signal, walk, calls>>

(* The rest of it, prepare_to_wait() and prepare_to_wait_exclusive():      *)
(* under q->lock, queue the entry unless it is queued, exclusive ones at   *)
(* the end, and set the task's state.                                      *)
Enqueue(t) ==
  /\ lock = NULL
  /\ Goto(t, "enqueue", "test")
  /\ mem' = CASE ~list_empty(mem, t) -> mem
              [] list_empty(mem, t) /\ kind[t].exclusive -> list_add_tail(mem, t, q)
              [] list_empty(mem, t) /\ ~kind[t].exclusive -> list_add(mem, t, q)
  /\ SetState(t, kind[t].mode)
  /\ UNCHANGED <<bit, use, lock, flag, kind, signal, int, walk, calls>>

(* Where an interrupted waiter goes *)
GiveUp(t) == IF kind[t].exclusive THEN "abort" ELSE "finish"

(* wait_event_*() tests its condition, even with a signal pending; the     *)
(* wait for a bit tests the bit.                                           *)
Test(t) ==
  /\ IF kind[t].how = "event"
     THEN Condition(kind[t],
            Goto(t, "test", "finish"),
            Goto(t, "test", IF int[t] THEN GiveUp(t) ELSE "schedule"))
     ELSE Goto(t, "test", IF bit THEN "schedule" ELSE "retest") /\ UNCHANGED bit
  /\ UNCHANGED <<use, mem, lock, flag, kind, state, signal, int, walk, calls>>

(* schedule() returns when the task was woken or has a signal to handle.   *)
(* bit_wait() then looks for a signal.                                     *)
Schedule(t) ==
  /\ state[t] = TASK_RUNNING \/ signal_pending_state(t)
  /\ Goto(t, "schedule", CASE kind[t].how = "event" -> "prepare"
                           [] kind[t].how = "woken" -> "set_running"
                           [] kind[t].how = "bit" /\ signal_pending_state(t) -> GiveUp(t)
                           [] kind[t].how = "bit" /\ ~signal_pending_state(t) -> "retest")
  /\ SetState(t, TASK_RUNNING)
  /\ UNCHANGED <<bit, use, mem, lock, flag, kind, signal, int, walk, calls>>

(* The end of the loops of __wait_on_bit() and __wait_on_bit_lock() *)
Retest(t) ==
  /\ Condition(kind[t], Goto(t, "retest", "finish"), Goto(t, "retest", "enqueue"))
  /\ UNCHANGED <<use, mem, lock, flag, kind, state, signal, int, walk, calls>>

----------------------------------------------------------------------------
(* finish_wait() and abort_exclusive_wait() *)

(* __set_current_state(TASK_RUNNING), in both *)
Finish(t) ==
  /\ Goto(t, "finish", "read_next") \/ Goto(t, "abort", "abort_lock")
  /\ SetState(t, TASK_RUNNING)
  /\ UNCHANGED <<bit, use, mem, lock, flag, kind, signal, int, walk, calls>>

(* The function returns, and the entry is gone.  An exclusive waiter that  *)
(* comes from finish_wait() has set the bit.  A signal that is pending is  *)
(* forgotten: the next wait may begin with another one.                    *)
Return(t, from) ==
  /\ Goto(t, from, IF kind[t].exclusive /\ from \in {"read_next", "read_prev", "unlink_self"}
                   THEN "held" ELSE "idle")
  /\ kind' = [kind EXCEPT ![t] = NoKind]
  /\ int' = [int EXCEPT ![t] = FALSE]
  /\ signal' = [signal EXCEPT ![t] = FALSE]

(* Faulty: list_empty() instead of list_empty_careful(). *)
ReadNext_Careless(t) ==
  /\ IF mem.next[t] = t
     THEN Return(t, "read_next")
     ELSE Goto(t, "read_next", "unlink_self") /\ UNCHANGED <<kind, int, signal>>
  /\ UNCHANGED <<bit, use, mem, lock, flag, state, walk, calls>>

(* finish_wait() looks at the entry with list_empty_careful() and without  *)
(* the lock: it reads next ...                                             *)
ReadNext(t) ==
  /\ Goto(t, "read_next", IF mem.next[t] = t THEN "read_prev" ELSE "unlink_self")
  /\ UNCHANGED <<bit, use, mem, lock, flag, kind, state, signal, int, walk, calls>>

(* ... and prev. *)
ReadPrev(t) ==
  /\ IF mem.prev[t] = t
     THEN Return(t, "read_prev")
     ELSE Goto(t, "read_prev", "unlink_self") /\ UNCHANGED <<kind, int, signal>>
  /\ UNCHANGED <<bit, use, mem, lock, flag, state, walk, calls>>

(* The entry looks queued: unlink it under the lock. *)
UnlinkSelf(t) ==
  /\ lock = NULL
  /\ Return(t, "unlink_self")
  /\ mem' = list_del_init(mem, t)
  /\ UNCHANGED <<bit, use, lock, flag, state, walk, calls>>

(* The head of __wake_up_common()'s loop *)
BeginWalk(t, m, n) ==
  LET first == mem.next[q]
  IN  /\ lock' = t
      /\ walk' = [walk EXCEPT ![t] = [curr |-> first, next |-> mem.next[first],
                                      mode |-> m, nr |-> n]]

(* Faulty: a wakeup that came together with the signal is dropped. *)
AbortLock_NoPass(t) ==
  /\ lock = NULL
  /\ Return(t, "abort_lock")
  /\ mem' = IF list_empty(mem, t) THEN mem ELSE list_del_init(mem, t)
  /\ UNCHANGED <<bit, use, lock, walk, flag, state, calls>>

(* Faulty: the entry stays queued. *)
AbortLock_KeepQueued(t) ==
  /\ lock = NULL
  /\ IF list_empty(mem, t) /\ ~list_empty(mem, q)
     THEN /\ Goto(t, "abort_lock", "call")
          /\ BeginWalk(t, kind[t].mode, 1)
          /\ UNCHANGED <<kind, int, signal>>
     ELSE /\ Return(t, "abort_lock")
          /\ UNCHANGED <<lock, walk>>
  /\ UNCHANGED <<bit, use, mem, flag, state, calls>>

(* abort_exclusive_wait(), under the lock: unlink the entry, or, if a      *)
(* waker has done that, pass the wakeup on to the next waiter.             *)
AbortLock(t) ==
  /\ lock = NULL
  /\ IF list_empty(mem, t) /\ ~list_empty(mem, q)
     THEN /\ Goto(t, "abort_lock", "call")
          /\ BeginWalk(t, kind[t].mode, 1)
          /\ UNCHANGED <<mem, kind, int, signal>>
     ELSE /\ Return(t, "abort_lock")
          /\ mem' = IF list_empty(mem, t) THEN mem ELSE list_del_init(mem, t)
          /\ UNCHANGED <<lock, walk>>
  /\ UNCHANGED <<bit, use, flag, state, calls>>

----------------------------------------------------------------------------
(* A loop of wait_woken(), between add_wait_queue() (see Wait) and         *)
(* remove_wait_queue()                                                     *)

WokenTest(t) ==
  /\ Condition(kind[t], Goto(t, "woken_test", "remove"), Goto(t, "woken_test", "set_state"))
  /\ UNCHANGED <<use, mem, lock, flag, kind, state, signal, int, walk, calls>>

(* wait_woken(): set_current_state(mode), sleep unless WQ_FLAG_WOKEN is    *)
(* set (see Schedule), __set_current_state(TASK_RUNNING) ...               *)
WokenSetState(t) ==
  /\ \/ Goto(t, "set_state", "test_flag") /\ SetState(t, kind[t].mode)
     \/ Goto(t, "set_running", "clear_flag") /\ SetState(t, TASK_RUNNING)
  /\ UNCHANGED <<bit, use, mem, lock, flag, kind, signal, int, walk, calls>>

TestFlag(t) ==
  /\ Goto(t, "test_flag", IF flag[t] THEN "set_running" ELSE "schedule")
  /\ UNCHANGED <<bit, use, mem, lock, flag, kind, state, signal, int, walk, calls>>

(* ... and clear the flag before the caller tests the condition again. *)
ClearFlag(t) ==
  /\ Goto(t, "clear_flag", "woken_test")
  /\ flag' = [flag EXCEPT ![t] = FALSE]
  /\ UNCHANGED <<bit, use, mem, lock, kind, state, signal, int, walk, calls>>

(* list_del() under the lock; the entry is gone then. *)
remove_wait_queue(t) ==
  /\ lock = NULL
  /\ Return(t, "remove")
  /\ mem' = list_del(mem, t)
  /\ flag' = [flag EXCEPT ![t] = FALSE]
  /\ UNCHANGED <<bit, use, lock, state, walk, calls>>

----------------------------------------------------------------------------
(* wake_up(), wake_up_all(), wake_up_bit() and __wake_up_common() *)

(* The bit is cleared and the waiters are woken; wake_up_bit() first asks  *)
(* waitqueue_active(), other callers may.                                  *)
Release(t) ==
  /\ \/ Goto(t, "held", "active")
     \/ use = "event" /\ Goto(t, "held", "wake")
  /\ bit' = FALSE
  /\ UNCHANGED <<use, mem, lock, flag, kind, state, signal, int, walk, calls>>

waitqueue_active(t) ==
  /\ Goto(t, "active", IF list_empty(mem, q) THEN "idle" ELSE "wake")
  /\ UNCHANGED <<bit, use, mem, lock, flag, kind, state, signal, int, walk, calls>>

(* __wake_up(): nr_exclusive is 0 in wake_up_all() and 1 otherwise. *)
WakeUp(t) ==
  /\ lock = NULL
  /\ Goto(t, "wake", "call")
  /\ \/ BeginWalk(t, TASK_NORMAL, 1)
     \/ use = "event" /\ BeginWalk(t, TASK_NORMAL, 0)
  /\ UNCHANGED <<bit, use, mem, flag, kind, state, signal, int, calls>>

EndWalk(t, from) ==
  /\ Return(t, from)
  /\ lock' = NULL
  /\ walk' = [walk EXCEPT ![t] = NoWalk]

(* The step to the next entry, with n exclusive wakeups still to make *)
NextEntry(t, from, n) ==
  /\ Goto(t, from, "call")
  /\ walk' = [walk EXCEPT ![t].curr = walk[t].next,
                          ![t].next = mem.next[walk[t].next],
                          ![t].nr = n]
  /\ UNCHANGED <<lock, kind, int, signal>>

(* The walk ends at the head.  Otherwise the entry's function is called:   *)
(* wake_bit_function() does nothing if the bit is set, and                 *)
(* woken_wake_function() sets WQ_FLAG_WOKEN.                               *)
Call(t) ==
  LET curr == walk[t].curr
  IN  /\ pc[t] = "call"
      /\ CASE curr = q -> EndWalk(t, "call") /\ UNCHANGED flag
           [] curr # q /\ use = "bit" /\ bit -> NextEntry(t, "call", walk[t].nr) /\ UNCHANGED flag
           [] OTHER -> /\ Goto(t, "call", "call_wake")
                       /\ flag' = [flag EXCEPT ![curr] = kind[curr].how = "woken"]
                       /\ UNCHANGED <<lock, walk, kind, int, signal>>
      /\ UNCHANGED <<bit, use, mem, state, calls>>

(* default_wake_function(), that is try_to_wake_up(): wakes the task if it *)
(* is in a state of the mode.  autoremove_wake_function() then unlinks the *)
(* entry, woken_wake_function() does not.                                  *)
CallWake(t) ==
  LET curr  == walk[t].curr
      woken == state[curr] \cap walk[t].mode # {}
  IN  /\ pc[t] = "call_wake"
      /\ state' = IF woken THEN [state EXCEPT ![curr] = TASK_RUNNING] ELSE state
      /\ IF woken /\ kind[curr].how # "woken"
         THEN Goto(t, "call_wake", "unlink") /\ UNCHANGED <<lock, walk, kind, int, signal>>
         ELSE NextEntry(t, "call_wake", walk[t].nr)
      /\ UNCHANGED <<bit, use, mem, flag, calls>>

(* list_del_init() of the entry: its neighbours, then its next field, then *)
(* its prev field.                                                         *)
Unlink(t) ==
  /\ Goto(t, "unlink", "init_next")
  /\ mem' = list_del_entry(mem, walk[t].curr)
  /\ UNCHANGED <<bit, use, lock, flag, kind, state, signal, int, walk, calls>>

InitNext(t) ==
  /\ Goto(t, "init_next", "init_prev")
  /\ mem' = SetNext(mem, walk[t].curr, walk[t].curr)
  /\ UNCHANGED <<bit, use, lock, flag, kind, state, signal, int, walk, calls>>

(* With the last write the entry is its owner's.  If an exclusive waiter   *)
(* was woken, stop if it was the last one to wake.                         *)
InitPrev(t) ==
  LET exclusive == kind[walk[t].curr].exclusive
  IN  /\ pc[t] = "init_prev"
      /\ mem' = SetPrev(mem, walk[t].curr, walk[t].curr)
      /\ IF exclusive /\ walk[t].nr = 1
         THEN EndWalk(t, "init_prev")
         ELSE NextEntry(t, "init_prev", IF exclusive THEN walk[t].nr - 1 ELSE walk[t].nr)
      /\ UNCHANGED <<bit, use, flag, state, calls>>

----------------------------------------------------------------------------

(* The signal code: a fatal signal wakes interruptible and killable        *)
(* sleepers.  One that the wait does not look for makes no difference.     *)
SendSignal(t) ==
  /\ pc[t] \in WaitPC
  /\ ~signal[t] /\ kind[t].mode \cap {"INTERRUPTIBLE", "WAKEKILL"} # {}
  /\ signal' = [signal EXCEPT ![t] = TRUE]
  /\ IF state[t] \cap {"INTERRUPTIBLE", "WAKEKILL"} # {}
     THEN SetState(t, TASK_RUNNING) ELSE UNCHANGED state
  /\ UNCHANGED <<bit, use, mem, lock, flag, kind, pc, int, walk, calls>>

Step(t) ==
  \/ Prepare(t) \/ Enqueue(t) \/ Test(t) \/ Schedule(t) \/ Retest(t)
  \/ Finish(t) \/ ReadNext(t) \/ ReadPrev(t) \/ UnlinkSelf(t) \/ AbortLock(t)
  \/ WokenTest(t) \/ WokenSetState(t) \/ TestFlag(t) \/ ClearFlag(t)
  \/ remove_wait_queue(t)
  \/ Release(t) \/ waitqueue_active(t) \/ WakeUp(t)
  \/ Call(t) \/ CallWake(t) \/ Unlink(t) \/ InitNext(t) \/ InitPrev(t)

Next ==
  \E t \in Tasks :
    \/ \E k \in Kinds : Wait(t, k)
    \/ Step(t) \/ SendSignal(t)

Spec == Init /\ [][Next]_vars

(* A running task is eventually scheduled and who has set the bit clears   *)
(* it; nobody has to wait, and no signal has to come.                      *)
FairSpec == Spec /\ \A t \in Tasks : WF_vars(Step(t))

----------------------------------------------------------------------------

WalkPC == {"call", "call_wake", "unlink", "init_next", "init_prev"}

(* The tasks whose entries exist *)
Live ==
  {t \in Tasks : pc[t] \notin {"idle", "held", "active", "wake"} \cup WalkPC}

(* A waker only touches entries that exist: the entry it is at, the next   *)
(* one it has already read, and their neighbours are on the stack of a     *)
(* task that has not returned, although a waiter may find itself unlinked  *)
(* without the lock and return while the waker is still at work.           *)
EntriesLive ==
  \A t \in Tasks : pc[t] \in WalkPC =>
    LET curr == walk[t].curr
    IN  /\ {curr, walk[t].next} \subseteq Live \cup {q}
        /\ pc[t] = "unlink" => {mem.next[curr], mem.prev[curr]} \subseteq Live \cup {q}

(* While nobody has q->lock, the queue is a ring through the head and      *)
(* existing entries, and every task that sleeps is in it, so that a wakeup *)
(* can find it: no entry of a task that returned is left in it.            *)
QueueSound ==
  lock = NULL =>
    LET ring == {t \in Live : mem.next[t] # t} \cup {q}
    IN  /\ \A n \in ring : /\ mem.next[n] \in ring /\ mem.prev[mem.next[n]] = n
                           /\ mem.prev[n] \in ring /\ mem.next[mem.prev[n]] = n
        /\ \A t \in Tasks : pc[t] = "schedule" /\ state[t] # TASK_RUNNING => t \in ring

(* No wakeup is missed or lost: every wait ends once the tasks stop making *)
(* new calls, whether the wakeup comes before the task is queued, after it *)
(* has set its state, or while it leaves because of a signal.              *)
EveryWaitReturns == \A t \in Tasks : pc[t] # "idle" ~> pc[t] = "idle"

============================================================================
