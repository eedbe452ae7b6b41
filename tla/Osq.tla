-------------------------------- MODULE Osq --------------------------------
(***************************************************************************)
(* The optimistic spin queue of kernel/locking/osq_lock.c: an MCS lock     *)
(* with one node per CPU, whose waiters may leave the queue when they have *)
(* to reschedule.                                                          *)
(*                                                                         *)
(* Every access to memory that another CPU uses is an action of its own.   *)
(* A read that only guards a cmpxchg or xchg of the same word is merged    *)
(* with it: both lead to the same place when they fail.  need_resched() is *)
(* true or false at the scheduler's pleasure.                              *)
(***************************************************************************)
EXTENDS ListSeq

CONSTANTS
  Cpus,  \* the processors
  NULL   \* the null node pointer, and OSQ_UNLOCKED_VAL

ASSUME NullAssumption == NULL \notin Cpus

VARIABLES
  tail,     \* lock->tail, the last CPU of the queue (decoded)
  next,     \* node->next of each CPU's osq_node
  prev,     \* node->prev
  locked,   \* node->locked
  pc,       \* where a CPU is, see PC
  myprev,   \* the local variable prev of osq_lock()
  mynext,   \* the local variable next
  arrival   \* history: the CPUs in the queue that still want the lock,
            \* in the order of their xchg of lock->tail

vars == <<tail, next, prev, locked, pc, myprev, mynext, arrival>>

NodeOrNull == Cpus \cup {NULL}

PC == {"idle",
       \* osq_lock(): enqueue and spin
       "xchg_tail", "set_prev", "set_prev_next", "spin",
       \* osq_lock(): unqueue, Step-A, Step-B and Step-C
       "unqueue", "check_locked", "reload_prev", "unqueue_tail",
       "unqueue_next", "link_next_prev", "link_prev_next",
       "locked",
       \* osq_unlock()
       "unlock_next", "unlock_tail", "unlock_wait", "pass"}

Init ==
  /\ tail = NULL
  /\ next = [c \in Cpus |-> NULL]
  /\ prev = [c \in Cpus |-> NULL]
  /\ locked = [c \in Cpus |-> FALSE]
  /\ pc = [c \in Cpus |-> "idle"]
  /\ myprev = [c \in Cpus |-> NULL]
  /\ mynext = [c \in Cpus |-> NULL]
  /\ arrival = <<>>

Goto(c, from, to) ==
  /\ pc[c] = from
  /\ pc' = [pc EXCEPT ![c] = to]

(* The locals of a call that is over, or holds the lock, are forgotten. *)
Return(c, from, to) ==
  /\ Goto(c, from, to)
  /\ myprev' = [myprev EXCEPT ![c] = NULL]
  /\ mynext' = [mynext EXCEPT ![c] = NULL]

----------------------------------------------------------------------------
(* osq_lock() *)

(* The CPU's own node is initialised. *)
InitNode(c) ==
  /\ Goto(c, "idle", "xchg_tail")
  /\ locked' = [locked EXCEPT ![c] = FALSE]
  /\ next' = [next EXCEPT ![c] = NULL]
  /\ UNCHANGED <<tail, prev, myprev, mynext, arrival>>

(* xchg of lock->tail: the lock is had at once if the queue was empty. *)
XchgTail(c) ==
  /\ Goto(c, "xchg_tail", IF tail = NULL THEN "locked" ELSE "set_prev")
  /\ tail' = c
  /\ myprev' = [myprev EXCEPT ![c] = tail]
  /\ arrival' = IF tail = NULL THEN arrival ELSE Append(arrival, c)
  /\ UNCHANGED <<next, prev, locked, mynext>>

SetPrev(c) ==
  /\ Goto(c, "set_prev", "set_prev_next")
  /\ prev' = [prev EXCEPT ![c] = myprev[c]]
  /\ UNCHANGED <<tail, next, locked, myprev, mynext, arrival>>

SetPrevNext(c) ==
  /\ Goto(c, "set_prev_next", "spin")
  /\ next' = [next EXCEPT ![myprev[c]] = c]
  /\ UNCHANGED <<tail, prev, locked, myprev, mynext, arrival>>

(* osq_lock() returns true to a CPU that had to wait. *)
Acquire(c, from) ==
  /\ Return(c, from, "locked")
  /\ arrival' = list_del(arrival, c)

(* Spin on node->locked, or start to unqueue when need_resched(). *)
Spin(c) ==
  /\ \/ locked[c] /\ Acquire(c, "spin")
     \/ /\ ~locked[c] /\ Goto(c, "spin", "unqueue")
        /\ UNCHANGED <<myprev, mynext, arrival>>
  /\ UNCHANGED <<tail, next, prev, locked>>

(* Step-A: undo prev->next, with a cmpxchg. *)
Unqueue(c) ==
  /\ pc[c] = "unqueue"
  /\ IF next[myprev[c]] = c
     THEN /\ Goto(c, "unqueue", "unqueue_tail")
          /\ next' = [next EXCEPT ![myprev[c]] = NULL]
          /\ arrival' = list_del(arrival, c)
     ELSE /\ Goto(c, "unqueue", "check_locked")
          /\ UNCHANGED <<next, arrival>>
  /\ UNCHANGED <<tail, prev, locked, myprev, mynext>>

(* Faulty: does not look at node->locked again. *)
CheckLocked_Skip(c) ==
  /\ Goto(c, "check_locked", "reload_prev")
  /\ UNCHANGED <<tail, next, prev, locked, myprev, mynext, arrival>>

(* It raced with osq_unlock(), which gave us the lock, ... *)
CheckLocked(c) ==
  /\ \/ locked[c] /\ Acquire(c, "check_locked")
     \/ /\ ~locked[c] /\ Goto(c, "check_locked", "reload_prev")
        /\ UNCHANGED <<myprev, mynext, arrival>>
  /\ UNCHANGED <<tail, next, prev, locked>>

(* ... or with the unqueueing of our predecessor, which changes our prev. *)
ReloadPrev(c) ==
  /\ Goto(c, "reload_prev", "unqueue")
  /\ myprev' = [myprev EXCEPT ![c] = prev[c]]
  /\ UNCHANGED <<tail, next, prev, locked, mynext, arrival>>

(* Faulty: the last of the queue just leaves. *)
MoveTailBack_Keep(c, from, old, wait) ==
  /\ \/ /\ tail = c
        /\ Return(c, from, "idle")
     \/ /\ tail # c
        /\ Goto(c, from, wait) /\ UNCHANGED <<myprev, mynext>>
  /\ UNCHANGED <<tail, next, prev, locked, arrival>>

(* osq_wait_next(), the two halves of its loop.  As the last of the queue, *)
(* move lock->tail back to `old` and return; ...                           *)
MoveTailBack(c, from, old, wait) ==
  /\ \/ /\ tail = c /\ tail' = old
        /\ Return(c, from, "idle")
     \/ /\ tail # c /\ UNCHANGED tail
        /\ Goto(c, from, wait) /\ UNCHANGED <<myprev, mynext>>
  /\ UNCHANGED <<next, prev, locked, arrival>>

(* Faulty: the result of the xchg is not looked at. *)
TakeNext_NoCheck(c, from, done, wait) ==
  /\ Goto(c, from, done)
  /\ mynext' = [mynext EXCEPT ![c] = next[c]]
  /\ next' = [next EXCEPT ![c] = NULL]
  /\ UNCHANGED <<tail, prev, locked, myprev, arrival>>

(* Faulty: node->next is read, not taken. *)
TakeNext_NoXchg(c, from, done, wait) ==
  /\ Goto(c, from, IF next[c] # NULL THEN done ELSE wait)
  /\ mynext' = [mynext EXCEPT ![c] = next[c]]
  /\ UNCHANGED <<tail, next, prev, locked, myprev, arrival>>

(* ... otherwise wait for a successor to show up in node->next and take it *)
(* out of there.                                                           *)
TakeNext(c, from, done, wait) ==
  /\ Goto(c, from, IF next[c] # NULL THEN done ELSE wait)
  /\ mynext' = [mynext EXCEPT ![c] = next[c]]
  /\ next' = [next EXCEPT ![c] = NULL]
  /\ UNCHANGED <<tail, prev, locked, myprev, arrival>>

(* Step-B *)
UnqueueTail(c) ==
  MoveTailBack(c, "unqueue_tail", myprev[c], "unqueue_next")

UnqueueNext(c) ==
  TakeNext(c, "unqueue_next", "link_next_prev", "unqueue_tail")

(* Step-C *)
LinkNextPrev(c) ==
  /\ Goto(c, "link_next_prev", "link_prev_next")
  /\ prev' = [prev EXCEPT ![mynext[c]] = myprev[c]]
  /\ UNCHANGED <<tail, next, locked, myprev, mynext, arrival>>

LinkPrevNext(c) ==
  /\ Return(c, "link_prev_next", "idle")
  /\ next' = [next EXCEPT ![myprev[c]] = mynext[c]]
  /\ UNCHANGED <<tail, prev, locked, arrival>>

----------------------------------------------------------------------------
(* osq_unlock() *)

(* The uncontended case: we are still the tail. *)
Unlock(c) == MoveTailBack(c, "locked", NULL, "unlock_next")

(* The likely case: a successor is known. *)
UnlockNext(c) == TakeNext(c, "unlock_next", "pass", "unlock_tail")

(* osq_wait_next(lock, node, NULL) *)
UnlockTail(c) == MoveTailBack(c, "unlock_tail", NULL, "unlock_wait")

UnlockWait(c) == TakeNext(c, "unlock_wait", "pass", "unlock_tail")

(* Faulty: the lock goes to the CPU that came last. *)
Pass_Last(c) ==
  /\ Return(c, "pass", "idle")
  /\ locked' = [locked EXCEPT ![tail] = TRUE]
  /\ UNCHANGED <<tail, next, prev, arrival>>

(* The lock is passed on. *)
Pass(c) ==
  /\ Return(c, "pass", "idle")
  /\ locked' = [locked EXCEPT ![mynext[c]] = TRUE]
  /\ UNCHANGED <<tail, next, prev, arrival>>

----------------------------------------------------------------------------

LockStep(c) ==
  \/ XchgTail(c) \/ SetPrev(c) \/ SetPrevNext(c) \/ Spin(c)
  \/ Unqueue(c) \/ CheckLocked(c) \/ ReloadPrev(c)
  \/ UnqueueTail(c) \/ UnqueueNext(c) \/ LinkNextPrev(c) \/ LinkPrevNext(c)

UnlockStep(c) ==
  Unlock(c) \/ UnlockNext(c) \/ UnlockTail(c) \/ UnlockWait(c) \/ Pass(c)

Next == \E c \in Cpus : InitNode(c) \/ LockStep(c) \/ UnlockStep(c)

Spec == Init /\ [][Next]_vars

(* Preemption is off while a CPU spins, so it keeps executing; the holder  *)
(* stops spinning on the mutex owner at some time and unlocks.  Fairness   *)
(* of LockStep also makes need_resched() true some day for a CPU that is   *)
(* not served, as the scheduler's tick does.                               *)
FairSpec == Spec /\ \A c \in Cpus : WF_vars(LockStep(c)) /\ WF_vars(UnlockStep(c))

----------------------------------------------------------------------------

(* Every variable has its type, and no null pointer is ever dereferenced:  *)
(* prev and next are nodes wherever osq_lock() and osq_unlock() follow     *)
(* them, although next may well be read as NULL.                           *)
TypeOK ==
  /\ tail \in NodeOrNull
  /\ next \in [Cpus -> NodeOrNull]
  /\ prev \in [Cpus -> NodeOrNull]
  /\ locked \in [Cpus -> BOOLEAN]
  /\ pc \in [Cpus -> PC]
  /\ myprev \in [Cpus -> NodeOrNull]
  /\ mynext \in [Cpus -> NodeOrNull]
  /\ arrival \in Seq(Cpus)
  /\ \A c \in Cpus :
       /\ pc[c] \in {"set_prev", "set_prev_next", "spin", "unqueue", "check_locked",
                    "reload_prev", "unqueue_tail", "unqueue_next",
                    "link_next_prev", "link_prev_next"} => myprev[c] \in Cpus
       /\ pc[c] \in {"link_next_prev", "link_prev_next", "pass"} => mynext[c] \in Cpus

Holders == {c \in Cpus : pc[c] = "locked"}

(* Nobody writes into the node of a CPU that is not in the queue: the node *)
(* is about to be reused for the next osq_lock(), of any lock.             *)
NoWriteToIdleNode ==
  \A c \in Cpus : pc[c] = "idle" =>
    /\ tail # c
    /\ \A d \in Cpus :
         /\ pc[d] \in {"set_prev_next", "link_prev_next"} => myprev[d] # c
         /\ pc[d] \in {"link_next_prev", "pass"} => mynext[d] # c

(* What the comment at Step-C claims: between Step-A and the end of Step-C *)
(* the predecessor stays in the queue without a next pointer, so it cannot *)
(* leave or pass the lock on, and the successor waits with its prev still  *)
(* pointing at the leaving node.                                           *)
NeighboursStable ==
  \A c \in Cpus :
    /\ pc[c] \in {"unqueue_tail", "unqueue_next", "link_next_prev", "link_prev_next"} =>
         /\ next[myprev[c]] = NULL
         /\ pc[myprev[c]] \notin {"idle", "xchg_tail", "pass"}
    /\ pc[c] = "link_next_prev" =>
         /\ prev[mynext[c]] = c
         /\ pc[mynext[c]] \in {"spin", "unqueue", "check_locked", "reload_prev"}

(* The queue lock that users of osq_lock() rely on. *)
TheHolder == IF Holders = {} THEN NULL ELSE CHOOSE c \in Holders : TRUE

QL == INSTANCE QueueLock WITH holder <- TheHolder, waiting <- arrival

(* osq_lock() and osq_unlock() implement a first-come first-served lock    *)
(* whose waiters may leave.                                                *)
ImplementsQueueLock == QL!Spec

(* Once the CPUs stop making new osq_lock() calls, every call returns: no  *)
(* two CPUs that unqueue next to each other, or one that unqueues and one  *)
(* that unlocks, wait for each other for ever.  (While others keep joining *)
(* and leaving behind it, a CPU in osq_wait_next() may always look at      *)
(* lock->tail and node->next at the wrong moment.)                         *)
NewCalls == \E c \in Cpus : InitNode(c)

EveryCallReturns ==
  \/ []<><<NewCalls>>_vars
  \/ \A c \in Cpus : pc[c] \notin {"idle", "locked"} ~> pc[c] \in {"idle", "locked"}

============================================================================
