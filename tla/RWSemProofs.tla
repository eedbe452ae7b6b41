---------------------------- MODULE RWSemProofs ----------------------------
(***************************************************************************)
(* Proofs about RWSem, for any number of tasks and calls and any active    *)
(* mask that has room for them.                                            *)
(*                                                                         *)
(* CountDecodes is inductive with the shape of a state: who holds          *)
(* wait_lock, who is on the two queues and what each task called.  It is   *)
(* stated here with sets of tasks (Decoded), so that a step moves one task *)
(* in or out.  No task is in two of the sets, so the low half of the count *)
(* never overflows and Active() and the comparisons of the code read the   *)
(* numbers back (Reads).  From that follow who may have the lock with whom *)
(* (Excluded), hence the refinement of RWLock, that the queue is never     *)
(* left alone (QueueMinded), and that nobody barges in.                    *)
(***************************************************************************)
EXTENDS RWSem, ListSeqProofs, FiniteSetTheorems, FunctionTheorems

USE NullAssumption, TasksAssumption, MaskAssumption, MaxCallsAssumption

(* B is one waiting bias. *)
B == RWSEM_ACTIVE_MASK + 1

(* Asleep, or about to be, in either slow path *)
SleepPC == {"set_state", "check", "schedule"}

(* The holder of wait_lock is at one of these. *)
LockPC == WakingPC \cup {"try_write", "add_waiting", "slow_set_owner"}

(* On the queue of spinners *)
OsqPC == {"osq_wait", "spin", "spin_on_owner", "try_unqueued", "osq_unlock",
          "spin_set_owner", "spin_osq_unlock"}

(* Only a writer is at one of these. *)
WritePC == OsqPC \cup {"write_failed", "can_spin", "osq_lock", "slow", "try_write",
             "relock", "add_waiting", "slow_set_owner", "write_set_owner",
             "writing", "up_write", "downgrade"}

(* A writer is on the wait list exactly while it is at one of these. *)
QueuedWriterPC == SleepPC \cup LockPC \cup {"relock"}

----------------------------------------------------------------------------
(* The shape of a state: who is where *)

OpAt(t) ==
  /\ pc[t] = "idle" => op[t] = "none"
  /\ pc[t] \in {"reading", "read_failed"} => op[t] = "read"
  /\ pc[t] \in WritePC => op[t] = "write"
  /\ pc[t] \in SleepPC => op[t] \in {"read", "write"}
  /\ pc[t] \in {"wake", "wake_trylock", "wake_lock"} => op[t] = "up"
  /\ pc[t] = "downgrade_wake" => op[t] = "downgrade"
  /\ pc[t] \in WakingPC => op[t] # "none"
  /\ pc[t] = "undo_grant" => op[t] # "downgrade"
  /\ op[t] = "downgrade" => pc[t] \in WakingPC \cup {"downgrade_wake"}

OpsRight == \A t \in Tasks : OpAt(t)

LockRight == \A t \in Tasks : wait_lock = t <=> pc[t] \in LockPC

QueuedAt(t) ==
  /\ t \in ToSet(wait_list) =>
       \/ op[t] = "read" /\ pc[t] \in SleepPC \cup WakingPC
       \/ op[t] = "write" /\ pc[t] \in QueuedWriterPC
  /\ op[t] = "write" /\ pc[t] \in QueuedWriterPC => t \in ToSet(wait_list)

ListRight == NoDuplicates(wait_list) /\ \A t \in Tasks : QueuedAt(t)

(* What the holder of wait_lock knows of the list *)
FrontAt(t) ==
  /\ pc[t] \in {"do_wake", "undo_grant", "count_readers", "grant"} => wait_list # <<>>
  /\ pc[t] \in {"undo_grant", "count_readers", "grant"} => IsReader(Head(wait_list))
  /\ pc[t] = "add_waiting" => Len(wait_list) > 1
  /\ pc[t] = "grant_wake" => tsk[t] \in Tasks

FrontRight == \A t \in Tasks : FrontAt(t)

OsqAt(t) ==
  /\ t \in ToSet(osq) <=> pc[t] \in OsqPC
  /\ pc[t] \in OsqPC \ {"osq_wait"} => Head(osq) = t

OsqRight == NoDuplicates(osq) /\ \A t \in Tasks : OsqAt(t)

Shape == TypeOK /\ OpsRight /\ LockRight /\ ListRight /\ FrontRight /\ OsqRight

----------------------------------------------------------------------------
(* What the count stands for, in sets of tasks *)

ReadFailing == {t \in Tasks : pc[t] = "read_failed"}
WriteFailing == {t \in Tasks : pc[t] = "write_failed"}

(* Those that put a write bias in, and those that are active *)
WriteSet == Writers \cup WriteFailing
Own == Readers \cup ReadFailing \cup WriteSet

(* The readers at the front of the list, as tasks *)
FrontTasks == {wait_list[i] : i \in FrontReaders}

(* The tasks waker t has made active for others *)
PendOf(t) ==
  CASE pc[t] = "undo_grant" -> {Head(wait_list)}
    [] pc[t] = "count_readers" -> IF op[t] = "downgrade" THEN {} ELSE {Head(wait_list)}
    [] pc[t] \in {"grant", "grant_wake"} -> FrontTasks
    [] OTHER -> {}

Pend == IF wait_lock = NULL THEN {} ELSE PendOf(wait_lock)

(* The waiting bias is in the count. *)
BiasOf(t) ==
  CASE pc[t] = "add_waiting" -> FALSE
    [] pc[t] = "slow_set_owner" -> Len(wait_list) > 1
    [] pc[t] \in {"grant", "grant_wake"} -> \E u \in ToSet(wait_list) : ~IsReader(u)
    [] OTHER -> wait_list # <<>>

Bias == IF wait_lock = NULL THEN wait_list # <<>> ELSE BiasOf(wait_lock)

Ind(b) == IF b THEN 1 ELSE 0

Decoded ==
  count = (Cardinality(Own) + Cardinality(Pend))
          - B * (Cardinality(WriteSet) + Ind(Bias))

----------------------------------------------------------------------------
(* Who keeps whom out *)

(* Waker t is about to make readers holders of the lock. *)
Granting(t) ==
  \/ pc[t] = "count_readers"
  \/ pc[t] \in {"grant", "grant_wake"} /\ FrontTasks # {}

Excluded ==
  /\ \A t, u \in Writers : t = u
  /\ Writers = {} \/ Readers = {}
  /\ \A t \in Tasks : Granting(t) => Writers = {}

----------------------------------------------------------------------------
(* Who looks after the queue *)

(* Responsible, but for those that may leave the queue to others: a waker  *)
(* that finds wait_lock busy, and a queued writer that wakes readers only. *)
Caring(t) ==
  \/ pc[t] \in {"read_failed", "write_failed", "can_spin", "osq_lock", "osq_wait",
       "spin", "spin_on_owner", "try_unqueued", "osq_unlock", "slow", "try_write",
       "relock", "wake", "wake_lock", "downgrade_wake", "undo_grant",
       "count_readers", "grant"}
  \/ pc[t] = "do_wake" /\ (op[t] \in {"read", "up"} \/ IsReader(Head(wait_list)))
  \/ pc[t] = "grant_wake" /\ FrontTasks # {}
  \/ /\ op[t] = "write" /\ t \in ToSet(wait_list)
     /\ \/ pc[t] = "check"
        \/ pc[t] \in {"set_state", "schedule"} /\ state[t] = "RUNNING"

Minders == {t \in Tasks : t \in Readers \/ t \in Writers \/ Caring(t)}

QueueMinded == wait_list # <<>> => Minders # {}

IInv == Shape /\ Decoded /\ Excluded /\ QueueMinded

----------------------------------------------------------------------------

(* A step of task t *)
TaskStep(t) ==
  \/ down_read(t) \/ down_read_trylock(t) \/ down_write(t) \/ down_write_trylock(t)
  \/ Step(t)

(* A step of one task moves that task only, and others can only be woken. *)
LEMMA Locality ==
  ASSUME TypeOK, OpsRight, NEW t \in Tasks, TaskStep(t)
  PROVE  \A u \in Tasks \ {t} :
           /\ pc'[u] = pc[u] /\ op'[u] = op[u]
           /\ state'[u] = state[u] \/ state'[u] = "RUNNING"
           /\ tsk'[u] = tsk[u]
<1> USE DEF TypeOK
<1>1. CASE down_read(t)
  BY <1>1 DEF down_read, Call, Goto
<1>2. CASE down_read_trylock(t)
  BY <1>2 DEF down_read_trylock, Call, Goto
<1>3. CASE down_write(t)
  BY <1>3 DEF down_write, Call, Goto
<1>4. CASE down_write_trylock(t)
  BY <1>4 DEF down_write_trylock, Call, Goto
<1>5. CASE WriteSetOwner(t)
  BY <1>5 DEF WriteSetOwner, Goto
<1>6. CASE WakeWriter(t)
  BY <1>6 DEF WakeWriter, WakeDone, Goto
<1>7. CASE ReaderGrant(t)
  BY <1>7 DEF ReaderGrant, Goto
<1>8. CASE UndoGrant(t)
  BY <1>8 DEF UndoGrant, WakeDone, Goto
<1>9. CASE CountReaders(t)
  BY <1>9 DEF CountReaders, Goto
<1>10. CASE Grant(t)
  BY <1>10 DEF Grant, WakeDone, Goto
<1>11. CASE ReadFailed(t)
  BY <1>11 DEF ReadFailed, Goto
<1>12. CASE SetState(t)
  BY <1>12 DEF SetState, Goto
<1>13. CASE CheckWait(t)
  BY <1>13 DEF CheckWait, Goto
<1>14. CASE Schedule(t)
  BY <1>14 DEF Schedule, Goto
<1>15. CASE WriteFailed(t)
  BY <1>15 DEF WriteFailed, Goto
<1>16. CASE CanSpin(t)
  BY <1>16 DEF CanSpin, Goto
<1>17. CASE OsqLock(t)
  BY <1>17 DEF OsqLock, Goto
<1>18. CASE Spin(t)
  BY <1>18 DEF Spin, Goto
<1>19. CASE SpinOnOwner(t)
  BY <1>19 DEF SpinOnOwner, Goto
<1>20. CASE TryUnqueued(t)
  BY <1>20 DEF TryUnqueued, Goto
<1>21. CASE SpinSetOwner(t)
  BY <1>21 DEF SpinSetOwner, Goto
<1>22. CASE OsqUnlock(t)
  BY <1>22 DEF OsqUnlock, Goto
<1>23. CASE SlowLock(t)
  BY <1>23 DEF SlowLock, Goto
<1>24. CASE TryWriteLock(t)
  BY <1>24 DEF TryWriteLock, Goto
<1>25. CASE AddWaiting(t)
  BY <1>25 DEF AddWaiting, Goto
<1>26. CASE SlowSetOwner(t)
  BY <1>26 DEF SlowSetOwner, Goto
<1>27. CASE up_read(t)
  BY <1>27 DEF up_read, Up, Goto
<1>28. CASE ClearOwner(t)
  BY <1>28 DEF ClearOwner, Goto
<1>29. CASE up_write(t)
  BY <1>29 DEF up_write, Up, Goto
<1>30. CASE HasSpinner(t)
  BY <1>30 DEF HasSpinner, Goto
<1>31. CASE WakeTrylock(t)
  BY <1>31 DEF WakeTrylock, Goto
<1>32. CASE WakeLocked(t)
  BY <1>32 DEF WakeLocked, WakeDone, Goto
<1>33. CASE downgrade_write(t)
  BY <1>33 DEF downgrade_write, Goto
<1> QED
  BY <1>1, <1>2, <1>3, <1>4, <1>5, <1>6, <1>7, <1>8, <1>9, <1>10, <1>11,
     <1>12, <1>13, <1>14, <1>15, <1>16, <1>17, <1>18, <1>19, <1>20, <1>21,
     <1>22, <1>23, <1>24, <1>25, <1>26, <1>27, <1>28, <1>29, <1>30, <1>31,
     <1>32, <1>33 DEF TaskStep, Step

(* The front of the list is part of it. *)
LEMMA FrontFinite ==
  ASSUME TypeOK
  PROVE  FrontReaders \subseteq 1..Len(wait_list) /\ IsFiniteSet(FrontReaders)
<1>1. Len(wait_list) \in Nat
  BY DEF TypeOK
<1>2. FrontReaders \subseteq 1..Len(wait_list)
  BY DEF FrontReaders
<1>3. IsFiniteSet(1..Len(wait_list))
  BY <1>1, FS_Interval
<1> QED BY <1>2, <1>3, FS_Subset

(* Every variable keeps its type. *)
LEMMA TypeStep ==
  ASSUME Shape, NEW t \in Tasks, TaskStep(t)
  PROVE  TypeOK'
<1> USE DEF Shape, TypeOK
<1>1. CASE down_read(t)
  <2>1. count' \in Int
    BY <1>1 DEF down_read, Call, Goto, RWSEM_WAITING_BIAS, RWSEM_ACTIVE_READ_BIAS, RWSEM_ACTIVE_WRITE_BIAS
  <2>2. pc' \in [Tasks -> PC]
    BY <1>1 DEF down_read, Call, Goto, PC
  <2>3. op' \in [Tasks -> {"none", "read", "write", "up", "downgrade"}]
    BY <1>1 DEF down_read, Call, Goto
  <2>4. calls' \in 0..MaxCalls
    BY <1>1 DEF down_read, Call, Goto
  <2>5. UNCHANGED <<owner, osq, wait_lock, wait_list, state, seen, tsk>>
    BY <1>1 DEF down_read, Call, Goto
  <2> QED BY <2>1, <2>2, <2>3, <2>4, <2>5
<1>2. CASE down_read_trylock(t)
  <2>1. count' \in Int
    BY <1>2 DEF down_read_trylock, Call, Goto, RWSEM_WAITING_BIAS, RWSEM_ACTIVE_READ_BIAS, RWSEM_ACTIVE_WRITE_BIAS
  <2>2. pc' \in [Tasks -> PC]
    BY <1>2 DEF down_read_trylock, Call, Goto, PC
  <2>3. op' \in [Tasks -> {"none", "read", "write", "up", "downgrade"}]
    BY <1>2 DEF down_read_trylock, Call, Goto
  <2>4. calls' \in 0..MaxCalls
    BY <1>2 DEF down_read_trylock, Call, Goto
  <2>5. UNCHANGED <<owner, osq, wait_lock, wait_list, state, seen, tsk>>
    BY <1>2 DEF down_read_trylock, Call, Goto
  <2> QED BY <2>1, <2>2, <2>3, <2>4, <2>5
<1>3. CASE down_write(t)
  <2>1. count' \in Int
    BY <1>3 DEF down_write, Call, Goto, RWSEM_WAITING_BIAS, RWSEM_ACTIVE_READ_BIAS, RWSEM_ACTIVE_WRITE_BIAS
  <2>2. pc' \in [Tasks -> PC]
    BY <1>3 DEF down_write, Call, Goto, PC
  <2>3. op' \in [Tasks -> {"none", "read", "write", "up", "downgrade"}]
    BY <1>3 DEF down_write, Call, Goto
  <2>4. calls' \in 0..MaxCalls
    BY <1>3 DEF down_write, Call, Goto
  <2>5. UNCHANGED <<owner, osq, wait_lock, wait_list, state, seen, tsk>>
    BY <1>3 DEF down_write, Call, Goto
  <2> QED BY <2>1, <2>2, <2>3, <2>4, <2>5
<1>4. CASE down_write_trylock(t)
  <2>1. count' \in Int
    BY <1>4 DEF down_write_trylock, Call, Goto, RWSEM_WAITING_BIAS, RWSEM_ACTIVE_READ_BIAS, RWSEM_ACTIVE_WRITE_BIAS
  <2>2. pc' \in [Tasks -> PC]
    BY <1>4 DEF down_write_trylock, Call, Goto, PC
  <2>3. op' \in [Tasks -> {"none", "read", "write", "up", "downgrade"}]
    BY <1>4 DEF down_write_trylock, Call, Goto
  <2>4. calls' \in 0..MaxCalls
    BY <1>4 DEF down_write_trylock, Call, Goto
  <2>5. UNCHANGED <<owner, osq, wait_lock, wait_list, state, seen, tsk>>
    BY <1>4 DEF down_write_trylock, Call, Goto
  <2> QED BY <2>1, <2>2, <2>3, <2>4, <2>5
<1>5. CASE WriteSetOwner(t)
  <2>1. pc' \in [Tasks -> PC]
    BY <1>5 DEF WriteSetOwner, Goto, PC
  <2>2. owner' \in Tasks \cup {NULL}
    BY <1>5 DEF WriteSetOwner, Goto
  <2>3. UNCHANGED <<count, osq, wait_lock, wait_list, op, state, seen, tsk, calls>>
    BY <1>5 DEF WriteSetOwner, Goto
  <2> QED BY <2>1, <2>2, <2>3
<1>6. CASE WakeWriter(t)
  <2>1. pc' \in [Tasks -> PC]
    BY <1>6 DEF WakeWriter, WakeDone, Goto, PC, OpsRight, OpAt, WakingPC
  <2>2. op' \in [Tasks -> {"none", "read", "write", "up", "downgrade"}]
    BY <1>6 DEF WakeWriter, WakeDone, Goto, OpsRight, OpAt, WakingPC
  <2>3. state' \in [Tasks -> {"RUNNING", "UNINTERRUPTIBLE"}]
    BY <1>6 DEF WakeWriter, WakeDone, Goto
  <2>4. wait_lock' \in Tasks \cup {NULL}
    BY <1>6 DEF WakeWriter, WakeDone, Goto
  <2>5. UNCHANGED <<count, owner, osq, wait_list, seen, tsk, calls>>
    BY <1>6 DEF WakeWriter, WakeDone, Goto
  <2> QED BY <2>1, <2>2, <2>3, <2>4, <2>5
<1>7. CASE ReaderGrant(t)
  <2>1. pc' \in [Tasks -> PC]
    BY <1>7 DEF ReaderGrant, Goto, PC
  <2>2. count' \in Int
    BY <1>7 DEF ReaderGrant, Goto, RWSEM_WAITING_BIAS, RWSEM_ACTIVE_READ_BIAS, RWSEM_ACTIVE_WRITE_BIAS
  <2>3. UNCHANGED <<owner, osq, wait_lock, wait_list, op, state, seen, tsk, calls>>
    BY <1>7 DEF ReaderGrant, Goto
  <2> QED BY <2>1, <2>2, <2>3
<1>8. CASE UndoGrant(t)
  <2>1. count' \in Int
    BY <1>8 DEF UndoGrant, WakeDone, Goto, RWSEM_WAITING_BIAS, RWSEM_ACTIVE_READ_BIAS, RWSEM_ACTIVE_WRITE_BIAS
  <2>2. pc' \in [Tasks -> PC]
    BY <1>8 DEF UndoGrant, WakeDone, Goto, PC, OpsRight, OpAt, WakingPC
  <2>3. op' \in [Tasks -> {"none", "read", "write", "up", "downgrade"}]
    BY <1>8 DEF UndoGrant, WakeDone, Goto, OpsRight, OpAt, WakingPC
  <2>4. state' \in [Tasks -> {"RUNNING", "UNINTERRUPTIBLE"}]
    BY <1>8 DEF UndoGrant, WakeDone, Goto
  <2>5. wait_lock' \in Tasks \cup {NULL}
    BY <1>8 DEF UndoGrant, WakeDone, Goto
  <2>6. UNCHANGED <<owner, osq, wait_list, seen, tsk, calls>>
    BY <1>8 DEF UndoGrant, WakeDone, Goto
  <2> QED BY <2>1, <2>2, <2>3, <2>4, <2>5, <2>6
<1>9. CASE CountReaders(t)
  <2>1. count' \in Int
    <3>1. Cardinality(FrontReaders) \in Int
      BY FrontFinite, FS_CardinalityType
    <3> HIDE DEF TypeOK
    <3>2. count \in Int
      BY DEF TypeOK
    <3> QED BY <1>9, <3>1, <3>2 DEF CountReaders, RWSEM_WAITING_BIAS, RWSEM_ACTIVE_READ_BIAS, RWSEM_ACTIVE_WRITE_BIAS
  <2>2. pc' \in [Tasks -> PC]
    BY <1>9 DEF CountReaders, Goto, PC
  <2>3. UNCHANGED <<owner, osq, wait_lock, wait_list, op, state, seen, tsk, calls>>
    BY <1>9 DEF CountReaders, Goto
  <2> QED BY <2>1, <2>2, <2>3
<1>10. CASE Grant(t)
  <2>1. pc' \in [Tasks -> PC]
    <3>1. \/ pc' = [pc EXCEPT ![t] = "grant_wake"]
          \/ pc' = [pc EXCEPT ![t] = "grant"]
          \/ /\ pc[t] = "grant_wake"
             /\ pc' = [pc EXCEPT ![t] = CASE op[t] = "read" -> "set_state"
                                       [] op[t] = "write" -> "schedule"
                                       [] op[t] = "up" -> "idle"
                                       [] op[t] = "downgrade" -> "reading"]
      BY <1>10 DEF Grant, WakeDone, Goto
    <3>2. pc[t] = "grant_wake" => op[t] \in {"read", "write", "up", "downgrade"}
      BY DEF OpsRight, OpAt, WakingPC
    <3> QED BY <3>1, <3>2 DEF PC
  <2>2. op' \in [Tasks -> {"none", "read", "write", "up", "downgrade"}]
    BY <1>10, ZenonT(60) DEF Grant, WakeDone, Goto, OpsRight, OpAt, WakingPC
  <2>3. state' \in [Tasks -> {"RUNNING", "UNINTERRUPTIBLE"}]
    BY <1>10 DEF Grant, WakeDone, Goto
  <2>4. wait_lock' \in Tasks \cup {NULL}
    BY <1>10 DEF Grant, WakeDone, Goto
  <2>5. tsk' \in [Tasks -> Tasks \cup {NULL}]
    <3>1. \/ tsk' = [tsk EXCEPT ![t] = NULL]
          \/ pc[t] = "grant" /\ tsk' = [tsk EXCEPT ![t] = Head(wait_list)]
      BY <1>10 DEF Grant, Goto
    <3>2. pc[t] = "grant" => wait_list # <<>>
      BY DEF FrontRight, FrontAt
    <3>3. wait_list # <<>> => Head(wait_list) \in Tasks
      OBVIOUS
    <3> QED BY <3>1, <3>2, <3>3
  <2>6. wait_list' \in Seq(Tasks)
    <3>1. wait_list' = wait_list \/ (pc[t] = "grant" /\ wait_list' = Tail(wait_list))
      BY <1>10 DEF Grant, Goto
    <3>2. pc[t] = "grant" => wait_list # <<>>
      BY DEF FrontRight, FrontAt
    <3>3. wait_list # <<>> => Tail(wait_list) \in Seq(Tasks)
      OBVIOUS
    <3> QED BY <3>1, <3>2, <3>3
  <2>7. UNCHANGED <<count, owner, osq, seen, calls>>
    BY <1>10 DEF Grant, WakeDone, Goto
  <2> QED BY <2>1, <2>2, <2>3, <2>4, <2>5, <2>6, <2>7
<1>11. CASE ReadFailed(t)
  <2>1. wait_list' \in Seq(Tasks)
    BY <1>11 DEF ReadFailed, Goto, list_add_tail
  <2>2. count' \in Int
    BY <1>11 DEF ReadFailed, Goto, RWSEM_WAITING_BIAS, RWSEM_ACTIVE_READ_BIAS, RWSEM_ACTIVE_WRITE_BIAS
  <2>3. pc' \in [Tasks -> PC]
    BY <1>11 DEF ReadFailed, Goto, PC
  <2>4. wait_lock' \in Tasks \cup {NULL}
    BY <1>11 DEF ReadFailed, Goto
  <2>5. UNCHANGED <<owner, osq, op, state, seen, tsk, calls>>
    BY <1>11 DEF ReadFailed, Goto
  <2> QED BY <2>1, <2>2, <2>3, <2>4, <2>5
<1>12. CASE SetState(t)
  <2>1. pc' \in [Tasks -> PC]
    BY <1>12 DEF SetState, Goto, PC
  <2>2. state' \in [Tasks -> {"RUNNING", "UNINTERRUPTIBLE"}]
    BY <1>12 DEF SetState, Goto
  <2>3. UNCHANGED <<count, owner, osq, wait_lock, wait_list, op, seen, tsk, calls>>
    BY <1>12 DEF SetState, Goto
  <2> QED BY <2>1, <2>2, <2>3
<1>13. CASE CheckWait(t)
  <2>1. pc' \in [Tasks -> PC]
    <3>1. \E p \in {"schedule", "reading", "relock"} : pc' = [pc EXCEPT ![t] = p]
      BY <1>13 DEF CheckWait, Goto
    <3> QED BY <3>1 DEF PC
  <2>2. state' \in [Tasks -> {"RUNNING", "UNINTERRUPTIBLE"}]
    BY <1>13 DEF CheckWait, Goto
  <2>3. UNCHANGED <<count, owner, osq, wait_lock, wait_list, op, seen, tsk, calls>>
    BY <1>13 DEF CheckWait, Goto
  <2> QED BY <2>1, <2>2, <2>3
<1>14. CASE Schedule(t)
  <2>1. pc' \in [Tasks -> PC]
    BY <1>14 DEF Schedule, Goto, PC
  <2>2. UNCHANGED <<count, owner, osq, wait_lock, wait_list, op, state, seen, tsk, calls>>
    BY <1>14 DEF Schedule, Goto
  <2> QED BY <2>1, <2>2
<1>15. CASE WriteFailed(t)
  <2>1. pc' \in [Tasks -> PC]
    BY <1>15 DEF WriteFailed, Goto, PC
  <2>2. count' \in Int
    BY <1>15 DEF WriteFailed, Goto, RWSEM_WAITING_BIAS, RWSEM_ACTIVE_READ_BIAS, RWSEM_ACTIVE_WRITE_BIAS
  <2>3. UNCHANGED <<owner, osq, wait_lock, wait_list, op, state, seen, tsk, calls>>
    BY <1>15 DEF WriteFailed, Goto
  <2> QED BY <2>1, <2>2, <2>3
<1>16. CASE CanSpin(t)
  <2>1. pc' \in [Tasks -> PC]
    BY <1>16 DEF CanSpin, Goto, PC
  <2>2. UNCHANGED <<count, owner, osq, wait_lock, wait_list, op, state, seen, tsk, calls>>
    BY <1>16 DEF CanSpin, Goto
  <2> QED BY <2>1, <2>2
<1>17. CASE OsqLock(t)
  <2>1. pc' \in [Tasks -> PC]
    BY <1>17 DEF OsqLock, Goto, PC
  <2>2. osq' \in Seq(Tasks)
    <3>1. \/ osq' = Append(osq, t)
          \/ osq' = osq
          \/ pc[t] = "osq_wait" /\ osq' = list_del(osq, t)
      BY <1>17 DEF OsqLock, Goto
    <3>2. ASSUME pc[t] = "osq_wait" PROVE list_del(osq, t) \in Seq(Tasks)
      <4>1. t \in ToSet(osq)
        BY <3>2 DEF OsqRight, OsqAt, OsqPC
      <4> QED BY <4>1, ListDelEntries
    <3>3. Append(osq, t) \in Seq(Tasks) /\ osq \in Seq(Tasks)
      OBVIOUS
    <3> QED BY <3>1, <3>2, <3>3
  <2>3. UNCHANGED <<count, owner, wait_lock, wait_list, op, state, seen, tsk, calls>>
    BY <1>17 DEF OsqLock, Goto
  <2> QED BY <2>1, <2>2, <2>3
<1>18. CASE Spin(t)
  <2>1. pc' \in [Tasks -> PC]
    BY <1>18 DEF Spin, Goto, PC
  <2>2. seen' \in [Tasks -> Tasks \cup {NULL}]
    BY <1>18 DEF Spin, Goto
  <2>3. UNCHANGED <<count, owner, osq, wait_lock, wait_list, op, state, tsk, calls>>
    BY <1>18 DEF Spin, Goto
  <2> QED BY <2>1, <2>2, <2>3
<1>19. CASE SpinOnOwner(t)
  <2>1. pc' \in [Tasks -> PC]
    BY <1>19 DEF SpinOnOwner, Goto, PC
  <2>2. UNCHANGED <<count, owner, osq, wait_lock, wait_list, op, state, seen, tsk, calls>>
    BY <1>19 DEF SpinOnOwner, Goto
  <2> QED BY <2>1, <2>2
<1>20. CASE TryUnqueued(t)
  <2>1. pc' \in [Tasks -> PC]
    BY <1>20 DEF TryUnqueued, Goto, PC
  <2>2. count' \in Int
    BY <1>20 DEF TryUnqueued, Goto, RWSEM_WAITING_BIAS, RWSEM_ACTIVE_READ_BIAS, RWSEM_ACTIVE_WRITE_BIAS
  <2>3. UNCHANGED <<owner, osq, wait_lock, wait_list, op, state, seen, tsk, calls>>
    BY <1>20 DEF TryUnqueued, Goto
  <2> QED BY <2>1, <2>2, <2>3
<1>21. CASE SpinSetOwner(t)
  <2>1. pc' \in [Tasks -> PC]
    BY <1>21 DEF SpinSetOwner, Goto, PC
  <2>2. owner' \in Tasks \cup {NULL}
    BY <1>21 DEF SpinSetOwner, Goto
  <2>3. UNCHANGED <<count, osq, wait_lock, wait_list, op, state, seen, tsk, calls>>
    BY <1>21 DEF SpinSetOwner, Goto
  <2> QED BY <2>1, <2>2, <2>3
<1>22. CASE OsqUnlock(t)
  <2>1. pc' \in [Tasks -> PC]
    BY <1>22 DEF OsqUnlock, Goto, PC
  <2>2. osq' \in Seq(Tasks)
    <3>1. t \in ToSet(osq)
      BY <1>22 DEF OsqUnlock, Goto, OsqRight, OsqAt, OsqPC
    <3>2. osq # <<>>
      BY <3>1, EmptyList
    <3> QED BY <1>22, <3>2 DEF OsqUnlock
  <2>3. seen' \in [Tasks -> Tasks \cup {NULL}]
    BY <1>22 DEF OsqUnlock, Goto
  <2>4. UNCHANGED <<count, owner, wait_lock, wait_list, op, state, tsk, calls>>
    BY <1>22 DEF OsqUnlock, Goto
  <2> QED BY <2>1, <2>2, <2>3, <2>4
<1>23. CASE SlowLock(t)
  <2>1. wait_list' \in Seq(Tasks)
    BY <1>23 DEF SlowLock, Goto, list_add_tail
  <2>2. count' \in Int
    BY <1>23 DEF SlowLock, Goto, RWSEM_WAITING_BIAS, RWSEM_ACTIVE_READ_BIAS, RWSEM_ACTIVE_WRITE_BIAS
  <2>3. pc' \in [Tasks -> PC]
    BY <1>23 DEF SlowLock, Goto, PC
  <2>4. wait_lock' \in Tasks \cup {NULL}
    BY <1>23 DEF SlowLock, Goto
  <2>5. state' \in [Tasks -> {"RUNNING", "UNINTERRUPTIBLE"}]
    BY <1>23 DEF SlowLock, Goto
  <2>6. UNCHANGED <<owner, osq, op, seen, tsk, calls>>
    BY <1>23 DEF SlowLock, Goto
  <2> QED BY <2>1, <2>2, <2>3, <2>4, <2>5, <2>6
<1>24. CASE TryWriteLock(t)
  <2>1. count' \in Int
    BY <1>24 DEF TryWriteLock, Goto, RWSEM_WAITING_BIAS, RWSEM_ACTIVE_READ_BIAS, RWSEM_ACTIVE_WRITE_BIAS
  <2>2. wait_lock' \in Tasks \cup {NULL}
    BY <1>24 DEF TryWriteLock, Goto
  <2>3. pc' \in [Tasks -> PC]
    BY <1>24 DEF TryWriteLock, Goto, PC
  <2>4. UNCHANGED <<owner, osq, wait_list, op, state, seen, tsk, calls>>
    BY <1>24 DEF TryWriteLock, Goto
  <2> QED BY <2>1, <2>2, <2>3, <2>4
<1>25. CASE AddWaiting(t)
  <2>1. pc' \in [Tasks -> PC]
    BY <1>25 DEF AddWaiting, Goto, PC
  <2>2. count' \in Int
    BY <1>25 DEF AddWaiting, Goto, RWSEM_WAITING_BIAS, RWSEM_ACTIVE_READ_BIAS, RWSEM_ACTIVE_WRITE_BIAS
  <2>3. UNCHANGED <<owner, osq, wait_lock, wait_list, op, state, seen, tsk, calls>>
    BY <1>25 DEF AddWaiting, Goto
  <2> QED BY <2>1, <2>2, <2>3
<1>26. CASE SlowSetOwner(t)
  <2>1. pc' \in [Tasks -> PC]
    BY <1>26 DEF SlowSetOwner, Goto, PC
  <2>2. owner' \in Tasks \cup {NULL}
    BY <1>26 DEF SlowSetOwner, Goto
  <2>3. wait_list' \in Seq(Tasks)
    <3>1. t \in ToSet(wait_list)
      BY <1>26 DEF SlowSetOwner, Goto, OpsRight, OpAt, ListRight, QueuedAt, WritePC, QueuedWriterPC, LockPC
    <3> QED BY <1>26, <3>1, ListDelEntries DEF SlowSetOwner
  <2>4. state' \in [Tasks -> {"RUNNING", "UNINTERRUPTIBLE"}]
    BY <1>26 DEF SlowSetOwner, Goto
  <2>5. wait_lock' \in Tasks \cup {NULL}
    BY <1>26 DEF SlowSetOwner, Goto
  <2>6. UNCHANGED <<count, osq, op, seen, tsk, calls>>
    BY <1>26 DEF SlowSetOwner, Goto
  <2> QED BY <2>1, <2>2, <2>3, <2>4, <2>5, <2>6
<1>27. CASE up_read(t)
  <2>1. count' \in Int
    BY <1>27 DEF up_read, Up, Goto, RWSEM_WAITING_BIAS, RWSEM_ACTIVE_READ_BIAS, RWSEM_ACTIVE_WRITE_BIAS
  <2>2. pc' \in [Tasks -> PC]
    BY <1>27 DEF up_read, Up, Goto, PC
  <2>3. op' \in [Tasks -> {"none", "read", "write", "up", "downgrade"}]
    BY <1>27 DEF up_read, Up, Goto
  <2>4. UNCHANGED <<owner, osq, wait_lock, wait_list, state, seen, tsk, calls>>
    BY <1>27 DEF up_read, Up, Goto
  <2> QED BY <2>1, <2>2, <2>3, <2>4
<1>28. CASE ClearOwner(t)
  <2>1. pc' \in [Tasks -> PC]
    BY <1>28 DEF ClearOwner, Goto, PC
  <2>2. owner' \in Tasks \cup {NULL}
    BY <1>28 DEF ClearOwner, Goto
  <2>3. UNCHANGED <<count, osq, wait_lock, wait_list, op, state, seen, tsk, calls>>
    BY <1>28 DEF ClearOwner, Goto
  <2> QED BY <2>1, <2>2, <2>3
<1>29. CASE up_write(t)
  <2>1. count' \in Int
    BY <1>29 DEF up_write, Up, Goto, RWSEM_WAITING_BIAS, RWSEM_ACTIVE_READ_BIAS, RWSEM_ACTIVE_WRITE_BIAS
  <2>2. pc' \in [Tasks -> PC]
    BY <1>29 DEF up_write, Up, Goto, PC
  <2>3. op' \in [Tasks -> {"none", "read", "write", "up", "downgrade"}]
    BY <1>29 DEF up_write, Up, Goto
  <2>4. UNCHANGED <<owner, osq, wait_lock, wait_list, state, seen, tsk, calls>>
    BY <1>29 DEF up_write, Up, Goto
  <2> QED BY <2>1, <2>2, <2>3, <2>4
<1>30. CASE HasSpinner(t)
  <2>1. pc' \in [Tasks -> PC]
    BY <1>30 DEF HasSpinner, Goto, PC
  <2>2. UNCHANGED <<count, owner, osq, wait_lock, wait_list, op, state, seen, tsk, calls>>
    BY <1>30 DEF HasSpinner, Goto
  <2> QED BY <2>1, <2>2
<1>31. CASE WakeTrylock(t)
  <2>1. pc' \in [Tasks -> PC]
    BY <1>31 DEF WakeTrylock, Goto, PC
  <2>2. op' \in [Tasks -> {"none", "read", "write", "up", "downgrade"}]
    BY <1>31 DEF WakeTrylock, Goto
  <2>3. UNCHANGED <<count, owner, osq, wait_lock, wait_list, state, seen, tsk, calls>>
    BY <1>31 DEF WakeTrylock, Goto
  <2> QED BY <2>1, <2>2, <2>3
<1>32. CASE WakeLocked(t)
  <2>1. pc' \in [Tasks -> PC]
    BY <1>32 DEF WakeLocked, WakeDone, Goto, PC, OpsRight, OpAt, WakingPC
  <2>2. op' \in [Tasks -> {"none", "read", "write", "up", "downgrade"}]
    BY <1>32 DEF WakeLocked, WakeDone, Goto, OpsRight, OpAt, WakingPC
  <2>3. state' \in [Tasks -> {"RUNNING", "UNINTERRUPTIBLE"}]
    BY <1>32 DEF WakeLocked, WakeDone, Goto
  <2>4. wait_lock' \in Tasks \cup {NULL}
    BY <1>32 DEF WakeLocked, WakeDone, Goto
  <2>5. UNCHANGED <<count, owner, osq, wait_list, seen, tsk, calls>>
    BY <1>32 DEF WakeLocked, WakeDone, Goto
  <2> QED BY <2>1, <2>2, <2>3, <2>4, <2>5
<1>33. CASE downgrade_write(t)
  <2>1. count' \in Int
    BY <1>33 DEF downgrade_write, Goto, RWSEM_WAITING_BIAS, RWSEM_ACTIVE_READ_BIAS, RWSEM_ACTIVE_WRITE_BIAS
  <2>2. pc' \in [Tasks -> PC]
    BY <1>33 DEF downgrade_write, Goto, PC
  <2>3. op' \in [Tasks -> {"none", "read", "write", "up", "downgrade"}]
    BY <1>33 DEF downgrade_write, Goto
  <2>4. UNCHANGED <<owner, osq, wait_lock, wait_list, state, seen, tsk, calls>>
    BY <1>33 DEF downgrade_write, Goto
  <2> QED BY <2>1, <2>2, <2>3, <2>4
<1> QED
  BY <1>1, <1>2, <1>3, <1>4, <1>5, <1>6, <1>7, <1>8, <1>9, <1>10, <1>11,
     <1>12, <1>13, <1>14, <1>15, <1>16, <1>17, <1>18, <1>19, <1>20, <1>21,
     <1>22, <1>23, <1>24, <1>25, <1>26, <1>27, <1>28, <1>29, <1>30, <1>31,
     <1>32, <1>33 DEF TaskStep, Step

(* Where a waiter goes from its check *)
LEMMA CheckMoves ==
  ASSUME TypeOK, NEW t \in Tasks, CheckWait(t)
  PROVE  /\ pc[t] = "check" /\ op' = op /\ wait_list' = wait_list /\ count' = count
         /\ \/ op[t] = "read" /\ t \in ToSet(wait_list) /\ pc'[t] = "schedule"
            \/ op[t] = "read" /\ t \notin ToSet(wait_list) /\ pc'[t] = "reading"
            \/ op[t] # "read" /\ Active(count) # 0 /\ pc'[t] = "schedule"
            \/ op[t] # "read" /\ Active(count) = 0 /\ pc'[t] = "relock"
<1>1. Contains(wait_list, t) <=> t \in ToSet(wait_list)
  BY ContainsToSet DEF TypeOK
<1>2. pc[t] = "check" /\ op' = op /\ wait_list' = wait_list /\ count' = count
  BY DEF CheckWait, Goto
<1>3. CASE IsReader(t) /\ Contains(wait_list, t)
  BY <1>1, <1>2, <1>3 DEF CheckWait, Goto, IsReader, TypeOK
<1>4. CASE IsReader(t) /\ ~Contains(wait_list, t)
  BY <1>1, <1>2, <1>4 DEF CheckWait, Goto, IsReader, TypeOK
<1>5. CASE ~IsReader(t)
  BY <1>1, <1>2, <1>5 DEF CheckWait, Goto, IsReader, TypeOK
<1> QED BY <1>3, <1>4, <1>5

(* What a task called fits where it is. *)
LEMMA OpStep ==
  ASSUME TypeOK, OpsRight, NEW t \in Tasks, TaskStep(t)
  PROVE  OpAt(t)'
<1> USE DEF TypeOK
<1>1. CASE down_read(t)
  BY <1>1 DEF down_read, Call, Goto, OpsRight, OpAt, SleepPC, WritePC, OsqPC, WakingPC
<1>2. CASE down_read_trylock(t)
  BY <1>2 DEF down_read_trylock, Call, Goto, OpsRight, OpAt, SleepPC, WritePC, OsqPC, WakingPC
<1>3. CASE down_write(t)
  BY <1>3 DEF down_write, Call, Goto, OpsRight, OpAt, SleepPC, WritePC, OsqPC, WakingPC
<1>4. CASE down_write_trylock(t)
  BY <1>4 DEF down_write_trylock, Call, Goto, OpsRight, OpAt, SleepPC, WritePC, OsqPC, WakingPC
<1>5. CASE WriteSetOwner(t)
  BY <1>5 DEF WriteSetOwner, Goto, OpsRight, OpAt, SleepPC, WritePC, OsqPC, WakingPC
<1>6. CASE WakeWriter(t)
  BY <1>6 DEF WakeWriter, WakeDone, Goto, OpsRight, OpAt, SleepPC, WritePC, OsqPC, WakingPC
<1>7. CASE ReaderGrant(t)
  BY <1>7 DEF ReaderGrant, Goto, OpsRight, OpAt, SleepPC, WritePC, OsqPC, WakingPC
<1>8. CASE UndoGrant(t)
  BY <1>8 DEF UndoGrant, WakeDone, Goto, OpsRight, OpAt, SleepPC, WritePC, OsqPC, WakingPC
<1>9. CASE CountReaders(t)
  BY <1>9 DEF CountReaders, Goto, OpsRight, OpAt, SleepPC, WritePC, OsqPC, WakingPC
<1>10. CASE Grant(t)
  BY <1>10 DEF Grant, WakeDone, Goto, OpsRight, OpAt, SleepPC, WritePC, OsqPC, WakingPC
<1>11. CASE ReadFailed(t)
  BY <1>11 DEF ReadFailed, Goto, OpsRight, OpAt, SleepPC, WritePC, OsqPC, WakingPC
<1>12. CASE SetState(t)
  BY <1>12 DEF SetState, Goto, OpsRight, OpAt, SleepPC, WritePC, OsqPC, WakingPC
<1>13. CASE CheckWait(t)
  BY <1>13, CheckMoves DEF TypeOK, OpsRight, OpAt, SleepPC, WritePC, OsqPC, WakingPC
<1>14. CASE Schedule(t)
  BY <1>14 DEF Schedule, Goto, OpsRight, OpAt, SleepPC, WritePC, OsqPC, WakingPC
<1>15. CASE WriteFailed(t)
  BY <1>15 DEF WriteFailed, Goto, OpsRight, OpAt, SleepPC, WritePC, OsqPC, WakingPC
<1>16. CASE CanSpin(t)
  BY <1>16 DEF CanSpin, Goto, OpsRight, OpAt, SleepPC, WritePC, OsqPC, WakingPC
<1>17. CASE OsqLock(t)
  BY <1>17 DEF OsqLock, Goto, OpsRight, OpAt, SleepPC, WritePC, OsqPC, WakingPC
<1>18. CASE Spin(t)
  BY <1>18 DEF Spin, Goto, OpsRight, OpAt, SleepPC, WritePC, OsqPC, WakingPC
<1>19. CASE SpinOnOwner(t)
  BY <1>19 DEF SpinOnOwner, Goto, OpsRight, OpAt, SleepPC, WritePC, OsqPC, WakingPC
<1>20. CASE TryUnqueued(t)
  BY <1>20 DEF TryUnqueued, Goto, OpsRight, OpAt, SleepPC, WritePC, OsqPC, WakingPC
<1>21. CASE SpinSetOwner(t)
  BY <1>21 DEF SpinSetOwner, Goto, OpsRight, OpAt, SleepPC, WritePC, OsqPC, WakingPC
<1>22. CASE OsqUnlock(t)
  BY <1>22 DEF OsqUnlock, Goto, OpsRight, OpAt, SleepPC, WritePC, OsqPC, WakingPC
<1>23. CASE SlowLock(t)
  BY <1>23 DEF SlowLock, Goto, OpsRight, OpAt, SleepPC, WritePC, OsqPC, WakingPC
<1>24. CASE TryWriteLock(t)
  BY <1>24 DEF TryWriteLock, Goto, OpsRight, OpAt, SleepPC, WritePC, OsqPC, WakingPC
<1>25. CASE AddWaiting(t)
  BY <1>25 DEF AddWaiting, Goto, OpsRight, OpAt, SleepPC, WritePC, OsqPC, WakingPC
<1>26. CASE SlowSetOwner(t)
  BY <1>26 DEF SlowSetOwner, Goto, OpsRight, OpAt, SleepPC, WritePC, OsqPC, WakingPC
<1>27. CASE up_read(t)
  BY <1>27 DEF up_read, Up, Goto, OpsRight, OpAt, SleepPC, WritePC, OsqPC, WakingPC
<1>28. CASE ClearOwner(t)
  BY <1>28 DEF ClearOwner, Goto, OpsRight, OpAt, SleepPC, WritePC, OsqPC, WakingPC
<1>29. CASE up_write(t)
  BY <1>29 DEF up_write, Up, Goto, OpsRight, OpAt, SleepPC, WritePC, OsqPC, WakingPC
<1>30. CASE HasSpinner(t)
  BY <1>30 DEF HasSpinner, Goto, OpsRight, OpAt, SleepPC, WritePC, OsqPC, WakingPC
<1>31. CASE WakeTrylock(t)
  BY <1>31 DEF WakeTrylock, Goto, OpsRight, OpAt, SleepPC, WritePC, OsqPC, WakingPC
<1>32. CASE WakeLocked(t)
  BY <1>32 DEF WakeLocked, WakeDone, Goto, OpsRight, OpAt, SleepPC, WritePC, OsqPC, WakingPC
<1>33. CASE downgrade_write(t)
  BY <1>33 DEF downgrade_write, Goto, OpsRight, OpAt, SleepPC, WritePC, OsqPC, WakingPC
<1> QED
  BY <1>1, <1>2, <1>3, <1>4, <1>5, <1>6, <1>7, <1>8, <1>9, <1>10, <1>11,
     <1>12, <1>13, <1>14, <1>15, <1>16, <1>17, <1>18, <1>19, <1>20, <1>21,
     <1>22, <1>23, <1>24, <1>25, <1>26, <1>27, <1>28, <1>29, <1>30, <1>31,
     <1>32, <1>33 DEF TaskStep, Step

(* The steps that have nothing to do with wait_lock *)
PlainStep(t) ==
  \/ down_read(t) \/ down_read_trylock(t) \/ down_write(t) \/ down_write_trylock(t) \/ WriteSetOwner(t)
  \/ SetState(t) \/ CheckWait(t) \/ Schedule(t) \/ WriteFailed(t) \/ CanSpin(t)
  \/ OsqLock(t) \/ Spin(t) \/ SpinOnOwner(t) \/ TryUnqueued(t) \/ SpinSetOwner(t)
  \/ OsqUnlock(t) \/ up_read(t) \/ ClearOwner(t) \/ up_write(t) \/ HasSpinner(t)
  \/ WakeTrylock(t) \/ downgrade_write(t)

(* The others *)
LockedStep(t) ==
  \/ WakeWriter(t) \/ ReaderGrant(t) \/ UndoGrant(t) \/ CountReaders(t) \/ Grant(t)
  \/ ReadFailed(t) \/ SlowLock(t) \/ TryWriteLock(t) \/ AddWaiting(t) \/ SlowSetOwner(t)
  \/ WakeLocked(t)

(* A step of the first kind *)
Plain(t) ==
  /\ pc[t] \notin LockPC /\ pc'[t] \notin LockPC
  /\ UNCHANGED <<wait_lock, wait_list>>

(* A step that takes wait_lock, has it, or drops it *)
Locking(t) ==
  /\ wait_lock \in {NULL, t}
  /\ wait_lock' = IF pc'[t] \in LockPC THEN t ELSE NULL

(* Every step is one or the other. *)
LEMMA LockStep ==
  ASSUME TypeOK, OpsRight, LockRight, NEW t \in Tasks, TaskStep(t)
  PROVE  (PlainStep(t) /\ Plain(t)) \/ (LockedStep(t) /\ Locking(t))
<1> USE DEF TypeOK, LockRight
<1>1. CASE down_read(t)
  BY <1>1 DEF down_read, Call, Goto, Plain, LockPC, WakingPC, PlainStep
<1>2. CASE down_read_trylock(t)
  BY <1>2 DEF down_read_trylock, Call, Goto, Plain, LockPC, WakingPC, PlainStep
<1>3. CASE down_write(t)
  BY <1>3 DEF down_write, Call, Goto, Plain, LockPC, WakingPC, PlainStep
<1>4. CASE down_write_trylock(t)
  BY <1>4 DEF down_write_trylock, Call, Goto, Plain, LockPC, WakingPC, PlainStep
<1>5. CASE WriteSetOwner(t)
  BY <1>5 DEF WriteSetOwner, Goto, Plain, LockPC, WakingPC, PlainStep
<1>6. CASE WakeWriter(t)
  BY <1>6 DEF WakeWriter, WakeDone, Goto, Locking, LockPC, WakingPC, OpsRight, OpAt, LockedStep
<1>7. CASE ReaderGrant(t)
  BY <1>7 DEF ReaderGrant, Goto, Locking, LockPC, WakingPC, OpsRight, OpAt, LockedStep
<1>8. CASE UndoGrant(t)
  BY <1>8 DEF UndoGrant, WakeDone, Goto, Locking, LockPC, WakingPC, OpsRight, OpAt, LockedStep
<1>9. CASE CountReaders(t)
  BY <1>9 DEF CountReaders, Goto, Locking, LockPC, WakingPC, OpsRight, OpAt, LockedStep
<1>10. CASE Grant(t)
  BY <1>10 DEF Grant, WakeDone, Goto, Locking, LockPC, WakingPC, OpsRight, OpAt, LockedStep
<1>11. CASE ReadFailed(t)
  BY <1>11 DEF ReadFailed, Goto, Locking, LockPC, WakingPC, OpsRight, OpAt, LockedStep
<1>12. CASE SetState(t)
  BY <1>12 DEF SetState, Goto, Plain, LockPC, WakingPC, PlainStep
<1>13. CASE CheckWait(t)
  BY <1>13, ZenonT(60) DEF CheckWait, Goto, Plain, LockPC, WakingPC, PlainStep
<1>14. CASE Schedule(t)
  BY <1>14 DEF Schedule, Goto, Plain, LockPC, WakingPC, PlainStep
<1>15. CASE WriteFailed(t)
  BY <1>15 DEF WriteFailed, Goto, Plain, LockPC, WakingPC, PlainStep
<1>16. CASE CanSpin(t)
  BY <1>16 DEF CanSpin, Goto, Plain, LockPC, WakingPC, PlainStep
<1>17. CASE OsqLock(t)
  BY <1>17 DEF OsqLock, Goto, Plain, LockPC, WakingPC, PlainStep
<1>18. CASE Spin(t)
  BY <1>18 DEF Spin, Goto, Plain, LockPC, WakingPC, PlainStep
<1>19. CASE SpinOnOwner(t)
  BY <1>19 DEF SpinOnOwner, Goto, Plain, LockPC, WakingPC, PlainStep
<1>20. CASE TryUnqueued(t)
  BY <1>20 DEF TryUnqueued, Goto, Plain, LockPC, WakingPC, PlainStep
<1>21. CASE SpinSetOwner(t)
  BY <1>21 DEF SpinSetOwner, Goto, Plain, LockPC, WakingPC, PlainStep
<1>22. CASE OsqUnlock(t)
  BY <1>22 DEF OsqUnlock, Goto, Plain, LockPC, WakingPC, PlainStep
<1>23. CASE SlowLock(t)
  BY <1>23 DEF SlowLock, Goto, Locking, LockPC, WakingPC, OpsRight, OpAt, LockedStep
<1>24. CASE TryWriteLock(t)
  BY <1>24 DEF TryWriteLock, Goto, Locking, LockPC, WakingPC, OpsRight, OpAt, LockedStep
<1>25. CASE AddWaiting(t)
  BY <1>25 DEF AddWaiting, Goto, Locking, LockPC, WakingPC, OpsRight, OpAt, LockedStep
<1>26. CASE SlowSetOwner(t)
  BY <1>26 DEF SlowSetOwner, Goto, Locking, LockPC, WakingPC, OpsRight, OpAt, LockedStep
<1>27. CASE up_read(t)
  BY <1>27 DEF up_read, Up, Goto, Plain, LockPC, WakingPC, PlainStep
<1>28. CASE ClearOwner(t)
  BY <1>28 DEF ClearOwner, Goto, Plain, LockPC, WakingPC, PlainStep
<1>29. CASE up_write(t)
  BY <1>29 DEF up_write, Up, Goto, Plain, LockPC, WakingPC, PlainStep
<1>30. CASE HasSpinner(t)
  BY <1>30 DEF HasSpinner, Goto, Plain, LockPC, WakingPC, PlainStep
<1>31. CASE WakeTrylock(t)
  BY <1>31 DEF WakeTrylock, Goto, Plain, LockPC, WakingPC, PlainStep
<1>32. CASE WakeLocked(t)
  BY <1>32 DEF WakeLocked, WakeDone, Goto, Locking, LockPC, WakingPC, OpsRight, OpAt, LockedStep
<1>33. CASE downgrade_write(t)
  BY <1>33 DEF downgrade_write, Goto, Plain, LockPC, WakingPC, PlainStep
<1> QED
  BY <1>1, <1>2, <1>3, <1>4, <1>5, <1>6, <1>7, <1>8, <1>9, <1>10, <1>11,
     <1>12, <1>13, <1>14, <1>15, <1>16, <1>17, <1>18, <1>19, <1>20, <1>21,
     <1>22, <1>23, <1>24, <1>25, <1>26, <1>27, <1>28, <1>29, <1>30, <1>31,
     <1>32, <1>33 DEF TaskStep, Step

(* Those on the list stay with what they called. *)
LEMMA ListOps ==
  ASSUME Shape, NEW t \in Tasks, TaskStep(t)
  PROVE  \A u \in ToSet(wait_list) : u \in Tasks /\ op'[u] = op[u]
<1>1. wait_list \in Seq(Tasks) /\ ToSet(wait_list) \subseteq Tasks
  BY DEF Shape, TypeOK, ToSet
<1>2. ASSUME t \in ToSet(wait_list) PROVE op'[t] = op[t]
  <2>h. QueuedAt(t) /\ t \in ToSet(wait_list) /\ op \in [Tasks -> {"none", "read", "write", "up", "downgrade"}]
    BY <1>2 DEF Shape, ListRight, TypeOK
  <2>1. CASE down_read(t)
    BY <2>1, <2>h DEF down_read, Call, Goto, QueuedAt, SleepPC, WakingPC, QueuedWriterPC, LockPC
  <2>2. CASE down_read_trylock(t)
    BY <2>2, <2>h DEF down_read_trylock, Call, Goto, QueuedAt, SleepPC, WakingPC, QueuedWriterPC, LockPC
  <2>3. CASE down_write(t)
    BY <2>3, <2>h DEF down_write, Call, Goto, QueuedAt, SleepPC, WakingPC, QueuedWriterPC, LockPC
  <2>4. CASE down_write_trylock(t)
    BY <2>4, <2>h DEF down_write_trylock, Call, Goto, QueuedAt, SleepPC, WakingPC, QueuedWriterPC, LockPC
  <2>5. CASE WriteSetOwner(t)
    BY <2>5, <2>h DEF WriteSetOwner, Goto, QueuedAt, SleepPC, WakingPC, QueuedWriterPC, LockPC
  <2>6. CASE WakeWriter(t)
    BY <2>6, <2>h DEF WakeWriter, WakeDone, Goto, QueuedAt, SleepPC, WakingPC, QueuedWriterPC, LockPC
  <2>7. CASE ReaderGrant(t)
    BY <2>7, <2>h DEF ReaderGrant, Goto, QueuedAt, SleepPC, WakingPC, QueuedWriterPC, LockPC
  <2>8. CASE UndoGrant(t)
    BY <2>8, <2>h DEF UndoGrant, WakeDone, Goto, QueuedAt, SleepPC, WakingPC, QueuedWriterPC, LockPC
  <2>9. CASE CountReaders(t)
    BY <2>9, <2>h DEF CountReaders, Goto, QueuedAt, SleepPC, WakingPC, QueuedWriterPC, LockPC
  <2>10. CASE Grant(t)
    BY <2>10, <2>h DEF Grant, WakeDone, Goto, QueuedAt, SleepPC, WakingPC, QueuedWriterPC, LockPC
  <2>11. CASE ReadFailed(t)
    BY <2>11, <2>h DEF ReadFailed, Goto, QueuedAt, SleepPC, WakingPC, QueuedWriterPC, LockPC
  <2>12. CASE SetState(t)
    BY <2>12, <2>h DEF SetState, Goto, QueuedAt, SleepPC, WakingPC, QueuedWriterPC, LockPC
  <2>13. CASE CheckWait(t)
    BY <2>13, <2>h DEF CheckWait, Goto, QueuedAt, SleepPC, WakingPC, QueuedWriterPC, LockPC
  <2>14. CASE Schedule(t)
    BY <2>14, <2>h DEF Schedule, Goto, QueuedAt, SleepPC, WakingPC, QueuedWriterPC, LockPC
  <2>15. CASE WriteFailed(t)
    BY <2>15, <2>h DEF WriteFailed, Goto, QueuedAt, SleepPC, WakingPC, QueuedWriterPC, LockPC
  <2>16. CASE CanSpin(t)
    BY <2>16, <2>h DEF CanSpin, Goto, QueuedAt, SleepPC, WakingPC, QueuedWriterPC, LockPC
  <2>17. CASE OsqLock(t)
    BY <2>17, <2>h DEF OsqLock, Goto, QueuedAt, SleepPC, WakingPC, QueuedWriterPC, LockPC
  <2>18. CASE Spin(t)
    BY <2>18, <2>h DEF Spin, Goto, QueuedAt, SleepPC, WakingPC, QueuedWriterPC, LockPC
  <2>19. CASE SpinOnOwner(t)
    BY <2>19, <2>h DEF SpinOnOwner, Goto, QueuedAt, SleepPC, WakingPC, QueuedWriterPC, LockPC
  <2>20. CASE TryUnqueued(t)
    BY <2>20, <2>h DEF TryUnqueued, Goto, QueuedAt, SleepPC, WakingPC, QueuedWriterPC, LockPC
  <2>21. CASE SpinSetOwner(t)
    BY <2>21, <2>h DEF SpinSetOwner, Goto, QueuedAt, SleepPC, WakingPC, QueuedWriterPC, LockPC
  <2>22. CASE OsqUnlock(t)
    BY <2>22, <2>h DEF OsqUnlock, Goto, QueuedAt, SleepPC, WakingPC, QueuedWriterPC, LockPC
  <2>23. CASE SlowLock(t)
    BY <2>23, <2>h DEF SlowLock, Goto, QueuedAt, SleepPC, WakingPC, QueuedWriterPC, LockPC
  <2>24. CASE TryWriteLock(t)
    BY <2>24, <2>h DEF TryWriteLock, Goto, QueuedAt, SleepPC, WakingPC, QueuedWriterPC, LockPC
  <2>25. CASE AddWaiting(t)
    BY <2>25, <2>h DEF AddWaiting, Goto, QueuedAt, SleepPC, WakingPC, QueuedWriterPC, LockPC
  <2>26. CASE SlowSetOwner(t)
    BY <2>26, <2>h DEF SlowSetOwner, Goto, QueuedAt, SleepPC, WakingPC, QueuedWriterPC, LockPC
  <2>27. CASE up_read(t)
    BY <2>27, <2>h DEF up_read, Up, Goto, QueuedAt, SleepPC, WakingPC, QueuedWriterPC, LockPC
  <2>28. CASE ClearOwner(t)
    BY <2>28, <2>h DEF ClearOwner, Goto, QueuedAt, SleepPC, WakingPC, QueuedWriterPC, LockPC
  <2>29. CASE up_write(t)
    BY <2>29, <2>h DEF up_write, Up, Goto, QueuedAt, SleepPC, WakingPC, QueuedWriterPC, LockPC
  <2>30. CASE HasSpinner(t)
    BY <2>30, <2>h DEF HasSpinner, Goto, QueuedAt, SleepPC, WakingPC, QueuedWriterPC, LockPC
  <2>31. CASE WakeTrylock(t)
    BY <2>31, <2>h DEF WakeTrylock, Goto, QueuedAt, SleepPC, WakingPC, QueuedWriterPC, LockPC
  <2>32. CASE WakeLocked(t)
    BY <2>32, <2>h DEF WakeLocked, WakeDone, Goto, QueuedAt, SleepPC, WakingPC, QueuedWriterPC, LockPC
  <2>33. CASE downgrade_write(t)
    BY <2>33, <2>h DEF downgrade_write, Goto, QueuedAt, SleepPC, WakingPC, QueuedWriterPC, LockPC
  <2> QED
    BY <2>1, <2>2, <2>3, <2>4, <2>5, <2>6, <2>7, <2>8, <2>9, <2>10, <2>11,
       <2>12, <2>13, <2>14, <2>15, <2>16, <2>17, <2>18, <2>19, <2>20, <2>21,
       <2>22, <2>23, <2>24, <2>25, <2>26, <2>27, <2>28, <2>29, <2>30, <2>31,
       <2>32, <2>33 DEF TaskStep, Step
<1>3. TypeOK /\ OpsRight
  BY DEF Shape
<1> QED BY <1>1, <1>2, <1>3, Locality

(* What a step does to the wait list *)
ListMove(t) ==
  /\ wait_list' \in Seq(Tasks) /\ NoDuplicates(wait_list')
  /\ \/ wait_list' = wait_list
     \/ /\ ReadFailed(t) \/ SlowLock(t)
        /\ t \notin ToSet(wait_list) /\ ToSet(wait_list') = ToSet(wait_list) \cup {t}
        /\ wait_list' = Append(wait_list, t)
     \/ /\ SlowSetOwner(t)
        /\ t \in ToSet(wait_list) /\ ToSet(wait_list') = ToSet(wait_list) \ {t}
        /\ Len(wait_list') = Len(wait_list) - 1
     \/ /\ pc[t] = "grant" /\ Grant(t) /\ pc'[t] = "grant_wake" /\ op' = op
        /\ wait_list # <<>> /\ wait_list' = Tail(wait_list)
        /\ Head(wait_list) \in ToSet(wait_list) /\ op[Head(wait_list)] = "read"
        /\ ToSet(wait_list') = ToSet(wait_list) \ {Head(wait_list)}

(* Every step keeps the list one without duplicates. *)
LEMMA ListStep ==
  ASSUME Shape, NEW t \in Tasks, TaskStep(t)
  PROVE  ListMove(t)
<1> USE DEF Shape, TypeOK
<1>1. CASE down_read(t)
  <2>1. wait_list' = wait_list
    BY <1>1 DEF down_read, Call, Goto
  <2> QED BY <2>1 DEF ListRight, ListMove
<1>2. CASE down_read_trylock(t)
  <2>1. wait_list' = wait_list
    BY <1>2 DEF down_read_trylock, Call, Goto
  <2> QED BY <2>1 DEF ListRight, ListMove
<1>3. CASE down_write(t)
  <2>1. wait_list' = wait_list
    BY <1>3 DEF down_write, Call, Goto
  <2> QED BY <2>1 DEF ListRight, ListMove
<1>4. CASE down_write_trylock(t)
  <2>1. wait_list' = wait_list
    BY <1>4 DEF down_write_trylock, Call, Goto
  <2> QED BY <2>1 DEF ListRight, ListMove
<1>5. CASE WriteSetOwner(t)
  <2>1. wait_list' = wait_list
    BY <1>5 DEF WriteSetOwner, Goto
  <2> QED BY <2>1 DEF ListRight, ListMove
<1>6. CASE WakeWriter(t)
  <2>1. wait_list' = wait_list
    BY <1>6 DEF WakeWriter, WakeDone, Goto
  <2> QED BY <2>1 DEF ListRight, ListMove
<1>7. CASE ReaderGrant(t)
  <2>1. wait_list' = wait_list
    BY <1>7 DEF ReaderGrant, Goto
  <2> QED BY <2>1 DEF ListRight, ListMove
<1>8. CASE UndoGrant(t)
  <2>1. wait_list' = wait_list
    BY <1>8 DEF UndoGrant, WakeDone, Goto
  <2> QED BY <2>1 DEF ListRight, ListMove
<1>9. CASE CountReaders(t)
  <2>1. wait_list' = wait_list
    BY <1>9 DEF CountReaders, Goto
  <2> QED BY <2>1 DEF ListRight, ListMove
<1>10. CASE Grant(t)
  <2>1. wait_list \in Seq(Tasks) /\ NoDuplicates(wait_list)
    BY DEF ListRight
  <2>2. CASE wait_list' = wait_list
    BY <2>1, <2>2 DEF ListMove
  <2>3. CASE wait_list' # wait_list
    <3>1. /\ pc[t] = "grant" /\ pc'[t] = "grant_wake" /\ op' = op
          /\ wait_list' = Tail(wait_list)
      BY <1>10, <2>3 DEF Grant, Goto
    <3>2. wait_list # <<>> /\ op[Head(wait_list)] = "read"
      BY <3>1 DEF FrontRight, FrontAt, IsReader
    <3>3. /\ Head(wait_list) \in ToSet(wait_list)
          /\ Tail(wait_list) \in Seq(Tasks)
          /\ ToSet(Tail(wait_list)) = ToSet(wait_list) \ {Head(wait_list)}
          /\ NoDuplicates(Tail(wait_list))
      BY <2>1, <3>2, ListTail
    <3> QED BY <1>10, <3>1, <3>2, <3>3 DEF ListMove
  <2> QED BY <2>2, <2>3
<1>11. CASE ReadFailed(t)
  <2>1. t \notin ToSet(wait_list)
    BY <1>11 DEF ReadFailed, Goto, ListRight, QueuedAt, SleepPC, WritePC, OsqPC, WakingPC, QueuedWriterPC, LockPC
  <2>2. wait_list' = list_add_tail(wait_list, t)
    BY <1>11 DEF ReadFailed
  <2>3. wait_list \in Seq(Tasks) /\ NoDuplicates(wait_list)
    BY DEF ListRight
  <2>4. /\ list_add_tail(wait_list, t) \in Seq(Tasks)
        /\ ToSet(list_add_tail(wait_list, t)) = ToSet(wait_list) \cup {t}
        /\ NoDuplicates(list_add_tail(wait_list, t))
    BY <2>1, <2>3, ListAddTail
  <2>5. wait_list' = Append(wait_list, t)
    BY <2>2 DEF list_add_tail
  <2> QED BY <1>11, <2>1, <2>2, <2>4, <2>5 DEF ListMove
<1>12. CASE SetState(t)
  <2>1. wait_list' = wait_list
    BY <1>12 DEF SetState, Goto
  <2> QED BY <2>1 DEF ListRight, ListMove
<1>13. CASE CheckWait(t)
  <2>1. wait_list' = wait_list
    BY <1>13 DEF CheckWait, Goto
  <2> QED BY <2>1 DEF ListRight, ListMove
<1>14. CASE Schedule(t)
  <2>1. wait_list' = wait_list
    BY <1>14 DEF Schedule, Goto
  <2> QED BY <2>1 DEF ListRight, ListMove
<1>15. CASE WriteFailed(t)
  <2>1. wait_list' = wait_list
    BY <1>15 DEF WriteFailed, Goto
  <2> QED BY <2>1 DEF ListRight, ListMove
<1>16. CASE CanSpin(t)
  <2>1. wait_list' = wait_list
    BY <1>16 DEF CanSpin, Goto
  <2> QED BY <2>1 DEF ListRight, ListMove
<1>17. CASE OsqLock(t)
  <2>1. wait_list' = wait_list
    BY <1>17 DEF OsqLock, Goto
  <2> QED BY <2>1 DEF ListRight, ListMove
<1>18. CASE Spin(t)
  <2>1. wait_list' = wait_list
    BY <1>18 DEF Spin, Goto
  <2> QED BY <2>1 DEF ListRight, ListMove
<1>19. CASE SpinOnOwner(t)
  <2>1. wait_list' = wait_list
    BY <1>19 DEF SpinOnOwner, Goto
  <2> QED BY <2>1 DEF ListRight, ListMove
<1>20. CASE TryUnqueued(t)
  <2>1. wait_list' = wait_list
    BY <1>20 DEF TryUnqueued, Goto
  <2> QED BY <2>1 DEF ListRight, ListMove
<1>21. CASE SpinSetOwner(t)
  <2>1. wait_list' = wait_list
    BY <1>21 DEF SpinSetOwner, Goto
  <2> QED BY <2>1 DEF ListRight, ListMove
<1>22. CASE OsqUnlock(t)
  <2>1. wait_list' = wait_list
    BY <1>22 DEF OsqUnlock, Goto
  <2> QED BY <2>1 DEF ListRight, ListMove
<1>23. CASE SlowLock(t)
  <2>1. t \notin ToSet(wait_list)
    BY <1>23 DEF SlowLock, Goto, ListRight, QueuedAt, SleepPC, WritePC, OsqPC, WakingPC, QueuedWriterPC, LockPC
  <2>2. wait_list' = list_add_tail(wait_list, t)
    BY <1>23 DEF SlowLock
  <2>3. wait_list \in Seq(Tasks) /\ NoDuplicates(wait_list)
    BY DEF ListRight
  <2>4. /\ list_add_tail(wait_list, t) \in Seq(Tasks)
        /\ ToSet(list_add_tail(wait_list, t)) = ToSet(wait_list) \cup {t}
        /\ NoDuplicates(list_add_tail(wait_list, t))
    BY <2>1, <2>3, ListAddTail
  <2>5. wait_list' = Append(wait_list, t)
    BY <2>2 DEF list_add_tail
  <2> QED BY <1>23, <2>1, <2>2, <2>4, <2>5 DEF ListMove
<1>24. CASE TryWriteLock(t)
  <2>1. wait_list' = wait_list
    BY <1>24 DEF TryWriteLock, Goto
  <2> QED BY <2>1 DEF ListRight, ListMove
<1>25. CASE AddWaiting(t)
  <2>1. wait_list' = wait_list
    BY <1>25 DEF AddWaiting, Goto
  <2> QED BY <2>1 DEF ListRight, ListMove
<1>26. CASE SlowSetOwner(t)
  <2>1. t \in ToSet(wait_list)
    BY <1>26 DEF SlowSetOwner, Goto, OpsRight, OpAt, ListRight, QueuedAt, SleepPC, WritePC, OsqPC, WakingPC, QueuedWriterPC, LockPC
  <2>2. wait_list' = list_del(wait_list, t)
    BY <1>26 DEF SlowSetOwner
  <2>3. wait_list \in Seq(Tasks) /\ NoDuplicates(wait_list)
    BY DEF ListRight
  <2>4. /\ list_del(wait_list, t) \in Seq(Tasks)
        /\ ToSet(list_del(wait_list, t)) = ToSet(wait_list) \ {t}
        /\ NoDuplicates(list_del(wait_list, t))
    BY <2>1, <2>3, ListDel
  <2>5. Len(list_del(wait_list, t)) = Len(wait_list) - 1
    BY <2>1, <2>3, ListDelEntries
  <2> QED BY <1>26, <2>1, <2>2, <2>4, <2>5 DEF ListMove
<1>27. CASE up_read(t)
  <2>1. wait_list' = wait_list
    BY <1>27 DEF up_read, Up, Goto
  <2> QED BY <2>1 DEF ListRight, ListMove
<1>28. CASE ClearOwner(t)
  <2>1. wait_list' = wait_list
    BY <1>28 DEF ClearOwner, Goto
  <2> QED BY <2>1 DEF ListRight, ListMove
<1>29. CASE up_write(t)
  <2>1. wait_list' = wait_list
    BY <1>29 DEF up_write, Up, Goto
  <2> QED BY <2>1 DEF ListRight, ListMove
<1>30. CASE HasSpinner(t)
  <2>1. wait_list' = wait_list
    BY <1>30 DEF HasSpinner, Goto
  <2> QED BY <2>1 DEF ListRight, ListMove
<1>31. CASE WakeTrylock(t)
  <2>1. wait_list' = wait_list
    BY <1>31 DEF WakeTrylock, Goto
  <2> QED BY <2>1 DEF ListRight, ListMove
<1>32. CASE WakeLocked(t)
  <2>1. wait_list' = wait_list
    BY <1>32 DEF WakeLocked, WakeDone, Goto
  <2> QED BY <2>1 DEF ListRight, ListMove
<1>33. CASE downgrade_write(t)
  <2>1. wait_list' = wait_list
    BY <1>33 DEF downgrade_write, Goto
  <2> QED BY <2>1 DEF ListRight, ListMove
<1> QED
  BY <1>1, <1>2, <1>3, <1>4, <1>5, <1>6, <1>7, <1>8, <1>9, <1>10, <1>11,
     <1>12, <1>13, <1>14, <1>15, <1>16, <1>17, <1>18, <1>19, <1>20, <1>21,
     <1>22, <1>23, <1>24, <1>25, <1>26, <1>27, <1>28, <1>29, <1>30, <1>31,
     <1>32, <1>33 DEF TaskStep, Step

(* A task is on the list exactly while its slow path says so. *)
LEMMA QueuedStep ==
  ASSUME Shape, NEW t \in Tasks, TaskStep(t), ListMove(t)
  PROVE  QueuedAt(t)'
<1> USE DEF Shape, TypeOK
<1>1. CASE down_read(t)
  <2>1. wait_list' = wait_list
    BY <1>1 DEF down_read, Call, Goto
  <2>2. QueuedAt(t) /\ OpAt(t)
    BY DEF ListRight, OpsRight
  <2> QED BY <1>1, <2>1, <2>2 DEF down_read, Call, Goto, OpAt, QueuedAt, SleepPC, WritePC, OsqPC, WakingPC, QueuedWriterPC, LockPC
<1>2. CASE down_read_trylock(t)
  <2>1. wait_list' = wait_list
    BY <1>2 DEF down_read_trylock, Call, Goto
  <2>2. QueuedAt(t) /\ OpAt(t)
    BY DEF ListRight, OpsRight
  <2> QED BY <1>2, <2>1, <2>2 DEF down_read_trylock, Call, Goto, OpAt, QueuedAt, SleepPC, WritePC, OsqPC, WakingPC, QueuedWriterPC, LockPC
<1>3. CASE down_write(t)
  <2>1. wait_list' = wait_list
    BY <1>3 DEF down_write, Call, Goto
  <2>2. QueuedAt(t) /\ OpAt(t)
    BY DEF ListRight, OpsRight
  <2> QED BY <1>3, <2>1, <2>2 DEF down_write, Call, Goto, OpAt, QueuedAt, SleepPC, WritePC, OsqPC, WakingPC, QueuedWriterPC, LockPC
<1>4. CASE down_write_trylock(t)
  <2>1. wait_list' = wait_list
    BY <1>4 DEF down_write_trylock, Call, Goto
  <2>2. QueuedAt(t) /\ OpAt(t)
    BY DEF ListRight, OpsRight
  <2> QED BY <1>4, <2>1, <2>2 DEF down_write_trylock, Call, Goto, OpAt, QueuedAt, SleepPC, WritePC, OsqPC, WakingPC, QueuedWriterPC, LockPC
<1>5. CASE WriteSetOwner(t)
  <2>1. wait_list' = wait_list
    BY <1>5 DEF WriteSetOwner, Goto
  <2>2. QueuedAt(t) /\ OpAt(t)
    BY DEF ListRight, OpsRight
  <2> QED BY <1>5, <2>1, <2>2 DEF WriteSetOwner, Goto, OpAt, QueuedAt, SleepPC, WritePC, OsqPC, WakingPC, QueuedWriterPC, LockPC
<1>6. CASE WakeWriter(t)
  <2>1. wait_list' = wait_list
    BY <1>6 DEF WakeWriter, WakeDone, Goto
  <2>2. QueuedAt(t) /\ OpAt(t)
    BY DEF ListRight, OpsRight
  <2> QED BY <1>6, <2>1, <2>2 DEF WakeWriter, WakeDone, Goto, OpAt, QueuedAt, SleepPC, WritePC, OsqPC, WakingPC, QueuedWriterPC, LockPC
<1>7. CASE ReaderGrant(t)
  <2>1. wait_list' = wait_list
    BY <1>7 DEF ReaderGrant, Goto
  <2>2. QueuedAt(t) /\ OpAt(t)
    BY DEF ListRight, OpsRight
  <2> QED BY <1>7, <2>1, <2>2 DEF ReaderGrant, Goto, OpAt, QueuedAt, SleepPC, WritePC, OsqPC, WakingPC, QueuedWriterPC, LockPC
<1>8. CASE UndoGrant(t)
  <2>1. wait_list' = wait_list
    BY <1>8 DEF UndoGrant, WakeDone, Goto
  <2>2. QueuedAt(t) /\ OpAt(t)
    BY DEF ListRight, OpsRight
  <2> QED BY <1>8, <2>1, <2>2 DEF UndoGrant, WakeDone, Goto, OpAt, QueuedAt, SleepPC, WritePC, OsqPC, WakingPC, QueuedWriterPC, LockPC
<1>9. CASE CountReaders(t)
  <2>1. wait_list' = wait_list
    BY <1>9 DEF CountReaders, Goto
  <2>2. QueuedAt(t) /\ OpAt(t)
    BY DEF ListRight, OpsRight
  <2> QED BY <1>9, <2>1, <2>2 DEF CountReaders, Goto, OpAt, QueuedAt, SleepPC, WritePC, OsqPC, WakingPC, QueuedWriterPC, LockPC
<1>10. CASE Grant(t)
  <2>1. CASE wait_list' = wait_list
    <3>1. pc[t] = "grant_wake" \/ Tail(wait_list) = wait_list
      BY <1>10, <2>1 DEF Grant, Goto, WakeDone
    <3>2. pc[t] \in {"grant", "grant_wake"}
      BY <1>10 DEF Grant, Goto, WakeDone
    <3>3. (op'[t] = op[t] /\ pc'[t] \in SleepPC \cup WakingPC) \/ op[t] \in {"up", "downgrade"}
      BY <1>10, <3>2 DEF Grant, Goto, WakeDone, OpsRight, OpAt, WakingPC, SleepPC
    <3>4. op[t] \in {"up", "downgrade"} => op'[t] # "write" /\ t \notin ToSet(wait_list)
      BY <1>10 DEF Grant, Goto, WakeDone, ListRight, QueuedAt
    <3> QED BY <2>1, <3>2, <3>3, <3>4 DEF ListRight, QueuedAt, SleepPC, WritePC, OsqPC, WakingPC, QueuedWriterPC, LockPC
  <2>2. CASE wait_list' # wait_list
    <3>1. /\ pc[t] = "grant" /\ pc'[t] = "grant_wake" /\ op'[t] = op[t]
          /\ op[Head(wait_list)] = "read"
          /\ ToSet(wait_list') = ToSet(wait_list) \ {Head(wait_list)}
      <4>1. pc[t] = "grant"
        BY <1>10, <2>2 DEF Grant, Goto
      <4> QED BY <2>2, <4>1 DEF ListMove, ReadFailed, SlowLock, SlowSetOwner, Goto
    <3>2. QueuedAt(t)
      BY DEF ListRight
    <3> QED BY <3>1, <3>2 DEF QueuedAt, SleepPC, WritePC, OsqPC, WakingPC, QueuedWriterPC, LockPC
  <2> QED BY <2>1, <2>2
<1>11. CASE ReadFailed(t)
  <2>1. op' = op /\ op[t] = "read" /\ pc'[t] \in {"do_wake", "set_state"}
    BY <1>11 DEF ReadFailed, Goto, OpsRight, OpAt
  <2>2. t \in ToSet(wait_list')
    <3>1. wait_list' = list_add_tail(wait_list, t)
      BY <1>11 DEF ReadFailed
    <3>2. wait_list' # wait_list
      BY <3>1 DEF list_add_tail
    <3>3. pc[t] \notin {"grant", "slow_set_owner"}
      BY <1>11 DEF ReadFailed, Goto
    <3> QED BY <3>2, <3>3 DEF ListMove, SlowSetOwner, Goto
  <2> QED BY <2>1, <2>2 DEF QueuedAt, SleepPC, WritePC, OsqPC, WakingPC, QueuedWriterPC, LockPC
<1>12. CASE SetState(t)
  <2>1. wait_list' = wait_list
    BY <1>12 DEF SetState, Goto
  <2>2. QueuedAt(t) /\ OpAt(t)
    BY DEF ListRight, OpsRight
  <2> QED BY <1>12, <2>1, <2>2 DEF SetState, Goto, OpAt, QueuedAt, SleepPC, WritePC, OsqPC, WakingPC, QueuedWriterPC, LockPC
<1>13. CASE CheckWait(t)
  BY <1>13, CheckMoves DEF OpsRight, OpAt, ListRight, QueuedAt, SleepPC, WritePC, OsqPC, WakingPC, QueuedWriterPC, LockPC
<1>14. CASE Schedule(t)
  <2>1. wait_list' = wait_list
    BY <1>14 DEF Schedule, Goto
  <2>2. QueuedAt(t) /\ OpAt(t)
    BY DEF ListRight, OpsRight
  <2> QED BY <1>14, <2>1, <2>2 DEF Schedule, Goto, OpAt, QueuedAt, SleepPC, WritePC, OsqPC, WakingPC, QueuedWriterPC, LockPC
<1>15. CASE WriteFailed(t)
  <2>1. wait_list' = wait_list
    BY <1>15 DEF WriteFailed, Goto
  <2>2. QueuedAt(t) /\ OpAt(t)
    BY DEF ListRight, OpsRight
  <2> QED BY <1>15, <2>1, <2>2 DEF WriteFailed, Goto, OpAt, QueuedAt, SleepPC, WritePC, OsqPC, WakingPC, QueuedWriterPC, LockPC
<1>16. CASE CanSpin(t)
  <2>1. wait_list' = wait_list
    BY <1>16 DEF CanSpin, Goto
  <2>2. QueuedAt(t) /\ OpAt(t)
    BY DEF ListRight, OpsRight
  <2> QED BY <1>16, <2>1, <2>2 DEF CanSpin, Goto, OpAt, QueuedAt, SleepPC, WritePC, OsqPC, WakingPC, QueuedWriterPC, LockPC
<1>17. CASE OsqLock(t)
  <2>1. wait_list' = wait_list
    BY <1>17 DEF OsqLock, Goto
  <2>2. QueuedAt(t) /\ OpAt(t)
    BY DEF ListRight, OpsRight
  <2> QED BY <1>17, <2>1, <2>2 DEF OsqLock, Goto, OpAt, QueuedAt, SleepPC, WritePC, OsqPC, WakingPC, QueuedWriterPC, LockPC
<1>18. CASE Spin(t)
  <2>1. wait_list' = wait_list
    BY <1>18 DEF Spin, Goto
  <2>2. QueuedAt(t) /\ OpAt(t)
    BY DEF ListRight, OpsRight
  <2> QED BY <1>18, <2>1, <2>2 DEF Spin, Goto, OpAt, QueuedAt, SleepPC, WritePC, OsqPC, WakingPC, QueuedWriterPC, LockPC
<1>19. CASE SpinOnOwner(t)
  <2>1. wait_list' = wait_list
    BY <1>19 DEF SpinOnOwner, Goto
  <2>2. QueuedAt(t) /\ OpAt(t)
    BY DEF ListRight, OpsRight
  <2> QED BY <1>19, <2>1, <2>2 DEF SpinOnOwner, Goto, OpAt, QueuedAt, SleepPC, WritePC, OsqPC, WakingPC, QueuedWriterPC, LockPC
<1>20. CASE TryUnqueued(t)
  <2>1. wait_list' = wait_list
    BY <1>20 DEF TryUnqueued, Goto
  <2>2. QueuedAt(t) /\ OpAt(t)
    BY DEF ListRight, OpsRight
  <2> QED BY <1>20, <2>1, <2>2 DEF TryUnqueued, Goto, OpAt, QueuedAt, SleepPC, WritePC, OsqPC, WakingPC, QueuedWriterPC, LockPC
<1>21. CASE SpinSetOwner(t)
  <2>1. wait_list' = wait_list
    BY <1>21 DEF SpinSetOwner, Goto
  <2>2. QueuedAt(t) /\ OpAt(t)
    BY DEF ListRight, OpsRight
  <2> QED BY <1>21, <2>1, <2>2 DEF SpinSetOwner, Goto, OpAt, QueuedAt, SleepPC, WritePC, OsqPC, WakingPC, QueuedWriterPC, LockPC
<1>22. CASE OsqUnlock(t)
  <2>1. wait_list' = wait_list
    BY <1>22 DEF OsqUnlock, Goto
  <2>2. QueuedAt(t) /\ OpAt(t)
    BY DEF ListRight, OpsRight
  <2> QED BY <1>22, <2>1, <2>2 DEF OsqUnlock, Goto, OpAt, QueuedAt, SleepPC, WritePC, OsqPC, WakingPC, QueuedWriterPC, LockPC
<1>23. CASE SlowLock(t)
  <2>1. op' = op /\ op[t] = "write" /\ pc'[t] \in {"try_write", "do_wake", "schedule"}
    BY <1>23 DEF SlowLock, Goto, OpsRight, OpAt, WritePC
  <2>2. t \in ToSet(wait_list')
    <3>1. wait_list' = list_add_tail(wait_list, t)
      BY <1>23 DEF SlowLock
    <3>2. wait_list' # wait_list
      BY <3>1 DEF list_add_tail
    <3>3. pc[t] \notin {"grant", "slow_set_owner"}
      BY <1>23 DEF SlowLock, Goto
    <3> QED BY <3>2, <3>3 DEF ListMove, SlowSetOwner, Goto
  <2> QED BY <2>1, <2>2 DEF QueuedAt, SleepPC, WritePC, OsqPC, WakingPC, QueuedWriterPC, LockPC
<1>24. CASE TryWriteLock(t)
  <2>1. wait_list' = wait_list
    BY <1>24 DEF TryWriteLock, Goto
  <2>2. QueuedAt(t) /\ OpAt(t)
    BY DEF ListRight, OpsRight
  <2> QED BY <1>24, <2>1, <2>2 DEF TryWriteLock, Goto, OpAt, QueuedAt, SleepPC, WritePC, OsqPC, WakingPC, QueuedWriterPC, LockPC
<1>25. CASE AddWaiting(t)
  <2>1. wait_list' = wait_list
    BY <1>25 DEF AddWaiting, Goto
  <2>2. QueuedAt(t) /\ OpAt(t)
    BY DEF ListRight, OpsRight
  <2> QED BY <1>25, <2>1, <2>2 DEF AddWaiting, Goto, OpAt, QueuedAt, SleepPC, WritePC, OsqPC, WakingPC, QueuedWriterPC, LockPC
<1>26. CASE SlowSetOwner(t)
  <2>1. pc'[t] = "write_set_owner"
    BY <1>26 DEF SlowSetOwner, Goto
  <2>2. t \notin ToSet(wait_list')
    <3>1. t \in ToSet(wait_list) /\ wait_list \in Seq(Tasks) /\ NoDuplicates(wait_list)
      BY <1>26 DEF SlowSetOwner, Goto, OpsRight, OpAt, ListRight, QueuedAt, SleepPC, WritePC, OsqPC, WakingPC, QueuedWriterPC, LockPC
    <3>2. ToSet(list_del(wait_list, t)) = ToSet(wait_list) \ {t}
      BY <3>1, ListDel
    <3> QED BY <1>26, <3>2 DEF SlowSetOwner
  <2> QED BY <2>1, <2>2 DEF QueuedAt, SleepPC, WritePC, OsqPC, WakingPC, QueuedWriterPC, LockPC
<1>27. CASE up_read(t)
  <2>1. wait_list' = wait_list
    BY <1>27 DEF up_read, Up, Goto
  <2>2. QueuedAt(t) /\ OpAt(t)
    BY DEF ListRight, OpsRight
  <2> QED BY <1>27, <2>1, <2>2 DEF up_read, Up, Goto, OpAt, QueuedAt, SleepPC, WritePC, OsqPC, WakingPC, QueuedWriterPC, LockPC
<1>28. CASE ClearOwner(t)
  <2>1. wait_list' = wait_list
    BY <1>28 DEF ClearOwner, Goto
  <2>2. QueuedAt(t) /\ OpAt(t)
    BY DEF ListRight, OpsRight
  <2> QED BY <1>28, <2>1, <2>2 DEF ClearOwner, Goto, OpAt, QueuedAt, SleepPC, WritePC, OsqPC, WakingPC, QueuedWriterPC, LockPC
<1>29. CASE up_write(t)
  <2>1. wait_list' = wait_list
    BY <1>29 DEF up_write, Up, Goto
  <2>2. QueuedAt(t) /\ OpAt(t)
    BY DEF ListRight, OpsRight
  <2> QED BY <1>29, <2>1, <2>2 DEF up_write, Up, Goto, OpAt, QueuedAt, SleepPC, WritePC, OsqPC, WakingPC, QueuedWriterPC, LockPC
<1>30. CASE HasSpinner(t)
  <2>1. wait_list' = wait_list
    BY <1>30 DEF HasSpinner, Goto
  <2>2. QueuedAt(t) /\ OpAt(t)
    BY DEF ListRight, OpsRight
  <2> QED BY <1>30, <2>1, <2>2 DEF HasSpinner, Goto, OpAt, QueuedAt, SleepPC, WritePC, OsqPC, WakingPC, QueuedWriterPC, LockPC
<1>31. CASE WakeTrylock(t)
  <2>1. wait_list' = wait_list
    BY <1>31 DEF WakeTrylock, Goto
  <2>2. QueuedAt(t) /\ OpAt(t)
    BY DEF ListRight, OpsRight
  <2> QED BY <1>31, <2>1, <2>2 DEF WakeTrylock, Goto, OpAt, QueuedAt, SleepPC, WritePC, OsqPC, WakingPC, QueuedWriterPC, LockPC
<1>32. CASE WakeLocked(t)
  <2>1. wait_list' = wait_list
    BY <1>32 DEF WakeLocked, WakeDone, Goto
  <2>2. QueuedAt(t) /\ OpAt(t)
    BY DEF ListRight, OpsRight
  <2> QED BY <1>32, <2>1, <2>2 DEF WakeLocked, WakeDone, Goto, OpAt, QueuedAt, SleepPC, WritePC, OsqPC, WakingPC, QueuedWriterPC, LockPC
<1>33. CASE downgrade_write(t)
  <2>1. wait_list' = wait_list
    BY <1>33 DEF downgrade_write, Goto
  <2>2. QueuedAt(t) /\ OpAt(t)
    BY DEF ListRight, OpsRight
  <2> QED BY <1>33, <2>1, <2>2 DEF downgrade_write, Goto, OpAt, QueuedAt, SleepPC, WritePC, OsqPC, WakingPC, QueuedWriterPC, LockPC
<1> QED
  BY <1>1, <1>2, <1>3, <1>4, <1>5, <1>6, <1>7, <1>8, <1>9, <1>10, <1>11,
     <1>12, <1>13, <1>14, <1>15, <1>16, <1>17, <1>18, <1>19, <1>20, <1>21,
     <1>22, <1>23, <1>24, <1>25, <1>26, <1>27, <1>28, <1>29, <1>30, <1>31,
     <1>32, <1>33 DEF TaskStep, Step

(* The holder of wait_lock knows the front of the list. *)
LEMMA FrontStep ==
  ASSUME Shape, NEW t \in Tasks, TaskStep(t)
  PROVE  FrontAt(t)'
<1> USE DEF Shape, TypeOK
<1>1. CASE down_read(t)
  BY <1>1 DEF down_read, Call, Goto, FrontAt
<1>2. CASE down_read_trylock(t)
  BY <1>2 DEF down_read_trylock, Call, Goto, FrontAt
<1>3. CASE down_write(t)
  BY <1>3 DEF down_write, Call, Goto, FrontAt
<1>4. CASE down_write_trylock(t)
  BY <1>4 DEF down_write_trylock, Call, Goto, FrontAt
<1>5. CASE WriteSetOwner(t)
  BY <1>5 DEF WriteSetOwner, Goto, FrontAt
<1>6. CASE WakeWriter(t)
  <2>1. wait_list' = wait_list /\ FrontAt(t) /\ OpAt(t)
    BY <1>6 DEF WakeWriter, WakeDone, Goto, FrontRight, OpsRight
  <2>2. pc'[t] \in {"undo_grant", "count_readers", "grant"} => op' = op
    BY <1>6, <2>1 DEF WakeWriter, WakeDone, Goto, OpAt, WakingPC
  <2>3. pc'[t] \in {"undo_grant", "count_readers", "grant"} => wait_list # <<>> /\ IsReader(Head(wait_list))
    BY <1>6, <2>1 DEF WakeWriter, WakeDone, Goto, FrontAt, OpAt, WakingPC
  <2>4. pc'[t] = "do_wake" => wait_list # <<>>
    BY <1>6, <2>1 DEF WakeWriter, WakeDone, Goto, FrontAt, OpAt, WakingPC
  <2>5. pc'[t] \notin {"add_waiting", "grant_wake"}
    BY <1>6, <2>1 DEF WakeWriter, WakeDone, Goto, OpAt, WakingPC
  <2> QED BY <2>1, <2>2, <2>3, <2>4, <2>5 DEF FrontAt, IsReader
<1>7. CASE ReaderGrant(t)
  <2>1. wait_list' = wait_list /\ FrontAt(t) /\ OpAt(t)
    BY <1>7 DEF ReaderGrant, Goto, FrontRight, OpsRight
  <2>2. pc'[t] \in {"undo_grant", "count_readers", "grant"} => op' = op
    BY <1>7, <2>1 DEF ReaderGrant, Goto, OpAt, WakingPC
  <2>3. pc'[t] \in {"undo_grant", "count_readers", "grant"} => wait_list # <<>> /\ IsReader(Head(wait_list))
    BY <1>7, <2>1 DEF ReaderGrant, Goto, FrontAt, OpAt, WakingPC
  <2>4. pc'[t] = "do_wake" => wait_list # <<>>
    BY <1>7, <2>1 DEF ReaderGrant, Goto, FrontAt, OpAt, WakingPC
  <2>5. pc'[t] \notin {"add_waiting", "grant_wake"}
    BY <1>7, <2>1 DEF ReaderGrant, Goto, OpAt, WakingPC
  <2> QED BY <2>1, <2>2, <2>3, <2>4, <2>5 DEF FrontAt, IsReader
<1>8. CASE UndoGrant(t)
  <2>1. wait_list' = wait_list /\ FrontAt(t) /\ OpAt(t)
    BY <1>8 DEF UndoGrant, WakeDone, Goto, FrontRight, OpsRight
  <2>2. pc'[t] \in {"undo_grant", "count_readers", "grant"} => op' = op
    BY <1>8, <2>1 DEF UndoGrant, WakeDone, Goto, OpAt, WakingPC
  <2>3. pc'[t] \in {"undo_grant", "count_readers", "grant"} => wait_list # <<>> /\ IsReader(Head(wait_list))
    BY <1>8, <2>1 DEF UndoGrant, WakeDone, Goto, FrontAt, OpAt, WakingPC
  <2>4. pc'[t] = "do_wake" => wait_list # <<>>
    BY <1>8, <2>1 DEF UndoGrant, WakeDone, Goto, FrontAt, OpAt, WakingPC
  <2>5. pc'[t] \notin {"add_waiting", "grant_wake"}
    BY <1>8, <2>1 DEF UndoGrant, WakeDone, Goto, OpAt, WakingPC
  <2> QED BY <2>1, <2>2, <2>3, <2>4, <2>5 DEF FrontAt, IsReader
<1>9. CASE CountReaders(t)
  <2>1. wait_list' = wait_list /\ FrontAt(t) /\ OpAt(t)
    BY <1>9 DEF CountReaders, Goto, FrontRight, OpsRight
  <2>2. pc'[t] \in {"undo_grant", "count_readers", "grant"} => op' = op
    BY <1>9, <2>1 DEF CountReaders, Goto, OpAt, WakingPC
  <2>3. pc'[t] \in {"undo_grant", "count_readers", "grant"} => wait_list # <<>> /\ IsReader(Head(wait_list))
    BY <1>9, <2>1 DEF CountReaders, Goto, FrontAt, OpAt, WakingPC
  <2>4. pc'[t] = "do_wake" => wait_list # <<>>
    BY <1>9, <2>1 DEF CountReaders, Goto, FrontAt, OpAt, WakingPC
  <2>5. pc'[t] \notin {"add_waiting", "grant_wake"}
    BY <1>9, <2>1 DEF CountReaders, Goto, OpAt, WakingPC
  <2> QED BY <2>1, <2>2, <2>3, <2>4, <2>5 DEF FrontAt, IsReader
<1>10. CASE Grant(t)
  <2>1. CASE pc[t] = "grant"
    <3>1. wait_list # <<>>
      BY <2>1 DEF FrontRight, FrontAt
    <3>2. Head(wait_list) \in Tasks
      BY <3>1
    <3>3. pc'[t] = "grant_wake" /\ tsk'[t] = Head(wait_list)
      BY <1>10, <2>1 DEF Grant, Goto, WakeDone
    <3> QED BY <3>2, <3>3 DEF FrontAt
  <2>2. CASE pc[t] # "grant"
    <3>1. /\ wait_list' = wait_list
          /\ \/ pc'[t] \in {"set_state", "schedule", "idle", "reading"}
             \/ /\ pc'[t] = "grant" /\ op' = op
                /\ wait_list # <<>> /\ IsReader(Head(wait_list))
      BY <1>10, <2>2 DEF Grant, Goto, WakeDone, OpsRight, OpAt, WakingPC
    <3> QED BY <3>1 DEF FrontAt, IsReader
  <2> QED BY <2>1, <2>2
<1>11. CASE ReadFailed(t)
  <2>1. wait_list' # <<>> /\ pc'[t] \in {"do_wake", "set_state", "try_write", "schedule"}
    BY <1>11 DEF ReadFailed, Goto, list_add_tail
  <2> QED BY <2>1 DEF FrontAt
<1>12. CASE SetState(t)
  BY <1>12 DEF SetState, Goto, FrontAt
<1>13. CASE CheckWait(t)
  BY <1>13, CheckMoves DEF FrontAt
<1>14. CASE Schedule(t)
  BY <1>14 DEF Schedule, Goto, FrontAt
<1>15. CASE WriteFailed(t)
  BY <1>15 DEF WriteFailed, Goto, FrontAt
<1>16. CASE CanSpin(t)
  BY <1>16 DEF CanSpin, Goto, FrontAt
<1>17. CASE OsqLock(t)
  BY <1>17 DEF OsqLock, Goto, FrontAt
<1>18. CASE Spin(t)
  BY <1>18 DEF Spin, Goto, FrontAt
<1>19. CASE SpinOnOwner(t)
  BY <1>19 DEF SpinOnOwner, Goto, FrontAt
<1>20. CASE TryUnqueued(t)
  BY <1>20 DEF TryUnqueued, Goto, FrontAt
<1>21. CASE SpinSetOwner(t)
  BY <1>21 DEF SpinSetOwner, Goto, FrontAt
<1>22. CASE OsqUnlock(t)
  BY <1>22 DEF OsqUnlock, Goto, FrontAt
<1>23. CASE SlowLock(t)
  <2>1. wait_list' # <<>> /\ pc'[t] \in {"do_wake", "set_state", "try_write", "schedule"}
    BY <1>23 DEF SlowLock, Goto, list_add_tail
  <2> QED BY <2>1 DEF FrontAt
<1>24. CASE TryWriteLock(t)
  <2>1. pc'[t] \in {"slow_set_owner", "schedule"} \/ (pc'[t] = "add_waiting" /\ Len(wait_list) # 1)
    BY <1>24 DEF TryWriteLock, Goto
  <2>2. t \in ToSet(wait_list)
    BY <1>24 DEF TryWriteLock, Goto, OpsRight, OpAt, ListRight, QueuedAt, SleepPC, WritePC, OsqPC, WakingPC, QueuedWriterPC, LockPC
  <2>3. Len(wait_list) \in Nat /\ wait_list # <<>>
    BY <2>2, EmptyList
  <2>4. wait_list' = wait_list /\ Len(wait_list) > 0
    BY <1>24, <2>3 DEF TryWriteLock
  <2>5. pc'[t] = "add_waiting" => Len(wait_list') > 1
    <3>1. \A n \in Nat : n > 0 /\ n # 1 => n > 1
      OBVIOUS
    <3>2. pc'[t] = "add_waiting" => Len(wait_list) # 1
      BY <2>1
    <3>3. pc'[t] = "add_waiting" => Len(wait_list) > 1
      BY <2>3, <2>4, <3>1, <3>2
    <3> QED BY <2>4, <3>3
  <2>6. pc'[t] \in {"slow_set_owner", "schedule", "add_waiting"}
    BY <2>1
  <2> QED BY <2>5, <2>6 DEF FrontAt
<1>25. CASE AddWaiting(t)
  BY <1>25 DEF AddWaiting, Goto, FrontAt
<1>26. CASE SlowSetOwner(t)
  BY <1>26 DEF SlowSetOwner, Goto, FrontAt
<1>27. CASE up_read(t)
  BY <1>27 DEF up_read, Up, Goto, FrontAt
<1>28. CASE ClearOwner(t)
  BY <1>28 DEF ClearOwner, Goto, FrontAt
<1>29. CASE up_write(t)
  BY <1>29 DEF up_write, Up, Goto, FrontAt
<1>30. CASE HasSpinner(t)
  BY <1>30 DEF HasSpinner, Goto, FrontAt
<1>31. CASE WakeTrylock(t)
  BY <1>31 DEF WakeTrylock, Goto, FrontAt
<1>32. CASE WakeLocked(t)
  <2>1. wait_list' = wait_list /\ FrontAt(t) /\ OpAt(t)
    BY <1>32 DEF WakeLocked, WakeDone, Goto, FrontRight, OpsRight
  <2>2. pc'[t] \in {"undo_grant", "count_readers", "grant"} => op' = op
    BY <1>32, <2>1 DEF WakeLocked, WakeDone, Goto, OpAt, WakingPC
  <2>3. pc'[t] \in {"undo_grant", "count_readers", "grant"} => wait_list # <<>> /\ IsReader(Head(wait_list))
    BY <1>32, <2>1 DEF WakeLocked, WakeDone, Goto, FrontAt, OpAt, WakingPC
  <2>4. pc'[t] = "do_wake" => wait_list # <<>>
    BY <1>32, <2>1 DEF WakeLocked, WakeDone, Goto, FrontAt, OpAt, WakingPC
  <2>5. pc'[t] \notin {"add_waiting", "grant_wake"}
    BY <1>32, <2>1 DEF WakeLocked, WakeDone, Goto, OpAt, WakingPC
  <2> QED BY <2>1, <2>2, <2>3, <2>4, <2>5 DEF FrontAt, IsReader
<1>33. CASE downgrade_write(t)
  BY <1>33 DEF downgrade_write, Goto, FrontAt
<1> QED
  BY <1>1, <1>2, <1>3, <1>4, <1>5, <1>6, <1>7, <1>8, <1>9, <1>10, <1>11,
     <1>12, <1>13, <1>14, <1>15, <1>16, <1>17, <1>18, <1>19, <1>20, <1>21,
     <1>22, <1>23, <1>24, <1>25, <1>26, <1>27, <1>28, <1>29, <1>30, <1>31,
     <1>32, <1>33 DEF TaskStep, Step

(* What a step does to the queue of spinners *)
OsqMove(t) ==
  /\ NoDuplicates(osq')
  /\ OsqAt(t)'
  /\ \A u \in Tasks \ {t} :
       /\ u \in ToSet(osq') <=> u \in ToSet(osq)
       /\ Head(osq) = u /\ u \in ToSet(osq) => Head(osq') = u

(* The queue of spinners stays what it is for. *)
LEMMA OsqStep ==
  ASSUME Shape, NEW t \in Tasks, TaskStep(t)
  PROVE  OsqMove(t)
<1> USE DEF Shape, TypeOK
<1>1. CASE down_read(t)
  <2>1. osq' = osq /\ pc[t] \notin OsqPC /\ pc'[t] \notin OsqPC
    BY <1>1 DEF down_read, Call, Goto, OsqPC
  <2> QED BY <2>1 DEF OsqMove, OsqRight, OsqAt
<1>2. CASE down_read_trylock(t)
  <2>1. osq' = osq /\ pc[t] \notin OsqPC /\ pc'[t] \notin OsqPC
    BY <1>2 DEF down_read_trylock, Call, Goto, OsqPC
  <2> QED BY <2>1 DEF OsqMove, OsqRight, OsqAt
<1>3. CASE down_write(t)
  <2>1. osq' = osq /\ pc[t] \notin OsqPC /\ pc'[t] \notin OsqPC
    BY <1>3 DEF down_write, Call, Goto, OsqPC
  <2> QED BY <2>1 DEF OsqMove, OsqRight, OsqAt
<1>4. CASE down_write_trylock(t)
  <2>1. osq' = osq /\ pc[t] \notin OsqPC /\ pc'[t] \notin OsqPC
    BY <1>4 DEF down_write_trylock, Call, Goto, OsqPC
  <2> QED BY <2>1 DEF OsqMove, OsqRight, OsqAt
<1>5. CASE WriteSetOwner(t)
  <2>1. osq' = osq /\ pc[t] \notin OsqPC /\ pc'[t] \notin OsqPC
    BY <1>5 DEF WriteSetOwner, Goto, OsqPC
  <2> QED BY <2>1 DEF OsqMove, OsqRight, OsqAt
<1>6. CASE WakeWriter(t)
  <2>1. osq' = osq /\ pc[t] \notin OsqPC /\ pc'[t] \notin OsqPC
    BY <1>6 DEF WakeWriter, WakeDone, Goto, OsqPC, OpsRight, OpAt, WakingPC
  <2> QED BY <2>1 DEF OsqMove, OsqRight, OsqAt
<1>7. CASE ReaderGrant(t)
  <2>1. osq' = osq /\ pc[t] \notin OsqPC /\ pc'[t] \notin OsqPC
    BY <1>7 DEF ReaderGrant, Goto, OsqPC
  <2> QED BY <2>1 DEF OsqMove, OsqRight, OsqAt
<1>8. CASE UndoGrant(t)
  <2>1. osq' = osq /\ pc[t] \notin OsqPC /\ pc'[t] \notin OsqPC
    BY <1>8 DEF UndoGrant, WakeDone, Goto, OsqPC, OpsRight, OpAt, WakingPC
  <2> QED BY <2>1 DEF OsqMove, OsqRight, OsqAt
<1>9. CASE CountReaders(t)
  <2>1. osq' = osq /\ pc[t] \notin OsqPC /\ pc'[t] \notin OsqPC
    BY <1>9 DEF CountReaders, Goto, OsqPC
  <2> QED BY <2>1 DEF OsqMove, OsqRight, OsqAt
<1>10. CASE Grant(t)
  <2>1. osq' = osq /\ pc[t] \notin OsqPC /\ pc'[t] \notin OsqPC
    BY <1>10 DEF Grant, WakeDone, Goto, OsqPC, OpsRight, OpAt, WakingPC
  <2> QED BY <2>1 DEF OsqMove, OsqRight, OsqAt
<1>11. CASE ReadFailed(t)
  <2>1. osq' = osq /\ pc[t] \notin OsqPC /\ pc'[t] \notin OsqPC
    BY <1>11 DEF ReadFailed, Goto, OsqPC
  <2> QED BY <2>1 DEF OsqMove, OsqRight, OsqAt
<1>12. CASE SetState(t)
  <2>1. osq' = osq /\ pc[t] \notin OsqPC /\ pc'[t] \notin OsqPC
    BY <1>12 DEF SetState, Goto, OsqPC
  <2> QED BY <2>1 DEF OsqMove, OsqRight, OsqAt
<1>13. CASE CheckWait(t)
  <2>1. osq' = osq /\ pc[t] \notin OsqPC /\ pc'[t] \notin OsqPC
    BY <1>13, CheckMoves DEF CheckWait, OsqPC
  <2> QED BY <2>1 DEF OsqMove, OsqRight, OsqAt
<1>14. CASE Schedule(t)
  <2>1. osq' = osq /\ pc[t] \notin OsqPC /\ pc'[t] \notin OsqPC
    BY <1>14 DEF Schedule, Goto, OsqPC
  <2> QED BY <2>1 DEF OsqMove, OsqRight, OsqAt
<1>15. CASE WriteFailed(t)
  <2>1. osq' = osq /\ pc[t] \notin OsqPC /\ pc'[t] \notin OsqPC
    BY <1>15 DEF WriteFailed, Goto, OsqPC
  <2> QED BY <2>1 DEF OsqMove, OsqRight, OsqAt
<1>16. CASE CanSpin(t)
  <2>1. osq' = osq /\ pc[t] \notin OsqPC /\ pc'[t] \notin OsqPC
    BY <1>16 DEF CanSpin, Goto, OsqPC
  <2> QED BY <2>1 DEF OsqMove, OsqRight, OsqAt
<1>17. CASE OsqLock(t)
  <2> DEFINE add == osq' = Append(osq, t) /\ pc[t] = "osq_lock"
                      /\ pc'[t] = IF osq = <<>> THEN "spin" ELSE "osq_wait"
             turn == osq' = osq /\ Head(osq) = t /\ pc[t] = "osq_wait" /\ pc'[t] = "spin"
             leave == osq' = list_del(osq, t) /\ pc[t] = "osq_wait" /\ pc'[t] = "slow"
  <2>1. add \/ turn \/ leave
    BY <1>17 DEF OsqLock, Goto
  <2>2. osq \in Seq(Tasks) /\ NoDuplicates(osq) /\ OsqAt(t)
    BY DEF OsqRight
  <2>3. CASE add
    <3>1. t \notin ToSet(osq)
      BY <2>2, <2>3 DEF OsqAt, OsqPC
    <3>2. ToSet(osq') = ToSet(osq) \cup {t} /\ NoDuplicates(osq')
      BY <2>2, <2>3, <3>1, ListAddTail DEF list_add_tail
    <3>3. CASE osq = <<>>
      <4>1. osq' = <<t>> /\ pc'[t] = "spin"
        BY <2>3, <3>3
      <4>2. Head(osq') = t /\ ToSet(osq) = {}
        BY <3>3, <4>1, EmptyList
      <4> QED BY <3>2, <4>1, <4>2 DEF OsqMove, OsqAt, OsqPC
    <3>4. CASE osq # <<>>
      <4>1. Head(osq') = Head(osq)
        BY <2>2, <2>3, <3>4
      <4> QED BY <2>3, <3>2, <3>4, <4>1 DEF OsqMove, OsqAt, OsqPC
    <3> QED BY <3>3, <3>4
  <2>4. CASE turn
    BY <2>2, <2>4 DEF OsqMove, OsqAt, OsqPC
  <2>5. CASE leave
    <3>1. t \in ToSet(osq)
      BY <2>2, <2>5 DEF OsqAt, OsqPC
    <3>2. ToSet(osq') = ToSet(osq) \ {t} /\ NoDuplicates(osq')
      BY <2>2, <2>5, <3>1, ListDel
    <3>3. ASSUME NEW u \in Tasks \ {t}, Head(osq) = u, u \in ToSet(osq) PROVE Head(osq') = u
      <4> DEFINE i == IndexOf(osq, t)
      <4>1. i \in 1..Len(osq) /\ osq[i] = t /\ Len(osq) \in Nat
        BY <2>2, <3>1, IndexOfFound
      <4>2. /\ osq' \in Seq(Tasks) /\ Len(osq') = Len(osq) - 1
            /\ \A j \in 1..(Len(osq) - 1) : osq'[j] = IF j < i THEN osq[j] ELSE osq[j + 1]
        BY <2>2, <2>5, <3>1, ListDelEntries
      <4> HIDE DEF i
      <4>3. osq[1] = u /\ i # 1 /\ Len(osq) > 1
        BY <2>2, <3>1, <3>3, <4>1
      <4>4. osq'[1] = u /\ osq' # <<>>
        BY <4>1, <4>2, <4>3
      <4> QED BY <4>2, <4>4
    <3> QED BY <2>5, <3>2, <3>3 DEF OsqMove, OsqAt, OsqPC
  <2> QED BY <2>1, <2>3, <2>4, <2>5
<1>18. CASE Spin(t)
  <2>1. osq' = osq /\ pc[t] \in OsqPC \ {"osq_wait"} /\ pc'[t] \in OsqPC \ {"osq_wait"}
    BY <1>18 DEF Spin, Goto, OsqPC
  <2> QED BY <2>1 DEF OsqMove, OsqRight, OsqAt
<1>19. CASE SpinOnOwner(t)
  <2>1. osq' = osq /\ pc[t] \in OsqPC \ {"osq_wait"} /\ pc'[t] \in OsqPC \ {"osq_wait"}
    BY <1>19 DEF SpinOnOwner, Goto, OsqPC
  <2> QED BY <2>1 DEF OsqMove, OsqRight, OsqAt
<1>20. CASE TryUnqueued(t)
  <2>1. osq' = osq /\ pc[t] \in OsqPC \ {"osq_wait"} /\ pc'[t] \in OsqPC \ {"osq_wait"}
    BY <1>20 DEF TryUnqueued, Goto, OsqPC
  <2> QED BY <2>1 DEF OsqMove, OsqRight, OsqAt
<1>21. CASE SpinSetOwner(t)
  <2>1. osq' = osq /\ pc[t] \in OsqPC \ {"osq_wait"} /\ pc'[t] \in OsqPC \ {"osq_wait"}
    BY <1>21 DEF SpinSetOwner, Goto, OsqPC
  <2> QED BY <2>1 DEF OsqMove, OsqRight, OsqAt
<1>22. CASE OsqUnlock(t)
  <2>1. osq \in Seq(Tasks) /\ NoDuplicates(osq) /\ OsqAt(t)
    BY DEF OsqRight
  <2>2. pc[t] \in {"spin_osq_unlock", "osq_unlock"} /\ pc'[t] \in {"write_set_owner", "slow"}
    BY <1>22 DEF OsqUnlock, Goto
  <2>3. t \in ToSet(osq) /\ Head(osq) = t /\ osq # <<>>
    BY <2>1, <2>2, EmptyList DEF OsqAt, OsqPC
  <2>4. osq' = Tail(osq) /\ ToSet(osq') = ToSet(osq) \ {t} /\ NoDuplicates(osq')
    BY <1>22, <2>1, <2>3, ListTail DEF OsqUnlock
  <2> QED BY <2>2, <2>3, <2>4 DEF OsqMove, OsqAt, OsqPC
<1>23. CASE SlowLock(t)
  <2>1. osq' = osq /\ pc[t] \notin OsqPC /\ pc'[t] \notin OsqPC
    BY <1>23 DEF SlowLock, Goto, OsqPC
  <2> QED BY <2>1 DEF OsqMove, OsqRight, OsqAt
<1>24. CASE TryWriteLock(t)
  <2>1. osq' = osq /\ pc[t] \notin OsqPC /\ pc'[t] \notin OsqPC
    BY <1>24 DEF TryWriteLock, Goto, OsqPC
  <2> QED BY <2>1 DEF OsqMove, OsqRight, OsqAt
<1>25. CASE AddWaiting(t)
  <2>1. osq' = osq /\ pc[t] \notin OsqPC /\ pc'[t] \notin OsqPC
    BY <1>25 DEF AddWaiting, Goto, OsqPC
  <2> QED BY <2>1 DEF OsqMove, OsqRight, OsqAt
<1>26. CASE SlowSetOwner(t)
  <2>1. osq' = osq /\ pc[t] \notin OsqPC /\ pc'[t] \notin OsqPC
    BY <1>26 DEF SlowSetOwner, Goto, OsqPC
  <2> QED BY <2>1 DEF OsqMove, OsqRight, OsqAt
<1>27. CASE up_read(t)
  <2>1. osq' = osq /\ pc[t] \notin OsqPC /\ pc'[t] \notin OsqPC
    BY <1>27 DEF up_read, Up, Goto, OsqPC
  <2> QED BY <2>1 DEF OsqMove, OsqRight, OsqAt
<1>28. CASE ClearOwner(t)
  <2>1. osq' = osq /\ pc[t] \notin OsqPC /\ pc'[t] \notin OsqPC
    BY <1>28 DEF ClearOwner, Goto, OsqPC
  <2> QED BY <2>1 DEF OsqMove, OsqRight, OsqAt
<1>29. CASE up_write(t)
  <2>1. osq' = osq /\ pc[t] \notin OsqPC /\ pc'[t] \notin OsqPC
    BY <1>29 DEF up_write, Up, Goto, OsqPC
  <2> QED BY <2>1 DEF OsqMove, OsqRight, OsqAt
<1>30. CASE HasSpinner(t)
  <2>1. osq' = osq /\ pc[t] \notin OsqPC /\ pc'[t] \notin OsqPC
    BY <1>30 DEF HasSpinner, Goto, OsqPC
  <2> QED BY <2>1 DEF OsqMove, OsqRight, OsqAt
<1>31. CASE WakeTrylock(t)
  <2>1. osq' = osq /\ pc[t] \notin OsqPC /\ pc'[t] \notin OsqPC
    BY <1>31 DEF WakeTrylock, Goto, OsqPC
  <2> QED BY <2>1 DEF OsqMove, OsqRight, OsqAt
<1>32. CASE WakeLocked(t)
  <2>1. osq' = osq /\ pc[t] \notin OsqPC /\ pc'[t] \notin OsqPC
    BY <1>32 DEF WakeLocked, WakeDone, Goto, OsqPC, OpsRight, OpAt, WakingPC
  <2> QED BY <2>1 DEF OsqMove, OsqRight, OsqAt
<1>33. CASE downgrade_write(t)
  <2>1. osq' = osq /\ pc[t] \notin OsqPC /\ pc'[t] \notin OsqPC
    BY <1>33 DEF downgrade_write, Goto, OsqPC
  <2> QED BY <2>1 DEF OsqMove, OsqRight, OsqAt
<1> QED
  BY <1>1, <1>2, <1>3, <1>4, <1>5, <1>6, <1>7, <1>8, <1>9, <1>10, <1>11,
     <1>12, <1>13, <1>14, <1>15, <1>16, <1>17, <1>18, <1>19, <1>20, <1>21,
     <1>22, <1>23, <1>24, <1>25, <1>26, <1>27, <1>28, <1>29, <1>30, <1>31,
     <1>32, <1>33 DEF TaskStep, Step

(* While somebody else holds wait_lock, the list does not change. *)
LEMMA ListStable ==
  ASSUME Shape, NEW t \in Tasks, TaskStep(t), NEW u \in Tasks \ {t}, pc[u] \in LockPC
  PROVE  wait_list' = wait_list /\ wait_lock = u /\ wait_lock' = u
<1>1. wait_lock = u /\ u # NULL
  BY DEF Shape, LockRight
<1>2. Plain(t) \/ Locking(t)
  BY LockStep DEF Shape
<1> QED BY <1>1, <1>2 DEF Plain, Locking

(* The shape of a state is inductive. *)
LEMMA ShapeStep ==
  ASSUME Shape, NEW t \in Tasks, TaskStep(t)
  PROVE  Shape'
<1>1. TypeOK'
  BY TypeStep
<1>2. /\ ListMove(t) /\ OpAt(t)' /\ (Plain(t) \/ Locking(t)) /\ FrontAt(t)' /\ OsqMove(t)
  BY ListStep, OpStep, LockStep, FrontStep, OsqStep DEF Shape
<1>3. QueuedAt(t)'
  BY <1>2, QueuedStep
<1>4. \A u \in Tasks \ {t} :
        /\ pc'[u] = pc[u] /\ op'[u] = op[u] /\ tsk'[u] = tsk[u]
  BY Locality DEF Shape
<1>5. OpsRight'
  <2> SUFFICES ASSUME NEW u \in Tasks \ {t} PROVE OpAt(u)'
    BY <1>2 DEF OpsRight
  <2> QED BY <1>4 DEF Shape, OpsRight, OpAt
<1>6. LockRight'
  <2>1. wait_lock' = t <=> pc'[t] \in LockPC
    BY <1>2 DEF Shape, LockRight, Plain, Locking
  <2>2. ASSUME NEW u \in Tasks \ {t} PROVE wait_lock' = u <=> pc'[u] \in LockPC
    BY <1>2, <1>4 DEF Shape, LockRight, Plain, Locking
  <2> QED BY <2>1, <2>2 DEF LockRight
<1>7. ListRight'
  <2> SUFFICES ASSUME NEW u \in Tasks \ {t} PROVE QueuedAt(u)'
    BY <1>2, <1>3 DEF ListRight, ListMove
  <2>1. QueuedAt(u)
    BY DEF Shape, ListRight
  <2>2. \/ u \in ToSet(wait_list') <=> u \in ToSet(wait_list)
        \/ u \notin ToSet(wait_list') /\ op[u] = "read"
    BY <1>2 DEF ListMove
  <2> QED BY <1>4, <2>1, <2>2 DEF QueuedAt
<1>8. FrontRight'
  <2> SUFFICES ASSUME NEW u \in Tasks \ {t} PROVE FrontAt(u)'
    BY <1>2 DEF FrontRight
  <2>1. FrontAt(u)
    BY DEF Shape, FrontRight
  <2>2. CASE pc[u] \notin LockPC
    BY <1>4, <2>2 DEF FrontAt, LockPC, WakingPC
  <2>3. CASE pc[u] \in LockPC
    <3>1. wait_list' = wait_list
      BY <2>3, ListStable
    <3>2. wait_list # <<>> => Head(wait_list) \in ToSet(wait_list)
      <4>1. wait_list \in Seq(Tasks) /\ NoDuplicates(wait_list)
        BY DEF Shape, TypeOK, ListRight
      <4> QED BY <4>1, ListTail
    <3>3. wait_list # <<>> => op'[Head(wait_list)] = op[Head(wait_list)]
      BY <3>2, ListOps
    <3>4. pc'[u] = pc[u] /\ tsk'[u] = tsk[u]
      BY <1>4
    <3> QED BY <2>1, <3>1, <3>3, <3>4 DEF FrontAt, IsReader
  <2> QED BY <2>2, <2>3
<1>9. OsqRight'
  <2> SUFFICES ASSUME NEW u \in Tasks \ {t} PROVE OsqAt(u)'
    BY <1>2 DEF OsqRight, OsqMove
  <2>1. OsqAt(u)
    BY DEF Shape, OsqRight
  <2> QED BY <1>2, <1>4, <2>1 DEF OsqAt, OsqMove
<1> QED BY <1>1, <1>5, <1>6, <1>7, <1>8, <1>9 DEF Shape

----------------------------------------------------------------------------
(* What the numbers in the count say *)

(* The low half of a count is what was put into it. *)
LEMMA ModUnique ==
  ASSUME NEW m \in Nat, NEW a \in 0..m, NEW b \in Int
  PROVE  (a - (m + 1) * b) % (m + 1) = a
<1> DEFINE k == m + 1
           n == a - k * b
           q == n \div k
           r == n % k
<1>1. k \in Nat /\ k > 0 /\ n \in Int
  OBVIOUS
<1> HIDE DEF k
<1>2. q \in Int /\ r \in 0..(k - 1) /\ n = k * q + r
  BY <1>1
<1>3. k * (q + b) = a - r
  BY <1>1, <1>2
<1>4. a - r < k /\ a - r > -k
  BY <1>1, <1>2 DEF k
<1>5. q + b = 0
  BY <1>1, <1>2, <1>3, <1>4
<1> QED BY <1>2, <1>3, <1>5 DEF k

(* The comparisons the code makes, in terms of the two numbers. *)
LEMMA Compare ==
  ASSUME NEW m \in Nat, NEW a \in 0..m, NEW b \in Nat, NEW n, n = a - (m + 1) * b
  PROVE  /\ n < 0 <=> b > 0
         /\ n = -m - 1 <=> a = 0 /\ b = 1
         /\ n < -m - 1 <=> b > 1
         /\ n = 0 <=> a = 0 /\ b = 0
<1> DEFINE k == m + 1
<1>1. k \in Nat /\ k > a /\ n = a - k * b /\ n \in Int
  OBVIOUS
<1>2. CASE b = 0
  BY <1>1, <1>2
<1>3. CASE b = 1
  BY <1>1, <1>3
<1>4. CASE b > 1
  <2>1. k * b >= 2 * k
    <3> HIDE DEF k
    <3> QED BY <1>1, <1>4
  <2> QED BY <1>1, <1>4, <2>1
<1> QED BY <1>2, <1>3, <1>4

(* Those that have the lock for writing are at one of these. *)
HolderPC == {"spin_set_owner", "spin_osq_unlock", "add_waiting", "slow_set_owner",
             "write_set_owner", "writing", "up_write", "downgrade"}

(* Readers, with the set of the list's entries *)
ReadsAt(u) ==
  \/ pc[u] = "reading"
  \/ op[u] = "read" /\ u \notin ToSet(wait_list) /\ pc[u] \in SleepPC \cup WakingPC
  \/ op[u] = "downgrade"

(* Who is in the sets, by where they are *)
LEMMA Members ==
  ASSUME TypeOK, NEW u \in Tasks
  PROVE  /\ u \in Readers <=> ReadsAt(u)
         /\ u \in Writers <=> pc[u] \in HolderPC
         /\ u \in ReadFailing <=> pc[u] = "read_failed"
         /\ u \in WriteFailing <=> pc[u] = "write_failed"
<1>1. Contains(wait_list, u) <=> u \in ToSet(wait_list)
  BY ContainsToSet DEF TypeOK
<1> QED BY <1>1 DEF Readers, Writers, ReadFailing, WriteFailing, ReadsAt, HolderPC, SleepPC

(* Nobody both reads and writes. *)
LEMMA Disjoint ==
  ASSUME Shape
  PROVE  /\ (Readers \cup ReadFailing) \cap WriteSet = {}
         /\ Readers \cap Writers = {}
<1> SUFFICES ASSUME NEW u \in Tasks
             PROVE  /\ ~(u \in Readers \cup ReadFailing /\ u \in WriteSet)
                    /\ ~(u \in Readers /\ u \in Writers)
  BY DEF Readers, ReadFailing, WriteSet, Writers
<1>1. OpAt(u) /\ TypeOK
  BY DEF Shape, OpsRight
<1> QED BY <1>1, Members DEF WriteSet, OpAt, ReadsAt, HolderPC, WritePC, OsqPC, SleepPC, WakingPC

(* The tasks at the front are queued readers. *)
LEMMA FrontMembers ==
  ASSUME TypeOK
  PROVE  \A u \in FrontTasks : u \in ToSet(wait_list) /\ u \in Tasks /\ op[u] = "read"
<1> SUFFICES ASSUME NEW i \in FrontReaders
             PROVE  /\ wait_list[i] \in ToSet(wait_list) /\ wait_list[i] \in Tasks
                    /\ op[wait_list[i]] = "read"
  BY DEF FrontTasks
<1>1. wait_list \in Seq(Tasks) /\ i \in 1..Len(wait_list) /\ i \in DOMAIN wait_list
  BY FrontFinite DEF TypeOK
<1>2. ~(i < i)
  BY <1>1
<1>3. IsReader(wait_list[i])
  BY <1>1, <1>2 DEF FrontReaders
<1> QED BY <1>1, <1>3 DEF ToSet, IsReader

(* There are as many of them as places. *)
LEMMA FrontCardinality ==
  ASSUME TypeOK, NoDuplicates(wait_list)
  PROVE  Cardinality(FrontTasks) = Cardinality(FrontReaders)
<1> DEFINE f == [i \in FrontReaders |-> wait_list[i]]
<1>1. IsFiniteSet(FrontReaders) /\ FrontReaders \subseteq 1..Len(wait_list)
  BY FrontFinite
<1>2. f \in Bijection(FrontReaders, FrontTasks)
  <2>1. f \in [FrontReaders -> FrontTasks]
    BY DEF FrontTasks
  <2>2. \A x \in FrontTasks : \E i \in FrontReaders : f[i] = x
    BY DEF FrontTasks
  <2>3. \A i, j \in FrontReaders : f[i] = f[j] => i = j
    BY <1>1 DEF NoDuplicates
  <2> HIDE DEF f
  <2> QED BY <2>1, <2>2, <2>3, Fun_IsBij
<1>3. ExistsBijection(FrontReaders, FrontTasks)
  BY <1>2 DEF ExistsBijection
<1> QED BY <1>1, <1>3, FS_Bijection

(* The front is the whole list unless a writer is queued, ... *)
LEMMA FrontAll ==
  ASSUME TypeOK
  PROVE  /\ Cardinality(FrontReaders) \in Nat
         /\ Cardinality(FrontReaders) <= Len(wait_list)
         /\ Len(wait_list) > Cardinality(FrontReaders)
              <=> \E u \in ToSet(wait_list) : ~IsReader(u)
<1> DEFINE all == 1..Len(wait_list)
<1>1. Len(wait_list) \in Nat /\ DOMAIN wait_list = all
  BY DEF TypeOK
<1>2. IsFiniteSet(all) /\ Cardinality(all) = Len(wait_list)
  <2>1. ASSUME NEW n \in Nat PROVE IsFiniteSet(1..n) /\ Cardinality(1..n) = n
    <3>1. /\ IsFiniteSet(1..n)
          /\ Cardinality(1..n) = IF 1 > n THEN 0 ELSE n - 1 + 1
      BY FS_Interval, 1 \in Int, n \in Int, Zenon
    <3>2. (IF 1 > n THEN 0 ELSE n - 1 + 1) = n
      OBVIOUS
    <3> QED BY <3>1, <3>2
  <2> QED BY <1>1, <2>1
<1>3. FrontReaders \subseteq all /\ IsFiniteSet(FrontReaders)
  BY FrontFinite
<1>4. /\ Cardinality(FrontReaders) \in Nat /\ Cardinality(FrontReaders) <= Len(wait_list)
      /\ Cardinality(FrontReaders) = Len(wait_list) => FrontReaders = all
  BY <1>2, <1>3, FS_Subset, FS_CardinalityType
<1>5. FrontReaders = all <=> ~\E u \in ToSet(wait_list) : ~IsReader(u)
  <2>1. ASSUME NEW i \in all, FrontReaders = all PROVE IsReader(wait_list[i])
    <3>1. i \in FrontReaders /\ ~(i < i)
      BY <2>1
    <3> QED BY <3>1 DEF FrontReaders
  <2>2. ASSUME \A i \in all : IsReader(wait_list[i]) PROVE FrontReaders = all
    BY <2>2 DEF FrontReaders
  <2>3. (\A i \in all : IsReader(wait_list[i])) <=> \A u \in ToSet(wait_list) : IsReader(u)
    BY <1>1 DEF ToSet
  <2> QED BY <2>1, <2>2, <2>3
<1> QED BY <1>1, <1>2, <1>4, <1>5

(* ... and it starts with the head, if that is a reader. *)
LEMMA FrontHead ==
  ASSUME TypeOK
  PROVE  /\ wait_list = <<>> => FrontTasks = {}
         /\ wait_list # <<>> /\ ~IsReader(Head(wait_list)) => FrontTasks = {}
         /\ wait_list # <<>> /\ IsReader(Head(wait_list)) => Head(wait_list) \in FrontTasks
<1>1. wait_list \in Seq(Tasks) /\ Len(wait_list) \in Nat
  BY DEF TypeOK
<1>2. ASSUME wait_list = <<>> PROVE FrontTasks = {}
  <2>1. Len(wait_list) = 0
    BY <1>2
  <2>2. FrontReaders = {}
    BY <2>1, FrontFinite
  <2> QED BY <2>2 DEF FrontTasks
<1>3. ASSUME wait_list # <<>>
      PROVE  Len(wait_list) > 0 /\ Head(wait_list) = wait_list[1] /\ 1 \in 1..Len(wait_list)
  BY <1>1, <1>3
<1>4. ASSUME wait_list # <<>>, ~IsReader(Head(wait_list)) PROVE FrontTasks = {}
  <2>1. ASSUME NEW i \in FrontReaders PROVE FALSE
    <3>1. i \in 1..Len(wait_list) /\ ~(i < 1)
      BY <1>1, <2>1, FrontFinite
    <3> QED BY <1>3, <1>4, <2>1, <3>1 DEF FrontReaders
  <2> QED BY <2>1 DEF FrontTasks
<1>5. ASSUME wait_list # <<>>, IsReader(Head(wait_list)) PROVE Head(wait_list) \in FrontTasks
  <2>1. ASSUME NEW j \in 1..Len(wait_list), ~IsReader(wait_list[j]) PROVE 1 < j
    <3>1. j # 1
      BY <1>3, <1>5, <2>1
    <3> QED BY <1>1, <3>1
  <2>2. 1 \in FrontReaders
    BY <1>3, <1>5, <2>1 DEF FrontReaders
  <2> QED BY <1>3, <1>5, <2>2 DEF FrontTasks
<1> QED BY <1>2, <1>4, <1>5

(* Those a waker made active are queued readers. *)
LEMMA PendMembers ==
  ASSUME Shape
  PROVE  \A u \in Pend : u \in ToSet(wait_list) /\ u \in Tasks /\ op[u] = "read"
<1>1. CASE wait_lock = NULL
  BY <1>1 DEF Pend
<1>2. CASE wait_lock # NULL
  <2>1. wait_lock \in Tasks /\ TypeOK /\ FrontAt(wait_lock) /\ wait_list \in Seq(Tasks)
        /\ NoDuplicates(wait_list)
    BY <1>2 DEF Shape, TypeOK, FrontRight, ListRight
  <2>2. wait_list # <<>> => Head(wait_list) \in ToSet(wait_list) /\ Head(wait_list) \in Tasks
    BY <2>1, ListTail
  <2>3. \A u \in FrontTasks : u \in ToSet(wait_list) /\ u \in Tasks /\ op[u] = "read"
    BY <2>1, FrontMembers
  <2> QED BY <1>2, <2>1, <2>2, <2>3 DEF Pend, PendOf, FrontAt, IsReader
<1> QED BY <1>1, <1>2

(* The sets the count stands for do not overlap, so their sizes add up to  *)
(* no more than there are tasks.                                           *)
LEMMA Sizes ==
  ASSUME Shape
  PROVE  /\ Own \subseteq Tasks /\ WriteSet \subseteq Own /\ Pend \subseteq Tasks
         /\ IsFiniteSet(Own) /\ IsFiniteSet(WriteSet) /\ IsFiniteSet(Pend)
         /\ Cardinality(Own) \in Nat /\ Cardinality(WriteSet) \in Nat /\ Cardinality(Pend) \in Nat
         /\ Own \cap Pend = {}
         /\ Cardinality(Own) + Cardinality(Pend) <= Cardinality(Tasks)
         /\ Cardinality(Own) = Cardinality(Readers \cup ReadFailing) + Cardinality(WriteSet)
<1>1. Own \subseteq Tasks /\ WriteSet \subseteq Own
  BY DEF Own, WriteSet, Readers, Writers, ReadFailing, WriteFailing
<1>2. Pend \subseteq Tasks
  BY PendMembers
<1>3. Own \cap Pend = {}
  <2> SUFFICES ASSUME NEW u \in Tasks, u \in Own, u \in Pend PROVE FALSE
    BY <1>1
  <2>1. u \in ToSet(wait_list) /\ op[u] = "read"
    BY PendMembers
  <2>2. OpAt(u) /\ QueuedAt(u) /\ TypeOK
    BY DEF Shape, OpsRight, ListRight
  <2> QED BY <2>1, <2>2, Members DEF Own, WriteSet, ReadsAt, OpAt, QueuedAt, HolderPC,
            WritePC, OsqPC, SleepPC, WakingPC
<1>4. /\ IsFiniteSet(Own) /\ IsFiniteSet(WriteSet) /\ IsFiniteSet(Pend)
      /\ IsFiniteSet(Readers \cup ReadFailing)
  <2>1. WriteSet \subseteq Tasks /\ Readers \cup ReadFailing \subseteq Tasks
    BY <1>1 DEF Readers, ReadFailing
  <2> QED BY <1>1, <1>2, <2>1, FS_Subset
<1>5. /\ Cardinality(Own) \in Nat /\ Cardinality(WriteSet) \in Nat /\ Cardinality(Pend) \in Nat
      /\ Cardinality(Readers \cup ReadFailing) \in Nat
  BY <1>4, FS_CardinalityType
<1>6. Cardinality(Own) + Cardinality(Pend) <= Cardinality(Tasks)
  <2>1. Cardinality(Own \cup Pend) = Cardinality(Own) + Cardinality(Pend) - Cardinality(Own \cap Pend)
    BY <1>4, FS_Union
  <2>2. Cardinality(Own \cap Pend) = 0
    BY <1>3, FS_EmptySet
  <2>3. Own \cup Pend \subseteq Tasks
    BY <1>1, <1>2
  <2>4. Cardinality(Own \cup Pend) <= Cardinality(Tasks)
    BY <2>3, FS_Subset
  <2> QED BY <1>5, <2>1, <2>2, <2>4
<1>7. Cardinality(Own) = Cardinality(Readers \cup ReadFailing) + Cardinality(WriteSet)
  <2> DEFINE r == Readers \cup ReadFailing
  <2>1. Own = r \cup WriteSet
    BY DEF Own
  <2>2. Cardinality(r \cap WriteSet) = 0
    BY Disjoint, FS_EmptySet
  <2>3. Cardinality(r \cup WriteSet) = Cardinality(r) + Cardinality(WriteSet) - Cardinality(r \cap WriteSet)
    BY <1>4, FS_Union
  <2> QED BY <1>5, <2>1, <2>2, <2>3
<1> QED BY <1>1, <1>2, <1>3, <1>4, <1>5, <1>6, <1>7

(* What the code reads off the count, when the count is right *)
LEMMA Reads ==
  ASSUME Shape, Decoded
  PROVE  LET a == Cardinality(Own) + Cardinality(Pend)
             b == Cardinality(WriteSet) + Ind(Bias)
         IN  /\ a \in Nat /\ b \in Nat
             /\ Active(count) = a
             /\ count < 0 <=> b > 0
             /\ count = RWSEM_WAITING_BIAS <=> a = 0 /\ b = 1
             /\ count < RWSEM_WAITING_BIAS <=> b > 1
             /\ count = 0 <=> a = 0 /\ b = 0
<1> DEFINE m == RWSEM_ACTIVE_MASK
           a == Cardinality(Own) + Cardinality(Pend)
           b == Cardinality(WriteSet) + Ind(Bias)
<1>1. m \in Nat /\ a \in Nat /\ b \in Nat /\ a <= m
  <2>1. Cardinality(Tasks) \in Nat /\ Ind(Bias) \in Nat
    BY FS_CardinalityType DEF Ind
  <2> QED BY <2>1, Sizes
<1>2. count = a - (m + 1) * b
  <2>1. count = a - B * b
    BY Zenon DEF Decoded
  <2>2. B = m + 1
    BY DEF B
  <2> QED BY <2>1, <2>2
<1> HIDE DEF a, b
<1>3. a \in 0..m /\ b \in Int
  BY <1>1
<1>4. Active(count) = a
  BY <1>1, <1>2, <1>3, ModUnique DEF Active
<1>5. /\ count < 0 <=> b > 0
      /\ count = -m - 1 <=> a = 0 /\ b = 1
      /\ count < -m - 1 <=> b > 1
      /\ count = 0 <=> a = 0 /\ b = 0
  BY <1>1, <1>2, <1>3, Compare
<1>6. /\ a \in Nat /\ b \in Nat
      /\ Active(count) = a
      /\ count < 0 <=> b > 0
      /\ count = RWSEM_WAITING_BIAS <=> a = 0 /\ b = 1
      /\ count < RWSEM_WAITING_BIAS <=> b > 1
      /\ count = 0 <=> a = 0 /\ b = 0
  BY <1>1, <1>4, <1>5 DEF RWSEM_WAITING_BIAS
<1> QED BY <1>6 DEF a, b

(* Nobody is active, or at least one set has somebody in it. *)
LEMMA Nobody ==
  ASSUME Shape
  PROVE  /\ Cardinality(Own) + Cardinality(Pend) = 0 <=> Own = {} /\ Pend = {}
         /\ Cardinality(WriteSet) = 0 <=> WriteSet = {}
<1>1. /\ Cardinality(Own) = 0 <=> Own = {}
      /\ Cardinality(Pend) = 0 <=> Pend = {}
      /\ Cardinality(WriteSet) = 0 <=> WriteSet = {}
  BY Sizes, FS_EmptySet
<1>2. Cardinality(Own) \in Nat /\ Cardinality(Pend) \in Nat
  BY Sizes
<1> QED BY <1>1, <1>2

(* CountDecodes says what Decoded says. *)
LEMMA SameCount ==
  ASSUME Shape
  PROVE  CountDecodes <=> Decoded
<1> DEFINE h == wait_lock
           r == Cardinality(Readers \cup ReadFailing)
           w == Cardinality(WriteSet)
           grant == {"grant", "grant_wake"}
           n == IF h # NULL /\ pc[h] \in {"add_waiting"} THEN 0
                ELSE IF h # NULL /\ pc[h] \in {"slow_set_owner"} THEN (IF Len(wait_list) > 1 THEN 1 ELSE 0)
                ELSE IF h # NULL /\ pc[h] \in grant
                     THEN (IF Len(wait_list) > Cardinality(FrontReaders) THEN 1 ELSE 0)
                ELSE IF wait_list # <<>> THEN 1 ELSE 0
<1>1. TypeOK /\ NoDuplicates(wait_list)
  BY DEF Shape, ListRight
<1>2. Cardinality(Pend) = InGrant
  <2>1. Cardinality(FrontTasks) = Cardinality(FrontReaders)
    BY <1>1, FrontCardinality
  <2>2. Cardinality({}) = 0 /\ Cardinality({Head(wait_list)}) = 1
    BY FS_EmptySet, FS_Singleton
  <2> QED BY <2>1, <2>2 DEF Pend, PendOf, InGrant
<1>3. n = Ind(Bias)
  <2>1. Len(wait_list) > Cardinality(FrontReaders) <=> \E u \in ToSet(wait_list) : ~IsReader(u)
    BY <1>1, FrontAll
  <2> QED BY <2>1 DEF Bias, BiasOf, Ind
<1>4. ReadFailing = {t \in Tasks : pc[t] = "read_failed"} /\ WriteFailing = {t \in Tasks : pc[t] = "write_failed"}
  BY DEF ReadFailing, WriteFailing
<1>5. CountDecodes <=> count = RWSEM_ACTIVE_READ_BIAS * (r + InGrant)
                               + RWSEM_ACTIVE_WRITE_BIAS * w + RWSEM_WAITING_BIAS * n
  BY <1>4 DEF CountDecodes, WriteSet
<1>6. /\ r \in Nat /\ w \in Nat /\ n \in Nat /\ Cardinality(Pend) \in Nat
      /\ Cardinality(Own) = r + w /\ RWSEM_ACTIVE_MASK \in Nat
  <2>1. IsFiniteSet(Readers \cup ReadFailing)
    <3>1. Readers \cup ReadFailing \subseteq Tasks
      BY DEF Readers, ReadFailing
    <3> QED BY <3>1, FS_Subset
  <2>2. r \in Nat
    BY <2>1, FS_CardinalityType
  <2> QED BY <2>2, Sizes
<1> HIDE DEF r, w, n
<1>7. \A x, y, g, i, m \in Nat :
        1 * (x + g) + (-m - 1 + 1) * y + (-m - 1) * i = (x + y + g) - (m + 1) * (y + i)
  OBVIOUS
<1>8. RWSEM_ACTIVE_READ_BIAS * (r + InGrant) + RWSEM_ACTIVE_WRITE_BIAS * w + RWSEM_WAITING_BIAS * n
      = (r + w + InGrant) - (RWSEM_ACTIVE_MASK + 1) * (w + n)
  BY <1>2, <1>6, <1>7 DEF RWSEM_ACTIVE_READ_BIAS, RWSEM_ACTIVE_WRITE_BIAS, RWSEM_WAITING_BIAS
<1> QED BY <1>2, <1>3, <1>5, <1>6, <1>8 DEF Decoded, B, w

----------------------------------------------------------------------------
(* What each step does to the sets *)

(* A set that changes by at most one member *)
LEMMA CardMove ==
  ASSUME NEW S \in SUBSET Tasks, NEW T \in SUBSET Tasks, NEW x \in Tasks,
         S \ {x} = T \ {x}
  PROVE  Cardinality(T) = Cardinality(S) + Ind(x \in T) - Ind(x \in S)
<1>1. IsFiniteSet(S) /\ IsFiniteSet(T) /\ Cardinality(S) \in Nat /\ Cardinality(T) \in Nat
  BY FS_Subset, FS_CardinalityType
<1>2. CASE x \in S /\ x \notin T
  <2>1. T = S \ {x}
    BY <1>2
  <2>2. Cardinality(T) = Cardinality(S) - 1
    BY <1>1, <1>2, <2>1, FS_RemoveElement
  <2> QED BY <1>1, <1>2, <2>2 DEF Ind
<1>3. CASE x \notin S /\ x \in T
  <2>1. T = S \cup {x}
    BY <1>3
  <2>2. Cardinality(T) = Cardinality(S) + 1
    BY <1>1, <1>3, <2>1, FS_AddElement
  <2> QED BY <1>1, <1>3, <2>2 DEF Ind
<1>4. CASE x \in S <=> x \in T
  <2>1. S = T
    BY <1>4
  <2> QED BY <1>1, <2>1 DEF Ind
<1> QED BY <1>2, <1>3, <1>4

(* Who is in the sets after a step *)
LEMMA MembersAfter ==
  ASSUME TypeOK', NEW u \in Tasks
  PROVE  /\ u \in Readers' <=> ReadsAt(u)'
         /\ u \in Writers' <=> pc'[u] \in HolderPC
         /\ u \in ReadFailing' <=> pc'[u] = "read_failed"
         /\ u \in WriteFailing' <=> pc'[u] = "write_failed"
<1>1. Contains(wait_list', u) <=> u \in ToSet(wait_list')
  BY ContainsToSet DEF TypeOK
<1> QED BY <1>1 DEF Readers, Writers, ReadFailing, WriteFailing, ReadsAt, HolderPC, SleepPC

(* Only x changes between the sets. *)
Moves(x) ==
  \A u \in Tasks \ {x} :
    /\ u \in Readers' <=> u \in Readers
    /\ u \in Writers' <=> u \in Writers
    /\ u \in ReadFailing' <=> u \in ReadFailing
    /\ u \in WriteFailing' <=> u \in WriteFailing

(* Two sets of tasks that agree on all but x *)
LEMMA SameBut ==
  ASSUME NEW S \in SUBSET Tasks, NEW T \in SUBSET Tasks, NEW x,
         \A u \in Tasks \ {x} : u \in T <=> u \in S
  PROVE  S \ {x} = T \ {x}
OBVIOUS

(* If only x changes places, all the sets agree on all but x. *)
LEMMA MovesSets ==
  ASSUME NEW x \in Tasks, Moves(x)
  PROVE  /\ Readers \ {x} = Readers' \ {x} /\ Writers \ {x} = Writers' \ {x}
         /\ Own \ {x} = Own' \ {x} /\ WriteSet \ {x} = WriteSet' \ {x}
         /\ Own \in SUBSET Tasks /\ Own' \in SUBSET Tasks
         /\ WriteSet \in SUBSET Tasks /\ WriteSet' \in SUBSET Tasks
<1>1. /\ Readers \in SUBSET Tasks /\ Writers \in SUBSET Tasks
      /\ ReadFailing \in SUBSET Tasks /\ WriteFailing \in SUBSET Tasks
      /\ Readers' \in SUBSET Tasks /\ Writers' \in SUBSET Tasks
      /\ ReadFailing' \in SUBSET Tasks /\ WriteFailing' \in SUBSET Tasks
  BY DEF Readers, Writers, ReadFailing, WriteFailing
<1>2. \A u \in Tasks \ {x} : u \in Own' <=> u \in Own
  BY DEF Moves, Own, WriteSet
<1>3. \A u \in Tasks \ {x} : u \in WriteSet' <=> u \in WriteSet
  BY DEF Moves, WriteSet
<1>4. /\ Own \in SUBSET Tasks /\ Own' \in SUBSET Tasks
      /\ WriteSet \in SUBSET Tasks /\ WriteSet' \in SUBSET Tasks
  BY <1>1 DEF Own, WriteSet
<1>5. \A u \in Tasks \ {x} : u \in Readers' <=> u \in Readers
  BY DEF Moves
<1>6. \A u \in Tasks \ {x} : u \in Writers' <=> u \in Writers
  BY DEF Moves
<1>7. Readers \ {x} = Readers' \ {x}
  BY <1>1, <1>5, SameBut
<1>8. Writers \ {x} = Writers' \ {x}
  BY <1>1, <1>6, SameBut
<1>9. Own \ {x} = Own' \ {x}
  BY <1>2, <1>4, SameBut
<1>10. WriteSet \ {x} = WriteSet' \ {x}
  BY <1>3, <1>4, SameBut
<1> QED BY <1>4, <1>7, <1>8, <1>9, <1>10

(* A step moves its own task, unless it hands the lock to the first reader *)
(* of the queue.                                                           *)
Hands(t) == wait_list' = Tail(wait_list) /\ wait_list # <<>> /\ pc[t] = "grant"

(* Who changes places in a step *)
LEMMA MovesStep ==
  ASSUME Shape, Shape', NEW t \in Tasks, TaskStep(t)
  PROVE  /\ ~Hands(t) => Moves(t)
         /\ Hands(t) => LET h == Head(wait_list)
                        IN  /\ Moves(h) /\ h \in Tasks
                            /\ h \notin Own /\ h \notin Readers /\ h \notin Writers
                            /\ h \in Readers' /\ h \notin WriteSet'
                            /\ pc'[t] = "grant_wake" /\ op' = op
                            /\ count' = count /\ wait_lock' = wait_lock
<1>1. /\ TypeOK /\ TypeOK' /\ ListMove(t)
      /\ \A u \in Tasks \ {t} : pc'[u] = pc[u] /\ op'[u] = op[u]
  BY Locality, ListStep DEF Shape
<1>3. ASSUME ~Hands(t) PROVE Moves(t)
  <2>1. \A u \in Tasks \ {t} : u \in ToSet(wait_list') <=> u \in ToSet(wait_list)
    BY <1>1, <1>3 DEF ListMove, Hands
  <2>2. ASSUME NEW u \in Tasks \ {t}
        PROVE  /\ u \in Readers' <=> u \in Readers
               /\ u \in Writers' <=> u \in Writers
               /\ u \in ReadFailing' <=> u \in ReadFailing
               /\ u \in WriteFailing' <=> u \in WriteFailing
    BY <1>1, <2>1, Members, MembersAfter DEF ReadsAt
  <2> QED BY <2>2 DEF Moves
<1>4. ASSUME Hands(t)
      PROVE  LET h == Head(wait_list)
             IN  /\ Moves(h) /\ h \in Tasks
                 /\ h \notin Own /\ h \notin Readers /\ h \notin Writers
                 /\ h \in Readers' /\ h \notin WriteSet'
                 /\ pc'[t] = "grant_wake" /\ op' = op
                 /\ count' = count /\ wait_lock' = wait_lock
  <2> DEFINE h == Head(wait_list)
  <2>1. Len(wait_list') # Len(wait_list)
    BY <1>1, <1>4 DEF Hands, TypeOK
  <2>2. wait_list' # wait_list
    BY <2>1
  <2>3. /\ Grant(t) /\ pc'[t] = "grant_wake" /\ op' = op
        /\ h \in ToSet(wait_list) /\ op[h] = "read"
        /\ ToSet(wait_list') = ToSet(wait_list) \ {h}
    BY <1>1, <1>4, <2>2 DEF ListMove, Hands, ReadFailed, SlowLock, SlowSetOwner, Goto
  <2>4. count' = count /\ wait_lock' = wait_lock
    BY <1>4, <2>3 DEF Grant, WakeDone, Goto, Hands
  <2>5. h \in Tasks
    BY <1>1, <1>4 DEF Hands, TypeOK
  <2> HIDE DEF h
  <2>6. ASSUME NEW u \in Tasks PROVE (pc'[u] = pc[u] \/ (pc[u] = "grant" /\ pc'[u] = "grant_wake"))
    BY <1>1, <1>4, <2>3 DEF Hands
  <2>7. ASSUME NEW u \in Tasks \ {h}
        PROVE  /\ u \in Readers' <=> u \in Readers
               /\ u \in Writers' <=> u \in Writers
               /\ u \in ReadFailing' <=> u \in ReadFailing
               /\ u \in WriteFailing' <=> u \in WriteFailing
    <3>1. /\ u \in ToSet(wait_list') <=> u \in ToSet(wait_list)
          /\ pc'[u] = pc[u] \/ (pc[u] = "grant" /\ pc'[u] = "grant_wake")
          /\ op'[u] = op[u]
      BY <2>3, <2>6
    <3> QED BY <1>1, <3>1, Members, MembersAfter DEF ReadsAt, HolderPC, WakingPC, SleepPC
  <2>8. Moves(h)
    BY <2>7 DEF Moves
  <2>9. pc[h] \in SleepPC \cup WakingPC
    BY <2>3, <2>5 DEF Shape, ListRight, QueuedAt
  <2>10. h \notin Own /\ h \notin Readers /\ h \notin Writers
    BY <1>1, <2>3, <2>5, <2>9, Members DEF Own, WriteSet, ReadsAt, HolderPC, SleepPC, WakingPC
  <2>11. pc'[h] \in SleepPC \cup WakingPC
    BY <2>5, <2>6, <2>9 DEF WakingPC
  <2>12. h \in Readers'
    BY <1>1, <2>3, <2>5, <2>11, MembersAfter DEF ReadsAt
  <2>13. h \notin WriteSet'
    BY <2>11 DEF WriteSet, Writers, WriteFailing, SleepPC, WakingPC
  <2> QED BY <2>3, <2>4, <2>5, <2>8, <2>10, <2>12, <2>13 DEF h
<1> QED BY <1>3, <1>4

(* The front of a list that does not change *)
LEMMA FrontKept ==
  ASSUME Shape, NEW t \in Tasks, TaskStep(t), wait_list' = wait_list
  PROVE  /\ FrontTasks' = FrontTasks
         /\ (\E u \in ToSet(wait_list) : op'[u] # "read") <=> \E u \in ToSet(wait_list) : op[u] # "read"
<1>1. \A u \in ToSet(wait_list) : op'[u] = op[u]
  BY ListOps
<1>2. \A i \in 1..Len(wait_list) : op'[wait_list[i]] = op[wait_list[i]]
  <2>1. DOMAIN wait_list = 1..Len(wait_list)
    BY DEF Shape, TypeOK
  <2> QED BY <1>1, <2>1 DEF ToSet
<1>3. FrontReaders' = FrontReaders
  BY <1>2 DEF FrontReaders, IsReader
<1> QED BY <1>1, <1>3 DEF FrontTasks

(* What the holder of wait_lock put into the count, when that is t or      *)
(* nobody, before a step ...                                               *)
LEMMA HolderSets ==
  ASSUME TypeOK, LockRight, NEW t \in Tasks, wait_lock \in {NULL, t}
  PROVE  Pend = PendOf(t) /\ (Bias <=> BiasOf(t))
<1>1. CASE wait_lock = NULL
  <2>1. pc[t] \notin LockPC
    BY <1>1 DEF LockRight
  <2> QED BY <1>1, <2>1 DEF Pend, PendOf, Bias, BiasOf, LockPC, WakingPC
<1>2. CASE wait_lock = t
  BY <1>2 DEF Pend, Bias
<1> QED BY <1>1, <1>2

(* ... and after it *)
LEMMA HolderSetsAfter ==
  ASSUME TypeOK', LockRight', NEW t \in Tasks, wait_lock' \in {NULL, t}
  PROVE  Pend' = PendOf(t)' /\ (Bias' <=> BiasOf(t)')
<1>1. CASE wait_lock' = NULL
  <2>1. pc'[t] \notin LockPC
    BY <1>1 DEF LockRight
  <2> QED BY <1>1, <2>1 DEF Pend, PendOf, Bias, BiasOf, LockPC, WakingPC
<1>2. CASE wait_lock' = t
  BY <1>2 DEF Pend, Bias, PendOf, BiasOf
<1> QED BY <1>1, <1>2

(* A step that has nothing to do with wait_lock leaves that alone. *)
LEMMA PlainKeeps ==
  ASSUME Shape, NEW t \in Tasks, TaskStep(t), Plain(t)
  PROVE  Pend' = Pend /\ (Bias' <=> Bias)
<1>1. CASE wait_lock = NULL
  BY <1>1 DEF Plain, Pend, Bias
<1>2. CASE wait_lock # NULL
  <2> DEFINE u == wait_lock
  <2>1. u \in Tasks \ {t} /\ wait_lock' = u /\ wait_list' = wait_list
    BY <1>2 DEF Plain, Shape, TypeOK, LockRight
  <2> HIDE DEF u
  <2>2. pc'[u] = pc[u] /\ op'[u] = op[u]
    BY <2>1, Locality DEF Shape
  <2>3. FrontTasks' = FrontTasks
    BY <2>1, FrontKept
  <2>4. (\E v \in ToSet(wait_list) : op'[v] # "read") <=> \E v \in ToSet(wait_list) : op[v] # "read"
    BY <2>1, FrontKept
  <2>5. wait_lock = u
    BY DEF u
  <2>6. Pend' = Pend
    BY <1>2, <2>1, <2>2, <2>3, <2>5 DEF Pend, PendOf
  <2>7. Bias' <=> Bias
    BY <1>2, <2>1, <2>2, <2>4, <2>5 DEF Bias, BiasOf, IsReader
  <2> QED BY <2>6, <2>7
<1> QED BY <1>1, <1>2

(* A step changes the count by what it does to the sets. *)
CountMoves(x) ==
  count' = count + (Ind(x \in Own') - Ind(x \in Own))
                 + (Cardinality(Pend') - Cardinality(Pend))
                 - B * (Ind(x \in WriteSet') - Ind(x \in WriteSet) + Ind(Bias') - Ind(Bias))

(* What a waker made active are tasks. *)
LEMMA PendTasks == Shape => Pend \subseteq Tasks
BY Sizes

(* A count that moves with the one task that changes places stays right. *)
LEMMA DecodedMove ==
  ASSUME Shape, Shape', Decoded, NEW x \in Tasks, Moves(x), CountMoves(x)
  PROVE  Decoded'
<1> DEFINE o == Cardinality(Own)
           w == Cardinality(WriteSet)
           p == Cardinality(Pend)
           q == Cardinality(Pend')
           i == Ind(Bias)
           j == Ind(Bias')
           do == Ind(x \in Own') - Ind(x \in Own)
           dw == Ind(x \in WriteSet') - Ind(x \in WriteSet)
<1>1. Cardinality(Own') = o + do
  <2>1. Cardinality(Own') = o + Ind(x \in Own') - Ind(x \in Own)
    BY MovesSets, CardMove
  <2> QED BY <2>1, Sizes DEF Ind
<1>2. Cardinality(WriteSet') = w + dw
  <2>1. Cardinality(WriteSet') = w + Ind(x \in WriteSet') - Ind(x \in WriteSet)
    BY MovesSets, CardMove
  <2> QED BY <2>1, Sizes DEF Ind
<1>3. o \in Int /\ w \in Int /\ p \in Int /\ i \in Int /\ j \in Int /\ do \in Int /\ dw \in Int
  BY Sizes DEF Ind
<1>4. q \in Int
  <2>1. (Pend \subseteq Tasks)'
    BY PendTasks, PTL
  <2> QED BY <2>1, FS_Subset, FS_CardinalityType
<1>5. B \in Int
  BY DEF B
<1>6. count = (o + p) - B * (w + i)
  BY DEF Decoded
<1>7. count' = count + do + (q - p) - B * (dw + j - i)
  BY <1>3, <1>4, <1>5, <1>6 DEF CountMoves
<1> HIDE DEF o, w, p, q, i, j, do, dw, B
<1>8. count' = ((o + do) + q) - B * ((w + dw) + j)
  BY <1>3, <1>4, <1>5, <1>6, <1>7
<1> QED BY <1>1, <1>2, <1>8 DEF Decoded, q, j, B

(* The acting task's place in the sets *)
OwnsAt(t) == ReadsAt(t) \/ pc[t] \in HolderPC \cup {"read_failed", "write_failed"}
WritesAt(t) == pc[t] \in HolderPC \cup {"write_failed"}

(* Who is active and who put a write bias in, by where they are *)
LEMMA Places ==
  ASSUME TypeOK, TypeOK', NEW t \in Tasks
  PROVE  /\ t \in Own <=> OwnsAt(t)
         /\ t \in WriteSet <=> WritesAt(t)
         /\ t \in Own' <=> OwnsAt(t)'
         /\ t \in WriteSet' <=> WritesAt(t)'
<1>1. (t \in Own <=> OwnsAt(t)) /\ (t \in WriteSet <=> WritesAt(t))
  BY Members DEF Own, WriteSet, OwnsAt, WritesAt
<1>2. (t \in Own' <=> OwnsAt(t)') /\ (t \in WriteSet' <=> WritesAt(t)')
  BY MembersAfter DEF Own, WriteSet, OwnsAt, WritesAt
<1> QED BY <1>1, <1>2

(* A plain step and the count *)
PlainCount(t) ==
  count' = count + (Ind(t \in Own') - Ind(t \in Own))
                 - B * (Ind(t \in WriteSet') - Ind(t \in WriteSet))

(* A step that has nothing to do with wait_lock changes the count by what it *)
(* does to its own task.                                                     *)
LEMMA PlainCountStep ==
  ASSUME Shape, Shape', NEW t \in Tasks, PlainStep(t)
  PROVE  PlainCount(t)
<1> USE DEF Shape, TypeOK
<1>1. CASE down_read(t)
  <2>1. OpAt(t) /\ QueuedAt(t)
    BY DEF OpsRight, ListRight
  <2>2. t \notin Own /\ t \in Own' /\ t \notin WriteSet /\ t \notin WriteSet'
    BY <1>1, <2>1, Places DEF down_read, Call, Goto, QueuedAt, OpAt, OwnsAt, WritesAt, ReadsAt, HolderPC, SleepPC, WritePC, OsqPC, WakingPC, QueuedWriterPC, LockPC
  <2>3. count' = count + 1
    BY <1>1 DEF down_read, Call, Goto, B, RWSEM_WAITING_BIAS, RWSEM_ACTIVE_READ_BIAS, RWSEM_ACTIVE_WRITE_BIAS
  <2> QED BY <2>2, <2>3 DEF PlainCount, Ind, B
<1>2. CASE down_read_trylock(t)
  <2>1. OpAt(t) /\ QueuedAt(t)
    BY DEF OpsRight, ListRight
  <2>2. t \notin Own /\ t \in Own' /\ t \notin WriteSet /\ t \notin WriteSet'
    BY <1>2, <2>1, Places DEF down_read_trylock, Call, Goto, QueuedAt, OpAt, OwnsAt, WritesAt, ReadsAt, HolderPC, SleepPC, WritePC, OsqPC, WakingPC, QueuedWriterPC, LockPC
  <2>3. count' = count + 1
    BY <1>2 DEF down_read_trylock, Call, Goto, B, RWSEM_WAITING_BIAS, RWSEM_ACTIVE_READ_BIAS, RWSEM_ACTIVE_WRITE_BIAS
  <2> QED BY <2>2, <2>3 DEF PlainCount, Ind, B
<1>3. CASE down_write(t)
  <2>1. OpAt(t) /\ QueuedAt(t)
    BY DEF OpsRight, ListRight
  <2>2. t \notin Own /\ t \in Own' /\ t \notin WriteSet /\ t \in WriteSet'
    BY <1>3, <2>1, Places DEF down_write, Call, Goto, QueuedAt, OpAt, OwnsAt, WritesAt, ReadsAt, HolderPC, SleepPC, WritePC, OsqPC, WakingPC, QueuedWriterPC, LockPC
  <2>3. count' = count + 1 - B
    BY <1>3 DEF down_write, Call, Goto, B, RWSEM_WAITING_BIAS, RWSEM_ACTIVE_READ_BIAS, RWSEM_ACTIVE_WRITE_BIAS
  <2> QED BY <2>2, <2>3 DEF PlainCount, Ind, B
<1>4. CASE down_write_trylock(t)
  <2>1. OpAt(t) /\ QueuedAt(t)
    BY DEF OpsRight, ListRight
  <2>2. t \notin Own /\ t \in Own' /\ t \notin WriteSet /\ t \in WriteSet'
    BY <1>4, <2>1, Places DEF down_write_trylock, Call, Goto, QueuedAt, OpAt, OwnsAt, WritesAt, ReadsAt, HolderPC, SleepPC, WritePC, OsqPC, WakingPC, QueuedWriterPC, LockPC
  <2>3. count' = count + 1 - B
    BY <1>4 DEF down_write_trylock, Call, Goto, B, RWSEM_WAITING_BIAS, RWSEM_ACTIVE_READ_BIAS, RWSEM_ACTIVE_WRITE_BIAS
  <2> QED BY <2>2, <2>3 DEF PlainCount, Ind, B
<1>5. CASE WriteSetOwner(t)
  <2>1. OpAt(t) /\ QueuedAt(t)
    BY DEF OpsRight, ListRight
  <2>2. t \in Own /\ t \in Own' /\ t \in WriteSet /\ t \in WriteSet'
    BY <1>5, <2>1, Places DEF WriteSetOwner, Goto, QueuedAt, OpAt, OwnsAt, WritesAt, ReadsAt, HolderPC, SleepPC, WritePC, OsqPC, WakingPC, QueuedWriterPC, LockPC
  <2>3. count' = count
    BY <1>5 DEF WriteSetOwner, Goto
  <2> QED BY <2>2, <2>3 DEF PlainCount, Ind, B
<1>6. CASE SetState(t)
  <2>1. OpAt(t) /\ QueuedAt(t)
    BY DEF OpsRight, ListRight
  <2>2. (t \in Own <=> t \in Own') /\ t \notin WriteSet /\ t \notin WriteSet'
    BY <1>6, <2>1, Places DEF SetState, Goto, QueuedAt, OpAt, OwnsAt, WritesAt, ReadsAt, HolderPC, SleepPC, WritePC, OsqPC, WakingPC, QueuedWriterPC, LockPC
  <2>3. count' = count
    BY <1>6 DEF SetState, Goto
  <2> QED BY <2>2, <2>3 DEF PlainCount, Ind, B
<1>7. CASE CheckWait(t)
  <2>1. OpAt(t) /\ QueuedAt(t)
    BY DEF OpsRight, ListRight
  <2>2. (t \in Own <=> t \in Own') /\ t \notin WriteSet /\ t \notin WriteSet'
    BY <1>7, <2>1, CheckMoves, Places DEF OpAt, OwnsAt, WritesAt, ReadsAt, HolderPC, SleepPC, WritePC, OsqPC, WakingPC, QueuedWriterPC, LockPC
  <2>3. count' = count
    BY <1>7, CheckMoves
  <2> QED BY <2>2, <2>3 DEF PlainCount, Ind, B
<1>8. CASE Schedule(t)
  <2>1. OpAt(t) /\ QueuedAt(t)
    BY DEF OpsRight, ListRight
  <2>2. (t \in Own <=> t \in Own') /\ t \notin WriteSet /\ t \notin WriteSet'
    BY <1>8, <2>1, Places DEF Schedule, Goto, QueuedAt, OpAt, OwnsAt, WritesAt, ReadsAt, HolderPC, SleepPC, WritePC, OsqPC, WakingPC, QueuedWriterPC, LockPC
  <2>3. count' = count
    BY <1>8 DEF Schedule, Goto
  <2> QED BY <2>2, <2>3 DEF PlainCount, Ind, B
<1>9. CASE WriteFailed(t)
  <2>1. OpAt(t) /\ QueuedAt(t)
    BY DEF OpsRight, ListRight
  <2>2. t \in Own /\ t \notin Own' /\ t \in WriteSet /\ t \notin WriteSet'
    BY <1>9, <2>1, Places DEF WriteFailed, Goto, QueuedAt, OpAt, OwnsAt, WritesAt, ReadsAt, HolderPC, SleepPC, WritePC, OsqPC, WakingPC, QueuedWriterPC, LockPC
  <2>3. count' = count - 1 + B
    BY <1>9 DEF WriteFailed, Goto, B, RWSEM_WAITING_BIAS, RWSEM_ACTIVE_READ_BIAS, RWSEM_ACTIVE_WRITE_BIAS
  <2> QED BY <2>2, <2>3 DEF PlainCount, Ind, B
<1>10. CASE CanSpin(t)
  <2>1. OpAt(t) /\ QueuedAt(t)
    BY DEF OpsRight, ListRight
  <2>2. t \notin Own /\ t \notin Own' /\ t \notin WriteSet /\ t \notin WriteSet'
    BY <1>10, <2>1, Places DEF CanSpin, Goto, QueuedAt, OpAt, OwnsAt, WritesAt, ReadsAt, HolderPC, SleepPC, WritePC, OsqPC, WakingPC, QueuedWriterPC, LockPC
  <2>3. count' = count
    BY <1>10 DEF CanSpin, Goto
  <2> QED BY <2>2, <2>3 DEF PlainCount, Ind, B
<1>11. CASE OsqLock(t)
  <2>1. OpAt(t) /\ QueuedAt(t)
    BY DEF OpsRight, ListRight
  <2>2. t \notin Own /\ t \notin Own' /\ t \notin WriteSet /\ t \notin WriteSet'
    BY <1>11, <2>1, Places, SMTT(60) DEF OsqLock, Goto, QueuedAt, OpAt, OwnsAt, WritesAt, ReadsAt, HolderPC, SleepPC, WritePC, OsqPC, WakingPC, QueuedWriterPC, LockPC
  <2>3. count' = count
    BY <1>11 DEF OsqLock, Goto
  <2> QED BY <2>2, <2>3 DEF PlainCount, Ind, B
<1>12. CASE Spin(t)
  <2>1. OpAt(t) /\ QueuedAt(t)
    BY DEF OpsRight, ListRight
  <2>2. t \notin Own /\ t \notin Own' /\ t \notin WriteSet /\ t \notin WriteSet'
    BY <1>12, <2>1, Places DEF Spin, Goto, QueuedAt, OpAt, OwnsAt, WritesAt, ReadsAt, HolderPC, SleepPC, WritePC, OsqPC, WakingPC, QueuedWriterPC, LockPC
  <2>3. count' = count
    BY <1>12 DEF Spin, Goto
  <2> QED BY <2>2, <2>3 DEF PlainCount, Ind, B
<1>13. CASE SpinOnOwner(t)
  <2>1. OpAt(t) /\ QueuedAt(t)
    BY DEF OpsRight, ListRight
  <2>2. t \notin Own /\ t \notin Own' /\ t \notin WriteSet /\ t \notin WriteSet'
    BY <1>13, <2>1, Places DEF SpinOnOwner, Goto, QueuedAt, OpAt, OwnsAt, WritesAt, ReadsAt, HolderPC, SleepPC, WritePC, OsqPC, WakingPC, QueuedWriterPC, LockPC
  <2>3. count' = count
    BY <1>13 DEF SpinOnOwner, Goto
  <2> QED BY <2>2, <2>3 DEF PlainCount, Ind, B
<1>14. CASE TryUnqueued(t)
  <2>1. OpAt(t) /\ QueuedAt(t)
    BY DEF OpsRight, ListRight
  <2>2. pc[t] = "try_unqueued" /\ op' = op /\ ((pc'[t] = "spin_set_owner" /\ count' = count + 1 - B) \/ (pc'[t] \in {"spin", "osq_unlock"} /\ count' = count))
    BY <1>14 DEF TryUnqueued, Goto, B, RWSEM_WAITING_BIAS, RWSEM_ACTIVE_READ_BIAS, RWSEM_ACTIVE_WRITE_BIAS
  <2>3. CASE pc'[t] = "spin_set_owner" /\ count' = count + 1 - B
    <3>1. t \notin Own /\ t \in Own' /\ t \notin WriteSet /\ t \in WriteSet'
      BY <2>1, <2>2, <2>3, Places DEF OpAt, OwnsAt, WritesAt, ReadsAt, HolderPC, SleepPC, WritePC, OsqPC, WakingPC, QueuedWriterPC, LockPC
    <3> QED BY <2>3, <3>1 DEF PlainCount, Ind, B
  <2>4. CASE pc'[t] \in {"spin", "osq_unlock"} /\ count' = count
    <3>1. t \notin Own /\ t \notin Own' /\ t \notin WriteSet /\ t \notin WriteSet'
      BY <2>1, <2>2, <2>4, Places DEF OpAt, OwnsAt, WritesAt, ReadsAt, HolderPC, SleepPC, WritePC, OsqPC, WakingPC, QueuedWriterPC, LockPC
    <3> QED BY <2>4, <3>1 DEF PlainCount, Ind, B
  <2> QED BY <2>2, <2>3, <2>4
<1>15. CASE SpinSetOwner(t)
  <2>1. OpAt(t) /\ QueuedAt(t)
    BY DEF OpsRight, ListRight
  <2>2. t \in Own /\ t \in Own' /\ t \in WriteSet /\ t \in WriteSet'
    BY <1>15, <2>1, Places DEF SpinSetOwner, Goto, QueuedAt, OpAt, OwnsAt, WritesAt, ReadsAt, HolderPC, SleepPC, WritePC, OsqPC, WakingPC, QueuedWriterPC, LockPC
  <2>3. count' = count
    BY <1>15 DEF SpinSetOwner, Goto
  <2> QED BY <2>2, <2>3 DEF PlainCount, Ind, B
<1>16. CASE OsqUnlock(t)
  <2>1. OpAt(t) /\ QueuedAt(t)
    BY DEF OpsRight, ListRight
  <2>2. op' = op /\ ((pc[t] = "spin_osq_unlock" /\ pc'[t] = "write_set_owner" /\ count' = count) \/ (pc[t] = "osq_unlock" /\ pc'[t] = "slow" /\ count' = count))
    BY <1>16 DEF OsqUnlock, Goto, B, RWSEM_WAITING_BIAS, RWSEM_ACTIVE_READ_BIAS, RWSEM_ACTIVE_WRITE_BIAS
  <2>3. CASE pc[t] = "spin_osq_unlock" /\ pc'[t] = "write_set_owner" /\ count' = count
    <3>1. t \in Own /\ t \in Own' /\ t \in WriteSet /\ t \in WriteSet'
      BY <2>1, <2>2, <2>3, Places DEF OpAt, OwnsAt, WritesAt, ReadsAt, HolderPC, SleepPC, WritePC, OsqPC, WakingPC, QueuedWriterPC, LockPC
    <3> QED BY <2>3, <3>1 DEF PlainCount, Ind, B
  <2>4. CASE pc[t] = "osq_unlock" /\ pc'[t] = "slow" /\ count' = count
    <3>1. t \notin Own /\ t \notin Own' /\ t \notin WriteSet /\ t \notin WriteSet'
      BY <2>1, <2>2, <2>4, Places DEF OpAt, OwnsAt, WritesAt, ReadsAt, HolderPC, SleepPC, WritePC, OsqPC, WakingPC, QueuedWriterPC, LockPC
    <3> QED BY <2>4, <3>1 DEF PlainCount, Ind, B
  <2> QED BY <2>2, <2>3, <2>4
<1>17. CASE up_read(t)
  <2>1. OpAt(t) /\ QueuedAt(t)
    BY DEF OpsRight, ListRight
  <2>2. /\ pc[t] = "reading" /\ pc'[t] \in {"wake", "idle"} /\ op'[t] \in {"up", "none"}
        /\ count' = count - 1
    BY <1>17 DEF up_read, Up, Goto, RWSEM_WAITING_BIAS, RWSEM_ACTIVE_READ_BIAS, RWSEM_ACTIVE_WRITE_BIAS
  <2>3. t \in Own /\ t \notin Own' /\ t \notin WriteSet /\ t \notin WriteSet'
    BY <2>1, <2>2, Places DEF OpAt, OwnsAt, WritesAt, ReadsAt, HolderPC, SleepPC, WritePC, OsqPC, WakingPC, QueuedWriterPC, LockPC
  <2> QED BY <2>2, <2>3 DEF PlainCount, Ind, B
<1>18. CASE ClearOwner(t)
  <2>1. OpAt(t) /\ QueuedAt(t)
    BY DEF OpsRight, ListRight
  <2>2. t \in Own /\ t \in Own' /\ t \in WriteSet /\ t \in WriteSet'
    BY <1>18, <2>1, Places DEF ClearOwner, Goto, QueuedAt, OpAt, OwnsAt, WritesAt, ReadsAt, HolderPC, SleepPC, WritePC, OsqPC, WakingPC, QueuedWriterPC, LockPC
  <2>3. count' = count
    BY <1>18 DEF ClearOwner, Goto
  <2> QED BY <2>2, <2>3 DEF PlainCount, Ind, B
<1>19. CASE up_write(t)
  <2>1. OpAt(t) /\ QueuedAt(t)
    BY DEF OpsRight, ListRight
  <2>2. t \in Own /\ t \notin Own' /\ t \in WriteSet /\ t \notin WriteSet'
    BY <1>19, <2>1, Places DEF up_write, Up, Goto, QueuedAt, OpAt, OwnsAt, WritesAt, ReadsAt, HolderPC, SleepPC, WritePC, OsqPC, WakingPC, QueuedWriterPC, LockPC
  <2>3. count' = count - 1 + B
    BY <1>19 DEF up_write, Up, Goto, B, RWSEM_WAITING_BIAS, RWSEM_ACTIVE_READ_BIAS, RWSEM_ACTIVE_WRITE_BIAS
  <2> QED BY <2>2, <2>3 DEF PlainCount, Ind, B
<1>20. CASE HasSpinner(t)
  <2>1. OpAt(t) /\ QueuedAt(t)
    BY DEF OpsRight, ListRight
  <2>2. t \notin Own /\ t \notin Own' /\ t \notin WriteSet /\ t \notin WriteSet'
    BY <1>20, <2>1, Places DEF HasSpinner, Goto, QueuedAt, OpAt, OwnsAt, WritesAt, ReadsAt, HolderPC, SleepPC, WritePC, OsqPC, WakingPC, QueuedWriterPC, LockPC
  <2>3. count' = count
    BY <1>20 DEF HasSpinner, Goto
  <2> QED BY <2>2, <2>3 DEF PlainCount, Ind, B
<1>21. CASE WakeTrylock(t)
  <2>1. OpAt(t) /\ QueuedAt(t)
    BY DEF OpsRight, ListRight
  <2>2. t \notin Own /\ t \notin Own' /\ t \notin WriteSet /\ t \notin WriteSet'
    BY <1>21, <2>1, Places DEF WakeTrylock, Goto, QueuedAt, OpAt, OwnsAt, WritesAt, ReadsAt, HolderPC, SleepPC, WritePC, OsqPC, WakingPC, QueuedWriterPC, LockPC
  <2>3. count' = count
    BY <1>21 DEF WakeTrylock, Goto
  <2> QED BY <2>2, <2>3 DEF PlainCount, Ind, B
<1>22. CASE downgrade_write(t)
  <2>1. OpAt(t) /\ QueuedAt(t)
    BY DEF OpsRight, ListRight
  <2>2. /\ pc[t] = "downgrade" /\ count' = count + B
        /\ \/ pc'[t] = "downgrade_wake" /\ op'[t] = "downgrade"
           \/ pc'[t] = "reading" /\ op'[t] = "read"
    BY <1>22 DEF downgrade_write, Goto, B, RWSEM_WAITING_BIAS, RWSEM_ACTIVE_READ_BIAS, RWSEM_ACTIVE_WRITE_BIAS
  <2>3. t \in Own /\ t \in Own' /\ t \in WriteSet /\ t \notin WriteSet'
    BY <2>2, Places DEF OwnsAt, WritesAt, ReadsAt, HolderPC
  <2> QED BY <2>2, <2>3 DEF PlainCount, Ind, B
<1> QED
  BY <1>1, <1>2, <1>3, <1>4, <1>5, <1>6, <1>7, <1>8, <1>9, <1>10, <1>11,
     <1>12, <1>13, <1>14, <1>15, <1>16, <1>17, <1>18, <1>19, <1>20, <1>21,
     <1>22 DEF PlainStep

(* The numbers that the counts of a step with wait_lock are made of *)
LEMMA Numbers ==
  ASSUME Shape
  PROVE  /\ count \in Int /\ B \in Int
         /\ Cardinality({}) = 0 /\ Cardinality({Head(wait_list)}) = 1
<1>1. count \in Int /\ B \in Int
  BY DEF Shape, TypeOK, B
<1>2. Cardinality({}) = 0 /\ Cardinality({Head(wait_list)}) = 1
  BY FS_EmptySet, FS_Singleton
<1> QED BY <1>1, <1>2

(* Where a waker goes when it is done *)
LEMMA WakeDoneMoves ==
  ASSUME TypeOK, NEW t \in Tasks, OpAt(t), NEW from, from \in WakingPC \cup {"wake_trylock", "wake_lock", "downgrade_wake"},
         NEW woken, WakeDone(t, from, woken)
  PROVE  /\ pc[t] = from /\ wait_lock' = NULL
         /\ \/ op[t] = "read" /\ pc'[t] = "set_state" /\ op'[t] = "read"
            \/ op[t] = "write" /\ pc'[t] = "schedule" /\ op'[t] = "write"
            \/ op[t] = "up" /\ pc'[t] = "idle" /\ op'[t] = "none"
            \/ op[t] = "downgrade" /\ pc'[t] = "reading" /\ op'[t] = "read"
<1>1. op[t] \in {"read", "write", "up", "downgrade"}
  BY DEF WakeDone, Goto, OpAt, TypeOK, WakingPC
<1> QED BY <1>1 DEF WakeDone, Goto, TypeOK

(* A step with wait_lock that hands the lock to nobody *)
LEMMA LockCountStep ==
  ASSUME Shape, Shape', NEW t \in Tasks, TaskStep(t), ~Hands(t), LockedStep(t)
  PROVE  CountMoves(t)
<1>1. CASE WakeWriter(t)
  <2>1. OpAt(t) /\ QueuedAt(t) /\ FrontAt(t) /\ wait_list \in Seq(Tasks) /\ TypeOK
    BY DEF Shape, TypeOK, OpsRight, ListRight, FrontRight
  <2>2. Pend = PendOf(t) /\ (Bias <=> BiasOf(t)) /\ Pend' = PendOf(t)' /\ (Bias' <=> BiasOf(t)')
    <3>1. wait_lock \in {NULL, t} /\ wait_lock' \in {NULL, t}
      BY <1>1 DEF WakeWriter, WakeDone, Goto, Shape, TypeOK, LockRight, LockPC, WakingPC
    <3> QED BY <3>1, HolderSets, HolderSetsAfter DEF Shape
  <2>p. /\ t \in Own <=> OwnsAt(t)
        /\ t \in WriteSet <=> WritesAt(t)
        /\ t \in Own' <=> OwnsAt(t)'
        /\ t \in WriteSet' <=> WritesAt(t)'
    BY Places DEF Shape
  <2>3. pc[t] = "do_wake" /\ wait_list' = wait_list /\ count' = count
    BY <1>1 DEF WakeWriter
  <2>4. \/ op[t] = "read" /\ pc'[t] = "set_state" /\ op'[t] = "read"
        \/ op[t] = "write" /\ pc'[t] = "schedule" /\ op'[t] = "write"
        \/ op[t] = "up" /\ pc'[t] = "idle" /\ op'[t] = "none"
        \/ op[t] = "downgrade" /\ pc'[t] = "reading" /\ op'[t] = "read"
    <3>1. WakeDone(t, "do_wake", IF op[t] \in {"read", "up"} THEN {Head(wait_list)} ELSE {})
      BY <1>1 DEF WakeWriter
    <3> QED BY <2>1, <3>1, WakeDoneMoves DEF WakingPC
  <2>5. (t \in Own <=> t \in Own') /\ t \notin WriteSet /\ t \notin WriteSet'
    BY <2>1, <2>p, <2>3, <2>4 DEF OpAt, OwnsAt, WritesAt, ReadsAt, HolderPC, SleepPC, WritePC, OsqPC, WakingPC, QueuedWriterPC, LockPC
  <2>6. Pend = {} /\ Pend' = {} /\ (Bias <=> Bias')
    BY <2>2, <2>3, <2>4 DEF PendOf, BiasOf
  <2> QED BY <2>3, <2>5, <2>6, Numbers DEF CountMoves, Ind
<1>2. CASE ReaderGrant(t)
  <2>1. OpAt(t) /\ QueuedAt(t) /\ FrontAt(t) /\ wait_list \in Seq(Tasks) /\ TypeOK
    BY DEF Shape, TypeOK, OpsRight, ListRight, FrontRight
  <2>2. Pend = PendOf(t) /\ (Bias <=> BiasOf(t)) /\ Pend' = PendOf(t)' /\ (Bias' <=> BiasOf(t)')
    <3>1. wait_lock \in {NULL, t} /\ wait_lock' \in {NULL, t}
      BY <1>2 DEF ReaderGrant, Goto, Shape, TypeOK, LockRight, LockPC, WakingPC
    <3> QED BY <3>1, HolderSets, HolderSetsAfter DEF Shape
  <2>p. /\ t \in Own <=> OwnsAt(t)
        /\ t \in WriteSet <=> WritesAt(t)
        /\ t \in Own' <=> OwnsAt(t)'
        /\ t \in WriteSet' <=> WritesAt(t)'
    BY Places DEF Shape
  <2>3. /\ pc[t] = "do_wake" /\ wait_list' = wait_list /\ op' = op
        /\ \/ op[t] = "downgrade" /\ pc'[t] = "count_readers" /\ count' = count
           \/ op[t] # "downgrade" /\ pc'[t] \in {"undo_grant", "count_readers"} /\ count' = count + 1
    BY <1>2, <2>1 DEF ReaderGrant, Goto, TypeOK, RWSEM_ACTIVE_READ_BIAS
  <2>5. (t \in Own <=> t \in Own') /\ t \notin WriteSet /\ t \notin WriteSet'
    BY <2>1, <2>p, <2>3 DEF OpAt, OwnsAt, WritesAt, ReadsAt, HolderPC, SleepPC, WritePC, OsqPC, WakingPC, QueuedWriterPC, LockPC
  <2>6. Pend = {} /\ (Bias <=> Bias') /\ Pend' = IF op[t] = "downgrade" THEN {} ELSE {Head(wait_list)}
    BY <2>2, <2>3 DEF PendOf, BiasOf
  <2> QED BY <2>3, <2>5, <2>6, Numbers DEF CountMoves, Ind
<1>3. CASE UndoGrant(t)
  <2>1. OpAt(t) /\ QueuedAt(t) /\ FrontAt(t) /\ wait_list \in Seq(Tasks) /\ TypeOK
    BY DEF Shape, TypeOK, OpsRight, ListRight, FrontRight
  <2>2. Pend = PendOf(t) /\ (Bias <=> BiasOf(t)) /\ Pend' = PendOf(t)' /\ (Bias' <=> BiasOf(t)')
    <3>1. wait_lock \in {NULL, t} /\ wait_lock' \in {NULL, t}
      BY <1>3 DEF UndoGrant, WakeDone, Goto, Shape, TypeOK, LockRight, LockPC, WakingPC
    <3> QED BY <3>1, HolderSets, HolderSetsAfter DEF Shape
  <2>p. /\ t \in Own <=> OwnsAt(t)
        /\ t \in WriteSet <=> WritesAt(t)
        /\ t \in Own' <=> OwnsAt(t)'
        /\ t \in WriteSet' <=> WritesAt(t)'
    BY Places DEF Shape
  <2>3. pc[t] = "undo_grant" /\ wait_list' = wait_list /\ count' = count - 1
    BY <1>3 DEF UndoGrant, WakeDone, Goto, RWSEM_ACTIVE_READ_BIAS
  <2>4. \/ op' = op /\ pc'[t] = "do_wake"
        \/ op[t] = "read" /\ pc'[t] = "set_state" /\ op'[t] = "read"
        \/ op[t] = "write" /\ pc'[t] = "schedule" /\ op'[t] = "write"
        \/ op[t] = "up" /\ pc'[t] = "idle" /\ op'[t] = "none"
        \/ op[t] = "downgrade" /\ pc'[t] = "reading" /\ op'[t] = "read"
    <3>1. WakeDone(t, "undo_grant", {}) \/ (Goto(t, "undo_grant", "do_wake") /\ op' = op)
      BY <1>3 DEF UndoGrant
    <3>2. CASE WakeDone(t, "undo_grant", {})
      BY <2>1, <3>2, WakeDoneMoves DEF WakingPC
    <3>3. CASE Goto(t, "undo_grant", "do_wake") /\ op' = op
      BY <2>1, <3>3 DEF Goto, TypeOK
    <3> QED BY <3>1, <3>2, <3>3
  <2>5. (t \in Own <=> t \in Own') /\ t \notin WriteSet /\ t \notin WriteSet'
    BY <2>1, <2>p, <2>3, <2>4 DEF OpAt, OwnsAt, WritesAt, ReadsAt, HolderPC, SleepPC, WritePC, OsqPC, WakingPC, QueuedWriterPC, LockPC
  <2>6. Pend = {Head(wait_list)} /\ Pend' = {} /\ (Bias <=> Bias')
    BY <2>2, <2>3, <2>4 DEF PendOf, BiasOf
  <2> QED BY <2>3, <2>5, <2>6, Numbers DEF CountMoves, Ind
<1>4. CASE CountReaders(t)
  <2>1. OpAt(t) /\ QueuedAt(t) /\ FrontAt(t) /\ wait_list \in Seq(Tasks) /\ TypeOK
    BY DEF Shape, TypeOK, OpsRight, ListRight, FrontRight
  <2>2. Pend = PendOf(t) /\ (Bias <=> BiasOf(t)) /\ Pend' = PendOf(t)' /\ (Bias' <=> BiasOf(t)')
    <3>1. wait_lock \in {NULL, t} /\ wait_lock' \in {NULL, t}
      BY <1>4 DEF CountReaders, Goto, Shape, TypeOK, LockRight, LockPC, WakingPC
    <3> QED BY <3>1, HolderSets, HolderSetsAfter DEF Shape
  <2>p. /\ t \in Own <=> OwnsAt(t)
        /\ t \in WriteSet <=> WritesAt(t)
        /\ t \in Own' <=> OwnsAt(t)'
        /\ t \in WriteSet' <=> WritesAt(t)'
    BY Places DEF Shape
  <2> DEFINE n == Cardinality(FrontReaders)
             had == IF op[t] = "downgrade" THEN 0 ELSE 1
             bias == IF n = Len(wait_list) THEN B ELSE 0
  <2>3. pc[t] = "count_readers" /\ pc'[t] = "grant" /\ wait_list' = wait_list /\ op' = op
    BY <1>4, <2>1 DEF CountReaders, Goto, TypeOK
  <2>4. n \in Nat /\ n <= Len(wait_list) /\ Len(wait_list) \in Nat /\ count \in Int /\ B \in Int
    BY <2>1, FrontAll DEF TypeOK, B
  <2>5. count' = count + n - had + bias
    BY <1>4, <2>4 DEF CountReaders, B, RWSEM_WAITING_BIAS, RWSEM_ACTIVE_READ_BIAS, RWSEM_ACTIVE_WRITE_BIAS
  <2>6. (t \in Own <=> t \in Own') /\ t \notin WriteSet /\ t \notin WriteSet'
    BY <2>1, <2>p, <2>3 DEF OpAt, OwnsAt, WritesAt, ReadsAt, HolderPC, SleepPC, WritePC, OsqPC, WakingPC, QueuedWriterPC, LockPC
  <2>7. FrontTasks' = FrontTasks /\ Cardinality(FrontTasks) = n
    BY <2>1, <2>3, FrontKept, FrontCardinality DEF Shape, ListRight
  <2>8. Cardinality(Pend) = had /\ Cardinality(Pend') = n
    <3>1. Pend' = FrontTasks
      BY <2>2, <2>3, <2>7 DEF PendOf
    <3>2. Pend = IF op[t] = "downgrade" THEN {} ELSE {Head(wait_list)}
      BY <2>2, <2>3 DEF PendOf
    <3> QED BY <2>7, <3>1, <3>2, FS_EmptySet, FS_Singleton
  <2>9. Bias /\ (Bias' <=> n # Len(wait_list))
    <3>1. Len(wait_list) > n <=> \E u \in ToSet(wait_list) : ~IsReader(u)
      BY <2>1, FrontAll
    <3>2. BiasOf(t)' <=> \E u \in ToSet(wait_list) : ~IsReader(u)
      BY <2>3 DEF BiasOf, IsReader
    <3>3. BiasOf(t)
      BY <2>1, <2>3 DEF BiasOf, FrontAt
    <3> QED BY <2>2, <2>4, <3>1, <3>2, <3>3
  <2> HIDE DEF n
  <2> QED BY <2>4, <2>5, <2>6, <2>8, <2>9 DEF CountMoves, Ind
<1>5. CASE Grant(t)
  <2>1. OpAt(t) /\ QueuedAt(t) /\ FrontAt(t) /\ wait_list \in Seq(Tasks) /\ TypeOK
    BY DEF Shape, TypeOK, OpsRight, ListRight, FrontRight
  <2>2. Pend = PendOf(t) /\ (Bias <=> BiasOf(t)) /\ Pend' = PendOf(t)' /\ (Bias' <=> BiasOf(t)')
    <3>1. wait_lock \in {NULL, t} /\ wait_lock' \in {NULL, t}
      BY <1>5 DEF Grant, WakeDone, Goto, Shape, TypeOK, LockRight, LockPC, WakingPC
    <3> QED BY <3>1, HolderSets, HolderSetsAfter DEF Shape
  <2>p. /\ t \in Own <=> OwnsAt(t)
        /\ t \in WriteSet <=> WritesAt(t)
        /\ t \in Own' <=> OwnsAt(t)'
        /\ t \in WriteSet' <=> WritesAt(t)'
    BY Places DEF Shape
  <2>3. pc[t] = "grant_wake" /\ wait_list' = wait_list /\ count' = count
    <3>1. pc[t] # "grant"
      <4>1. pc[t] = "grant" => wait_list # <<>>
        BY <2>1 DEF FrontAt
      <4>2. pc[t] = "grant" => wait_list' = Tail(wait_list)
        BY <1>5 DEF Grant, WakeDone, Goto
      <4> QED BY <4>1, <4>2 DEF Hands
    <3> QED BY <1>5, <3>1 DEF Grant, WakeDone, Goto
  <2>4. \/ /\ op' = op /\ pc'[t] = "grant"
        \/ /\ wait_list = <<>> \/ ~IsReader(Head(wait_list))
           /\ \/ op[t] = "read" /\ pc'[t] = "set_state" /\ op'[t] = "read"
              \/ op[t] = "write" /\ pc'[t] = "schedule" /\ op'[t] = "write"
              \/ op[t] = "up" /\ pc'[t] = "idle" /\ op'[t] = "none"
              \/ op[t] = "downgrade" /\ pc'[t] = "reading" /\ op'[t] = "read"
    <3>1. \/ Goto(t, "grant_wake", "grant") /\ op' = op
          \/ /\ wait_list = <<>> \/ ~IsReader(Head(wait_list))
             /\ WakeDone(t, "grant_wake", {tsk[t]})
      BY <1>5, <2>3 DEF Grant, Goto
    <3>2. CASE Goto(t, "grant_wake", "grant") /\ op' = op
      BY <2>1, <3>2 DEF Goto, TypeOK
    <3>3. CASE /\ wait_list = <<>> \/ ~IsReader(Head(wait_list))
               /\ WakeDone(t, "grant_wake", {tsk[t]})
      BY <2>1, <3>3, WakeDoneMoves DEF WakingPC
    <3> QED BY <3>1, <3>2, <3>3
  <2>5. (t \in Own <=> t \in Own') /\ t \notin WriteSet /\ t \notin WriteSet'
    BY <2>1, <2>p, <2>3, <2>4 DEF OpAt, OwnsAt, WritesAt, ReadsAt, HolderPC, SleepPC, WritePC, OsqPC, WakingPC, QueuedWriterPC, LockPC
  <2>6. FrontTasks' = FrontTasks
    BY <2>3, FrontKept
  <2>7. CASE op' = op /\ pc'[t] = "grant"
    <3>1. Pend' = Pend /\ (Bias <=> Bias')
      BY <2>2, <2>3, <2>6, <2>7 DEF PendOf, BiasOf, IsReader
    <3>2. Cardinality(Pend) \in Nat
      BY Sizes
    <3> QED BY <2>3, <2>5, <3>1, <3>2, Numbers DEF CountMoves, Ind
  <2>8. CASE ~(op' = op /\ pc'[t] = "grant")
    <3>1. FrontTasks = {}
      BY <2>1, <2>4, <2>8, FrontHead
    <3>2. Pend = {} /\ Pend' = {}
      BY <2>2, <2>3, <2>4, <2>8, <3>1 DEF PendOf, BiasOf
    <3>3. Bias <=> Bias'
      <4>1. BiasOf(t) <=> \E u \in ToSet(wait_list) : ~IsReader(u)
        BY <2>3 DEF BiasOf
      <4>2. BiasOf(t)' <=> wait_list # <<>>
        BY <2>3, <2>4, <2>8 DEF BiasOf
      <4>3. wait_list = <<>> => ToSet(wait_list) = {}
        BY EmptyList
      <4>4. wait_list # <<>> => Head(wait_list) \in ToSet(wait_list)
        BY <2>1, ListTail DEF Shape, ListRight
      <4> QED BY <2>2, <2>4, <2>8, <4>1, <4>2, <4>3, <4>4
    <3> QED BY <2>3, <2>5, <3>2, <3>3, Numbers DEF CountMoves, Ind
  <2> QED BY <2>7, <2>8
<1>6. CASE ReadFailed(t)
  <2>1. OpAt(t) /\ QueuedAt(t) /\ FrontAt(t) /\ wait_list \in Seq(Tasks) /\ TypeOK
    BY DEF Shape, TypeOK, OpsRight, ListRight, FrontRight
  <2>2. Pend = PendOf(t) /\ (Bias <=> BiasOf(t)) /\ Pend' = PendOf(t)' /\ (Bias' <=> BiasOf(t)')
    <3>1. wait_lock \in {NULL, t} /\ wait_lock' \in {NULL, t}
      BY <1>6 DEF ReadFailed, Goto, Shape, TypeOK, LockRight, LockPC, WakingPC
    <3> QED BY <3>1, HolderSets, HolderSetsAfter DEF Shape
  <2>p. /\ t \in Own <=> OwnsAt(t)
        /\ t \in WriteSet <=> WritesAt(t)
        /\ t \in Own' <=> OwnsAt(t)'
        /\ t \in WriteSet' <=> WritesAt(t)'
    BY Places DEF Shape
  <2>3. /\ pc[t] = "read_failed" /\ pc'[t] \in {"do_wake", "set_state"} /\ op' = op
        /\ wait_list' # <<>> /\ t \in ToSet(wait_list')
        /\ count' = count - 1 - (IF wait_list = <<>> THEN B ELSE 0)
    <3>1. /\ pc[t] = "read_failed" /\ pc'[t] \in {"do_wake", "set_state"} /\ op' = op
          /\ wait_list' = Append(wait_list, t)
      BY <1>6, <2>1 DEF ReadFailed, Goto, TypeOK, list_add_tail
    <3>2. ListMove(t) /\ wait_list' # wait_list /\ wait_list' # <<>>
      BY <2>1, <3>1, ListStep
    <3>3. t \in ToSet(wait_list')
      BY <3>1, <3>2 DEF ListMove, SlowSetOwner, Goto
    <3>4. count \in Int
      BY <2>1 DEF TypeOK
    <3>5. count' = count - 1 - (IF wait_list = <<>> THEN B ELSE 0)
      BY <1>6, <3>4 DEF ReadFailed, B, RWSEM_WAITING_BIAS, RWSEM_ACTIVE_READ_BIAS, RWSEM_ACTIVE_WRITE_BIAS
    <3> QED BY <3>1, <3>2, <3>3, <3>5
  <2>5. t \in Own /\ t \notin Own' /\ t \notin WriteSet /\ t \notin WriteSet'
    BY <2>1, <2>p, <2>3 DEF OpAt, OwnsAt, WritesAt, ReadsAt, HolderPC, SleepPC, WritePC, OsqPC, WakingPC, QueuedWriterPC, LockPC
  <2>6. Pend = {} /\ Pend' = {} /\ (Bias <=> wait_list # <<>>) /\ Bias'
    BY <2>2, <2>3 DEF PendOf, BiasOf
  <2> QED BY <2>3, <2>5, <2>6, Numbers DEF CountMoves, Ind
<1>7. CASE SlowLock(t)
  <2>1. OpAt(t) /\ QueuedAt(t) /\ FrontAt(t) /\ wait_list \in Seq(Tasks) /\ TypeOK
    BY DEF Shape, TypeOK, OpsRight, ListRight, FrontRight
  <2>2. Pend = PendOf(t) /\ (Bias <=> BiasOf(t)) /\ Pend' = PendOf(t)' /\ (Bias' <=> BiasOf(t)')
    <3>1. wait_lock \in {NULL, t} /\ wait_lock' \in {NULL, t}
      BY <1>7 DEF SlowLock, Goto, Shape, TypeOK, LockRight, LockPC, WakingPC
    <3> QED BY <3>1, HolderSets, HolderSetsAfter DEF Shape
  <2>p. /\ t \in Own <=> OwnsAt(t)
        /\ t \in WriteSet <=> WritesAt(t)
        /\ t \in Own' <=> OwnsAt(t)'
        /\ t \in WriteSet' <=> WritesAt(t)'
    BY Places DEF Shape
  <2>3. /\ pc[t] = "slow" /\ pc'[t] \in {"try_write", "do_wake", "schedule"} /\ op' = op
        /\ wait_list' # <<>> /\ count' = count - (IF wait_list = <<>> THEN B ELSE 0)
    <3>1. /\ pc[t] = "slow" /\ pc'[t] \in {"try_write", "do_wake", "schedule"} /\ op' = op
          /\ wait_list' = Append(wait_list, t)
      BY <1>7, <2>1 DEF SlowLock, Goto, TypeOK, list_add_tail
    <3>2. wait_list' # <<>>
      BY <2>1, <3>1
    <3>3. count \in Int
      BY <2>1 DEF TypeOK
    <3>4. count' = count - (IF wait_list = <<>> THEN B ELSE 0)
      BY <1>7, <3>3 DEF SlowLock, B, RWSEM_WAITING_BIAS, RWSEM_ACTIVE_READ_BIAS, RWSEM_ACTIVE_WRITE_BIAS
    <3> QED BY <3>1, <3>2, <3>4
  <2>5. t \notin Own /\ t \notin Own' /\ t \notin WriteSet /\ t \notin WriteSet'
    BY <2>1, <2>p, <2>3 DEF OpAt, OwnsAt, WritesAt, ReadsAt, HolderPC, SleepPC, WritePC, OsqPC, WakingPC, QueuedWriterPC, LockPC
  <2>6. Pend = {} /\ Pend' = {} /\ (Bias <=> wait_list # <<>>) /\ Bias'
    BY <2>2, <2>3 DEF PendOf, BiasOf
  <2> QED BY <2>3, <2>5, <2>6, Numbers DEF CountMoves, Ind
<1>8. CASE TryWriteLock(t)
  <2>1. OpAt(t) /\ QueuedAt(t) /\ FrontAt(t) /\ wait_list \in Seq(Tasks) /\ TypeOK
    BY DEF Shape, TypeOK, OpsRight, ListRight, FrontRight
  <2>2. Pend = PendOf(t) /\ (Bias <=> BiasOf(t)) /\ Pend' = PendOf(t)' /\ (Bias' <=> BiasOf(t)')
    <3>1. wait_lock \in {NULL, t} /\ wait_lock' \in {NULL, t}
      BY <1>8 DEF TryWriteLock, Goto, Shape, TypeOK, LockRight, LockPC, WakingPC
    <3> QED BY <3>1, HolderSets, HolderSetsAfter DEF Shape
  <2>p. /\ t \in Own <=> OwnsAt(t)
        /\ t \in WriteSet <=> WritesAt(t)
        /\ t \in Own' <=> OwnsAt(t)'
        /\ t \in WriteSet' <=> WritesAt(t)'
    BY Places DEF Shape
  <2>3. pc[t] \in {"try_write", "relock"} /\ wait_list' = wait_list /\ op' = op
    BY <1>8 DEF TryWriteLock
  <2>4. t \in ToSet(wait_list) /\ wait_list # <<>> /\ Len(wait_list) \in Nat
    BY <2>1, <2>3, EmptyList DEF OpAt, QueuedAt, SleepPC, WritePC, OsqPC, WakingPC, QueuedWriterPC, LockPC
  <2>5. Pend = {} /\ Bias
    BY <2>2, <2>3, <2>4 DEF PendOf, BiasOf
  <2>6. t \notin Own /\ t \notin WriteSet
    BY <2>1, <2>3, <2>p DEF OpAt, OwnsAt, WritesAt, ReadsAt, HolderPC, SleepPC, WritePC, OsqPC, WakingPC, QueuedWriterPC, LockPC
  <2>7. CASE count = RWSEM_WAITING_BIAS
    <3>1. /\ count' = count + 1
          /\ pc'[t] = "add_waiting" \/ (pc'[t] = "slow_set_owner" /\ Len(wait_list) = 1)
      BY <1>8, <2>1, <2>7 DEF TryWriteLock, Goto, TypeOK, RWSEM_WAITING_BIAS, RWSEM_ACTIVE_READ_BIAS, RWSEM_ACTIVE_WRITE_BIAS
    <3>2. t \in Own' /\ t \in WriteSet'
      BY <2>1, <2>p, <3>1 DEF OpAt, OwnsAt, WritesAt, ReadsAt, HolderPC, SleepPC, WritePC, OsqPC, WakingPC, QueuedWriterPC, LockPC
    <3>3. Pend' = {} /\ ~Bias'
      <4>1. pc'[t] = "slow_set_owner" => ~(Len(wait_list') > 1)
        <5>1. Len(wait_list') = Len(wait_list)
          BY <2>3
        <5>2. pc'[t] = "slow_set_owner" => Len(wait_list) = 1
          BY <3>1
        <5>3. ~(1 > 1)
          OBVIOUS
        <5> QED BY <5>1, <5>2, <5>3
      <4>2. pc'[t] \in {"add_waiting", "slow_set_owner"}
        BY <3>1
      <4>3. PendOf(t)' = {}
        BY <4>2 DEF PendOf
      <4>4. ~BiasOf(t)'
        BY <4>1, <4>2 DEF BiasOf
      <4> QED BY <2>2, <4>3, <4>4
    <3> QED BY <2>5, <2>6, <3>1, <3>2, <3>3, Numbers DEF CountMoves, Ind
  <2>8. CASE count # RWSEM_WAITING_BIAS
    <3>1. count' = count /\ pc'[t] = "schedule"
      BY <1>8, <2>1, <2>8 DEF TryWriteLock, Goto, TypeOK
    <3>2. t \notin Own' /\ t \notin WriteSet'
      BY <2>1, <2>3, <2>p, <3>1 DEF OpAt, OwnsAt, WritesAt, ReadsAt, HolderPC, SleepPC, WritePC, OsqPC, WakingPC, QueuedWriterPC, LockPC
    <3>3. Pend' = {} /\ Bias'
      BY <2>2, <2>3, <2>4, <3>1 DEF PendOf, BiasOf
    <3> QED BY <2>5, <2>6, <3>1, <3>2, <3>3, Numbers DEF CountMoves, Ind
  <2> QED BY <2>7, <2>8
<1>9. CASE AddWaiting(t)
  <2>1. OpAt(t) /\ QueuedAt(t) /\ FrontAt(t) /\ wait_list \in Seq(Tasks) /\ TypeOK
    BY DEF Shape, TypeOK, OpsRight, ListRight, FrontRight
  <2>2. Pend = PendOf(t) /\ (Bias <=> BiasOf(t)) /\ Pend' = PendOf(t)' /\ (Bias' <=> BiasOf(t)')
    <3>1. wait_lock \in {NULL, t} /\ wait_lock' \in {NULL, t}
      BY <1>9 DEF AddWaiting, Goto, Shape, TypeOK, LockRight, LockPC, WakingPC
    <3> QED BY <3>1, HolderSets, HolderSetsAfter DEF Shape
  <2>p. /\ t \in Own <=> OwnsAt(t)
        /\ t \in WriteSet <=> WritesAt(t)
        /\ t \in Own' <=> OwnsAt(t)'
        /\ t \in WriteSet' <=> WritesAt(t)'
    BY Places DEF Shape
  <2>3. /\ pc[t] = "add_waiting" /\ pc'[t] = "slow_set_owner" /\ wait_list' = wait_list
        /\ op' = op /\ count' = count - B
    BY <1>9, <2>1 DEF AddWaiting, Goto, TypeOK, B, RWSEM_WAITING_BIAS
  <2>4. Len(wait_list) > 1
    BY <2>1, <2>3 DEF FrontAt
  <2>5. t \in Own /\ t \in Own' /\ t \in WriteSet /\ t \in WriteSet'
    BY <2>1, <2>p, <2>3 DEF OpAt, OwnsAt, WritesAt, ReadsAt, HolderPC, SleepPC, WritePC, OsqPC, WakingPC, QueuedWriterPC, LockPC
  <2>6. Pend = {} /\ Pend' = {} /\ ~Bias /\ Bias'
    BY <2>2, <2>3, <2>4 DEF PendOf, BiasOf
  <2> QED BY <2>3, <2>5, <2>6, Numbers DEF CountMoves, Ind
<1>10. CASE SlowSetOwner(t)
  <2>1. OpAt(t) /\ QueuedAt(t) /\ FrontAt(t) /\ wait_list \in Seq(Tasks) /\ TypeOK
    BY DEF Shape, TypeOK, OpsRight, ListRight, FrontRight
  <2>2. Pend = PendOf(t) /\ (Bias <=> BiasOf(t)) /\ Pend' = PendOf(t)' /\ (Bias' <=> BiasOf(t)')
    <3>1. wait_lock \in {NULL, t} /\ wait_lock' \in {NULL, t}
      BY <1>10 DEF SlowSetOwner, Goto, Shape, TypeOK, LockRight, LockPC, WakingPC
    <3> QED BY <3>1, HolderSets, HolderSetsAfter DEF Shape
  <2>p. /\ t \in Own <=> OwnsAt(t)
        /\ t \in WriteSet <=> WritesAt(t)
        /\ t \in Own' <=> OwnsAt(t)'
        /\ t \in WriteSet' <=> WritesAt(t)'
    BY Places DEF Shape
  <2>3. pc[t] = "slow_set_owner" /\ pc'[t] = "write_set_owner" /\ op' = op /\ count' = count
    BY <1>10, <2>1 DEF SlowSetOwner, Goto, TypeOK
  <2>4. /\ t \in ToSet(wait_list) /\ wait_list' \in Seq(Tasks)
        /\ Len(wait_list) \in Nat /\ Len(wait_list') = Len(wait_list) - 1
    <3>1. t \in ToSet(wait_list)
      BY <2>1, <2>3 DEF OpAt, QueuedAt, SleepPC, WritePC, OsqPC, WakingPC, QueuedWriterPC, LockPC
    <3> QED BY <1>10, <2>1, <3>1, ListDelEntries DEF SlowSetOwner
  <2>5. t \in Own /\ t \in Own' /\ t \in WriteSet /\ t \in WriteSet'
    BY <2>1, <2>p, <2>3 DEF OpAt, OwnsAt, WritesAt, ReadsAt, HolderPC, SleepPC, WritePC, OsqPC, WakingPC, QueuedWriterPC, LockPC
  <2>6. wait_list' # <<>> <=> Len(wait_list) > 1
    BY <2>4
  <2>7. Pend = {} /\ Pend' = {} /\ (Bias <=> Bias')
    BY <2>2, <2>3, <2>6 DEF PendOf, BiasOf
  <2> QED BY <2>3, <2>5, <2>7, Numbers DEF CountMoves, Ind
<1>11. CASE WakeLocked(t)
  <2>1. OpAt(t) /\ QueuedAt(t) /\ FrontAt(t) /\ wait_list \in Seq(Tasks) /\ TypeOK
    BY DEF Shape, TypeOK, OpsRight, ListRight, FrontRight
  <2>2. Pend = PendOf(t) /\ (Bias <=> BiasOf(t)) /\ Pend' = PendOf(t)' /\ (Bias' <=> BiasOf(t)')
    <3>1. wait_lock \in {NULL, t} /\ wait_lock' \in {NULL, t}
      BY <1>11 DEF WakeLocked, WakeDone, Goto, Shape, TypeOK, LockRight, LockPC, WakingPC
    <3> QED BY <3>1, HolderSets, HolderSetsAfter DEF Shape
  <2>p. /\ t \in Own <=> OwnsAt(t)
        /\ t \in WriteSet <=> WritesAt(t)
        /\ t \in Own' <=> OwnsAt(t)'
        /\ t \in WriteSet' <=> WritesAt(t)'
    BY Places DEF Shape
  <2>3. /\ pc[t] \in {"wake_trylock", "wake_lock", "downgrade_wake"}
        /\ wait_list' = wait_list /\ count' = count
    BY <1>11 DEF WakeLocked
  <2>4. \/ op' = op /\ pc'[t] = "do_wake"
        \/ op[t] = "read" /\ pc'[t] = "set_state" /\ op'[t] = "read"
        \/ op[t] = "write" /\ pc'[t] = "schedule" /\ op'[t] = "write"
        \/ op[t] = "up" /\ pc'[t] = "idle" /\ op'[t] = "none"
        \/ op[t] = "downgrade" /\ pc'[t] = "reading" /\ op'[t] = "read"
    <3>1. WakeDone(t, pc[t], {}) \/ (Goto(t, pc[t], "do_wake") /\ op' = op)
      BY <1>11 DEF WakeLocked
    <3>2. CASE WakeDone(t, pc[t], {})
      BY <2>1, <2>3, <3>2, WakeDoneMoves
    <3>3. CASE Goto(t, pc[t], "do_wake") /\ op' = op
      BY <2>1, <3>3 DEF Goto, TypeOK
    <3> QED BY <3>1, <3>2, <3>3
  <2>5. (t \in Own <=> t \in Own') /\ t \notin WriteSet /\ t \notin WriteSet'
    BY <2>1, <2>p, <2>3, <2>4 DEF OpAt, OwnsAt, WritesAt, ReadsAt, HolderPC, SleepPC, WritePC, OsqPC, WakingPC, QueuedWriterPC, LockPC
  <2>6. Pend = {} /\ Pend' = {} /\ (Bias <=> Bias')
    BY <2>2, <2>3, <2>4 DEF PendOf, BiasOf
  <2> QED BY <2>3, <2>5, <2>6, Numbers DEF CountMoves, Ind
<1> QED
  BY <1>1, <1>2, <1>3, <1>4, <1>5, <1>6, <1>7, <1>8, <1>9, <1>10, <1>11 DEF LockedStep

(* Tail() of the list takes the first place away from its front. *)
LEMMA FrontTail ==
  ASSUME Shape, NEW t \in Tasks, TaskStep(t), Hands(t)
  PROVE  /\ Head(wait_list) \in FrontTasks
         /\ FrontTasks' = FrontTasks \ {Head(wait_list)}
         /\ (\E u \in ToSet(wait_list') : op'[u] # "read") <=> \E u \in ToSet(wait_list) : op[u] # "read"
<1> DEFINE h == Head(wait_list)
<1>1. /\ TypeOK /\ wait_list \in Seq(Tasks) /\ NoDuplicates(wait_list) /\ wait_list # <<>>
      /\ wait_list' = Tail(wait_list) /\ op[h] = "read"
  BY DEF Hands, Shape, TypeOK, ListRight, FrontRight, FrontAt, IsReader
<1>2. h \in FrontTasks
  BY <1>1, FrontHead DEF IsReader
<1>3. \A u \in ToSet(wait_list) : op'[u] = op[u]
  BY ListOps
<1>4. /\ Len(wait_list) \in Nat /\ Len(wait_list) > 0 /\ Len(wait_list') = Len(wait_list) - 1
      /\ \A i \in 1..(Len(wait_list) - 1) : wait_list'[i] = wait_list[i + 1]
      /\ wait_list[1] = h /\ DOMAIN wait_list = 1..Len(wait_list)
  BY <1>1
<1>5. \A i \in 1..Len(wait_list) : op'[wait_list[i]] = op[wait_list[i]]
  BY <1>3, <1>4 DEF ToSet
<1>6. FrontReaders' = {i \in 1..(Len(wait_list) - 1) : i + 1 \in FrontReaders}
  <2> DEFINE n == Len(wait_list)
             W == {j \in 1..n : op[wait_list[j]] # "read"}
             V == {j \in 1..(n - 1) : j + 1 \in W}
  <2>1. \A j \in 1..(n - 1) : op'[wait_list'[j]] # "read" <=> j + 1 \in W
    <3> TAKE j \in 1..(n - 1)
    <3>1. j + 1 \in 1..n /\ wait_list'[j] = wait_list[j + 1]
      BY <1>4
    <3> QED BY <1>5, <3>1
  <2>2. FrontReaders' = {i \in 1..(n - 1) : \A j \in V : i < j}
    <3>1. FrontReaders' = LET ws == {j \in 1..Len(wait_list') : ~(op'[wait_list'[j]] = "read")}
                          IN  {i \in 1..Len(wait_list') : \A j \in ws : i < j}
      BY DEF FrontReaders, IsReader
    <3>2. {j \in 1..Len(wait_list') : ~(op'[wait_list'[j]] = "read")} = V
      BY <1>4, <2>1
    <3> QED BY <1>4, <3>1, <3>2
  <2>3. FrontReaders = {i \in 1..n : \A j \in W : i < j}
    BY DEF FrontReaders, IsReader
  <2>4. ASSUME NEW i \in 1..(n - 1) PROVE (\A j \in V : i < j) <=> i + 1 \in FrontReaders
    <3>1. ASSUME \A j \in V : i < j, NEW j \in W PROVE i + 1 < j
      <4>1. j \in 1..n /\ j # 1
        BY <1>1, <1>4
      <4>2. j - 1 \in 1..(n - 1) /\ (j - 1) + 1 = j
        BY <1>4, <4>1
      <4>3. j - 1 \in V
        BY <3>1, <4>2
      <4>4. i < j - 1
        BY <3>1, <4>3
      <4> QED BY <1>4, <4>1, <4>4
    <3>2. ASSUME \A j \in W : i + 1 < j, NEW j \in V PROVE i < j
      <4>1. i + 1 < j + 1 /\ j \in 1..(n - 1)
        BY <3>2
      <4> QED BY <1>4, <4>1
    <3>3. i + 1 \in 1..n
      BY <1>4
    <3> QED BY <2>3, <3>1, <3>2, <3>3
  <2> QED BY <2>2, <2>4
<1>7. FrontTasks' = {wait_list'[i] : i \in FrontReaders'}
  BY DEF FrontTasks
<1>8. FrontReaders \subseteq 1..Len(wait_list)
  BY <1>1, FrontFinite
<1>9. ASSUME NEW x \in FrontTasks' PROVE x \in FrontTasks \ {h}
  <2>1. PICK i \in 1..(Len(wait_list) - 1) : i + 1 \in FrontReaders /\ x = wait_list'[i]
    BY <1>6, <1>7
  <2>2. x = wait_list[i + 1] /\ i + 1 # 1 /\ i + 1 \in 1..Len(wait_list) /\ 1 \in 1..Len(wait_list)
    BY <1>4, <2>1
  <2>3. x # h
    BY <1>1, <1>4, <2>2 DEF NoDuplicates
  <2> QED BY <2>1, <2>2, <2>3 DEF FrontTasks
<1>10. ASSUME NEW x \in FrontTasks, x # h PROVE x \in FrontTasks'
  <2>1. PICK i \in FrontReaders : x = wait_list[i]
    BY DEF FrontTasks
  <2>2. i \in 1..Len(wait_list) /\ i # 1
    BY <1>4, <1>8, <1>10, <2>1
  <2>3. i - 1 \in 1..(Len(wait_list) - 1) /\ (i - 1) + 1 = i
    BY <1>4, <2>2
  <2>4. i - 1 \in FrontReaders' /\ wait_list'[i - 1] = x
    BY <1>4, <1>6, <2>1, <2>3
  <2> QED BY <1>7, <2>4
<1>11. ToSet(wait_list') = ToSet(wait_list) \ {h}
  BY <1>1, ListTail
<1>12. h \in ToSet(wait_list)
  BY <1>1, ListTail
<1> QED BY <1>1, <1>2, <1>3, <1>9, <1>10, <1>11, <1>12

(* Handing the lock to the first reader leaves the count alone. *)
LEMMA HandsCount ==
  ASSUME Shape, Shape', NEW t \in Tasks, TaskStep(t), Hands(t)
  PROVE  CountMoves(Head(wait_list))
<1> DEFINE h == Head(wait_list)
<1>1. /\ h \in Tasks /\ h \notin Own /\ h \in Readers' /\ h \notin WriteSet'
      /\ pc'[t] = "grant_wake" /\ op' = op /\ count' = count /\ wait_lock' = wait_lock
  BY MovesStep
<1>2. h \in Own' /\ h \notin WriteSet
  BY <1>1, Sizes DEF Own
<1>3. pc[t] = "grant" /\ wait_lock = t /\ t # NULL
  BY DEF Hands, Shape, LockRight, LockPC, WakingPC
<1>4. /\ h \in FrontTasks /\ FrontTasks' = FrontTasks \ {h}
      /\ (\E u \in ToSet(wait_list') : op'[u] # "read") <=> \E u \in ToSet(wait_list) : op[u] # "read"
  BY FrontTail
<1>5. Pend = FrontTasks /\ Pend' = FrontTasks \ {h}
  BY <1>1, <1>3, <1>4 DEF Pend, PendOf
<1>6. Bias <=> Bias'
  BY <1>1, <1>3, <1>4 DEF Bias, BiasOf, IsReader
<1>7. IsFiniteSet(Pend) /\ Cardinality(Pend) \in Nat
  BY Sizes
<1>8. Cardinality(Pend') = Cardinality(Pend) - 1
  BY <1>4, <1>5, <1>7, FS_RemoveElement
<1>9. Cardinality(Pend') \in Int
  BY <1>7, <1>8
<1> HIDE DEF h
<1> QED BY <1>1, <1>2, <1>6, <1>7, <1>8, <1>9, Numbers DEF CountMoves, Ind, h

(* The count stays the sum of what everybody put in. *)
LEMMA DecodedStep ==
  ASSUME Shape, Shape', Decoded, NEW t \in Tasks, TaskStep(t)
  PROVE  Decoded'
<1>1. CASE Hands(t)
  <2> DEFINE h == Head(wait_list)
  <2>1. h \in Tasks /\ Moves(h) /\ CountMoves(h)
    BY <1>1, MovesStep, HandsCount
  <2> HIDE DEF h
  <2> QED BY <2>1, DecodedMove
<1>2. CASE ~Hands(t)
  <2>1. Moves(t)
    BY <1>2, MovesStep
  <2>2. (PlainStep(t) /\ Plain(t)) \/ (LockedStep(t) /\ Locking(t))
    BY LockStep DEF Shape
  <2>3. CASE LockedStep(t)
    BY <1>2, <2>1, <2>3, LockCountStep, DecodedMove
  <2>4. CASE PlainStep(t) /\ Plain(t)
    <3>1. PlainCount(t)
      BY <2>4, PlainCountStep
    <3>2. Pend' = Pend /\ (Bias' <=> Bias)
      BY <2>4, PlainKeeps
    <3>3. Cardinality(Pend) \in Nat
      BY Sizes
    <3>4. CountMoves(t)
      BY <3>1, <3>2, <3>3, Numbers DEF PlainCount, CountMoves, Ind
    <3> QED BY <2>1, <3>4, DecodedMove
  <2> QED BY <2>2, <2>3, <2>4
<1> QED BY <1>1, <1>2

----------------------------------------------------------------------------
(* Exclusion, and RWSem as an RWLock *)

(* Nobody is active. *)
Idle == Own = {} /\ Pend = {}

(* What a step does to who has the lock: nothing, or what RWLock allows. A *)
(* task takes it for writing only when nobody is active, and for reading   *)
(* only when no writer has it.                                             *)
TakesRead(x) ==
  /\ Writers = {} /\ x \notin Readers
  /\ Readers' = Readers \cup {x} /\ Writers' = Writers

TakesWrite(x) ==
  /\ Idle /\ Readers = {} /\ Writers = {}
  /\ Writers' = {x} /\ Readers' = Readers

HoldersKept(t) ==
  \/ Readers' = Readers /\ Writers' = Writers
  \/ t \in Readers /\ Readers' = Readers \ {t} /\ Writers' = Writers
  \/ t \in Writers /\ Writers' = {} /\ Readers' = Readers
  \/ t \in Writers /\ Writers' = {} /\ Readers = {} /\ Readers' = {t}

(* The acting task's place among the holders decides. *)
LEMMA ByPlace ==
  ASSUME Excluded, NEW t \in Tasks, Moves(t), ~(t \in Readers /\ t \in Writers),
         ~(t \in Readers' /\ t \in Writers'),
         t \in Readers => t \notin Writers',
         t \in Readers' => t \in Readers \/ t \in Writers \/ Writers = {},
         t \in Writers' => t \in Writers \/ Idle
  PROVE  HoldersKept(t) \/ TakesRead(t) \/ TakesWrite(t)
<1>1. /\ Readers \ {t} = Readers' \ {t} /\ Writers \ {t} = Writers' \ {t}
  BY MovesSets
<1>2. CASE t \in Readers
  <2>1. t \notin Writers /\ t \notin Writers'
    BY <1>2
  <2>2. Writers' = Writers
    BY <1>1, <2>1
  <2>3. Readers' = Readers \/ Readers' = Readers \ {t}
    BY <1>1, <1>2
  <2> QED BY <1>2, <2>2, <2>3 DEF HoldersKept
<1>3. CASE t \in Writers
  <2>1. Writers = {t} /\ Readers = {} /\ t \notin Readers
    BY <1>3 DEF Excluded
  <2>2. CASE t \in Writers'
    <3>1. Writers' = Writers /\ Readers' = Readers
      BY <1>1, <2>1, <2>2
    <3> QED BY <3>1 DEF HoldersKept
  <2>3. CASE t \notin Writers'
    <3>1. Writers' = {} /\ (Readers' = Readers \/ Readers' = {t})
      BY <1>1, <2>1, <2>3
    <3> QED BY <1>3, <2>1, <3>1 DEF HoldersKept
  <2> QED BY <2>2, <2>3
<1>4. CASE t \notin Readers /\ t \notin Writers
  <2>1. CASE t \in Readers'
    <3>1. Writers = {} /\ Readers' = Readers \cup {t} /\ Writers' = Writers
      BY <1>1, <1>4, <2>1
    <3> QED BY <1>4, <3>1 DEF TakesRead
  <2>2. CASE t \in Writers'
    <3>1. Idle
      BY <1>4, <2>2
    <3>2. Readers = {} /\ Writers = {}
      BY <3>1 DEF Idle, Own, WriteSet
    <3>3. Writers' = {t} /\ Readers' = Readers
      BY <1>1, <1>4, <2>2, <3>2
    <3> QED BY <3>1, <3>2, <3>3 DEF TakesWrite
  <2>3. CASE t \notin Readers' /\ t \notin Writers'
    <3>1. Readers' = Readers /\ Writers' = Writers
      BY <1>1, <1>4, <2>3
    <3> QED BY <3>1 DEF HoldersKept
  <2> QED BY <2>1, <2>2, <2>3
<1> QED BY <1>2, <1>3, <1>4

(* When the code sees nobody active, nobody is. *)
LEMMA CountIdle ==
  ASSUME Shape, Decoded
  PROVE  /\ Active(count) = 0 <=> Idle
         /\ count = 0 => Idle
         /\ count = RWSEM_WAITING_BIAS => Idle
BY Reads, Nobody DEF Idle

(* When the count is not negative, there are no writers, and no waiting    *)
(* bias.                                                                   *)
LEMMA CountNotNegative ==
  Shape /\ Decoded /\ ~(count < 0) => WriteSet = {} /\ ~Bias
<1> SUFFICES ASSUME Shape, Decoded, ~(count < 0) PROVE WriteSet = {} /\ ~Bias
  OBVIOUS
<1>1. Cardinality(WriteSet) \in Nat /\ (Bias => Ind(Bias) = 1) /\ Ind(Bias) \in {0, 1}
  BY Sizes DEF Ind
<1>2. ~(Cardinality(WriteSet) + Ind(Bias) > 0)
  BY Reads
<1> QED BY <1>1, <1>2, Nobody

(* A task that gets the lock by a step of its own *)
Takes(t) ==
  /\ t \in Readers => t \notin Writers'
  /\ t \in Readers' => \/ t \in Readers \/ t \in Writers
                       \/ Writers = {} /\ pc[t] = "idle" /\ ~(count' < 0)
  /\ t \in Writers' => t \in Writers \/ Idle

(* Such a task was let in by the count. *)
LEMMA TakesStep ==
  ASSUME Shape, Shape', Decoded, Decoded', NEW t \in Tasks, TaskStep(t), ~Hands(t)
  PROVE  Takes(t)
<1>1. CASE down_read(t)
  <2>1. OpAt(t) /\ QueuedAt(t) /\ TypeOK
    BY DEF Shape, OpsRight, ListRight
  <2>p. /\ t \in Readers <=> ReadsAt(t)
        /\ t \in Writers <=> pc[t] \in HolderPC
        /\ t \in Readers' <=> ReadsAt(t)'
        /\ t \in Writers' <=> pc'[t] \in HolderPC
    BY Members, MembersAfter DEF Shape
  <2>2. t \notin Writers'
    BY <1>1, <2>1, <2>p DEF down_read, Call, Goto, HolderPC, TypeOK
  <2>3. t \notin Readers
    BY <1>1, <2>1, <2>p DEF down_read, Call, Goto, OpAt, ReadsAt, HolderPC, SleepPC, WritePC, OsqPC, WakingPC, QueuedWriterPC, LockPC
  <2>4. t \in Readers' => Writers = {} /\ pc[t] = "idle" /\ ~(count' < 0)
    <3>1. pc'[t] \in {"reading", "read_failed"} /\ op'[t] = "read" /\ pc[t] = "idle"
      BY <1>1, <2>1 DEF down_read, Call, Goto, TypeOK
    <3>2. t \in Readers' => pc'[t] = "reading"
      BY <2>p, <3>1 DEF OpAt, ReadsAt, HolderPC, SleepPC, WritePC, OsqPC, WakingPC, QueuedWriterPC, LockPC
    <3>3. pc'[t] = "reading" => ~(count' < 0)
      BY <1>1, <2>1 DEF down_read, Call, Goto, TypeOK, RWSEM_ACTIVE_READ_BIAS
    <3>4. ~(count' < 0) => WriteSet' = {}
      <4>1. (Shape /\ Decoded /\ ~(count < 0) => WriteSet = {} /\ ~Bias)'
        BY CountNotNegative, PTL
      <4> QED BY <4>1
    <3>5. Moves(t) /\ t \notin Writers
      BY <2>p, <3>1, MovesStep DEF HolderPC
    <3>6. Writers \ {t} = Writers' \ {t}
      BY <3>5, MovesSets
    <3> QED BY <3>1, <3>2, <3>3, <3>4, <3>5, <3>6 DEF WriteSet
  <2> QED BY <2>2, <2>3, <2>4 DEF Takes
<1>2. CASE down_read_trylock(t)
  <2>1. OpAt(t) /\ QueuedAt(t) /\ TypeOK
    BY DEF Shape, OpsRight, ListRight
  <2>p. /\ t \in Readers <=> ReadsAt(t)
        /\ t \in Writers <=> pc[t] \in HolderPC
        /\ t \in Readers' <=> ReadsAt(t)'
        /\ t \in Writers' <=> pc'[t] \in HolderPC
    BY Members, MembersAfter DEF Shape
  <2>2. t \notin Writers'
    BY <1>2, <2>1, <2>p DEF down_read_trylock, Call, Goto, HolderPC, TypeOK
  <2>3. t \notin Readers
    BY <1>2, <2>1, <2>p DEF down_read_trylock, Call, Goto, OpAt, ReadsAt, HolderPC, SleepPC, WritePC, OsqPC, WakingPC, QueuedWriterPC, LockPC
  <2>4. t \in Readers' => Writers = {} /\ pc[t] = "idle" /\ ~(count' < 0)
    <3>1. pc'[t] \in {"reading", "read_failed"} /\ op'[t] = "read" /\ pc[t] = "idle"
      BY <1>2, <2>1 DEF down_read_trylock, Call, Goto, TypeOK
    <3>2. t \in Readers' => pc'[t] = "reading"
      BY <2>p, <3>1 DEF OpAt, ReadsAt, HolderPC, SleepPC, WritePC, OsqPC, WakingPC, QueuedWriterPC, LockPC
    <3>3. pc'[t] = "reading" => ~(count' < 0)
      BY <1>2, <2>1 DEF down_read_trylock, Call, Goto, TypeOK, RWSEM_ACTIVE_READ_BIAS
    <3>4. ~(count' < 0) => WriteSet' = {}
      <4>1. (Shape /\ Decoded /\ ~(count < 0) => WriteSet = {} /\ ~Bias)'
        BY CountNotNegative, PTL
      <4> QED BY <4>1
    <3>5. Moves(t) /\ t \notin Writers
      BY <2>p, <3>1, MovesStep DEF HolderPC
    <3>6. Writers \ {t} = Writers' \ {t}
      BY <3>5, MovesSets
    <3> QED BY <3>1, <3>2, <3>3, <3>4, <3>5, <3>6 DEF WriteSet
  <2> QED BY <2>2, <2>3, <2>4 DEF Takes
<1>3. CASE down_write(t)
  <2>1. OpAt(t) /\ QueuedAt(t) /\ TypeOK
    BY DEF Shape, OpsRight, ListRight
  <2>p. /\ t \in Readers <=> ReadsAt(t)
        /\ t \in Writers <=> pc[t] \in HolderPC
        /\ t \in Readers' <=> ReadsAt(t)'
        /\ t \in Writers' <=> pc'[t] \in HolderPC
    BY Members, MembersAfter DEF Shape
  <2>2. t \notin Readers'
    BY <1>3, <2>1, <2>p DEF down_write, Call, Goto, OpAt, ReadsAt, HolderPC, SleepPC, WritePC, OsqPC, WakingPC, QueuedWriterPC, LockPC, TypeOK
  <2>3. t \notin Readers
    BY <1>3, <2>1, <2>p DEF down_write, Call, Goto, OpAt, ReadsAt, HolderPC, SleepPC, WritePC, OsqPC, WakingPC, QueuedWriterPC, LockPC
  <2>4. t \in Writers' => Active(count) = 0
    BY <1>3, <2>1, <2>p DEF down_write, Call, Goto, HolderPC, TypeOK
  <2>5. Active(count) = 0 => Idle
    BY CountIdle
  <2> QED BY <2>2, <2>3, <2>4, <2>5 DEF Takes
<1>4. CASE down_write_trylock(t)
  <2>1. OpAt(t) /\ QueuedAt(t) /\ TypeOK
    BY DEF Shape, OpsRight, ListRight
  <2>p. /\ t \in Readers <=> ReadsAt(t)
        /\ t \in Writers <=> pc[t] \in HolderPC
        /\ t \in Readers' <=> ReadsAt(t)'
        /\ t \in Writers' <=> pc'[t] \in HolderPC
    BY Members, MembersAfter DEF Shape
  <2>2. t \notin Readers'
    BY <1>4, <2>1, <2>p DEF down_write_trylock, Call, Goto, OpAt, ReadsAt, HolderPC, SleepPC, WritePC, OsqPC, WakingPC, QueuedWriterPC, LockPC, TypeOK
  <2>3. t \notin Readers
    BY <1>4, <2>1, <2>p DEF down_write_trylock, Call, Goto, OpAt, ReadsAt, HolderPC, SleepPC, WritePC, OsqPC, WakingPC, QueuedWriterPC, LockPC
  <2>4. t \in Writers' => Active(count) = 0
    BY <1>4, <2>1, <2>p DEF down_write_trylock, Call, Goto, HolderPC, TypeOK
  <2>5. Active(count) = 0 => Idle
    BY CountIdle
  <2> QED BY <2>2, <2>3, <2>4, <2>5 DEF Takes
<1>5. CASE WriteSetOwner(t)
  <2>1. OpAt(t) /\ QueuedAt(t) /\ TypeOK
    BY DEF Shape, OpsRight, ListRight
  <2>p. /\ t \in Readers <=> ReadsAt(t)
        /\ t \in Writers <=> pc[t] \in HolderPC
        /\ t \in Readers' <=> ReadsAt(t)'
        /\ t \in Writers' <=> pc'[t] \in HolderPC
    BY Members, MembersAfter DEF Shape
  <2>2. t \in Readers' => t \in Readers
    BY <1>5, <2>1, <2>p DEF WriteSetOwner, Goto, OpAt, ReadsAt, HolderPC, SleepPC, WritePC, OsqPC, WakingPC, QueuedWriterPC, LockPC, TypeOK
  <2>3. t \in Writers' => t \in Writers
    BY <1>5, <2>1, <2>p DEF WriteSetOwner, Goto, OpAt, ReadsAt, HolderPC, SleepPC, WritePC, OsqPC, WakingPC, QueuedWriterPC, LockPC, TypeOK
  <2>4. ~(t \in Readers /\ t \in Writers)
    BY Disjoint
  <2> QED BY <2>2, <2>3, <2>4 DEF Takes
<1>6. CASE WakeWriter(t)
  <2>1. OpAt(t) /\ QueuedAt(t) /\ TypeOK
    BY DEF Shape, OpsRight, ListRight
  <2>p. /\ t \in Readers <=> ReadsAt(t)
        /\ t \in Writers <=> pc[t] \in HolderPC
        /\ t \in Readers' <=> ReadsAt(t)'
        /\ t \in Writers' <=> pc'[t] \in HolderPC
    BY Members, MembersAfter DEF Shape
  <2>g. pc[t] = "do_wake" /\ wait_list' = wait_list
    BY <1>6 DEF WakeWriter, WakeDone, Goto
  <2>2. \/ op[t] = "read" /\ pc'[t] = "set_state" /\ op'[t] = "read"
        \/ op[t] = "write" /\ pc'[t] = "schedule" /\ op'[t] = "write"
        \/ op[t] = "up" /\ pc'[t] = "idle" /\ op'[t] = "none"
        \/ op[t] = "downgrade" /\ pc'[t] = "reading" /\ op'[t] = "read"
    <3>1. WakeDone(t, "do_wake", IF op[t] \in {"read", "up"} THEN {Head(wait_list)} ELSE {})
      BY <1>6 DEF WakeWriter
    <3> QED BY <2>1, <3>1, WakeDoneMoves DEF WakingPC
  <2>3. t \in Readers' <=> t \in Readers
    BY <2>1, <2>g, <2>p, <2>2 DEF OpAt, ReadsAt, HolderPC, SleepPC, WritePC, OsqPC, WakingPC, QueuedWriterPC, LockPC
  <2>4. t \notin Writers'
    BY <2>p, <2>2 DEF HolderPC
  <2> QED BY <2>3, <2>4 DEF Takes
<1>7. CASE ReaderGrant(t)
  <2>1. OpAt(t) /\ QueuedAt(t) /\ TypeOK
    BY DEF Shape, OpsRight, ListRight
  <2>p. /\ t \in Readers <=> ReadsAt(t)
        /\ t \in Writers <=> pc[t] \in HolderPC
        /\ t \in Readers' <=> ReadsAt(t)'
        /\ t \in Writers' <=> pc'[t] \in HolderPC
    BY Members, MembersAfter DEF Shape
  <2>2. t \in Readers' => t \in Readers
    BY <1>7, <2>1, <2>p DEF ReaderGrant, Goto, OpAt, ReadsAt, HolderPC, SleepPC, WritePC, OsqPC, WakingPC, QueuedWriterPC, LockPC, TypeOK
  <2>3. t \in Writers' => t \in Writers
    BY <1>7, <2>1, <2>p DEF ReaderGrant, Goto, OpAt, ReadsAt, HolderPC, SleepPC, WritePC, OsqPC, WakingPC, QueuedWriterPC, LockPC, TypeOK
  <2>4. ~(t \in Readers /\ t \in Writers)
    BY Disjoint
  <2> QED BY <2>2, <2>3, <2>4 DEF Takes
<1>8. CASE UndoGrant(t)
  <2>1. OpAt(t) /\ QueuedAt(t) /\ TypeOK
    BY DEF Shape, OpsRight, ListRight
  <2>p. /\ t \in Readers <=> ReadsAt(t)
        /\ t \in Writers <=> pc[t] \in HolderPC
        /\ t \in Readers' <=> ReadsAt(t)'
        /\ t \in Writers' <=> pc'[t] \in HolderPC
    BY Members, MembersAfter DEF Shape
  <2>g. pc[t] = "undo_grant" /\ wait_list' = wait_list
    BY <1>8 DEF UndoGrant, WakeDone, Goto
  <2>2. \/ op' = op /\ pc'[t] = "do_wake"
        \/ op[t] = "read" /\ pc'[t] = "set_state" /\ op'[t] = "read"
        \/ op[t] = "write" /\ pc'[t] = "schedule" /\ op'[t] = "write"
        \/ op[t] = "up" /\ pc'[t] = "idle" /\ op'[t] = "none"
        \/ op[t] = "downgrade" /\ pc'[t] = "reading" /\ op'[t] = "read"
    <3>1. WakeDone(t, "undo_grant", {}) \/ (Goto(t, "undo_grant", "do_wake") /\ op' = op)
      BY <1>8, <2>g DEF UndoGrant
    <3>2. CASE WakeDone(t, "undo_grant", {})
      BY <2>1, <2>g, <3>2, WakeDoneMoves DEF WakingPC
    <3>3. CASE Goto(t, "undo_grant", "do_wake") /\ op' = op
      BY <2>1, <3>3 DEF Goto, TypeOK
    <3> QED BY <3>1, <3>2, <3>3
  <2>3. t \in Readers' <=> t \in Readers
    BY <2>1, <2>g, <2>p, <2>2 DEF OpAt, ReadsAt, HolderPC, SleepPC, WritePC, OsqPC, WakingPC, QueuedWriterPC, LockPC
  <2>4. t \notin Writers'
    BY <2>p, <2>2 DEF HolderPC
  <2> QED BY <2>3, <2>4 DEF Takes
<1>9. CASE CountReaders(t)
  <2>1. OpAt(t) /\ QueuedAt(t) /\ TypeOK
    BY DEF Shape, OpsRight, ListRight
  <2>p. /\ t \in Readers <=> ReadsAt(t)
        /\ t \in Writers <=> pc[t] \in HolderPC
        /\ t \in Readers' <=> ReadsAt(t)'
        /\ t \in Writers' <=> pc'[t] \in HolderPC
    BY Members, MembersAfter DEF Shape
  <2>2. t \in Readers' => t \in Readers
    BY <1>9, <2>1, <2>p DEF CountReaders, Goto, OpAt, ReadsAt, HolderPC, SleepPC, WritePC, OsqPC, WakingPC, QueuedWriterPC, LockPC, TypeOK
  <2>3. t \in Writers' => t \in Writers
    BY <1>9, <2>1, <2>p DEF CountReaders, Goto, OpAt, ReadsAt, HolderPC, SleepPC, WritePC, OsqPC, WakingPC, QueuedWriterPC, LockPC, TypeOK
  <2>4. ~(t \in Readers /\ t \in Writers)
    BY Disjoint
  <2> QED BY <2>2, <2>3, <2>4 DEF Takes
<1>10. CASE Grant(t)
  <2>1. OpAt(t) /\ QueuedAt(t) /\ TypeOK
    BY DEF Shape, OpsRight, ListRight
  <2>p. /\ t \in Readers <=> ReadsAt(t)
        /\ t \in Writers <=> pc[t] \in HolderPC
        /\ t \in Readers' <=> ReadsAt(t)'
        /\ t \in Writers' <=> pc'[t] \in HolderPC
    BY Members, MembersAfter DEF Shape
  <2>g. pc[t] = "grant_wake" /\ wait_list' = wait_list
    <3>1. pc[t] # "grant"
      <4>1. pc[t] = "grant" => wait_list # <<>>
        BY DEF Shape, FrontRight, FrontAt
      <4>2. pc[t] = "grant" => wait_list' = Tail(wait_list)
        BY <1>10 DEF Grant, WakeDone, Goto
      <4> QED BY <4>1, <4>2 DEF Hands
    <3> QED BY <1>10, <3>1 DEF Grant, WakeDone, Goto
  <2>2. \/ op' = op /\ pc'[t] = "grant"
        \/ op[t] = "read" /\ pc'[t] = "set_state" /\ op'[t] = "read"
        \/ op[t] = "write" /\ pc'[t] = "schedule" /\ op'[t] = "write"
        \/ op[t] = "up" /\ pc'[t] = "idle" /\ op'[t] = "none"
        \/ op[t] = "downgrade" /\ pc'[t] = "reading" /\ op'[t] = "read"
    <3>1. WakeDone(t, "grant_wake", {tsk[t]}) \/ (Goto(t, "grant_wake", "grant") /\ op' = op)
      BY <1>10, <2>g DEF Grant, Goto
    <3>2. CASE WakeDone(t, "grant_wake", {tsk[t]})
      BY <2>1, <2>g, <3>2, WakeDoneMoves DEF WakingPC
    <3>3. CASE Goto(t, "grant_wake", "grant") /\ op' = op
      BY <2>1, <3>3 DEF Goto, TypeOK
    <3> QED BY <3>1, <3>2, <3>3
  <2>3. t \in Readers' <=> t \in Readers
    BY <2>1, <2>g, <2>p, <2>2 DEF OpAt, ReadsAt, HolderPC, SleepPC, WritePC, OsqPC, WakingPC, QueuedWriterPC, LockPC
  <2>4. t \notin Writers'
    BY <2>p, <2>2 DEF HolderPC
  <2> QED BY <2>3, <2>4 DEF Takes
<1>11. CASE ReadFailed(t)
  <2>1. OpAt(t) /\ QueuedAt(t) /\ TypeOK
    BY DEF Shape, OpsRight, ListRight
  <2>p. /\ t \in Readers <=> ReadsAt(t)
        /\ t \in Writers <=> pc[t] \in HolderPC
        /\ t \in Readers' <=> ReadsAt(t)'
        /\ t \in Writers' <=> pc'[t] \in HolderPC
    BY Members, MembersAfter DEF Shape
  <2>2. t \in ToSet(wait_list') /\ op' = op /\ pc'[t] \in {"do_wake", "set_state", "try_write", "schedule"}
    <3>1. QueuedAt(t)'
      BY QueuedStep, ListStep
    <3>2. op' = op /\ pc'[t] \in {"do_wake", "set_state", "try_write", "schedule"}
      BY <1>11, <2>1 DEF ReadFailed, Goto, TypeOK
    <3>3. t \in ToSet(wait_list')
      <4>1. wait_list' = Append(wait_list, t) /\ wait_list \in Seq(Tasks)
        BY <1>11, <2>1 DEF ReadFailed, list_add_tail, TypeOK
      <4>2. /\ DOMAIN wait_list' = 1..(Len(wait_list) + 1) /\ Len(wait_list) \in Nat
            /\ wait_list'[Len(wait_list) + 1] = t
        BY <4>1
      <4> QED BY <4>2 DEF ToSet
    <3> QED BY <3>2, <3>3
  <2>3. t \notin Readers' /\ t \notin Writers'
    BY <1>11, <2>1, <2>p, <2>2 DEF ReadFailed, Goto, OpAt, ReadsAt, HolderPC, SleepPC, WritePC, OsqPC, WakingPC, QueuedWriterPC, LockPC
  <2> QED BY <2>3 DEF Takes
<1>12. CASE SetState(t)
  <2>1. OpAt(t) /\ QueuedAt(t) /\ TypeOK
    BY DEF Shape, OpsRight, ListRight
  <2>p. /\ t \in Readers <=> ReadsAt(t)
        /\ t \in Writers <=> pc[t] \in HolderPC
        /\ t \in Readers' <=> ReadsAt(t)'
        /\ t \in Writers' <=> pc'[t] \in HolderPC
    BY Members, MembersAfter DEF Shape
  <2>2. t \in Readers' => t \in Readers
    BY <1>12, <2>1, <2>p DEF SetState, Goto, OpAt, ReadsAt, HolderPC, SleepPC, WritePC, OsqPC, WakingPC, QueuedWriterPC, LockPC, TypeOK
  <2>3. t \in Writers' => t \in Writers
    BY <1>12, <2>1, <2>p DEF SetState, Goto, OpAt, ReadsAt, HolderPC, SleepPC, WritePC, OsqPC, WakingPC, QueuedWriterPC, LockPC, TypeOK
  <2>4. ~(t \in Readers /\ t \in Writers)
    BY Disjoint
  <2> QED BY <2>2, <2>3, <2>4 DEF Takes
<1>13. CASE CheckWait(t)
  <2>1. OpAt(t) /\ QueuedAt(t) /\ TypeOK
    BY DEF Shape, OpsRight, ListRight
  <2>p. /\ t \in Readers <=> ReadsAt(t)
        /\ t \in Writers <=> pc[t] \in HolderPC
        /\ t \in Readers' <=> ReadsAt(t)'
        /\ t \in Writers' <=> pc'[t] \in HolderPC
    BY Members, MembersAfter DEF Shape
  <2>2. t \in Readers' <=> t \in Readers
    BY <1>13, <2>1, <2>p, CheckMoves DEF OpAt, ReadsAt, HolderPC, SleepPC, WritePC, OsqPC, WakingPC, QueuedWriterPC, LockPC
  <2>3. t \notin Writers'
    BY <1>13, <2>1, <2>p, CheckMoves DEF HolderPC
  <2> QED BY <2>2, <2>3 DEF Takes
<1>14. CASE Schedule(t)
  <2>1. OpAt(t) /\ QueuedAt(t) /\ TypeOK
    BY DEF Shape, OpsRight, ListRight
  <2>p. /\ t \in Readers <=> ReadsAt(t)
        /\ t \in Writers <=> pc[t] \in HolderPC
        /\ t \in Readers' <=> ReadsAt(t)'
        /\ t \in Writers' <=> pc'[t] \in HolderPC
    BY Members, MembersAfter DEF Shape
  <2>2. t \in Readers' => t \in Readers
    BY <1>14, <2>1, <2>p DEF Schedule, Goto, OpAt, ReadsAt, HolderPC, SleepPC, WritePC, OsqPC, WakingPC, QueuedWriterPC, LockPC, TypeOK
  <2>3. t \in Writers' => t \in Writers
    BY <1>14, <2>1, <2>p DEF Schedule, Goto, OpAt, ReadsAt, HolderPC, SleepPC, WritePC, OsqPC, WakingPC, QueuedWriterPC, LockPC, TypeOK
  <2>4. ~(t \in Readers /\ t \in Writers)
    BY Disjoint
  <2> QED BY <2>2, <2>3, <2>4 DEF Takes
<1>15. CASE WriteFailed(t)
  <2>1. OpAt(t) /\ QueuedAt(t) /\ TypeOK
    BY DEF Shape, OpsRight, ListRight
  <2>p. /\ t \in Readers <=> ReadsAt(t)
        /\ t \in Writers <=> pc[t] \in HolderPC
        /\ t \in Readers' <=> ReadsAt(t)'
        /\ t \in Writers' <=> pc'[t] \in HolderPC
    BY Members, MembersAfter DEF Shape
  <2>2. t \in Readers' => t \in Readers
    BY <1>15, <2>1, <2>p DEF WriteFailed, Goto, OpAt, ReadsAt, HolderPC, SleepPC, WritePC, OsqPC, WakingPC, QueuedWriterPC, LockPC, TypeOK
  <2>3. t \in Writers' => t \in Writers
    BY <1>15, <2>1, <2>p DEF WriteFailed, Goto, OpAt, ReadsAt, HolderPC, SleepPC, WritePC, OsqPC, WakingPC, QueuedWriterPC, LockPC, TypeOK
  <2>4. ~(t \in Readers /\ t \in Writers)
    BY Disjoint
  <2> QED BY <2>2, <2>3, <2>4 DEF Takes
<1>16. CASE CanSpin(t)
  <2>1. OpAt(t) /\ QueuedAt(t) /\ TypeOK
    BY DEF Shape, OpsRight, ListRight
  <2>p. /\ t \in Readers <=> ReadsAt(t)
        /\ t \in Writers <=> pc[t] \in HolderPC
        /\ t \in Readers' <=> ReadsAt(t)'
        /\ t \in Writers' <=> pc'[t] \in HolderPC
    BY Members, MembersAfter DEF Shape
  <2>2. t \in Readers' => t \in Readers
    BY <1>16, <2>1, <2>p DEF CanSpin, Goto, OpAt, ReadsAt, HolderPC, SleepPC, WritePC, OsqPC, WakingPC, QueuedWriterPC, LockPC, TypeOK
  <2>3. t \in Writers' => t \in Writers
    BY <1>16, <2>1, <2>p DEF CanSpin, Goto, OpAt, ReadsAt, HolderPC, SleepPC, WritePC, OsqPC, WakingPC, QueuedWriterPC, LockPC, TypeOK
  <2>4. ~(t \in Readers /\ t \in Writers)
    BY Disjoint
  <2> QED BY <2>2, <2>3, <2>4 DEF Takes
<1>17. CASE OsqLock(t)
  <2>1. OpAt(t) /\ QueuedAt(t) /\ TypeOK
    BY DEF Shape, OpsRight, ListRight
  <2>p. /\ t \in Readers <=> ReadsAt(t)
        /\ t \in Writers <=> pc[t] \in HolderPC
        /\ t \in Readers' <=> ReadsAt(t)'
        /\ t \in Writers' <=> pc'[t] \in HolderPC
    BY Members, MembersAfter DEF Shape
  <2>2. t \in Readers' => t \in Readers
    BY <1>17, <2>1, <2>p DEF OsqLock, Goto, OpAt, ReadsAt, HolderPC, SleepPC, WritePC, OsqPC, WakingPC, QueuedWriterPC, LockPC, TypeOK
  <2>3. t \in Writers' => t \in Writers
    BY <1>17, <2>1, <2>p DEF OsqLock, Goto, OpAt, ReadsAt, HolderPC, SleepPC, WritePC, OsqPC, WakingPC, QueuedWriterPC, LockPC, TypeOK
  <2>4. ~(t \in Readers /\ t \in Writers)
    BY Disjoint
  <2> QED BY <2>2, <2>3, <2>4 DEF Takes
<1>18. CASE Spin(t)
  <2>1. OpAt(t) /\ QueuedAt(t) /\ TypeOK
    BY DEF Shape, OpsRight, ListRight
  <2>p. /\ t \in Readers <=> ReadsAt(t)
        /\ t \in Writers <=> pc[t] \in HolderPC
        /\ t \in Readers' <=> ReadsAt(t)'
        /\ t \in Writers' <=> pc'[t] \in HolderPC
    BY Members, MembersAfter DEF Shape
  <2>2. t \in Readers' => t \in Readers
    BY <1>18, <2>1, <2>p DEF Spin, Goto, OpAt, ReadsAt, HolderPC, SleepPC, WritePC, OsqPC, WakingPC, QueuedWriterPC, LockPC, TypeOK
  <2>3. t \in Writers' => t \in Writers
    BY <1>18, <2>1, <2>p DEF Spin, Goto, OpAt, ReadsAt, HolderPC, SleepPC, WritePC, OsqPC, WakingPC, QueuedWriterPC, LockPC, TypeOK
  <2>4. ~(t \in Readers /\ t \in Writers)
    BY Disjoint
  <2> QED BY <2>2, <2>3, <2>4 DEF Takes
<1>19. CASE SpinOnOwner(t)
  <2>1. OpAt(t) /\ QueuedAt(t) /\ TypeOK
    BY DEF Shape, OpsRight, ListRight
  <2>p. /\ t \in Readers <=> ReadsAt(t)
        /\ t \in Writers <=> pc[t] \in HolderPC
        /\ t \in Readers' <=> ReadsAt(t)'
        /\ t \in Writers' <=> pc'[t] \in HolderPC
    BY Members, MembersAfter DEF Shape
  <2>2. t \in Readers' => t \in Readers
    BY <1>19, <2>1, <2>p DEF SpinOnOwner, Goto, OpAt, ReadsAt, HolderPC, SleepPC, WritePC, OsqPC, WakingPC, QueuedWriterPC, LockPC, TypeOK
  <2>3. t \in Writers' => t \in Writers
    BY <1>19, <2>1, <2>p DEF SpinOnOwner, Goto, OpAt, ReadsAt, HolderPC, SleepPC, WritePC, OsqPC, WakingPC, QueuedWriterPC, LockPC, TypeOK
  <2>4. ~(t \in Readers /\ t \in Writers)
    BY Disjoint
  <2> QED BY <2>2, <2>3, <2>4 DEF Takes
<1>20. CASE TryUnqueued(t)
  <2>1. OpAt(t) /\ QueuedAt(t) /\ TypeOK
    BY DEF Shape, OpsRight, ListRight
  <2>p. /\ t \in Readers <=> ReadsAt(t)
        /\ t \in Writers <=> pc[t] \in HolderPC
        /\ t \in Readers' <=> ReadsAt(t)'
        /\ t \in Writers' <=> pc'[t] \in HolderPC
    BY Members, MembersAfter DEF Shape
  <2>2. t \notin Readers'
    BY <1>20, <2>1, <2>p DEF TryUnqueued, Goto, OpAt, ReadsAt, HolderPC, SleepPC, WritePC, OsqPC, WakingPC, QueuedWriterPC, LockPC, TypeOK
  <2>3. t \notin Readers
    BY <1>20, <2>1, <2>p DEF TryUnqueued, Goto, OpAt, ReadsAt, HolderPC, SleepPC, WritePC, OsqPC, WakingPC, QueuedWriterPC, LockPC
  <2>4. t \in Writers' => Free
    BY <1>20, <2>1, <2>p DEF TryUnqueued, Goto, HolderPC, TypeOK
  <2>5. Free => Idle
    BY CountIdle DEF Free
  <2> QED BY <2>2, <2>3, <2>4, <2>5 DEF Takes
<1>21. CASE SpinSetOwner(t)
  <2>1. OpAt(t) /\ QueuedAt(t) /\ TypeOK
    BY DEF Shape, OpsRight, ListRight
  <2>p. /\ t \in Readers <=> ReadsAt(t)
        /\ t \in Writers <=> pc[t] \in HolderPC
        /\ t \in Readers' <=> ReadsAt(t)'
        /\ t \in Writers' <=> pc'[t] \in HolderPC
    BY Members, MembersAfter DEF Shape
  <2>2. t \in Readers' => t \in Readers
    BY <1>21, <2>1, <2>p DEF SpinSetOwner, Goto, OpAt, ReadsAt, HolderPC, SleepPC, WritePC, OsqPC, WakingPC, QueuedWriterPC, LockPC, TypeOK
  <2>3. t \in Writers' => t \in Writers
    BY <1>21, <2>1, <2>p DEF SpinSetOwner, Goto, OpAt, ReadsAt, HolderPC, SleepPC, WritePC, OsqPC, WakingPC, QueuedWriterPC, LockPC, TypeOK
  <2>4. ~(t \in Readers /\ t \in Writers)
    BY Disjoint
  <2> QED BY <2>2, <2>3, <2>4 DEF Takes
<1>22. CASE OsqUnlock(t)
  <2>1. OpAt(t) /\ QueuedAt(t) /\ TypeOK
    BY DEF Shape, OpsRight, ListRight
  <2>p. /\ t \in Readers <=> ReadsAt(t)
        /\ t \in Writers <=> pc[t] \in HolderPC
        /\ t \in Readers' <=> ReadsAt(t)'
        /\ t \in Writers' <=> pc'[t] \in HolderPC
    BY Members, MembersAfter DEF Shape
  <2>2. t \in Readers' => t \in Readers
    BY <1>22, <2>1, <2>p DEF OsqUnlock, Goto, OpAt, ReadsAt, HolderPC, SleepPC, WritePC, OsqPC, WakingPC, QueuedWriterPC, LockPC, TypeOK
  <2>3. t \in Writers' => t \in Writers
    BY <1>22, <2>1, <2>p DEF OsqUnlock, Goto, OpAt, ReadsAt, HolderPC, SleepPC, WritePC, OsqPC, WakingPC, QueuedWriterPC, LockPC, TypeOK
  <2>4. ~(t \in Readers /\ t \in Writers)
    BY Disjoint
  <2> QED BY <2>2, <2>3, <2>4 DEF Takes
<1>23. CASE SlowLock(t)
  <2>1. OpAt(t) /\ QueuedAt(t) /\ TypeOK
    BY DEF Shape, OpsRight, ListRight
  <2>p. /\ t \in Readers <=> ReadsAt(t)
        /\ t \in Writers <=> pc[t] \in HolderPC
        /\ t \in Readers' <=> ReadsAt(t)'
        /\ t \in Writers' <=> pc'[t] \in HolderPC
    BY Members, MembersAfter DEF Shape
  <2>2. t \in ToSet(wait_list') /\ op' = op /\ pc'[t] \in {"do_wake", "set_state", "try_write", "schedule"}
    <3>1. QueuedAt(t)'
      BY QueuedStep, ListStep
    <3>2. op' = op /\ pc'[t] \in {"do_wake", "set_state", "try_write", "schedule"}
      BY <1>23, <2>1 DEF SlowLock, Goto, TypeOK
    <3>3. t \in ToSet(wait_list')
      <4>1. wait_list' = Append(wait_list, t) /\ wait_list \in Seq(Tasks)
        BY <1>23, <2>1 DEF SlowLock, list_add_tail, TypeOK
      <4>2. /\ DOMAIN wait_list' = 1..(Len(wait_list) + 1) /\ Len(wait_list) \in Nat
            /\ wait_list'[Len(wait_list) + 1] = t
        BY <4>1
      <4> QED BY <4>2 DEF ToSet
    <3> QED BY <3>2, <3>3
  <2>3. t \notin Readers' /\ t \notin Writers'
    BY <1>23, <2>1, <2>p, <2>2 DEF SlowLock, Goto, OpAt, ReadsAt, HolderPC, SleepPC, WritePC, OsqPC, WakingPC, QueuedWriterPC, LockPC
  <2> QED BY <2>3 DEF Takes
<1>24. CASE TryWriteLock(t)
  <2>1. OpAt(t) /\ QueuedAt(t) /\ TypeOK
    BY DEF Shape, OpsRight, ListRight
  <2>p. /\ t \in Readers <=> ReadsAt(t)
        /\ t \in Writers <=> pc[t] \in HolderPC
        /\ t \in Readers' <=> ReadsAt(t)'
        /\ t \in Writers' <=> pc'[t] \in HolderPC
    BY Members, MembersAfter DEF Shape
  <2>2. t \notin Readers'
    BY <1>24, <2>1, <2>p DEF TryWriteLock, Goto, OpAt, ReadsAt, HolderPC, SleepPC, WritePC, OsqPC, WakingPC, QueuedWriterPC, LockPC, TypeOK
  <2>3. t \notin Readers
    BY <1>24, <2>1, <2>p DEF TryWriteLock, Goto, OpAt, ReadsAt, HolderPC, SleepPC, WritePC, OsqPC, WakingPC, QueuedWriterPC, LockPC
  <2>4. t \in Writers' => count = RWSEM_WAITING_BIAS
    BY <1>24, <2>1, <2>p DEF TryWriteLock, Goto, HolderPC, TypeOK
  <2>5. count = RWSEM_WAITING_BIAS => Idle
    BY CountIdle
  <2> QED BY <2>2, <2>3, <2>4, <2>5 DEF Takes
<1>25. CASE AddWaiting(t)
  <2>1. OpAt(t) /\ QueuedAt(t) /\ TypeOK
    BY DEF Shape, OpsRight, ListRight
  <2>p. /\ t \in Readers <=> ReadsAt(t)
        /\ t \in Writers <=> pc[t] \in HolderPC
        /\ t \in Readers' <=> ReadsAt(t)'
        /\ t \in Writers' <=> pc'[t] \in HolderPC
    BY Members, MembersAfter DEF Shape
  <2>2. t \in Readers' => t \in Readers
    BY <1>25, <2>1, <2>p DEF AddWaiting, Goto, OpAt, ReadsAt, HolderPC, SleepPC, WritePC, OsqPC, WakingPC, QueuedWriterPC, LockPC, TypeOK
  <2>3. t \in Writers' => t \in Writers
    BY <1>25, <2>1, <2>p DEF AddWaiting, Goto, OpAt, ReadsAt, HolderPC, SleepPC, WritePC, OsqPC, WakingPC, QueuedWriterPC, LockPC, TypeOK
  <2>4. ~(t \in Readers /\ t \in Writers)
    BY Disjoint
  <2> QED BY <2>2, <2>3, <2>4 DEF Takes
<1>26. CASE SlowSetOwner(t)
  <2>1. OpAt(t) /\ QueuedAt(t) /\ TypeOK
    BY DEF Shape, OpsRight, ListRight
  <2>p. /\ t \in Readers <=> ReadsAt(t)
        /\ t \in Writers <=> pc[t] \in HolderPC
        /\ t \in Readers' <=> ReadsAt(t)'
        /\ t \in Writers' <=> pc'[t] \in HolderPC
    BY Members, MembersAfter DEF Shape
  <2>2. t \in Readers' => t \in Readers
    BY <1>26, <2>1, <2>p DEF SlowSetOwner, Goto, OpAt, ReadsAt, HolderPC, SleepPC, WritePC, OsqPC, WakingPC, QueuedWriterPC, LockPC, TypeOK
  <2>3. t \in Writers' => t \in Writers
    BY <1>26, <2>1, <2>p DEF SlowSetOwner, Goto, OpAt, ReadsAt, HolderPC, SleepPC, WritePC, OsqPC, WakingPC, QueuedWriterPC, LockPC, TypeOK
  <2>4. ~(t \in Readers /\ t \in Writers)
    BY Disjoint
  <2> QED BY <2>2, <2>3, <2>4 DEF Takes
<1>27. CASE up_read(t)
  <2>1. OpAt(t) /\ QueuedAt(t) /\ TypeOK
    BY DEF Shape, OpsRight, ListRight
  <2>p. /\ t \in Readers <=> ReadsAt(t)
        /\ t \in Writers <=> pc[t] \in HolderPC
        /\ t \in Readers' <=> ReadsAt(t)'
        /\ t \in Writers' <=> pc'[t] \in HolderPC
    BY Members, MembersAfter DEF Shape
  <2>2. t \in Readers' => t \in Readers
    BY <1>27, <2>1, <2>p DEF up_read, Up, Goto, OpAt, ReadsAt, HolderPC, SleepPC, WritePC, OsqPC, WakingPC, QueuedWriterPC, LockPC, TypeOK
  <2>3. t \in Writers' => t \in Writers
    BY <1>27, <2>1, <2>p DEF up_read, Up, Goto, OpAt, ReadsAt, HolderPC, SleepPC, WritePC, OsqPC, WakingPC, QueuedWriterPC, LockPC, TypeOK
  <2>4. ~(t \in Readers /\ t \in Writers)
    BY Disjoint
  <2> QED BY <2>2, <2>3, <2>4 DEF Takes
<1>28. CASE ClearOwner(t)
  <2>1. OpAt(t) /\ QueuedAt(t) /\ TypeOK
    BY DEF Shape, OpsRight, ListRight
  <2>p. /\ t \in Readers <=> ReadsAt(t)
        /\ t \in Writers <=> pc[t] \in HolderPC
        /\ t \in Readers' <=> ReadsAt(t)'
        /\ t \in Writers' <=> pc'[t] \in HolderPC
    BY Members, MembersAfter DEF Shape
  <2>2. t \in Readers' => t \in Readers
    BY <1>28, <2>1, <2>p DEF ClearOwner, Goto, OpAt, ReadsAt, HolderPC, SleepPC, WritePC, OsqPC, WakingPC, QueuedWriterPC, LockPC, TypeOK
  <2>3. t \in Writers' => t \in Writers
    BY <1>28, <2>1, <2>p DEF ClearOwner, Goto, OpAt, ReadsAt, HolderPC, SleepPC, WritePC, OsqPC, WakingPC, QueuedWriterPC, LockPC, TypeOK
  <2>4. ~(t \in Readers /\ t \in Writers)
    BY Disjoint
  <2> QED BY <2>2, <2>3, <2>4 DEF Takes
<1>29. CASE up_write(t)
  <2>1. OpAt(t) /\ QueuedAt(t) /\ TypeOK
    BY DEF Shape, OpsRight, ListRight
  <2>p. /\ t \in Readers <=> ReadsAt(t)
        /\ t \in Writers <=> pc[t] \in HolderPC
        /\ t \in Readers' <=> ReadsAt(t)'
        /\ t \in Writers' <=> pc'[t] \in HolderPC
    BY Members, MembersAfter DEF Shape
  <2>2. t \in Readers' => t \in Readers
    BY <1>29, <2>1, <2>p DEF up_write, Up, Goto, OpAt, ReadsAt, HolderPC, SleepPC, WritePC, OsqPC, WakingPC, QueuedWriterPC, LockPC, TypeOK
  <2>3. t \in Writers' => t \in Writers
    BY <1>29, <2>1, <2>p DEF up_write, Up, Goto, OpAt, ReadsAt, HolderPC, SleepPC, WritePC, OsqPC, WakingPC, QueuedWriterPC, LockPC, TypeOK
  <2>4. ~(t \in Readers /\ t \in Writers)
    BY Disjoint
  <2> QED BY <2>2, <2>3, <2>4 DEF Takes
<1>30. CASE HasSpinner(t)
  <2>1. OpAt(t) /\ QueuedAt(t) /\ TypeOK
    BY DEF Shape, OpsRight, ListRight
  <2>p. /\ t \in Readers <=> ReadsAt(t)
        /\ t \in Writers <=> pc[t] \in HolderPC
        /\ t \in Readers' <=> ReadsAt(t)'
        /\ t \in Writers' <=> pc'[t] \in HolderPC
    BY Members, MembersAfter DEF Shape
  <2>2. t \in Readers' => t \in Readers
    BY <1>30, <2>1, <2>p DEF HasSpinner, Goto, OpAt, ReadsAt, HolderPC, SleepPC, WritePC, OsqPC, WakingPC, QueuedWriterPC, LockPC, TypeOK
  <2>3. t \in Writers' => t \in Writers
    BY <1>30, <2>1, <2>p DEF HasSpinner, Goto, OpAt, ReadsAt, HolderPC, SleepPC, WritePC, OsqPC, WakingPC, QueuedWriterPC, LockPC, TypeOK
  <2>4. ~(t \in Readers /\ t \in Writers)
    BY Disjoint
  <2> QED BY <2>2, <2>3, <2>4 DEF Takes
<1>31. CASE WakeTrylock(t)
  <2>1. OpAt(t) /\ QueuedAt(t) /\ TypeOK
    BY DEF Shape, OpsRight, ListRight
  <2>p. /\ t \in Readers <=> ReadsAt(t)
        /\ t \in Writers <=> pc[t] \in HolderPC
        /\ t \in Readers' <=> ReadsAt(t)'
        /\ t \in Writers' <=> pc'[t] \in HolderPC
    BY Members, MembersAfter DEF Shape
  <2>2. t \in Readers' => t \in Readers
    BY <1>31, <2>1, <2>p DEF WakeTrylock, Goto, OpAt, ReadsAt, HolderPC, SleepPC, WritePC, OsqPC, WakingPC, QueuedWriterPC, LockPC, TypeOK
  <2>3. t \in Writers' => t \in Writers
    BY <1>31, <2>1, <2>p DEF WakeTrylock, Goto, OpAt, ReadsAt, HolderPC, SleepPC, WritePC, OsqPC, WakingPC, QueuedWriterPC, LockPC, TypeOK
  <2>4. ~(t \in Readers /\ t \in Writers)
    BY Disjoint
  <2> QED BY <2>2, <2>3, <2>4 DEF Takes
<1>32. CASE WakeLocked(t)
  <2>1. OpAt(t) /\ QueuedAt(t) /\ TypeOK
    BY DEF Shape, OpsRight, ListRight
  <2>p. /\ t \in Readers <=> ReadsAt(t)
        /\ t \in Writers <=> pc[t] \in HolderPC
        /\ t \in Readers' <=> ReadsAt(t)'
        /\ t \in Writers' <=> pc'[t] \in HolderPC
    BY Members, MembersAfter DEF Shape
  <2>g. pc[t] \in {"wake_trylock", "wake_lock", "downgrade_wake"} /\ wait_list' = wait_list
    BY <1>32 DEF WakeLocked, WakeDone, Goto
  <2>2. \/ op' = op /\ pc'[t] = "do_wake"
        \/ op[t] = "read" /\ pc'[t] = "set_state" /\ op'[t] = "read"
        \/ op[t] = "write" /\ pc'[t] = "schedule" /\ op'[t] = "write"
        \/ op[t] = "up" /\ pc'[t] = "idle" /\ op'[t] = "none"
        \/ op[t] = "downgrade" /\ pc'[t] = "reading" /\ op'[t] = "read"
    <3>1. WakeDone(t, pc[t], {}) \/ (Goto(t, pc[t], "do_wake") /\ op' = op)
      BY <1>32, <2>g DEF WakeLocked
    <3>2. CASE WakeDone(t, pc[t], {})
      BY <2>1, <2>g, <3>2, WakeDoneMoves DEF WakingPC
    <3>3. CASE Goto(t, pc[t], "do_wake") /\ op' = op
      BY <2>1, <3>3 DEF Goto, TypeOK
    <3> QED BY <3>1, <3>2, <3>3
  <2>3. t \in Readers' <=> t \in Readers
    BY <2>1, <2>g, <2>p, <2>2 DEF OpAt, ReadsAt, HolderPC, SleepPC, WritePC, OsqPC, WakingPC, QueuedWriterPC, LockPC
  <2>4. t \notin Writers'
    BY <2>p, <2>2 DEF HolderPC
  <2> QED BY <2>3, <2>4 DEF Takes
<1>33. CASE downgrade_write(t)
  <2>1. OpAt(t) /\ QueuedAt(t) /\ TypeOK
    BY DEF Shape, OpsRight, ListRight
  <2>p. /\ t \in Readers <=> ReadsAt(t)
        /\ t \in Writers <=> pc[t] \in HolderPC
        /\ t \in Readers' <=> ReadsAt(t)'
        /\ t \in Writers' <=> pc'[t] \in HolderPC
    BY Members, MembersAfter DEF Shape
  <2>2. t \in Writers /\ t \notin Writers'
    BY <1>33, <2>1, <2>p DEF downgrade_write, Goto, HolderPC, TypeOK
  <2>3. t \notin Readers
    BY <2>2, Disjoint
  <2> QED BY <2>2, <2>3 DEF Takes
<1> QED
  BY <1>1, <1>2, <1>3, <1>4, <1>5, <1>6, <1>7, <1>8, <1>9, <1>10, <1>11,
     <1>12, <1>13, <1>14, <1>15, <1>16, <1>17, <1>18, <1>19, <1>20, <1>21,
     <1>22, <1>23, <1>24, <1>25, <1>26, <1>27, <1>28, <1>29, <1>30, <1>31,
     <1>32, <1>33 DEF TaskStep, Step

(* A waker that lets readers in keeps writers out by being active. *)
LEMMA GrantingActive ==
  ASSUME Shape, NEW u \in Tasks, Granting(u)
  PROVE  ~Idle
<1>1. wait_lock = u /\ u # NULL
  BY DEF Granting, Shape, LockRight, LockPC, WakingPC
<1>2. CASE pc[u] = "count_readers" /\ op[u] = "downgrade"
  <2>1. u \in Readers
    BY <1>2, Members DEF Shape, ReadsAt
  <2> QED BY <2>1 DEF Idle, Own
<1>3. CASE pc[u] = "count_readers" /\ op[u] # "downgrade"
  BY <1>1, <1>3 DEF Idle, Pend, PendOf
<1>4. CASE pc[u] \in {"grant", "grant_wake"} /\ FrontTasks # {}
  BY <1>1, <1>4 DEF Idle, Pend, PendOf
<1> QED BY <1>2, <1>3, <1>4 DEF Granting

(* Nobody both reads and writes, in a form that also holds after a step. *)
LEMMA DisjointAlways == Shape => Readers \cap Writers = {}
BY Disjoint

(* Every step changes the holders as RWLock allows. *)
LEMMA HoldersStep ==
  ASSUME Shape, Shape', Decoded, Decoded', Excluded, NEW t \in Tasks, TaskStep(t)
  PROVE  HoldersKept(t) \/ TakesWrite(t) \/ \E x \in Tasks : TakesRead(x)
<1>1. CASE Hands(t)
  <2> DEFINE h == Head(wait_list)
  <2>1. /\ Moves(h) /\ h \in Tasks /\ h \notin Readers /\ h \notin Writers
        /\ h \in Readers' /\ h \notin WriteSet'
    BY <1>1, MovesStep
  <2>2. Granting(t)
    BY <1>1, FrontTail DEF Granting, Hands
  <2>3. Writers = {}
    BY <2>2 DEF Excluded
  <2> HIDE DEF h
  <2>4. Readers \ {h} = Readers' \ {h} /\ Writers \ {h} = Writers' \ {h}
    BY <2>1, MovesSets
  <2>5. h \notin Writers'
    BY <2>1 DEF WriteSet
  <2>6. Readers' = Readers \cup {h}
    BY <2>1, <2>4
  <2>7. Writers' = Writers
    BY <2>1, <2>4, <2>5
  <2> QED BY <2>1, <2>3, <2>6, <2>7 DEF TakesRead
<1>2. CASE ~Hands(t)
  <2>1. Moves(t)
    BY <1>2, MovesStep
  <2>2. Takes(t)
    BY <1>2, TakesStep
  <2>3. ~(t \in Readers /\ t \in Writers)
    BY Disjoint
  <2>4. ~(t \in Readers' /\ t \in Writers')
    <3>1. (Shape => Readers \cap Writers = {})'
      BY DisjointAlways, PTL
    <3> QED BY <3>1
  <2> QED BY <2>1, <2>2, <2>3, <2>4, ByPlace DEF Takes
<1> QED BY <1>1, <1>2

(* A task starts to let readers in only if no writer has the lock. *)
LEMMA GrantsStep ==
  ASSUME Shape, Shape', Decoded, Excluded, NEW t \in Tasks, TaskStep(t),
         pc'[t] \in {"count_readers", "grant", "grant_wake"}
  PROVE  Writers = {}
<1>1. TypeOK /\ OpAt(t) /\ FrontAt(t)
  BY DEF Shape, OpsRight, FrontRight
<1>2. LockedStep(t)
  BY LockStep DEF Shape, Plain, LockPC, WakingPC
<1>3. CASE ReaderGrant(t)
  <2>1. pc[t] = "do_wake" /\ wait_list # <<>> /\ wait_lock = t /\ t # NULL
    BY <1>1, <1>3 DEF ReaderGrant, FrontAt, Shape, LockRight, LockPC, WakingPC
  <2>2. CASE op[t] = "downgrade"
    <3>1. t \in Readers
      BY <1>1, <2>2, Members DEF ReadsAt
    <3> QED BY <3>1 DEF Excluded
  <2>3. CASE op[t] # "downgrade"
    <3>1. ~(count < RWSEM_WAITING_BIAS)
      BY <1>1, <1>3, <2>3 DEF ReaderGrant, Goto, TypeOK
    <3>2. Bias
      BY <2>1 DEF Bias, BiasOf
    <3>3. ~(Cardinality(WriteSet) + Ind(Bias) > 1)
      BY <3>1, Reads
    <3>4. Cardinality(WriteSet) \in Nat /\ Ind(Bias) = 1
      BY <3>2, Sizes DEF Ind
    <3>5. Cardinality(WriteSet) = 0
      BY <3>3, <3>4
    <3> QED BY <3>5, Nobody DEF WriteSet
  <2> QED BY <2>2, <2>3
<1>4. CASE CountReaders(t)
  BY <1>4 DEF CountReaders, Goto, Granting, Excluded
<1>5. CASE Grant(t)
  <2>1. CASE pc[t] = "grant"
    <3>1. FrontTasks # {}
      BY <1>1, <2>1, FrontHead DEF FrontAt
    <3> QED BY <2>1, <3>1 DEF Granting, Excluded
  <2>2. CASE pc[t] # "grant"
    <3>1. pc[t] = "grant_wake" /\ ((wait_list # <<>> /\ IsReader(Head(wait_list))) \/ WakeDone(t, "grant_wake", {tsk[t]}))
      BY <1>5, <2>2 DEF Grant, Goto, WakeDone
    <3>2. ~WakeDone(t, "grant_wake", {tsk[t]})
      BY <1>1, WakeDoneMoves DEF WakingPC
    <3>3. FrontTasks # {}
      BY <1>1, <3>1, <3>2, FrontHead
    <3> QED BY <3>1, <3>3 DEF Granting, Excluded
  <2> QED BY <2>1, <2>2
<1>6. CASE WakeWriter(t)
  BY <1>1, <1>6, WakeDoneMoves DEF WakeWriter, WakingPC
<1>7. CASE UndoGrant(t)
  <2>1. WakeDone(t, "undo_grant", {}) \/ Goto(t, "undo_grant", "do_wake")
    BY <1>7 DEF UndoGrant
  <2> QED BY <1>1, <2>1, WakeDoneMoves DEF Goto, TypeOK, WakingPC
<1>8. CASE WakeLocked(t)
  <2>1. /\ pc[t] \in {"wake_trylock", "wake_lock", "downgrade_wake"}
        /\ WakeDone(t, pc[t], {}) \/ Goto(t, pc[t], "do_wake")
    BY <1>8 DEF WakeLocked
  <2> QED BY <1>1, <2>1, WakeDoneMoves DEF Goto, TypeOK
<1>9. CASE ReadFailed(t) \/ SlowLock(t)
  BY <1>1, <1>9 DEF ReadFailed, SlowLock, Goto, TypeOK
<1>10. CASE TryWriteLock(t) \/ AddWaiting(t) \/ SlowSetOwner(t)
  BY <1>1, <1>10 DEF TryWriteLock, AddWaiting, SlowSetOwner, Goto, TypeOK
<1> QED BY <1>2, <1>3, <1>4, <1>5, <1>6, <1>7, <1>8, <1>9, <1>10 DEF LockedStep

(* Exclusion is inductive. *)
LEMMA ExcludedStep ==
  ASSUME Shape, Shape', Decoded, Decoded', Excluded, NEW t \in Tasks, TaskStep(t)
  PROVE  Excluded'
<1>1. HoldersKept(t) \/ TakesWrite(t) \/ \E x \in Tasks : TakesRead(x)
  BY HoldersStep
<1>2. \A u, v \in Writers' : u = v
  BY <1>1 DEF Excluded, HoldersKept, TakesRead, TakesWrite
<1>3. Writers' = {} \/ Readers' = {}
  BY <1>1 DEF Excluded, HoldersKept, TakesRead, TakesWrite
<1>4. ASSUME NEW u \in Tasks, Granting(u)' PROVE Writers' = {}
  <2>1. pc'[u] \in {"count_readers", "grant", "grant_wake"}
    BY <1>4 DEF Granting
  <2>2. CASE u = t
    <3>1. Writers = {}
      BY <2>1, <2>2, GrantsStep
    <3>2. t \notin Writers'
      BY <2>1, <2>2 DEF Writers
    <3> QED BY <1>1, <3>1, <3>2 DEF HoldersKept, TakesRead, TakesWrite
  <2>3. CASE u # t
    <3>1. pc'[u] = pc[u] /\ pc[u] \in LockPC
      BY <2>1, <2>3, Locality DEF Shape, LockPC, WakingPC
    <3>2. wait_list' = wait_list
      BY <2>3, <3>1, ListStable
    <3>3. FrontTasks' = FrontTasks
      BY <3>2, FrontKept
    <3>4. Granting(u)
      BY <1>4, <3>1, <3>3 DEF Granting
    <3>5. Writers = {} /\ ~Idle
      BY <3>4, GrantingActive DEF Excluded
    <3> QED BY <1>1, <3>5 DEF HoldersKept, TakesRead, TakesWrite
  <2> QED BY <2>2, <2>3
<1> QED BY <1>2, <1>3, <1>4 DEF Excluded

----------------------------------------------------------------------------
(* The queue is looked after *)

(* Whoever is at one of these looks after it. *)
MindPC ==
  HolderPC \cup {"reading", "read_failed", "write_failed", "can_spin", "osq_lock", "osq_wait",
    "spin", "spin_on_owner", "try_unqueued", "osq_unlock", "slow", "try_write",
    "relock", "wake", "wake_lock", "downgrade_wake", "undo_grant", "count_readers",
    "grant"}

(* They do, before a step ... *)
LEMMA MindersAt ==
  ASSUME TypeOK, NEW u \in Tasks, pc[u] \in MindPC
  PROVE  u \in Minders
BY Members DEF Minders, Caring, MindPC, ReadsAt

(* ... and after it. *)
LEMMA MindersAfter ==
  ASSUME TypeOK', NEW u \in Tasks, pc'[u] \in MindPC
  PROVE  u \in Minders'
BY MembersAfter DEF Minders, Caring, MindPC, ReadsAt

(* With a queue that nobody looks after, the count is the waiting bias.    *)
LEMMA NobodyMinds ==
  Shape /\ Decoded /\ wait_list # <<>> /\ Minders = {}
    => count = RWSEM_WAITING_BIAS /\ Active(count) = 0 /\ count < 0
<1> SUFFICES ASSUME Shape, Decoded, wait_list # <<>>, Minders = {}
             PROVE  count = RWSEM_WAITING_BIAS /\ Active(count) = 0 /\ count < 0
  OBVIOUS
<1>1. TypeOK
  BY DEF Shape
<1>2. Own = {} /\ WriteSet = {}
  <2> SUFFICES ASSUME NEW u \in Tasks PROVE u \notin Own
    BY Sizes
  <2>1. u \notin Readers /\ u \notin Writers
    BY DEF Minders
  <2>2. pc[u] \notin {"read_failed", "write_failed"}
    BY <1>1, MindersAt DEF MindPC
  <2> QED BY <2>1, <2>2 DEF Own, WriteSet, ReadFailing, WriteFailing
<1>3. Pend = {} /\ Bias
  <2>1. CASE wait_lock = NULL
    BY <2>1 DEF Pend, Bias
  <2>2. CASE wait_lock # NULL
    <3> DEFINE u == wait_lock
    <3>1. u \in Tasks /\ u # NULL
      BY <1>1, <2>2 DEF TypeOK
    <3>2. pc[u] \notin MindPC /\ u \notin Minders
      BY <1>1, <3>1, MindersAt
    <3>3. pc[u] \in LockPC
      BY <3>1 DEF Shape, LockRight
    <3>4. pc[u] \in {"do_wake", "grant_wake"}
      BY <3>2, <3>3 DEF LockPC, WakingPC, MindPC, HolderPC
    <3>5. pc[u] = "grant_wake" => FrontTasks = {}
      BY <3>1, <3>2 DEF Minders, Caring
    <3>6. pc[u] = "grant_wake" => ~IsReader(Head(wait_list))
      BY <1>1, <3>5, FrontHead
    <3>7. Head(wait_list) \in ToSet(wait_list)
      BY <1>1, ListTail DEF TypeOK, Shape, ListRight
    <3> QED BY <3>1, <3>4, <3>5, <3>6, <3>7 DEF Pend, PendOf, Bias, BiasOf
  <2> QED BY <2>1, <2>2
<1>4. Cardinality(Own) + Cardinality(Pend) = 0 /\ Cardinality(WriteSet) + Ind(Bias) = 1
  <2>1. Cardinality({}) = 0
    BY FS_EmptySet
  <2> QED BY <1>2, <1>3, <2>1 DEF Ind
<1> QED BY <1>4, Reads

(* Another task's step does not relieve a task of it. *)
LEMMA MindersStay ==
  ASSUME Shape, Shape', NEW t \in Tasks, TaskStep(t), NEW u \in Tasks \ {t}, u \in Minders
  PROVE  u \in Minders'
<1>1. /\ TypeOK /\ TypeOK' /\ ListMove(t)
      /\ pc'[u] = pc[u] /\ op'[u] = op[u]
      /\ state'[u] = state[u] \/ state'[u] = "RUNNING"
  BY Locality, ListStep DEF Shape
<1>2. CASE u \in Readers \/ u \in Writers
  <2>1. (u \in Readers' <=> u \in Readers) /\ (u \in Writers' <=> u \in Writers)
    <3>1. CASE Hands(t)
      <4> DEFINE h == Head(wait_list)
      <4>1. Moves(h) /\ h \notin Readers /\ h \notin Writers
        BY <3>1, MovesStep
      <4> HIDE DEF h
      <4> QED BY <1>2, <4>1 DEF Moves
    <3>2. CASE ~Hands(t)
      <4>1. Moves(t)
        BY <3>2, MovesStep
      <4> QED BY <4>1 DEF Moves
    <3> QED BY <3>1, <3>2
  <2> QED BY <1>2, <2>1 DEF Minders
<1>3. CASE pc[u] \in MindPC
  BY <1>1, <1>3, MindersAfter
<1>4. CASE pc[u] = "do_wake" /\ (op[u] \in {"read", "up"} \/ IsReader(Head(wait_list)))
  <2>1. wait_list' = wait_list /\ wait_list # <<>>
    BY <1>4, ListStable DEF LockPC, WakingPC, Shape, FrontRight, FrontAt
  <2>2. Head(wait_list) \in ToSet(wait_list)
    BY <2>1, ListTail DEF TypeOK, Shape, ListRight
  <2>3. op'[Head(wait_list)] = op[Head(wait_list)]
    BY <2>2, ListOps
  <2> QED BY <1>1, <1>4, <2>1, <2>3 DEF Minders, Caring, IsReader
<1>5. CASE pc[u] = "grant_wake" /\ FrontTasks # {}
  <2>1. wait_list' = wait_list
    BY <1>5, ListStable DEF LockPC, WakingPC
  <2>2. FrontTasks' = FrontTasks
    BY <2>1, FrontKept
  <2> QED BY <1>1, <1>5, <2>2 DEF Minders, Caring
<1>6. CASE /\ op[u] = "write" /\ u \in ToSet(wait_list)
           /\ \/ pc[u] = "check"
              \/ pc[u] \in {"set_state", "schedule"} /\ state[u] = "RUNNING"
  <2>1. u \in ToSet(wait_list')
    BY <1>1, <1>6 DEF ListMove
  <2> QED BY <1>1, <1>6, <2>1 DEF Minders, Caring
<1> QED BY <1>2, <1>3, <1>4, <1>5, <1>6 DEF Minders, Caring, MindPC

(* A queue that was looked after still is. *)
LEMMA MindedStep ==
  ASSUME Shape, Shape', Decoded', QueueMinded, NEW t \in Tasks, TaskStep(t)
  PROVE  QueueMinded'
<1> SUFFICES ASSUME wait_list' # <<>>, Minders' = {} PROVE FALSE
  BY DEF QueueMinded
<1>a. /\ TypeOK /\ TypeOK' /\ OpAt(t) /\ QueuedAt(t) /\ FrontAt(t)
      /\ pc \in [Tasks -> PC] /\ op \in [Tasks -> {"none", "read", "write", "up", "downgrade"}]
      /\ state \in [Tasks -> {"RUNNING", "UNINTERRUPTIBLE"}]
  BY DEF Shape, TypeOK, OpsRight, ListRight, FrontRight
<1>b. pc'[t] \notin MindPC
  BY <1>a, MindersAfter
<1>c. count' = RWSEM_WAITING_BIAS /\ Active(count') = 0 /\ count' < 0
  <2>1. (Shape /\ Decoded /\ wait_list # <<>> /\ Minders = {}
           => count = RWSEM_WAITING_BIAS /\ Active(count) = 0 /\ count < 0)'
    BY NobodyMinds, PTL
  <2> QED BY <2>1 DEF RWSEM_WAITING_BIAS
<1>d. wait_list # <<>> => t \in Minders
  BY MindersStay DEF QueueMinded, Minders
<1>e. ~ReadsAt(t)'
  BY <1>a, MembersAfter DEF Minders
<1>f. ~ /\ op[t] = "read" /\ op' = op /\ wait_list' = wait_list
        /\ pc[t] \in SleepPC /\ pc'[t] \in SleepPC
  <2> SUFFICES ASSUME op[t] = "read", op' = op, wait_list' = wait_list,
                      pc[t] \in SleepPC, pc'[t] \in SleepPC
               PROVE  FALSE
    OBVIOUS
  <2>1. t \in Readers
    BY <1>a, <1>d, Members DEF Minders, Caring, HolderPC, SleepPC
  <2>2. t \notin ToSet(wait_list)
    BY <1>a, <2>1, Members DEF ReadsAt, SleepPC
  <2>3. ReadsAt(t)'
    BY <2>2 DEF ReadsAt
  <2> QED BY <1>e, <2>3
<1>1. CASE down_read(t)
  BY <1>1, <1>a, <1>b DEF down_read, Call, Goto, MindPC, HolderPC
<1>2. CASE down_read_trylock(t)
  BY <1>2, <1>a, <1>b DEF down_read_trylock, Call, Goto, MindPC, HolderPC
<1>3. CASE down_write(t)
  BY <1>3, <1>a, <1>b DEF down_write, Call, Goto, MindPC, HolderPC
<1>4. CASE down_write_trylock(t)
  BY <1>4, <1>a, <1>b DEF down_write_trylock, Call, Goto, MindPC, HolderPC
<1>5. CASE WriteSetOwner(t)
  BY <1>5, <1>a, <1>b DEF WriteSetOwner, Goto, MindPC, HolderPC
<1>6. CASE WakeWriter(t)
  <2> DEFINE h == Head(wait_list)
  <2>1. /\ pc[t] = "do_wake" /\ ~IsReader(h) /\ wait_list' = wait_list
        /\ WakeDone(t, "do_wake", IF op[t] \in {"read", "up"} THEN {h} ELSE {})
    BY <1>6 DEF WakeWriter
  <2>2. h \in Tasks /\ h \in ToSet(wait_list)
    BY <2>1, ListTail DEF Shape, TypeOK, ListRight
  <2>3. op[t] # "downgrade"
    BY <1>a, <1>b, <2>1, WakeDoneMoves DEF WakingPC, MindPC
  <2>4. op[t] # "write"
    <3> SUFFICES ASSUME op[t] = "write" PROVE FALSE
      OBVIOUS
    <3>1. t \notin Readers /\ t \notin Writers
      BY <1>a, <2>1, Members DEF ReadsAt, HolderPC
    <3>2. t \notin Minders
      BY <2>1, <3>1 DEF Minders, Caring
    <3> QED BY <1>d, <2>1, <3>2
  <2>5. op[t] \in {"read", "up"}
    BY <1>a, <2>1, <2>3, <2>4, WakeDoneMoves DEF WakingPC
  <2>6. state'[h] = "RUNNING"
    BY <2>1, <2>2, <2>5 DEF WakeDone
  <2> HIDE DEF h
  <2>7. op[h] = "write" /\ pc[h] \in QueuedWriterPC /\ h # t
    BY <2>1, <2>2, <2>5 DEF Shape, ListRight, QueuedAt, IsReader
  <2>8. pc[h] \in SleepPC \cup {"relock"}
    <3>1. wait_lock = t /\ t # NULL
      BY <2>1 DEF Shape, LockRight, LockPC, WakingPC
    <3>2. pc[h] \notin LockPC
      BY <2>2, <2>7, <3>1 DEF Shape, LockRight
    <3> QED BY <2>7, <3>2 DEF QueuedWriterPC
  <2>9. pc'[h] = pc[h] /\ op'[h] = op[h]
    BY <1>a, <2>2, <2>7, Locality DEF Shape
  <2>10. h \in Minders'
    BY <2>1, <2>2, <2>6, <2>7, <2>8, <2>9 DEF Minders, Caring, SleepPC
  <2> QED BY <2>10
<1>7. CASE ReaderGrant(t)
  BY <1>7, <1>a, <1>b DEF ReaderGrant, Goto, MindPC, HolderPC
<1>8. CASE UndoGrant(t)
  <2>1. Goto(t, "undo_grant", "do_wake") /\ op' = op /\ wait_list' = wait_list
    BY <1>8, <1>c DEF UndoGrant
  <2>2. IsReader(Head(wait_list))
    BY <1>a, <2>1 DEF FrontAt, Goto
  <2>3. t \in Minders'
    BY <1>a, <2>1, <2>2 DEF Minders, Caring, Goto, IsReader
  <2> QED BY <2>3
<1>9. CASE CountReaders(t)
  BY <1>9, <1>a, <1>b DEF CountReaders, Goto, MindPC, HolderPC
<1>10. CASE Grant(t)
  <2>1. CASE pc[t] = "grant"
    <3>1. wait_list' = Tail(wait_list) /\ wait_list # <<>>
      BY <1>10, <1>a, <2>1 DEF Grant, WakeDone, Goto, FrontAt
    <3>2. Hands(t)
      BY <2>1, <3>1 DEF Hands
    <3> DEFINE h == Head(wait_list)
    <3>3. h \in Readers' /\ h \in Tasks
      BY <3>2, MovesStep
    <3> HIDE DEF h
    <3> QED BY <3>3 DEF Minders
  <2>2. CASE pc[t] # "grant"
    <3>1. /\ pc[t] = "grant_wake" /\ wait_list' = wait_list
          /\ \/ IsReader(Head(wait_list)) /\ pc'[t] = "grant"
             \/ ~IsReader(Head(wait_list)) /\ WakeDone(t, "grant_wake", {tsk[t]})
      BY <1>10, <1>a, <2>2 DEF Grant, WakeDone, Goto
    <3>2. ~IsReader(Head(wait_list)) /\ WakeDone(t, "grant_wake", {tsk[t]})
      BY <1>b, <3>1 DEF MindPC
    <3>3. FrontTasks = {} /\ t \in Minders
      BY <1>a, <1>d, <3>1, <3>2, FrontHead
    <3>4. t \in Readers
      BY <1>a, <3>1, <3>3, Members DEF Minders, Caring, HolderPC
    <3>5. op[t] = "downgrade" \/ (op[t] = "read" /\ t \notin ToSet(wait_list))
      BY <1>a, <3>1, <3>4, Members DEF ReadsAt
    <3>6. \/ pc'[t] = "reading"
          \/ pc'[t] = "set_state" /\ op'[t] = "read" /\ t \notin ToSet(wait_list)
      BY <1>a, <3>2, <3>5, WakeDoneMoves DEF WakingPC
    <3>7. ReadsAt(t)'
      BY <3>1, <3>6 DEF ReadsAt, SleepPC
    <3> QED BY <1>e, <3>7
  <2> QED BY <2>1, <2>2
<1>11. CASE ReadFailed(t)
  <2>1. pc[t] = "read_failed" /\ pc'[t] = "do_wake" /\ op' = op
    BY <1>11, <1>a, <1>c DEF ReadFailed, Goto
  <2>2. op[t] = "read"
    BY <1>a, <2>1 DEF OpAt
  <2>3. t \in Minders'
    BY <1>a, <2>1, <2>2 DEF Minders, Caring
  <2> QED BY <2>3
<1>12. CASE SetState(t)
  <2>1. pc[t] = "set_state" /\ pc'[t] = "check" /\ op' = op /\ wait_list' = wait_list
    BY <1>12, <1>a DEF SetState, Goto
  <2>2. CASE op[t] = "write"
    <3>1. t \in ToSet(wait_list)
      BY <1>a, <2>1, <2>2 DEF QueuedAt, QueuedWriterPC, SleepPC
    <3>2. t \in Minders'
      BY <1>a, <2>1, <2>2, <3>1 DEF Minders, Caring
    <3> QED BY <3>2
  <2>3. CASE op[t] = "read"
    BY <1>f, <2>1, <2>3 DEF SleepPC
  <2> QED BY <1>a, <2>1, <2>2, <2>3 DEF OpAt, SleepPC
<1>13. CASE CheckWait(t)
  <2>1. /\ pc[t] = "check" /\ op' = op /\ wait_list' = wait_list /\ count' = count
        /\ \/ op[t] = "read" /\ t \in ToSet(wait_list) /\ pc'[t] = "schedule"
           \/ op[t] = "read" /\ t \notin ToSet(wait_list) /\ pc'[t] = "reading"
           \/ op[t] # "read" /\ Active(count) # 0 /\ pc'[t] = "schedule"
           \/ op[t] # "read" /\ Active(count) = 0 /\ pc'[t] = "relock"
    BY <1>13, <1>a, CheckMoves
  <2>2. op[t] = "read" /\ pc'[t] = "schedule"
    BY <1>b, <1>c, <2>1 DEF MindPC
  <2> QED BY <1>f, <2>1, <2>2 DEF SleepPC
<1>14. CASE Schedule(t)
  <2>1. /\ pc[t] = "schedule" /\ pc'[t] = "set_state" /\ state'[t] = "RUNNING"
        /\ op' = op /\ wait_list' = wait_list
    BY <1>14, <1>a DEF Schedule, Goto
  <2>2. CASE op[t] = "write"
    <3>1. t \in ToSet(wait_list)
      BY <1>a, <2>1, <2>2 DEF QueuedAt, QueuedWriterPC, SleepPC
    <3>2. t \in Minders'
      BY <1>a, <2>1, <2>2, <3>1 DEF Minders, Caring
    <3> QED BY <3>2
  <2>3. CASE op[t] = "read"
    BY <1>f, <2>1, <2>3 DEF SleepPC
  <2> QED BY <1>a, <2>1, <2>2, <2>3 DEF OpAt, SleepPC
<1>15. CASE WriteFailed(t)
  BY <1>15, <1>a, <1>b DEF WriteFailed, Goto, MindPC, HolderPC
<1>16. CASE CanSpin(t)
  BY <1>16, <1>a, <1>b DEF CanSpin, Goto, MindPC, HolderPC
<1>17. CASE OsqLock(t)
  BY <1>17, <1>a, <1>b DEF OsqLock, Goto, MindPC, HolderPC
<1>18. CASE Spin(t)
  BY <1>18, <1>a, <1>b DEF Spin, Goto, MindPC, HolderPC
<1>19. CASE SpinOnOwner(t)
  BY <1>19, <1>a, <1>b DEF SpinOnOwner, Goto, MindPC, HolderPC
<1>20. CASE TryUnqueued(t)
  BY <1>20, <1>a, <1>b DEF TryUnqueued, Goto, MindPC, HolderPC
<1>21. CASE SpinSetOwner(t)
  BY <1>21, <1>a, <1>b DEF SpinSetOwner, Goto, MindPC, HolderPC
<1>22. CASE OsqUnlock(t)
  BY <1>22, <1>a, <1>b DEF OsqUnlock, Goto, MindPC, HolderPC
<1>23. CASE SlowLock(t)
  <2>1. RWSEM_WAITING_BIAS \in Int /\ ~(count' > RWSEM_WAITING_BIAS)
    BY <1>c DEF RWSEM_WAITING_BIAS
  <2>2. Goto(t, "slow", "try_write")
    BY <1>23, <1>c, <2>1 DEF SlowLock
  <2> QED BY <1>a, <1>b, <2>2 DEF Goto, MindPC
<1>24. CASE TryWriteLock(t)
  BY <1>24, <1>a, <1>b, <1>c DEF TryWriteLock, Goto, MindPC, HolderPC
<1>25. CASE AddWaiting(t)
  BY <1>25, <1>a, <1>b DEF AddWaiting, Goto, MindPC, HolderPC
<1>26. CASE SlowSetOwner(t)
  BY <1>26, <1>a, <1>b DEF SlowSetOwner, Goto, MindPC, HolderPC
<1>27. CASE up_read(t)
  BY <1>27, <1>a, <1>b, <1>c DEF up_read, Up, Goto, MindPC
<1>28. CASE ClearOwner(t)
  BY <1>28, <1>a, <1>b DEF ClearOwner, Goto, MindPC, HolderPC
<1>29. CASE up_write(t)
  BY <1>29, <1>a, <1>b, <1>c DEF up_write, Up, Goto, MindPC
<1>30. CASE HasSpinner(t)
  <2>1. pc[t] = "wake" /\ osq # <<>>
    BY <1>30, <1>a, <1>b DEF HasSpinner, Goto, MindPC
  <2> DEFINE v == Head(osq)
  <2>2. v \in Tasks /\ v \in ToSet(osq)
    BY <2>1, ListTail DEF Shape, TypeOK, OsqRight
  <2> HIDE DEF v
  <2>3. pc[v] \in OsqPC
    BY <2>2 DEF Shape, OsqRight, OsqAt
  <2>4. v # t
    BY <2>1, <2>3 DEF OsqPC
  <2>5. pc[v] \in MindPC
    BY <2>3 DEF OsqPC, MindPC, HolderPC
  <2>6. v \in Minders
    BY <1>a, <2>2, <2>5, MindersAt
  <2> QED BY <2>2, <2>4, <2>6, MindersStay
<1>31. CASE WakeTrylock(t)
  <2>1. pc[t] = "wake_trylock" /\ wait_list' = wait_list
    BY <1>31 DEF WakeTrylock, Goto
  <2>2. op[t] = "up"
    BY <1>a, <2>1 DEF OpAt
  <2>3. t \notin Readers /\ t \notin Writers
    BY <1>a, <2>1, <2>2, Members DEF ReadsAt, HolderPC
  <2>4. t \notin Minders
    BY <2>1, <2>2, <2>3 DEF Minders, Caring
  <2> QED BY <1>d, <2>1, <2>4
<1>32. CASE WakeLocked(t)
  <2>1. /\ pc[t] \in {"wake_trylock", "wake_lock", "downgrade_wake"}
        /\ pc'[t] = "do_wake" /\ op' = op
    BY <1>32, <1>a DEF WakeLocked, Goto
  <2>2. op[t] \in {"up", "downgrade"}
    BY <1>a, <2>1 DEF OpAt
  <2>3. CASE op[t] = "up"
    <3>1. t \in Minders'
      BY <1>a, <2>1, <2>3 DEF Minders, Caring
    <3> QED BY <3>1
  <2>4. CASE op[t] = "downgrade"
    <3>1. ReadsAt(t)'
      BY <2>1, <2>4 DEF ReadsAt
    <3> QED BY <1>e, <3>1
  <2> QED BY <2>2, <2>3, <2>4
<1>33. CASE downgrade_write(t)
  BY <1>33, <1>a, <1>b DEF downgrade_write, Goto, MindPC, HolderPC
<1> QED
  BY <1>1, <1>2, <1>3, <1>4, <1>5, <1>6, <1>7, <1>8, <1>9, <1>10, <1>11,
     <1>12, <1>13, <1>14, <1>15, <1>16, <1>17, <1>18, <1>19, <1>20, <1>21,
     <1>22, <1>23, <1>24, <1>25, <1>26, <1>27, <1>28, <1>29, <1>30, <1>31,
     <1>32, <1>33 DEF TaskStep, Step

----------------------------------------------------------------------------
(* The results *)

(* The invariant holds of a new semaphore, ... *)
LEMMA InitIInv == Init => IInv
<1> SUFFICES ASSUME Init PROVE IInv
  OBVIOUS
<1> USE DEF Init
<1>1. TypeOK
  BY EmptyList DEF TypeOK, PC
<1>2. ToSet(wait_list) = {} /\ ToSet(osq) = {} /\ NoDuplicates(wait_list) /\ NoDuplicates(osq)
  BY EmptyList
<1>3. OpsRight
  BY DEF OpsRight, OpAt, WritePC, OsqPC, SleepPC, WakingPC
<1>4. LockRight
  BY DEF LockRight, LockPC, WakingPC
<1>5. ListRight
  BY <1>2 DEF ListRight, QueuedAt, QueuedWriterPC, SleepPC, LockPC, WakingPC
<1>6. FrontRight
  BY DEF FrontRight, FrontAt
<1>7. OsqRight
  BY <1>2 DEF OsqRight, OsqAt, OsqPC
<1>8. Readers = {} /\ Writers = {} /\ ReadFailing = {} /\ WriteFailing = {}
  BY DEF Readers, Writers, ReadFailing, WriteFailing, WakingPC
<1>9. Own = {} /\ WriteSet = {} /\ Pend = {} /\ ~Bias
  BY <1>8 DEF Own, WriteSet, Pend, Bias
<1>10. Decoded
  <2>1. Cardinality({}) = 0
    BY FS_EmptySet
  <2>2. B \in Int
    BY DEF B
  <2> QED BY <1>9, <2>1, <2>2 DEF Decoded, Ind
<1>11. Excluded
  BY <1>8 DEF Excluded
<1> QED BY <1>1, <1>3, <1>4, <1>5, <1>6, <1>7, <1>10, <1>11 DEF IInv, Shape, QueueMinded

(* ... and every step keeps it. *)
LEMMA StepIInv ==
  ASSUME IInv, NEW t \in Tasks, TaskStep(t)
  PROVE  IInv'
<1>1. Shape /\ Decoded /\ Excluded /\ QueueMinded
  BY DEF IInv
<1>2. Shape'
  BY <1>1, ShapeStep
<1>3. Decoded'
  BY <1>1, <1>2, DecodedStep
<1>4. Excluded'
  BY <1>1, <1>2, <1>3, ExcludedStep
<1>5. QueueMinded'
  BY <1>1, <1>2, <1>3, MindedStep
<1> QED BY <1>2, <1>3, <1>4, <1>5 DEF IInv

(* Every step is one of some task. *)
LEMMA NextTaskStep == Next <=> \E t \in Tasks : TaskStep(t)
BY DEF Next, TaskStep

(* A step that changes nothing keeps everything. *)
LEMMA Stutter == IInv /\ UNCHANGED vars => IInv'
<1> SUFFICES ASSUME IInv, UNCHANGED vars PROVE IInv'
  OBVIOUS
<1> USE DEF vars
<1>1. Shape'
  BY DEF IInv, Shape, TypeOK, OpsRight, OpAt, LockRight, ListRight, QueuedAt, FrontRight, FrontAt,
         OsqRight, OsqAt, IsReader
<1>2. Readers' = Readers /\ Writers' = Writers /\ ReadFailing' = ReadFailing /\ WriteFailing' = WriteFailing
  BY DEF Readers, Writers, ReadFailing, WriteFailing
<1>3. FrontTasks' = FrontTasks
  BY DEF FrontTasks, FrontReaders, IsReader
<1>4. Own' = Own /\ WriteSet' = WriteSet
  BY <1>2 DEF Own, WriteSet
<1>5. Pend' = Pend /\ Bias' = Bias
  BY <1>3 DEF Pend, PendOf, Bias, BiasOf, IsReader
<1>6. Decoded'
  BY <1>4, <1>5 DEF IInv, Decoded
<1>7. Excluded'
  BY <1>2, <1>3 DEF IInv, Excluded, Granting
<1>8. QueueMinded'
  BY <1>2, <1>3 DEF IInv, QueueMinded, Minders, Caring, IsReader
<1> QED BY <1>1, <1>6, <1>7, <1>8 DEF IInv

(* The inductive invariant, of every reachable state. *)
LEMMA Invariance == Spec => []IInv
<1>1. IInv /\ [Next]_vars => IInv'
  BY NextTaskStep, StepIInv, Stutter
<1> QED BY <1>1, InitIInv, PTL DEF Spec

(* Every variable of the semaphore and of the tasks that use it keeps its  *)
(* type; in particular no call takes the number of calls past the bound.   *)
THEOREM TypeCorrect == Spec => []TypeOK
<1>1. IInv => TypeOK
  BY DEF IInv, Shape
<1> QED BY <1>1, Invariance, PTL

(* sem->count is at every instant the sum of what the holders, the failing *)
(* fast paths, the wakers in __rwsem_do_wake() and the wait list put in.   *)
THEOREM CountCorrect == Spec => []CountDecodes
<1>1. IInv => CountDecodes
  BY SameCount DEF IInv
<1> QED BY <1>1, Invariance, PTL

(* While rwsem_down_read_failed() or rwsem_down_write_failed() has a task  *)
(* on the wait list, somebody holds the lock or is on the way to wake the  *)
(* list, also when rwsem_wake() leaves the wakeup to a spinner because     *)
(* wait_lock is busy.                                                      *)
THEOREM NoWakeupLost == Spec => []NoLostWakeup
<1>1. ASSUME IInv PROVE NoLostWakeup
  <2>1. TypeOK /\ (wait_list # <<>> => Minders # {})
    BY <1>1 DEF IInv, Shape, QueueMinded
  <2>2. ASSUME NEW u \in Tasks, u \in Minders PROVE u \in Readers \cup Writers \cup Responsible
    <3>1. Contains(wait_list, u) <=> u \in ToSet(wait_list)
      BY <2>1, ContainsToSet DEF TypeOK
    <3> QED BY <2>2, <3>1 DEF Minders, Caring, Responsible, WakingPC
  <2> QED BY <2>1, <2>2 DEF NoLostWakeup, Minders
<1> QED BY <1>1, Invariance, PTL

(* Who has the lock changes only as a reader/writer lock allows: a fast    *)
(* path, a trylock, a spinner, a queued writer and __rwsem_do_wake() let a *)
(* reader in only without a writer and a writer in only alone, and         *)
(* downgrade_write() lets no writer in between.                            *)
THEOREM Refinement == Spec => IsRWLock
<1>1. Init => RW!Init
  <2> SUFFICES ASSUME Init PROVE Readers = {} /\ Writers = {}
    BY DEF RW!Init
  <2> QED BY DEF Init, Readers, Writers, WakingPC
<1>2. ASSUME IInv, IInv', [Next]_vars PROVE [RW!Next]_(RW!rwvars)
  <2>1. CASE UNCHANGED vars
    <3>1. Readers' = Readers /\ Writers' = Writers
      BY <2>1 DEF vars, Readers, Writers
    <3> QED BY <3>1 DEF RW!rwvars
  <2>2. CASE Next
    <3>1. PICK t \in Tasks : TaskStep(t)
      BY <2>2, NextTaskStep
    <3>2. HoldersKept(t) \/ TakesWrite(t) \/ \E x \in Tasks : TakesRead(x)
      BY <1>2, <3>1, HoldersStep DEF IInv
    <3>3. CASE HoldersKept(t)
      BY <3>3 DEF HoldersKept, RW!rwvars, RW!Next, RW!ReleaseRead, RW!ReleaseWrite, RW!Downgrade
    <3>4. CASE TakesWrite(t)
      BY <3>4 DEF TakesWrite, RW!Next, RW!AcquireWrite
    <3>5. CASE \E x \in Tasks : TakesRead(x)
      BY <3>5 DEF TakesRead, RW!Next, RW!AcquireRead
    <3> QED BY <3>2, <3>3, <3>4, <3>5
  <2> QED BY <1>2, <2>1, <2>2
<1> QED BY <1>1, <1>2, Invariance, PTL DEF Spec, IsRWLock, RW!Spec

(* Without a waiting bias and without writers, all that are queued read. *)
LEMMA OnlyReaders ==
  ASSUME Shape, ~Bias, Writers = {}
  PROVE  \A u \in ToSet(wait_list) : IsReader(u)
<1>1. CASE wait_lock = NULL
  BY <1>1, EmptyList DEF Bias
<1>2. CASE wait_lock # NULL
  <2> DEFINE h == wait_lock
  <2>1. h \in Tasks /\ pc[h] \in LockPC
    BY <1>2 DEF Shape, TypeOK, LockRight
  <2>2. pc[h] \notin {"add_waiting", "slow_set_owner"}
    BY <2>1 DEF Writers
  <2>3. wait_list = <<>> \/ \A u \in ToSet(wait_list) : IsReader(u)
    BY <1>2, <2>1, <2>2 DEF Bias, BiasOf
  <2> QED BY <2>3, EmptyList
<1> QED BY <1>1, <1>2

(* A task gets the lock for reading from __rwsem_do_wake() as the first of *)
(* the queue, or from down_read() or down_read_trylock() when the count is *)
(* not negative, and then only readers that were granted the lock already  *)
(* are still on the list: it overtakes no queued writer.                   *)
THEOREM NobodyBarges == Spec => NoBarging
<1> DEFINE Fair == \A t \in Readers' \ (Readers \cup Writers) :
                     LET before == IF Contains(wait_list, t) THEN IndexOf(wait_list, t) ELSE Len(wait_list)
                     IN  \A i \in 1..before : IsReader(wait_list[i])
           Ahead(x) == IF Contains(wait_list, x) THEN IndexOf(wait_list, x) ELSE Len(wait_list)
<1>1. ASSUME IInv, IInv', Next PROVE Fair
  <2>1. PICK t \in Tasks : TaskStep(t)
    BY <1>1, NextTaskStep
  <2>2. /\ Shape /\ Shape' /\ Decoded /\ Decoded' /\ TypeOK
        /\ wait_list \in Seq(Tasks) /\ NoDuplicates(wait_list) /\ Len(wait_list) \in Nat
    BY <1>1 DEF IInv, Shape, TypeOK, ListRight
  <2> SUFFICES ASSUME NEW x \in Tasks, x \in Readers', x \notin Readers, x \notin Writers,
                      NEW i \in 1..Ahead(x)
               PROVE  IsReader(wait_list[i])
    BY DEF Readers
  <2>3. CASE Hands(t)
    <3> DEFINE h == Head(wait_list)
    <3>1. Moves(h) /\ h \in Tasks
      BY <2>1, <2>2, <2>3, MovesStep
    <3>2. wait_list # <<>> /\ h = wait_list[1] /\ IsReader(h) /\ h \in ToSet(wait_list)
      BY <2>2, <2>3, ListTail DEF Hands, Shape, FrontRight, FrontAt
    <3> HIDE DEF h
    <3>3. x = h
      BY <3>1 DEF Moves
    <3>4. Contains(wait_list, x)
      BY <2>2, <3>2, <3>3, ContainsToSet
    <3>5. IndexOf(wait_list, x) = 1
      <4>1. IndexOf(wait_list, x) \in 1..Len(wait_list) /\ wait_list[IndexOf(wait_list, x)] = x
        BY <2>2, <3>2, <3>3, IndexOfFound
      <4>2. 1 \in 1..Len(wait_list)
        BY <2>2, <4>1
      <4> QED BY <2>2, <3>2, <3>3, <4>1, <4>2 DEF NoDuplicates
    <3>6. i = 1
      BY <3>4, <3>5
    <3> QED BY <3>2, <3>6
  <2>4. CASE ~Hands(t)
    <3>1. Moves(t)
      BY <2>1, <2>2, <2>4, MovesStep
    <3>2. x = t
      BY <3>1 DEF Moves
    <3>3. Takes(t)
      BY <2>1, <2>2, <2>4, TakesStep
    <3>4. Writers = {} /\ pc[t] = "idle" /\ ~(count' < 0)
      BY <3>2, <3>3 DEF Takes
    <3>5. ~Bias'
      <4>1. (Shape /\ Decoded /\ ~(count < 0) => WriteSet = {} /\ ~Bias)'
        BY CountNotNegative, PTL
      <4> QED BY <2>2, <3>4, <4>1
    <3>6. Plain(t)
      <4>1. (PlainStep(t) /\ Plain(t)) \/ (LockedStep(t) /\ Locking(t))
        BY <2>1, <2>2, LockStep DEF Shape
      <4>2. ~LockedStep(t)
        BY <3>4 DEF LockedStep, WakeWriter, ReaderGrant, UndoGrant, CountReaders, Grant,
          ReadFailed, SlowLock, TryWriteLock, AddWaiting, SlowSetOwner, WakeLocked, WakeDone, Goto
      <4> QED BY <4>1, <4>2
    <3>7. ~Bias
      BY <2>1, <2>2, <3>5, <3>6, PlainKeeps
    <3>8. \A u \in ToSet(wait_list) : IsReader(u)
      BY <2>2, <3>4, <3>7, OnlyReaders
    <3>9. ~Contains(wait_list, x)
      <4>1. x \notin ToSet(wait_list)
        BY <2>2, <3>2, <3>4 DEF Shape, ListRight, QueuedAt, SleepPC, WakingPC, QueuedWriterPC, LockPC
      <4> QED BY <2>2, <4>1, ContainsToSet
    <3>10. i \in DOMAIN wait_list
      BY <2>2, <3>9
    <3>11. wait_list[i] \in ToSet(wait_list)
      BY <3>10 DEF ToSet
    <3> QED BY <3>8, <3>11
  <2> QED BY <2>3, <2>4
<1>2. IInv /\ IInv' /\ [Next]_vars => [Fair]_vars
  BY <1>1
<1> QED BY <1>2, Invariance, PTL DEF Spec, NoBarging

============================================================================
