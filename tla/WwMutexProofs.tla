---------------------------- MODULE WwMutexProofs ----------------------------
(***************************************************************************)
(* Proofs about WwMutex, for any number of tasks, locks, plans and calls.  *)
(*                                                                         *)
(* ContextsRight is inductive together with the meaning of the count, that *)
(* ctx is clear whenever the holder is before the store of it or past its  *)
(* clearing, and that a task's list of locks has no duplicates.            *)
(*                                                                         *)
(* OldestStays needs AgeInv, the meaning of the stamps: age lists the      *)
(* contexts in use by the number of stamps given out since theirs, modulo  *)
(* the range of a stamp. It holds while that number stays below half of    *)
(* the range, which is StampsClose.                                        *)
(*                                                                         *)
(* SleepersMayWait is about locks that two tasks share. Then a waiter that *)
(* has other locks is first in the queue, unless it has the lock already   *)
(* (FirstInv): whoever has the lock is the other user, so nobody else can  *)
(* be in front. This takes that callers stay within their plans (PlanInv)  *)
(* and that nobody sleeps for a lock of its own (NotOwn). WaitInv is what  *)
(* the first waiter can rely on: when the count is not negative any more   *)
(* an unlock is about to wake it (NotLost), so a holder that finds the     *)
(* count 0 need not; and it has seen the present ctx, or somebody is about *)
(* to wake it to look (HasLooked).                                         *)
(*                                                                         *)
(* NoDeadlock follows where every lock that is taken together with others  *)
(* has two users. If all the tasks slept, then no wakeup being lost        *)
(* (AttendInv) somebody has each lock that is waited for, and its ctx is   *)
(* set to one that sleeps (OwnInv), so each of them would wait for a       *)
(* younger one.                                                            *)
(***************************************************************************)
EXTENDS WwMutex, ListSeqProofs, FiniteSetTheorems

USE NullAssumption, LocksAssumption, PlansAssumption

HoldPC == {"set_ctx", "read_count", "wake_all", "remove_waiter", "skip_wait",
           "locked", "unlock_count", "unlock_slow"}

(* A task has its lock, and ctx is not set yet or not any more. *)
NoCtxPC == {"set_ctx", "remove_waiter", "skip_wait", "unlock_count", "unlock_slow"}

TypeOK ==
  /\ count \in [Locks -> Int]
  /\ ctx \in [Locks -> Tasks \cup {NULL}]
  /\ acquired \in [Tasks -> Int]
  /\ pc \in [Tasks -> PC]
  /\ lock \in [Tasks -> Locks \cup {NULL}]
  /\ plan \in [Tasks -> Seq(Locks)]
  /\ todo \in [Tasks -> Seq(Locks)]
  /\ locked \in [Tasks -> Seq(Locks)]
  /\ contended \in [Tasks -> Locks \cup {NULL}]

(* What a task knows of its locks: the one it is working on, and the list  *)
(* of those it has, each once.                                             *)
ListsRight ==
  \A t \in Tasks :
    /\ pc[t] # "idle" => lock[t] \in Locks
    /\ pc[t] = "idle" => locked[t] = <<>>
    /\ NoDuplicates(locked[t])
    /\ pc[t] \in {"unlock_count", "unlock_slow"} => lock[t] \notin ToSet(locked[t])

(* Task t has lock l, see Holders. *)
Has(t, l) == l \in ToSet(locked[t]) \/ (lock[t] = l /\ pc[t] \in HoldPC)

(* The mutex underneath: the count is 1 when nobody has the lock, and one  *)
(* task at most has it.                                                    *)
Exclusion ==
  \A l \in Locks :
    /\ count[l] <= 1
    /\ count[l] = 1 <=> \A t \in Tasks : ~Has(t, l)
    /\ \A t, u \in Tasks : Has(t, l) /\ Has(u, l) => t = u

CtxHolds ==
  /\ \A l \in Locks : ctx[l] # NULL => Has(ctx[l], l)
  /\ \A t \in Tasks : pc[t] \in NoCtxPC => ctx[lock[t]] = NULL

(* The locks that are counted for a task *)
Counted(t) == {l \in Locks : ctx[l] = t}

AcquiredCounts == \A t \in Tasks : acquired[t] = Cardinality(Counted(t))

IInv == TypeOK /\ ListsRight /\ Exclusion /\ CtxHolds /\ AcquiredCounts

(* A step of task t, or a signal for it *)
TaskStep(t) == (\E p \in Plans[t] : ww_acquire_init(t, p)) \/ Step(t) \/ Signal(t)

(* Every variable keeps its type. *)
LEMMA TypeStep ==
  ASSUME TypeOK, ListsRight, NEW t \in Tasks, TaskStep(t)
  PROVE  TypeOK'
<1> USE DEF TypeOK, ListsRight, Goto, mutex, context, caller
<1>1. ASSUME NEW p \in Plans[t], ww_acquire_init(t, p)
      PROVE  TypeOK'
  <2>p. p \in Seq(Locks) /\ p # <<>>
    BY <1>1
  <2>q. Head(p) \in Locks /\ Tail(p) \in Seq(Locks)
    BY <2>p
  <2>1. pc' \in [Tasks -> PC]
    BY <1>1 DEF ww_acquire_init, PC, Got
  <2>2. plan' \in [Tasks -> Seq(Locks)]
    BY <1>1, <2>p DEF ww_acquire_init
  <2>3. todo' \in [Tasks -> Seq(Locks)]
    BY <1>1, <2>q DEF ww_acquire_init
  <2>4. lock' \in [Tasks -> Locks \cup {NULL}]
    BY <1>1, <2>q DEF ww_acquire_init
  <2>5. acquired' \in [Tasks -> Int]
    BY <1>1 DEF ww_acquire_init
  <2> QED BY <1>1, <2>1, <2>2, <2>3, <2>4, <2>5 DEF ww_acquire_init
<1>2. CASE ww_mutex_lock(t)
  <2>1. pc' \in [Tasks -> PC]
    BY <1>2 DEF ww_mutex_lock, PC, Got
  <2>2. count' \in [Locks -> Int]
    BY <1>2 DEF ww_mutex_lock
  <2> QED BY <1>2, <2>1, <2>2 DEF ww_mutex_lock
<1>3. CASE ww_mutex_trylock(t)
  <2>1. pc' \in [Tasks -> PC]
    BY <1>3, ZenonT(60) DEF ww_mutex_trylock, PC, Got
  <2>2. count' \in [Locks -> Int]
    BY <1>3 DEF ww_mutex_trylock
  <2> QED BY <1>3, <2>1, <2>2 DEF ww_mutex_trylock
<1>4. CASE SetCtx(t)
  <2>1. pc' \in [Tasks -> PC]
    BY <1>4 DEF SetCtx, PC, Got
  <2>2. acquired' \in [Tasks -> Int]
    BY <1>4 DEF SetCtx
  <2>3. ctx' \in [Locks -> Tasks \cup {NULL}]
    BY <1>4 DEF SetCtx
  <2> QED BY <1>4, <2>1, <2>2, <2>3 DEF SetCtx
<1>5. CASE ReadCount(t)
  <2>1. pc' \in [Tasks -> PC]
    BY <1>5 DEF ReadCount, PC, Got
  <2> QED BY <1>5, <2>1 DEF ReadCount
<1>6. CASE WakeAll(t)
  <2>1. pc' \in [Tasks -> PC]
    BY <1>6 DEF WakeAll, Woken, PC, Got
  <2> QED BY <1>6, <2>1 DEF WakeAll, Woken
<1>7. CASE Spin(t)
  <2>1. pc' \in [Tasks -> PC]
    BY <1>7 DEF Spin, PC, Got
  <2> QED BY <1>7, <2>1 DEF Spin
<1>8. CASE TryAcquire(t)
  <2>1. pc' \in [Tasks -> PC]
    BY <1>8 DEF TryAcquire, PC, Got
  <2>2. count' \in [Locks -> Int]
    BY <1>8 DEF TryAcquire
  <2> QED BY <1>8, <2>1, <2>2 DEF TryAcquire
<1>9. CASE SlowLock(t)
  <2>1. pc' \in [Tasks -> PC]
    BY <1>9, ZenonT(60) DEF SlowLock, PC, Got
  <2> QED BY <1>9, <2>1 DEF SlowLock
<1>10. CASE TryXchg(t)
  <2>1. pc' \in [Tasks -> PC]
    BY <1>10, ZenonT(60) DEF TryXchg, PC, Got
  <2>2. count' \in [Locks -> Int]
    BY <1>10 DEF TryXchg
  <2> QED BY <1>10, <2>1, <2>2 DEF TryXchg
<1>11. CASE Loop(t)
  <2>1. pc' \in [Tasks -> PC]
    BY <1>11 DEF Loop, PC, Got
  <2> QED BY <1>11, <2>1 DEF Loop
<1>12. CASE LoopXchg(t)
  <2>1. pc' \in [Tasks -> PC]
    BY <1>12 DEF LoopXchg, PC, Got
  <2>2. count' \in [Locks -> Int]
    BY <1>12 DEF LoopXchg
  <2> QED BY <1>12, <2>1, <2>2 DEF LoopXchg
<1>13. CASE Check(t)
  <2>1. pc' \in [Tasks -> PC]
    BY <1>13 DEF Check, Fail, Sleep, PC, Got
  <2>2. contended' \in [Tasks -> Locks \cup {NULL}]
    BY <1>13 DEF Check, Fail, Sleep
  <2> QED BY <1>13, <2>1, <2>2 DEF Check, Fail, Sleep
<1>14. CASE CheckStamp(t)
  <2>1. pc' \in [Tasks -> PC]
    BY <1>14 DEF CheckStamp, Fail, Sleep, PC, Got
  <2>2. contended' \in [Tasks -> Locks \cup {NULL}]
    BY <1>14 DEF CheckStamp, Fail, Sleep
  <2> QED BY <1>14, <2>1, <2>2 DEF CheckStamp, Fail, Sleep
<1>15. CASE RemoveWaiter(t)
  <2>1. pc' \in [Tasks -> PC]
    <3>1. CASE UseCtx(t)
      BY <1>15, <3>1, ZenonT(60) DEF RemoveWaiter, SetCtxSlow, Woken, PC
    <3>2. CASE ~UseCtx(t)
      BY <1>15, <3>2, ZenonT(60) DEF RemoveWaiter, SetCtxSlow, Woken, PC
    <3> QED BY <3>1, <3>2
  <2>2. count' \in [Locks -> Int]
    BY <1>15 DEF RemoveWaiter, SetCtxSlow, Woken
  <2>3. acquired' \in [Tasks -> Int]
    <3>1. CASE UseCtx(t)
      BY <1>15, <3>1 DEF RemoveWaiter, SetCtxSlow, Woken, PC
    <3>2. CASE ~UseCtx(t)
      BY <1>15, <3>2 DEF RemoveWaiter, SetCtxSlow, Woken, PC
    <3> QED BY <3>1, <3>2
  <2>4. ctx' \in [Locks -> Tasks \cup {NULL}]
    <3>1. ctx' = [ctx EXCEPT ![lock[t]] = t] \/ UNCHANGED ctx
      BY <1>15 DEF RemoveWaiter, SetCtxSlow, Woken
    <3> QED BY <3>1, ZenonT(60)
  <2> QED BY <1>15, <2>1, <2>2, <2>3, <2>4 DEF RemoveWaiter, SetCtxSlow, Woken
<1>16. CASE SkipWait(t)
  <2>1. pc' \in [Tasks -> PC]
    <3>1. CASE UseCtx(t)
      BY <1>16, <3>1, ZenonT(60) DEF SkipWait, SetCtxSlow, Woken, PC
    <3>2. CASE ~UseCtx(t)
      BY <1>16, <3>2, ZenonT(60) DEF SkipWait, SetCtxSlow, Woken, PC
    <3> QED BY <3>1, <3>2
  <2>2. acquired' \in [Tasks -> Int]
    <3>1. CASE UseCtx(t)
      BY <1>16, <3>1 DEF SkipWait, SetCtxSlow, Woken, PC
    <3>2. CASE ~UseCtx(t)
      BY <1>16, <3>2 DEF SkipWait, SetCtxSlow, Woken, PC
    <3> QED BY <3>1, <3>2
  <2>3. ctx' \in [Locks -> Tasks \cup {NULL}]
    <3>1. ctx' = [ctx EXCEPT ![lock[t]] = t] \/ UNCHANGED ctx
      BY <1>16 DEF SkipWait, SetCtxSlow, Woken
    <3> QED BY <3>1, ZenonT(60)
  <2> QED BY <1>16, <2>1, <2>2, <2>3 DEF SkipWait, SetCtxSlow, Woken
<1>17. CASE Locked(t)
  <2>l. lock[t] \in Locks
    BY <1>17 DEF Locked
  <2>r. PICK rest \in Seq(Locks) :
          /\ rest = <<>> => UNCHANGED <<lock, todo>>
          /\ rest # <<>> => /\ lock' = [lock EXCEPT ![t] = Head(rest)]
                            /\ todo' = [todo EXCEPT ![t] = Tail(rest)]
    BY <1>17 DEF Locked
  <2>h. rest # <<>> => Head(rest) \in Locks /\ Tail(rest) \in Seq(Locks)
    OBVIOUS
  <2>a. list_add(locked[t], lock[t]) \in Seq(Locks)
    <3>1. locked[t] \in Seq(Locks) /\ <<lock[t]>> \in Seq(Locks)
      BY <2>l
    <3> QED BY <3>1 DEF list_add, Cons
  <2>1. pc' \in [Tasks -> PC]
    BY <1>17, ZenonT(60) DEF Locked, PC, Got
  <2>2. locked' \in [Tasks -> Seq(Locks)]
    BY <1>17, <2>a DEF Locked
  <2>3. contended' \in [Tasks -> Locks \cup {NULL}]
    BY <1>17 DEF Locked
  <2>4. lock' \in [Tasks -> Locks \cup {NULL}]
    <3>1. CASE rest = <<>>
      BY <2>r, <3>1
    <3>2. CASE rest # <<>>
      <4>1. PICK x \in Locks \cup {NULL} : lock' = [lock EXCEPT ![t] = x]
        BY <2>r, <2>h, <3>2
      <4> QED BY <4>1
    <3> QED BY <3>1, <3>2
  <2>5. todo' \in [Tasks -> Seq(Locks)]
    <3>1. CASE rest = <<>>
      BY <2>r, <3>1
    <3>2. CASE rest # <<>>
      <4>1. PICK x \in Seq(Locks) : todo' = [todo EXCEPT ![t] = x]
        BY <2>r, <2>h, <3>2
      <4> QED BY <4>1
    <3> QED BY <3>1, <3>2
  <2> QED BY <1>17, <2>1, <2>2, <2>3, <2>4, <2>5 DEF Locked
<1>18. CASE Unlocked(t)
  <2>1. pc' \in [Tasks -> PC]
    BY <1>18, ZenonT(60) DEF Unlocked, PC, Got
  <2>2. lock' \in [Tasks -> Locks \cup {NULL}]
    BY <1>18, ZenonT(60) DEF Unlocked
  <2>3. plan' \in [Tasks -> Seq(Locks)]
    BY <1>18, ZenonT(60) DEF Unlocked
  <2>4. todo' \in [Tasks -> Seq(Locks)]
    BY <1>18 DEF Unlocked
  <2> QED BY <1>18, <2>1, <2>2, <2>3, <2>4 DEF Unlocked
<1>19. CASE ww_mutex_unlock(t)
  <2>h. Head(locked[t]) \in Locks /\ Tail(locked[t]) \in Seq(Locks)
    <3>1. locked[t] \in Seq(Locks) /\ locked[t] # <<>>
      BY <1>19 DEF ww_mutex_unlock
    <3> QED BY <3>1
  <2>1. pc' \in [Tasks -> PC]
    BY <1>19 DEF ww_mutex_unlock, PC, Got
  <2>2. lock' \in [Tasks -> Locks \cup {NULL}]
    BY <1>19, <2>h DEF ww_mutex_unlock
  <2>3. locked' \in [Tasks -> Seq(Locks)]
    BY <1>19, <2>h DEF ww_mutex_unlock
  <2>4. acquired' \in [Tasks -> Int]
    BY <1>19, <2>h, SMTT(60) DEF ww_mutex_unlock
  <2>5. ctx' \in [Locks -> Tasks \cup {NULL}]
    BY <1>19, <2>h DEF ww_mutex_unlock
  <2> QED BY <1>19, <2>1, <2>2, <2>3, <2>4, <2>5 DEF ww_mutex_unlock
<1>20. CASE UnlockCount(t)
  <2>1. pc' \in [Tasks -> PC]
    BY <1>20 DEF UnlockCount, PC, Got
  <2>2. count' \in [Locks -> Int]
    BY <1>20 DEF UnlockCount
  <2> QED BY <1>20, <2>1, <2>2 DEF UnlockCount
<1>21. CASE UnlockSlow(t)
  <2>1. pc' \in [Tasks -> PC]
    BY <1>21 DEF UnlockSlow, PC, Got
  <2>2. count' \in [Locks -> Int]
    BY <1>21 DEF UnlockSlow
  <2> QED BY <1>21, <2>1, <2>2 DEF UnlockSlow
<1>22. CASE Wake(t)
  <2>1. pc' \in [Tasks -> PC]
    BY <1>22 DEF Wake, Woken, PC, Got
  <2> QED BY <1>22, <2>1 DEF Wake, Woken
<1>23. CASE Signal(t)
  <2>1. pc' \in [Tasks -> PC]
    BY <1>23 DEF Signal, Woken, PC, Got
  <2> QED BY <1>23, <2>1 DEF Signal, Woken
<1> QED
  BY <1>1, <1>2, <1>3, <1>4, <1>5, <1>6, <1>7, <1>8, <1>9, <1>10, <1>11,
     <1>12, <1>13, <1>14, <1>15, <1>16, <1>17, <1>18, <1>19, <1>20, <1>21,
     <1>22, <1>23 DEF TaskStep, Step

(* The steps of others do not change what locks a task has. *)
Others(t) ==
  \A u \in Tasks \ {t} :
    /\ \A l \in Locks : Has(u, l)' <=> Has(u, l)
    /\ lock'[u] = lock[u]
    /\ pc'[u] \in NoCtxPC <=> pc[u] \in NoCtxPC

(* What a step of task t can do to the locks it has: nothing, and a count  *)
(* that is not 1 does not become 1, ...                                    *)
Keeps(t) ==
  /\ \A l \in Locks : Has(t, l)' <=> Has(t, l)
  /\ \A l \in Locks : count'[l] = count[l] \/ (count[l] # 1 /\ count'[l] <= 0)

(* ... it takes its lock, whose count was 1, ... *)
Takes(t) ==
  /\ lock[t] \in Locks /\ count[lock[t]] = 1 /\ count'[lock[t]] <= 0
  /\ \A l \in Locks : Has(t, l)' <=> Has(t, l) \/ l = lock[t]
  /\ \A l \in Locks \ {lock[t]} : count'[l] = count[l]

(* ... or it gives its lock back, past the clearing of ctx. *)
Gives(t) ==
  /\ lock[t] \in Locks /\ Has(t, lock[t]) /\ count'[lock[t]] = 1
  /\ pc[t] \in NoCtxPC
  /\ \A l \in Locks : Has(t, l)' <=> Has(t, l) /\ l # lock[t]
  /\ \A l \in Locks \ {lock[t]} : count'[l] = count[l]

(* A task's list of locks stays what it has locked. *)
LEMMA ListsStep ==
  ASSUME TypeOK, ListsRight, NEW t \in Tasks, TaskStep(t)
  PROVE  ListsRight'
<1> USE DEF TypeOK, ListsRight, Goto, Got, mutex, context, caller
<1>1. ASSUME NEW p \in Plans[t], ww_acquire_init(t, p)
      PROVE  ListsRight'
  BY <1>1 DEF ww_acquire_init
<1>2. CASE ww_mutex_lock(t)
  BY <1>2 DEF ww_mutex_lock
<1>3. CASE ww_mutex_trylock(t)
  BY <1>3 DEF ww_mutex_trylock
<1>4. CASE SetCtx(t)
  BY <1>4 DEF SetCtx
<1>5. CASE ReadCount(t)
  BY <1>5 DEF ReadCount
<1>6. CASE WakeAll(t)
  BY <1>6 DEF WakeAll, Woken
<1>7. CASE Spin(t)
  BY <1>7 DEF Spin
<1>8. CASE TryAcquire(t)
  BY <1>8 DEF TryAcquire
<1>9. CASE SlowLock(t)
  BY <1>9 DEF SlowLock
<1>10. CASE TryXchg(t)
  BY <1>10 DEF TryXchg
<1>11. CASE Loop(t)
  BY <1>11 DEF Loop
<1>12. CASE LoopXchg(t)
  BY <1>12 DEF LoopXchg
<1>13. CASE Check(t)
  BY <1>13 DEF Check, Fail, Sleep
<1>14. CASE CheckStamp(t)
  BY <1>14 DEF CheckStamp, Fail, Sleep
<1>15. CASE RemoveWaiter(t)
  BY <1>15 DEF RemoveWaiter, SetCtxSlow, Woken
<1>16. CASE SkipWait(t)
  BY <1>16, SMTT(60) DEF SkipWait, SetCtxSlow, Woken
<1>17. CASE Locked(t)
  <2>1. lock[t] \in Locks /\ locked[t] \in Seq(Locks) /\ NoDuplicates(locked[t])
    BY <1>17 DEF Locked
  <2>2. locked' = [locked EXCEPT ![t] = IF Contains(@, lock[t]) THEN @ ELSE list_add(@, lock[t])]
    BY <1>17 DEF Locked
  <2>3. NoDuplicates(locked'[t])
    <3>1. CASE Contains(locked[t], lock[t])
      BY <2>1, <2>2, <3>1
    <3>2. CASE ~Contains(locked[t], lock[t])
      <4>1. lock[t] \notin ToSet(locked[t])
        BY <2>1, <3>2, ContainsToSet
      <4>2. NoDuplicates(list_add(locked[t], lock[t]))
        BY <2>1, <4>1, ListAdd
      <4> QED BY <2>1, <2>2, <3>2, <4>2
    <3> QED BY <3>1, <3>2
  <2>4. \/ pc' = [pc EXCEPT ![t] = "unlock"] /\ lock' = lock
        \/ pc' = [pc EXCEPT ![t] = "lock"]
    BY <1>17 DEF Locked
  <2>5. pc'[t] # "idle" /\ pc'[t] \notin {"unlock_count", "unlock_slow"}
    BY <2>4
  <2>6. lock'[t] \in Locks
    <3>1. plan[t] \in Seq(Locks) /\ todo[t] \in Seq(Locks)
      OBVIOUS
    <3>2. PICK rest \in Seq(Locks) :
            /\ rest = <<>> => UNCHANGED lock
            /\ rest # <<>> => lock' = [lock EXCEPT ![t] = Head(rest)]
      BY <1>17, <3>1 DEF Locked
    <3>3. rest # <<>> => Head(rest) \in Locks
      OBVIOUS
    <3> QED BY <2>1, <3>2, <3>3
  <2>7. ASSUME NEW u \in Tasks \ {t}
        PROVE  pc'[u] = pc[u] /\ lock'[u] = lock[u] /\ locked'[u] = locked[u]
    BY <1>17 DEF Locked
  <2> QED BY <2>3, <2>5, <2>6, <2>7
<1>18. CASE Unlocked(t)
  <2>1. CASE contended[t] # NULL
    BY <1>18, <2>1, ZenonT(60) DEF Unlocked
  <2>2. CASE contended[t] = NULL
    <3>1. /\ pc'[t] = "idle" /\ locked'[t] = <<>>
          /\ \A u \in Tasks \ {t} : pc'[u] = pc[u] /\ lock'[u] = lock[u] /\ locked'[u] = locked[u]
      BY <1>18, <2>2 DEF Unlocked
    <3> QED BY <3>1, EmptyList
  <2> QED BY <2>1, <2>2
<1>19. CASE ww_mutex_unlock(t)
  <2>1. locked[t] \in Seq(Locks) /\ NoDuplicates(locked[t]) /\ locked[t] # <<>>
    BY <1>19 DEF ww_mutex_unlock
  <2>2. /\ Head(locked[t]) \in Locks
        /\ ToSet(Tail(locked[t])) = ToSet(locked[t]) \ {Head(locked[t])}
        /\ NoDuplicates(Tail(locked[t]))
    BY <2>1, ListTail
  <2>3. /\ lock' = [lock EXCEPT ![t] = Head(locked[t])]
        /\ locked' = [locked EXCEPT ![t] = Tail(locked[t])]
        /\ pc' = [pc EXCEPT ![t] = "unlock_count"]
    BY <1>19 DEF ww_mutex_unlock
  <2>4. /\ lock'[t] = Head(locked[t]) /\ locked'[t] = Tail(locked[t])
        /\ pc'[t] = "unlock_count"
        /\ \A u \in Tasks \ {t} : pc'[u] = pc[u] /\ lock'[u] = lock[u] /\ locked'[u] = locked[u]
    BY <2>3
  <2> QED BY <2>2, <2>4
<1>20. CASE UnlockCount(t)
  BY <1>20 DEF UnlockCount
<1>21. CASE UnlockSlow(t)
  BY <1>21 DEF UnlockSlow
<1>22. CASE Wake(t)
  BY <1>22 DEF Wake, Woken
<1>23. CASE Signal(t)
  BY <1>23 DEF Signal, Woken
<1> QED
  BY <1>1, <1>2, <1>3, <1>4, <1>5, <1>6, <1>7, <1>8, <1>9, <1>10, <1>11,
     <1>12, <1>13, <1>14, <1>15, <1>16, <1>17, <1>18, <1>19, <1>20, <1>21,
     <1>22, <1>23 DEF TaskStep, Step

(* Every step is one of these kinds. *)
LEMMA HoldStep ==
  ASSUME TypeOK, ListsRight, Exclusion, CtxHolds, NEW t \in Tasks, TaskStep(t)
  PROVE  Others(t) /\ (Keeps(t) \/ Takes(t) \/ Gives(t))
<1> USE DEF TypeOK, ListsRight, Goto, Got, mutex, context, caller
<1>1. ASSUME NEW p \in Plans[t], ww_acquire_init(t, p)
      PROVE  Others(t) /\ (Keeps(t) \/ Takes(t) \/ Gives(t))
  <2>1. Others(t)
    BY <1>1 DEF ww_acquire_init, Others, Has, HoldPC, NoCtxPC
  <2>2. Keeps(t)
    BY <1>1 DEF ww_acquire_init, Keeps, Has, HoldPC, NoCtxPC
  <2> QED BY <2>1, <2>2
<1>2. CASE ww_mutex_lock(t)
  <2>1. Others(t)
    BY <1>2 DEF ww_mutex_lock, Others, Has, HoldPC, NoCtxPC
  <2>2. CASE count[lock[t]] = 1
    BY <1>2, <2>1, <2>2 DEF ww_mutex_lock, Keeps, Takes, Has, HoldPC, NoCtxPC
  <2>3. CASE count[lock[t]] # 1
    BY <1>2, <2>1, <2>3 DEF ww_mutex_lock, Keeps, Has, HoldPC, NoCtxPC, Exclusion
  <2> QED BY <2>2, <2>3
<1>3. CASE ww_mutex_trylock(t)
  <2>1. Others(t)
    BY <1>3 DEF ww_mutex_trylock, Others, Has, HoldPC, NoCtxPC
  <2>2. CASE count[lock[t]] = 1
    BY <1>3, <2>1, <2>2 DEF ww_mutex_trylock, Keeps, Takes, Has, HoldPC, NoCtxPC
  <2>3. CASE count[lock[t]] # 1
    BY <1>3, <2>1, <2>3 DEF ww_mutex_trylock, Keeps, Has, HoldPC, NoCtxPC, Exclusion
  <2> QED BY <2>2, <2>3
<1>4. CASE SetCtx(t)
  <2>1. Others(t)
    BY <1>4 DEF SetCtx, Others, Has, HoldPC, NoCtxPC
  <2>2. Keeps(t)
    BY <1>4 DEF SetCtx, Keeps, Has, HoldPC, NoCtxPC
  <2> QED BY <2>1, <2>2
<1>5. CASE ReadCount(t)
  <2>1. Others(t)
    BY <1>5 DEF ReadCount, Others, Has, HoldPC, NoCtxPC
  <2>2. Keeps(t)
    BY <1>5 DEF ReadCount, Keeps, Has, HoldPC, NoCtxPC
  <2> QED BY <2>1, <2>2
<1>6. CASE WakeAll(t)
  <2>1. Others(t)
    BY <1>6 DEF WakeAll, Woken, Others, Has, HoldPC, NoCtxPC
  <2>2. Keeps(t)
    BY <1>6 DEF WakeAll, Woken, Keeps, Has, HoldPC, NoCtxPC
  <2> QED BY <2>1, <2>2
<1>7. CASE Spin(t)
  <2>1. Others(t)
    BY <1>7 DEF Spin, Others, Has, HoldPC, NoCtxPC
  <2>2. Keeps(t)
    BY <1>7 DEF Spin, Keeps, Has, HoldPC, NoCtxPC
  <2> QED BY <2>1, <2>2
<1>8. CASE TryAcquire(t)
  <2>1. Others(t)
    BY <1>8 DEF TryAcquire, Others, Has, HoldPC, NoCtxPC
  <2>2. CASE count[lock[t]] = 1
    BY <1>8, <2>1, <2>2 DEF TryAcquire, Keeps, Takes, Has, HoldPC, NoCtxPC
  <2>3. CASE count[lock[t]] # 1
    BY <1>8, <2>1, <2>3 DEF TryAcquire, Keeps, Has, HoldPC, NoCtxPC, Exclusion
  <2> QED BY <2>2, <2>3
<1>9. CASE SlowLock(t)
  <2>1. Others(t)
    BY <1>9 DEF SlowLock, Others, Has, HoldPC, NoCtxPC
  <2>2. Keeps(t)
    BY <1>9 DEF SlowLock, Keeps, Has, HoldPC, NoCtxPC
  <2> QED BY <2>1, <2>2
<1>10. CASE TryXchg(t)
  <2>1. Others(t)
    BY <1>10 DEF TryXchg, Others, Has, HoldPC, NoCtxPC
  <2>2. CASE count[lock[t]] = 1
    BY <1>10, <2>1, <2>2 DEF TryXchg, Keeps, Takes, Has, HoldPC, NoCtxPC
  <2>3. CASE count[lock[t]] # 1
    BY <1>10, <2>1, <2>3 DEF TryXchg, Keeps, Has, HoldPC, NoCtxPC, Exclusion
  <2> QED BY <2>2, <2>3
<1>11. CASE Loop(t)
  <2>1. Others(t)
    BY <1>11 DEF Loop, Others, Has, HoldPC, NoCtxPC
  <2>2. Keeps(t)
    BY <1>11 DEF Loop, Keeps, Has, HoldPC, NoCtxPC
  <2> QED BY <2>1, <2>2
<1>12. CASE LoopXchg(t)
  <2>1. Others(t)
    BY <1>12 DEF LoopXchg, Others, Has, HoldPC, NoCtxPC
  <2>2. CASE count[lock[t]] = 1
    BY <1>12, <2>1, <2>2 DEF LoopXchg, Keeps, Takes, Has, HoldPC, NoCtxPC
  <2>3. CASE count[lock[t]] # 1
    BY <1>12, <2>1, <2>3 DEF LoopXchg, Keeps, Has, HoldPC, NoCtxPC, Exclusion
  <2> QED BY <2>2, <2>3
<1>13. CASE Check(t)
  <2>1. Others(t)
    BY <1>13 DEF Check, Fail, Sleep, Others, Has, HoldPC, NoCtxPC
  <2>2. /\ pc[t] = "check" /\ count' = count /\ lock' = lock /\ locked' = locked
        /\ pc'[t] \in {"unlock", "sleep", "locked", "check_stamp"}
        /\ pc'[t] = "locked" => ctx[lock[t]] = t
    BY <1>13 DEF Check, Fail, Sleep
  <2>3. pc'[t] = "locked" => Has(t, lock[t])
    BY <2>2 DEF CtxHolds
  <2>4. Keeps(t)
    BY <2>2, <2>3 DEF Keeps, Has, HoldPC
  <2> QED BY <2>1, <2>4
<1>14. CASE CheckStamp(t)
  <2>1. Others(t)
    BY <1>14 DEF CheckStamp, Fail, Sleep, Others, Has, HoldPC, NoCtxPC
  <2>2. Keeps(t)
    BY <1>14 DEF CheckStamp, Fail, Sleep, Keeps, Has, HoldPC, NoCtxPC
  <2> QED BY <2>1, <2>2
<1>15. CASE RemoveWaiter(t)
  <2>1. Others(t)
    BY <1>15 DEF RemoveWaiter, SetCtxSlow, Woken, Others, Has, HoldPC, NoCtxPC
  <2>2. Keeps(t)
    BY <1>15 DEF RemoveWaiter, SetCtxSlow, Woken, Keeps, Has, HoldPC, NoCtxPC, Exclusion
  <2> QED BY <2>1, <2>2
<1>16. CASE SkipWait(t)
  <2>1. Others(t)
    BY <1>16 DEF SkipWait, SetCtxSlow, Woken, Others, Has, HoldPC, NoCtxPC
  <2>2. Keeps(t)
    BY <1>16 DEF SkipWait, SetCtxSlow, Woken, Keeps, Has, HoldPC, NoCtxPC
  <2> QED BY <2>1, <2>2
<1>17. CASE Locked(t)
  <2>1. lock[t] \in Locks /\ locked[t] \in Seq(Locks) /\ NoDuplicates(locked[t])
    BY <1>17 DEF Locked
  <2>2. ToSet(locked'[t]) = ToSet(locked[t]) \cup {lock[t]}
    <3>1. locked'[t] = IF Contains(locked[t], lock[t]) THEN locked[t] ELSE list_add(locked[t], lock[t])
      BY <1>17 DEF Locked
    <3>2. CASE Contains(locked[t], lock[t])
      BY <2>1, <3>1, <3>2, ContainsToSet
    <3>3. CASE ~Contains(locked[t], lock[t])
      <4>1. lock[t] \notin ToSet(locked[t])
        BY <2>1, <3>3, ContainsToSet
      <4>2. ToSet(list_add(locked[t], lock[t])) = ToSet(locked[t]) \cup {lock[t]}
        BY <2>1, <4>1, ListAdd
      <4> QED BY <3>1, <3>3, <4>2
    <3> QED BY <3>2, <3>3
  <2>3. pc[t] = "locked" /\ pc'[t] \in {"lock", "unlock"} /\ count' = count
    BY <1>17 DEF Locked
  <2>4. Keeps(t)
    BY <2>2, <2>3 DEF Keeps, Has, HoldPC
  <2>5. ASSUME NEW u \in Tasks \ {t}
        PROVE  pc'[u] = pc[u] /\ lock'[u] = lock[u] /\ locked'[u] = locked[u]
    BY <1>17 DEF Locked
  <2>6. Others(t)
    BY <2>5 DEF Others, Has
  <2> QED BY <2>4, <2>6
<1>18. CASE Unlocked(t)
  <2>1. CASE contended[t] # NULL
    BY <1>18, <2>1 DEF Unlocked, Others, Keeps, Has, HoldPC, NoCtxPC
  <2>2. CASE contended[t] = NULL
    BY <1>18, <2>2 DEF Unlocked, Others, Keeps, Has, HoldPC, NoCtxPC
  <2> QED BY <2>1, <2>2
<1>19. CASE ww_mutex_unlock(t)
  <2>1. locked[t] \in Seq(Locks) /\ NoDuplicates(locked[t]) /\ locked[t] # <<>>
    BY <1>19 DEF ww_mutex_unlock
  <2>2. /\ Head(locked[t]) \in ToSet(locked[t])
        /\ ToSet(Tail(locked[t])) = ToSet(locked[t]) \ {Head(locked[t])}
    BY <2>1, ListTail
  <2>3. /\ lock'[t] = Head(locked[t]) /\ locked'[t] = Tail(locked[t])
        /\ pc[t] = "unlock" /\ pc'[t] = "unlock_count" /\ count' = count
    BY <1>19 DEF ww_mutex_unlock
  <2>4. Keeps(t)
    BY <2>2, <2>3 DEF Keeps, Has, HoldPC
  <2>5. ASSUME NEW u \in Tasks \ {t}
        PROVE  pc'[u] = pc[u] /\ lock'[u] = lock[u] /\ locked'[u] = locked[u]
    BY <1>19 DEF ww_mutex_unlock
  <2>6. Others(t)
    BY <2>5 DEF Others, Has
  <2> QED BY <2>4, <2>6
<1>20. CASE UnlockCount(t)
  <2>1. Others(t)
    BY <1>20 DEF UnlockCount, Others, Has, HoldPC, NoCtxPC
  <2>2. CASE count[lock[t]] + 1 > 0
    <3>1. lock[t] \in Locks /\ Has(t, lock[t])
      BY <1>20 DEF UnlockCount, Has, HoldPC, NoCtxPC
    <3>2. count[lock[t]] <= 1 /\ count[lock[t]] # 1 /\ count[lock[t]] \in Int
      BY <3>1 DEF Exclusion
    <3>a. \A c \in Int : c + 1 > 0 /\ c <= 1 /\ c # 1 => c = 0
      OBVIOUS
    <3>3. count[lock[t]] = 0
      BY <2>2, <3>2, <3>a
    <3> QED BY <1>20, <2>1, <2>2, <3>1, <3>3 DEF UnlockCount, Gives, Has, HoldPC, NoCtxPC
  <2>3. CASE ~(count[lock[t]] + 1 > 0)
    BY <1>20, <2>1, <2>3 DEF UnlockCount, Keeps, Has, HoldPC, NoCtxPC
  <2> QED BY <2>2, <2>3
<1>21. CASE UnlockSlow(t)
  <2>1. Others(t)
    BY <1>21 DEF UnlockSlow, Others, Has, HoldPC, NoCtxPC
  <2>2. Gives(t)
    BY <1>21 DEF UnlockSlow, Gives, Has, HoldPC, NoCtxPC
  <2> QED BY <2>1, <2>2
<1>22. CASE Wake(t)
  <2>1. Others(t)
    BY <1>22 DEF Wake, Woken, Others, Has, HoldPC, NoCtxPC
  <2>2. Keeps(t)
    BY <1>22 DEF Wake, Woken, Keeps, Has, HoldPC, NoCtxPC
  <2> QED BY <2>1, <2>2
<1>23. CASE Signal(t)
  <2>1. Others(t)
    BY <1>23 DEF Signal, Woken, Others, Has, HoldPC, NoCtxPC
  <2>2. Keeps(t)
    BY <1>23 DEF Signal, Woken, Keeps, Has, HoldPC, NoCtxPC
  <2> QED BY <2>1, <2>2
<1> QED
  BY <1>1, <1>2, <1>3, <1>4, <1>5, <1>6, <1>7, <1>8, <1>9, <1>10, <1>11,
     <1>12, <1>13, <1>14, <1>15, <1>16, <1>17, <1>18, <1>19, <1>20, <1>21,
     <1>22, <1>23 DEF TaskStep, Step

(* One task at most has a lock, and the count tells whether one has. *)
LEMMA ExclusionStep ==
  ASSUME TypeOK, TypeOK', ListsRight, Exclusion, CtxHolds,
         NEW t \in Tasks, TaskStep(t)
  PROVE  Exclusion'
<1>1. Others(t) /\ (Keeps(t) \/ Takes(t) \/ Gives(t))
  BY HoldStep
<1> SUFFICES ASSUME NEW l \in Locks
             PROVE  /\ count'[l] <= 1
                    /\ count'[l] = 1 <=> \A u \in Tasks : ~Has(u, l)'
                    /\ \A u, v \in Tasks : Has(u, l)' /\ Has(v, l)' => u = v
  BY DEF Exclusion
<1>2. /\ count[l] \in Int /\ count'[l] \in Int /\ count[l] <= 1
      /\ count[l] = 1 <=> \A u \in Tasks : ~Has(u, l)
      /\ \A u, v \in Tasks : Has(u, l) /\ Has(v, l) => u = v
  BY DEF TypeOK, Exclusion
<1>3. \A u \in Tasks \ {t} : Has(u, l)' <=> Has(u, l)
  BY <1>1 DEF Others
<1>4. CASE Keeps(t)
  BY <1>2, <1>3, <1>4 DEF Keeps
<1>5. CASE Takes(t)
  BY <1>2, <1>3, <1>5 DEF Takes
<1>6. CASE Gives(t)
  BY <1>2, <1>3, <1>6 DEF Gives
<1> QED BY <1>1, <1>4, <1>5, <1>6

(* What a step of task t does to ctx and acquired: it leaves both alone,   *)
(* apart from the reset in ww_acquire_init(), ...                          *)
SameCtx(t) ==
  /\ ctx' = ctx
  /\ \/ acquired' = acquired
     \/ pc[t] = "idle" /\ acquired' = [acquired EXCEPT ![t] = 0]
  /\ pc'[t] \in NoCtxPC =>
       /\ lock'[t] = lock[t] /\ lock[t] \in Locks
       /\ pc[t] \in NoCtxPC \/ count[lock[t]] = 1

(* ... sets the ctx of the lock it just got, ... *)
SetsCtx(t) ==
  /\ lock[t] \in Locks /\ pc[t] \in NoCtxPC /\ pc'[t] \notin NoCtxPC
  /\ lock'[t] = lock[t] /\ Has(t, lock[t]) /\ Has(t, lock[t])'
  /\ ctx' = [ctx EXCEPT ![lock[t]] = t]
  /\ acquired' = [acquired EXCEPT ![t] = @ + 1]

(* ... or clears the ctx of one of its locks. *)
ClearsCtx(t) ==
  \E l \in Locks :
    /\ Has(t, l) /\ lock'[t] = l
    /\ ctx' = [ctx EXCEPT ![l] = NULL]
    /\ acquired' = IF ctx[l] = NULL THEN acquired
                   ELSE [acquired EXCEPT ![ctx[l]] = IF @ > 0 THEN @ - 1 ELSE @]

(* Every step is one of these kinds. *)
LEMMA CtxKinds ==
  ASSUME TypeOK, ListsRight, NEW t \in Tasks, TaskStep(t)
  PROVE  SameCtx(t) \/ SetsCtx(t) \/ ClearsCtx(t)
<1> USE DEF TypeOK, ListsRight, Goto, Got, mutex, context, caller
<1>1. ASSUME NEW p \in Plans[t], ww_acquire_init(t, p)
      PROVE  SameCtx(t) \/ SetsCtx(t) \/ ClearsCtx(t)
  <2>1. ctx' = ctx
    BY <1>1 DEF ww_acquire_init
  <2>2. \/ acquired' = acquired
        \/ pc[t] = "idle" /\ acquired' = [acquired EXCEPT ![t] = 0]
    BY <1>1 DEF ww_acquire_init
  <2>3. pc'[t] \in NoCtxPC =>
          /\ lock'[t] = lock[t] /\ lock[t] \in Locks
          /\ pc[t] \in NoCtxPC \/ count[lock[t]] = 1
    BY <1>1 DEF ww_acquire_init, NoCtxPC
  <2> QED BY <2>1, <2>2, <2>3 DEF SameCtx
<1>2. CASE ww_mutex_lock(t)
  <2>1. ctx' = ctx
    BY <1>2 DEF ww_mutex_lock
  <2>2. \/ acquired' = acquired
        \/ pc[t] = "idle" /\ acquired' = [acquired EXCEPT ![t] = 0]
    BY <1>2 DEF ww_mutex_lock
  <2>3. pc'[t] \in NoCtxPC =>
          /\ lock'[t] = lock[t] /\ lock[t] \in Locks
          /\ pc[t] \in NoCtxPC \/ count[lock[t]] = 1
    BY <1>2 DEF ww_mutex_lock, NoCtxPC
  <2> QED BY <2>1, <2>2, <2>3 DEF SameCtx
<1>3. CASE ww_mutex_trylock(t)
  <2>1. ctx' = ctx
    BY <1>3 DEF ww_mutex_trylock
  <2>2. \/ acquired' = acquired
        \/ pc[t] = "idle" /\ acquired' = [acquired EXCEPT ![t] = 0]
    BY <1>3 DEF ww_mutex_trylock
  <2>3. pc'[t] \in NoCtxPC =>
          /\ lock'[t] = lock[t] /\ lock[t] \in Locks
          /\ pc[t] \in NoCtxPC \/ count[lock[t]] = 1
    BY <1>3 DEF ww_mutex_trylock, NoCtxPC
  <2> QED BY <2>1, <2>2, <2>3 DEF SameCtx
<1>4. CASE SetCtx(t)
  <2>1. SetsCtx(t)
    BY <1>4 DEF SetCtx, SetsCtx, Has, HoldPC, NoCtxPC
  <2> QED BY <2>1
<1>5. CASE ReadCount(t)
  BY <1>5 DEF ReadCount, SameCtx, NoCtxPC
<1>6. CASE WakeAll(t)
  BY <1>6 DEF WakeAll, Woken, SameCtx, NoCtxPC
<1>7. CASE Spin(t)
  BY <1>7 DEF Spin, SameCtx, NoCtxPC
<1>8. CASE TryAcquire(t)
  <2>1. ctx' = ctx
    BY <1>8 DEF TryAcquire
  <2>2. \/ acquired' = acquired
        \/ pc[t] = "idle" /\ acquired' = [acquired EXCEPT ![t] = 0]
    BY <1>8 DEF TryAcquire
  <2>3. pc'[t] \in NoCtxPC =>
          /\ lock'[t] = lock[t] /\ lock[t] \in Locks
          /\ pc[t] \in NoCtxPC \/ count[lock[t]] = 1
    BY <1>8 DEF TryAcquire, NoCtxPC
  <2> QED BY <2>1, <2>2, <2>3 DEF SameCtx
<1>9. CASE SlowLock(t)
  BY <1>9 DEF SlowLock, SameCtx, NoCtxPC
<1>10. CASE TryXchg(t)
  <2>1. ctx' = ctx
    BY <1>10 DEF TryXchg
  <2>2. \/ acquired' = acquired
        \/ pc[t] = "idle" /\ acquired' = [acquired EXCEPT ![t] = 0]
    BY <1>10 DEF TryXchg
  <2>3. pc'[t] \in NoCtxPC =>
          /\ lock'[t] = lock[t] /\ lock[t] \in Locks
          /\ pc[t] \in NoCtxPC \/ count[lock[t]] = 1
    BY <1>10 DEF TryXchg, NoCtxPC
  <2> QED BY <2>1, <2>2, <2>3 DEF SameCtx
<1>11. CASE Loop(t)
  BY <1>11 DEF Loop, SameCtx, NoCtxPC
<1>12. CASE LoopXchg(t)
  <2>1. ctx' = ctx
    BY <1>12 DEF LoopXchg
  <2>2. \/ acquired' = acquired
        \/ pc[t] = "idle" /\ acquired' = [acquired EXCEPT ![t] = 0]
    BY <1>12 DEF LoopXchg
  <2>3. pc'[t] \in NoCtxPC =>
          /\ lock'[t] = lock[t] /\ lock[t] \in Locks
          /\ pc[t] \in NoCtxPC \/ count[lock[t]] = 1
    BY <1>12 DEF LoopXchg, NoCtxPC
  <2> QED BY <2>1, <2>2, <2>3 DEF SameCtx
<1>13. CASE Check(t)
  <2>1. ctx' = ctx
    BY <1>13 DEF Check, Fail, Sleep
  <2>2. \/ acquired' = acquired
        \/ pc[t] = "idle" /\ acquired' = [acquired EXCEPT ![t] = 0]
    BY <1>13 DEF Check, Fail, Sleep
  <2>3. pc'[t] \in NoCtxPC =>
          /\ lock'[t] = lock[t] /\ lock[t] \in Locks
          /\ pc[t] \in NoCtxPC \/ count[lock[t]] = 1
    BY <1>13 DEF Check, Fail, Sleep, NoCtxPC
  <2> QED BY <2>1, <2>2, <2>3 DEF SameCtx
<1>14. CASE CheckStamp(t)
  BY <1>14 DEF CheckStamp, Fail, Sleep, SameCtx, NoCtxPC
<1>15. CASE RemoveWaiter(t)
  <2>1. CASE UseCtx(t)
    <3>1. SetsCtx(t)
      BY <1>15, <2>1, ZenonT(60) DEF RemoveWaiter, SetCtxSlow, Woken, SetsCtx, Has, HoldPC, NoCtxPC
    <3> QED BY <3>1
  <2>2. CASE ~UseCtx(t)
    <3>1. SameCtx(t)
      BY <1>15, <2>2 DEF RemoveWaiter, SetCtxSlow, Woken, SameCtx, Has, HoldPC, NoCtxPC
    <3> QED BY <3>1
  <2> QED BY <2>1, <2>2
<1>16. CASE SkipWait(t)
  <2>1. CASE UseCtx(t)
    <3>1. SetsCtx(t)
      BY <1>16, <2>1, ZenonT(60) DEF SkipWait, SetCtxSlow, Woken, SetsCtx, Has, HoldPC, NoCtxPC
    <3> QED BY <3>1
  <2>2. CASE ~UseCtx(t)
    <3>1. SameCtx(t)
      BY <1>16, <2>2 DEF SkipWait, SetCtxSlow, Woken, SameCtx, Has, HoldPC, NoCtxPC
    <3> QED BY <3>1
  <2> QED BY <2>1, <2>2
<1>17. CASE Locked(t)
  BY <1>17 DEF Locked, SameCtx, NoCtxPC
<1>18. CASE Unlocked(t)
  <2>1. ctx' = ctx
    BY <1>18 DEF Unlocked
  <2>2. \/ acquired' = acquired
        \/ pc[t] = "idle" /\ acquired' = [acquired EXCEPT ![t] = 0]
    BY <1>18 DEF Unlocked
  <2>3. pc'[t] \in NoCtxPC =>
          /\ lock'[t] = lock[t] /\ lock[t] \in Locks
          /\ pc[t] \in NoCtxPC \/ count[lock[t]] = 1
    BY <1>18, SMTT(60) DEF Unlocked, NoCtxPC
  <2> QED BY <2>1, <2>2, <2>3 DEF SameCtx
<1>19. CASE ww_mutex_unlock(t)
  <2>1. locked[t] \in Seq(Locks) /\ NoDuplicates(locked[t]) /\ locked[t] # <<>>
    BY <1>19 DEF ww_mutex_unlock
  <2>2. Head(locked[t]) \in Locks /\ Head(locked[t]) \in ToSet(locked[t])
    BY <2>1, ListTail
  <2>3. lock'[t] = Head(locked[t])
    BY <1>19 DEF ww_mutex_unlock
  <2>4. ClearsCtx(t)
    BY <1>19, <2>2, <2>3 DEF ww_mutex_unlock, ClearsCtx, Has
  <2> QED BY <2>4
<1>20. CASE UnlockCount(t)
  BY <1>20 DEF UnlockCount, SameCtx, NoCtxPC
<1>21. CASE UnlockSlow(t)
  BY <1>21 DEF UnlockSlow, SameCtx, NoCtxPC
<1>22. CASE Wake(t)
  BY <1>22 DEF Wake, Woken, SameCtx, NoCtxPC
<1>23. CASE Signal(t)
  BY <1>23 DEF Signal, Woken, SameCtx, NoCtxPC
<1> QED
  BY <1>1, <1>2, <1>3, <1>4, <1>5, <1>6, <1>7, <1>8, <1>9, <1>10, <1>11,
     <1>12, <1>13, <1>14, <1>15, <1>16, <1>17, <1>18, <1>19, <1>20, <1>21,
     <1>22, <1>23 DEF TaskStep, Step

(* Only the one that has a lock writes its ctx. *)
LEMMA CtxStep ==
  ASSUME TypeOK, TypeOK', ListsRight, Exclusion, CtxHolds, NEW t \in Tasks, TaskStep(t)
  PROVE  CtxHolds'
<1>1. Others(t) /\ (Keeps(t) \/ Takes(t) \/ Gives(t))
  BY HoldStep
<1>2. SameCtx(t) \/ SetsCtx(t) \/ ClearsCtx(t)
  BY CtxKinds
<1>3. NoCtxPC \subseteq HoldPC /\ "idle" \notin NoCtxPC
  BY DEF NoCtxPC, HoldPC
<1>4. ASSUME NEW u \in Tasks, pc[u] \in NoCtxPC
      PROVE  lock[u] \in Locks /\ Has(u, lock[u]) /\ ctx[lock[u]] = NULL
  BY <1>3, <1>4 DEF ListsRight, Has, CtxHolds
<1>5. ASSUME NEW l \in Locks, NEW u \in Tasks, ctx[l] = u
      PROVE  Has(u, l) /\ Has(u, l)'
  <2>1. Has(u, l) /\ ctx[l] # NULL
    BY <1>5 DEF CtxHolds
  <2>2. Has(u, l)'
    <3>1. CASE u # t
      BY <1>1, <2>1, <3>1 DEF Others
    <3>2. CASE u = t
      BY <1>1, <1>4, <2>1, <3>2 DEF Keeps, Takes, Gives
    <3> QED BY <3>1, <3>2
  <2> QED BY <2>1, <2>2
<1>6. ASSUME NEW l \in Locks, NEW u \in Tasks, ctx'[l] = u
      PROVE  Has(u, l)'
  <2>1. CASE SameCtx(t)
    BY <1>5, <1>6, <2>1 DEF SameCtx
  <2>2. CASE SetsCtx(t)
    <3>1. ctx'[l] = IF l = lock[t] THEN t ELSE ctx[l]
      BY <2>2 DEF SetsCtx, TypeOK
    <3>2. CASE l = lock[t]
      BY <1>6, <2>2, <3>1, <3>2 DEF SetsCtx
    <3>3. CASE l # lock[t]
      BY <1>5, <1>6, <3>1, <3>3
    <3> QED BY <3>2, <3>3
  <2>3. CASE ClearsCtx(t)
    <3>1. ctx'[l] = ctx[l]
      BY <1>6, <2>3 DEF ClearsCtx, TypeOK
    <3> QED BY <1>5, <1>6, <3>1
  <2> QED BY <1>2, <2>1, <2>2, <2>3
<1>7. ASSUME NEW u \in Tasks, pc'[u] \in NoCtxPC, u # t
      PROVE  ctx'[lock'[u]] = NULL
  <2>1. lock'[u] = lock[u] /\ pc[u] \in NoCtxPC
    BY <1>1, <1>7 DEF Others
  <2>2. lock[u] \in Locks /\ Has(u, lock[u]) /\ ctx[lock[u]] = NULL
    BY <1>4, <2>1
  <2>3. CASE SameCtx(t)
    BY <2>1, <2>2, <2>3 DEF SameCtx
  <2>4. CASE SetsCtx(t)
    <3>1. lock[u] # lock[t]
      BY <1>7, <2>2, <2>4 DEF SetsCtx, Exclusion
    <3> QED BY <2>1, <2>2, <2>4, <3>1 DEF SetsCtx, TypeOK
  <2>5. CASE ClearsCtx(t)
    BY <2>1, <2>2, <2>5 DEF ClearsCtx, TypeOK
  <2> QED BY <1>2, <2>3, <2>4, <2>5
<1>8. ASSUME pc'[t] \in NoCtxPC
      PROVE  ctx'[lock'[t]] = NULL
  <2>1. CASE SameCtx(t)
    <3>1. CASE pc[t] \in NoCtxPC
      BY <1>4, <1>8, <2>1, <3>1 DEF SameCtx
    <3>2. CASE pc[t] \notin NoCtxPC
      <4>1. lock'[t] = lock[t] /\ lock[t] \in Locks /\ count[lock[t]] = 1 /\ ctx' = ctx
        BY <1>8, <2>1, <3>2 DEF SameCtx
      <4>2. \A u \in Tasks : ~Has(u, lock[t])
        BY <4>1 DEF Exclusion
      <4>3. ctx[lock[t]] \in Tasks \cup {NULL}
        BY <4>1 DEF TypeOK
      <4> QED BY <1>5, <4>1, <4>2, <4>3
    <3> QED BY <3>1, <3>2
  <2>2. CASE SetsCtx(t)
    BY <1>8, <2>2 DEF SetsCtx
  <2>3. CASE ClearsCtx(t)
    BY <2>3 DEF ClearsCtx, TypeOK
  <2> QED BY <1>2, <2>1, <2>2, <2>3
<1>9. ASSUME NEW l \in Locks, ctx'[l] # NULL
      PROVE  Has(ctx[l], l)'
  <2>1. PICK u \in Tasks : ctx'[l] = u
    BY <1>9 DEF TypeOK
  <2> QED BY <1>6, <2>1
<1> QED BY <1>7, <1>8, <1>9 DEF CtxHolds

(* A context counts finitely many locks. *)
LEMMA CountedFinite == \A t : IsFiniteSet(Counted(t)) /\ Cardinality(Counted(t)) \in Nat
<1> TAKE t
<1>1. Counted(t) \subseteq Locks
  BY DEF Counted
<1> QED BY <1>1, FS_Subset, FS_CardinalityType

(* The number of a task's locks changes with their ctx. *)
LEMMA AcquiredStep ==
  ASSUME TypeOK, ListsRight, Exclusion, CtxHolds, AcquiredCounts, NEW t \in Tasks, TaskStep(t)
  PROVE  AcquiredCounts'
<1>1. SameCtx(t) \/ SetsCtx(t) \/ ClearsCtx(t)
  BY CtxKinds
<1> SUFFICES ASSUME NEW u \in Tasks PROVE acquired'[u] = Cardinality(Counted(u)')
  BY DEF AcquiredCounts
<1>2. acquired[u] = Cardinality(Counted(u)) /\ acquired \in [Tasks -> Int]
  BY DEF AcquiredCounts, TypeOK
<1>3. IsFiniteSet(Counted(u)) /\ Cardinality(Counted(u)) \in Nat
  BY CountedFinite
<1>4. CASE SameCtx(t)
  <2>1. Counted(u)' = Counted(u)
    BY <1>4 DEF SameCtx, Counted
  <2>2. CASE pc[t] = "idle" /\ acquired' = [acquired EXCEPT ![t] = 0] /\ u = t
    <3>1. locked[t] = <<>> /\ pc[t] \notin HoldPC
      BY <2>2 DEF ListsRight, HoldPC
    <3>2. \A l \in Locks : ~Has(t, l)
      BY <3>1, EmptyList DEF Has
    <3>3. Counted(t) = {}
      BY <3>2 DEF Counted, CtxHolds
    <3> QED BY <1>2, <2>1, <2>2, <3>3, FS_EmptySet
  <2>3. CASE ~(pc[t] = "idle" /\ acquired' = [acquired EXCEPT ![t] = 0] /\ u = t)
    <3>1. acquired'[u] = acquired[u]
      BY <1>2, <1>4, <2>3 DEF SameCtx
    <3> QED BY <1>2, <2>1, <3>1
  <2> QED BY <2>2, <2>3
<1>5. CASE SetsCtx(t)
  <2>1. lock[t] \in Locks /\ ctx[lock[t]] = NULL
    BY <1>5 DEF SetsCtx, CtxHolds
  <2>2. CASE u = t
    <3>1. Counted(t)' = Counted(t) \cup {lock[t]} /\ lock[t] \notin Counted(t)
      BY <1>5, <2>1 DEF SetsCtx, Counted, TypeOK
    <3>2. Cardinality(Counted(t)') = Cardinality(Counted(t)) + 1
      BY <1>3, <2>2, <3>1, FS_AddElement
    <3>3. acquired'[t] = acquired[t] + 1
      BY <1>2, <1>5 DEF SetsCtx
    <3> QED BY <1>2, <2>2, <3>2, <3>3
  <2>3. CASE u # t
    <3>1. Counted(u)' = Counted(u)
      BY <1>5, <2>1, <2>3 DEF SetsCtx, Counted, TypeOK
    <3>2. acquired'[u] = acquired[u]
      BY <1>2, <1>5, <2>3 DEF SetsCtx
    <3> QED BY <1>2, <3>1, <3>2
  <2> QED BY <2>2, <2>3
<1>6. CASE ClearsCtx(t)
  <2>1. PICK l \in Locks :
          /\ ctx' = [ctx EXCEPT ![l] = NULL]
          /\ acquired' = IF ctx[l] = NULL THEN acquired
                         ELSE [acquired EXCEPT ![ctx[l]] = IF @ > 0 THEN @ - 1 ELSE @]
    BY <1>6 DEF ClearsCtx
  <2>2. CASE ctx[l] = u
    <3>1. Counted(u)' = Counted(u) \ {l} /\ l \in Counted(u)
      BY <2>1, <2>2 DEF Counted, TypeOK
    <3>2. Cardinality(Counted(u)') = Cardinality(Counted(u)) - 1
      BY <1>3, <3>1, FS_RemoveElement
    <3>3. Cardinality(Counted(u)) # 0
      BY <1>3, <3>1, FS_EmptySet
    <3>4. acquired'[u] = IF acquired[u] > 0 THEN acquired[u] - 1 ELSE acquired[u]
      BY <1>2, <2>1, <2>2
    <3> QED BY <1>2, <1>3, <3>2, <3>3, <3>4
  <2>3. CASE ctx[l] # u
    <3>1. Counted(u)' = Counted(u)
      BY <2>1, <2>3 DEF Counted, TypeOK
    <3>2. acquired'[u] = acquired[u]
      BY <1>2, <2>1, <2>3
    <3> QED BY <1>2, <3>1, <3>2
  <2> QED BY <2>2, <2>3
<1> QED BY <1>1, <1>4, <1>5, <1>6

(* The invariant holds at first and every step keeps it. *)
LEMMA Inductive ==
  /\ Init => IInv
  /\ IInv /\ [Next]_vars => IInv'
<1>1. Init => IInv
  <2> SUFFICES ASSUME Init PROVE IInv
    OBVIOUS
  <2>1. TypeOK
    BY EmptyList DEF Init, TypeOK, PC
  <2>2. ListsRight
    BY EmptyList DEF Init, ListsRight
  <2>3. \A t \in Tasks, l \in Locks : ~Has(t, l)
    BY EmptyList DEF Init, Has, HoldPC
  <2>4. Exclusion
    BY <2>3 DEF Init, Exclusion
  <2>5. CtxHolds
    BY DEF Init, CtxHolds, NoCtxPC
  <2>6. AcquiredCounts
    <3>1. ASSUME NEW t \in Tasks PROVE Counted(t) = {}
      BY DEF Init, Counted
    <3> QED BY <3>1, FS_EmptySet DEF Init, AcquiredCounts
  <2> QED BY <2>1, <2>2, <2>4, <2>5, <2>6 DEF IInv
<1>2. ASSUME IInv, Next PROVE IInv'
  <2>1. PICK t \in Tasks : TaskStep(t)
    BY <1>2 DEF Next, TaskStep
  <2>2. TypeOK'
    BY <1>2, <2>1, TypeStep DEF IInv
  <2> QED BY <1>2, <2>1, <2>2, ListsStep, ExclusionStep, CtxStep, AcquiredStep DEF IInv
<1>3. ASSUME IInv, UNCHANGED vars PROVE IInv'
  BY <1>3 DEF IInv, vars, mutex, context, caller, TypeOK, ListsRight, Exclusion, CtxHolds,
              AcquiredCounts, Counted, Has
<1> QED BY <1>1, <1>2, <1>3

(* ContextsRight is a part of the invariant, said with Holders. *)
LEMMA InvImplies == IInv => ContextsRight
<1> SUFFICES ASSUME IInv PROVE ContextsRight
  OBVIOUS
<1>1. ASSUME NEW l \in Locks PROVE Holders(l) = {t \in Tasks : Has(t, l)}
  <2>1. \A t \in Tasks : Contains(locked[t], l) <=> l \in ToSet(locked[t])
    BY ContainsToSet DEF IInv, TypeOK
  <2> QED BY <2>1 DEF Holders, Has, HoldPC
<1>2. \A l \in Locks : \A t, u \in Holders(l) : t = u
  BY <1>1 DEF IInv, Exclusion
<1>3. \A l \in Locks : ctx[l] # NULL => ctx[l] \in Holders(l)
  BY <1>1 DEF IInv, TypeOK, CtxHolds
<1>4. \A t \in Tasks : acquired[t] = Cardinality({l \in Locks : ctx[l] = t})
  BY DEF IInv, AcquiredCounts, Counted
<1> QED BY <1>2, <1>3, <1>4 DEF ContextsRight

----------------------------------------------------------------------------

(* One task at most has a ww_mutex, lock->ctx names no other, and          *)
(* ctx->acquired is the number of locks that name the context, whatever    *)
(* fast paths, slow paths, spinning, back-offs and signals come together.  *)
THEOREM ContextsCorrect == Spec => []ContextsRight
<1>1. Spec => []IInv
  BY Inductive, PTL DEF Spec
<1> QED BY <1>1, InvImplies, PTL

----------------------------------------------------------------------------
(* Stamps.  A context is younger than another when fewer stamps have been  *)
(* given since its own, modulo the range of a stamp.                       *)

Since(c, a) == (c - a) % (ULONG_MAX + 1)

Contexts == {t \in Tasks : UseCtx(t) /\ pc[t] # "idle"}

(* Less than half the range was given out while a context exists: what the *)
(* comparison of __ww_mutex_lock_check_stamp() takes for granted.          *)
StampsClose == \A t \in Contexts : Since(class_stamp, stamp[t]) <= LONG_MAX

(* The odd ULONG_MAX is twice LONG_MAX, and one. *)
LEMMA Halves == LONG_MAX \in Nat /\ ULONG_MAX \in Nat /\ ULONG_MAX = 2 * LONG_MAX + 1
BY StampAssumption DEF LONG_MAX

(* The distance of two stamps, without the modulus *)
LEMMA SinceIs ==
  ASSUME NEW a \in 0..ULONG_MAX, NEW c \in 0..ULONG_MAX
  PROVE  Since(c, a) = IF c >= a THEN c - a ELSE c - a + (ULONG_MAX + 1)
<1> DEFINE M == ULONG_MAX + 1
<1>1. M \in Nat /\ M > 0
  BY Halves
<1>2. CASE c >= a
  <2>1. c - a \in 0..(M - 1)
    BY <1>2, Halves
  <2> HIDE DEF M
  <2>2. (c - a) % M = c - a
    BY <1>1, <2>1
  <2> QED BY <1>2, <2>2 DEF Since, M
<1>3. CASE c < a
  <2>1. c - a \in (-M)..(-1)
    BY <1>3, Halves
  <2> HIDE DEF M
  <2>2. (c - a) % M = c - a + M
    BY <1>1, <2>1
  <2>3. ~(c >= a)
    BY <1>3, Halves
  <2> QED BY <2>2, <2>3 DEF Since, M
<1> QED BY <1>2, <1>3, Halves

(* A distance is a number. *)
LEMMA SinceNat ==
  ASSUME NEW a \in 0..ULONG_MAX, NEW c \in 0..ULONG_MAX
  PROVE  Since(c, a) \in Nat
<1>1. a \in Nat /\ c \in Nat /\ a <= ULONG_MAX
  BY Halves
<1> QED BY <1>1, SinceIs, Halves

(* The next stamp, and the distance from it to an earlier one *)
LEMMA NextStamp ==
  ASSUME NEW c \in 0..ULONG_MAX
  PROVE  LET d == (c + 1) % (ULONG_MAX + 1)
         IN  /\ d \in 0..ULONG_MAX
             /\ Since(d, d) = 0
             /\ \A a \in 0..ULONG_MAX : Since(c, a) <= LONG_MAX => Since(d, a) = Since(c, a) + 1
<1> DEFINE M == ULONG_MAX + 1
           d == (c + 1) % M
<1>1. M \in Nat /\ M > 0
  BY Halves
<1>2. d = IF c = ULONG_MAX THEN 0 ELSE c + 1
  <2>1. CASE c = ULONG_MAX
    <3>1. M % M = 0
      <4> HIDE DEF M
      <4> QED BY <1>1
    <3> QED BY <2>1, <3>1
  <2>2. CASE c # ULONG_MAX
    <3>1. c + 1 \in 0..(M - 1)
      BY <2>2, Halves
    <3> HIDE DEF M
    <3>2. (c + 1) % M = c + 1
      BY <1>1, <3>1
    <3> QED BY <2>2, <3>2
  <2> QED BY <2>1, <2>2
<1> HIDE DEF d
<1>3. d \in 0..ULONG_MAX
  BY <1>2, Halves
<1>4. Since(d, d) = 0
  BY <1>3, SinceIs, Halves
<1>5. ASSUME NEW a \in 0..ULONG_MAX, Since(c, a) <= LONG_MAX PROVE Since(d, a) = Since(c, a) + 1
  <2>1. /\ Since(c, a) = IF c >= a THEN c - a ELSE c - a + (ULONG_MAX + 1)
        /\ Since(d, a) = IF d >= a THEN d - a ELSE d - a + (ULONG_MAX + 1)
    BY <1>3, SinceIs
  <2> QED BY <1>2, <1>5, <2>1, Halves
<1> QED BY <1>3, <1>4, <1>5 DEF d

(* The comparison of the code tells who came later. *)
LEMMA YoungerIs ==
  ASSUME NEW a \in 0..ULONG_MAX, NEW b \in 0..ULONG_MAX, NEW c \in 0..ULONG_MAX,
         Since(c, a) <= LONG_MAX, Since(c, b) <= LONG_MAX
  PROVE  Younger(a, b) <=> Since(c, a) < Since(c, b)
<1>1. /\ Since(c, a) = IF c >= a THEN c - a ELSE c - a + (ULONG_MAX + 1)
      /\ Since(c, b) = IF c >= b THEN c - b ELSE c - b + (ULONG_MAX + 1)
      /\ Since(a, b) = IF a >= b THEN a - b ELSE a - b + (ULONG_MAX + 1)
  BY SinceIs
<1>2. Younger(a, b) <=> a # b /\ Since(a, b) <= LONG_MAX
  BY DEF Younger, Since
<1> QED BY <1>1, <1>2, Halves

----------------------------------------------------------------------------
(* Who has a context, and since when *)

(* A lock's ctx, and a task about to set it, use contexts. *)
CtxUsed ==
  /\ \A l \in Locks : ctx[l] # NULL => UseCtx(ctx[l])
  /\ \A t \in Tasks : pc[t] = "set_ctx" => UseCtx(t)

(* The context a waiter is comparing itself with is another one. *)
HoldCtxAt(t) ==
  pc[t] = "check_stamp" => UseCtx(t) /\ hold_ctx[t] \in (Contexts \ {t}) \cup {Gone}

StampTypes ==
  /\ class_stamp \in 0..ULONG_MAX /\ stamp \in [Tasks -> 0..ULONG_MAX]
  /\ hold_ctx \in [Tasks -> Tasks \cup {NULL, Gone}] /\ calls \in Nat

(* age lists the contexts, and the stamps tell their order. *)
AgeRight ==
  /\ age \in Seq(Tasks) /\ NoDuplicates(age) /\ ToSet(age) = Contexts
  /\ \A i, j \in 1..Len(age) : i < j =>
       Since(class_stamp, stamp[age[i]]) > Since(class_stamp, stamp[age[j]])

AgeInv == StampTypes /\ CtxUsed /\ AgeRight /\ \A t \in Tasks : HoldCtxAt(t)

(* A step of t begins a plan, ends one, or goes on with it. *)
Begins(t) ==
  /\ pc[t] = "idle" /\ pc' = [pc EXCEPT ![t] = "lock"]
  /\ calls < MaxCalls /\ calls' = calls + 1
  /\ IF UseCtx(t)
     THEN /\ class_stamp' = (class_stamp + 1) % (ULONG_MAX + 1)
          /\ stamp' = [stamp EXCEPT ![t] = class_stamp']
          /\ age' = Append(age, t)
     ELSE UNCHANGED <<class_stamp, stamp, age>>
  /\ UNCHANGED <<ctx, hold_ctx, contended>>

Ends(t) ==
  /\ pc[t] = "unlock" /\ pc' = [pc EXCEPT ![t] = "idle"]
  /\ age' = IF UseCtx(t) THEN list_del(age, t) ELSE age
  /\ hold_ctx' = [u \in Tasks |-> IF hold_ctx[u] = t THEN Gone ELSE hold_ctx[u]]
  /\ UNCHANGED <<class_stamp, stamp, calls, ctx, contended>>

KeepsStamps(t) ==
  /\ UNCHANGED <<class_stamp, stamp, age, calls>>
  /\ pc[t] # "idle" /\ pc'[t] # "idle"
  /\ pc'[t] = "set_ctx" => UseCtx(t)
  /\ \A u \in Tasks \ {t} : pc'[u] = pc[u] \/ (pc[u] = "sleep" /\ pc'[u] = "woken")

(* The lock's ctx is read, or was compared. *)
ReadsCtx(t) ==
  /\ pc'[t] = "check_stamp" /\ UseCtx(t) /\ ctx[lock[t]] \notin {NULL, t}
  /\ hold_ctx' = [hold_ctx EXCEPT ![t] = ctx[lock[t]]]
  /\ UNCHANGED <<ctx, contended>>

Compares(t) ==
  /\ pc[t] = "check_stamp" /\ pc'[t] # "check_stamp"
  /\ hold_ctx' = [hold_ctx EXCEPT ![t] = NULL] /\ UNCHANGED ctx
  /\ \/ UNCHANGED contended
     \/ /\ hold_ctx[t] # Gone => Younger(stamp[t], stamp[hold_ctx[t]])
        /\ \A u \in Tasks \ {t} : contended'[u] = contended[u]

Works(t) ==
  /\ pc'[t] # "check_stamp" /\ UNCHANGED hold_ctx
  /\ \A l \in Locks : \/ ctx'[l] \in {ctx[l], NULL}
                      \/ ctx'[l] = t /\ (UseCtx(t) \/ pc[t] = "set_ctx")
  /\ \A u \in Tasks : contended'[u] \in {contended[u], NULL}

(* Every step is one of these. *)
LEMMA StampKinds ==
  ASSUME TypeOK, ListsRight, NEW t \in Tasks, TaskStep(t)
  PROVE  \/ Begins(t) \/ Ends(t)
         \/ KeepsStamps(t) /\ (ReadsCtx(t) \/ Compares(t) \/ Works(t))
<1>t. /\ pc \in [Tasks -> PC] /\ ctx \in [Locks -> Tasks \cup {NULL}]
      /\ contended \in [Tasks -> Locks \cup {NULL}]
      /\ \A u \in Tasks : pc[u] # "idle" => lock[u] \in Locks
  BY DEF TypeOK, ListsRight
<1> USE DEF Goto, mutex, context, caller, KeepsStamps
<1>1. ASSUME NEW p \in Plans[t], ww_acquire_init(t, p)
      PROVE  Begins(t)
  BY <1>1 DEF ww_acquire_init, Begins
<1>2. CASE ww_mutex_lock(t)
  BY <1>2, <1>t DEF ww_mutex_lock, Got, Works
<1>3. CASE ww_mutex_trylock(t)
  BY <1>3, <1>t DEF ww_mutex_trylock, Works
<1>4. CASE SetCtx(t)
  BY <1>4, <1>t DEF SetCtx, Works
<1>5. CASE ReadCount(t)
  BY <1>5, <1>t DEF ReadCount, Works
<1>6. CASE WakeAll(t)
  BY <1>6, <1>t DEF WakeAll, Woken, Works
<1>7. CASE Spin(t)
  BY <1>7, <1>t DEF Spin, Works
<1>8. CASE TryAcquire(t)
  BY <1>8, <1>t DEF TryAcquire, Got, Works
<1>9. CASE SlowLock(t)
  BY <1>9, <1>t DEF SlowLock, Works
<1>10. CASE TryXchg(t)
  BY <1>10, <1>t DEF TryXchg, Works
<1>11. CASE Loop(t)
  BY <1>11, <1>t DEF Loop, Works
<1>12. CASE LoopXchg(t)
  BY <1>12, <1>t DEF LoopXchg, Works
<1>13. CASE Check(t)
  <2>1. KeepsStamps(t)
    BY <1>13, <1>t DEF Check, Fail, Sleep
  <2>2. ReadsCtx(t) \/ Works(t)
    BY <1>13, <1>t DEF Check, Fail, Sleep, ReadsCtx, Works
  <2> QED BY <2>1, <2>2
<1>14. CASE CheckStamp(t)
  <2>1. KeepsStamps(t)
    BY <1>14, <1>t DEF CheckStamp, Fail, Sleep
  <2>2. Compares(t)
    BY <1>14, <1>t DEF CheckStamp, Fail, Sleep, Compares
  <2> QED BY <2>1, <2>2
<1>15. CASE RemoveWaiter(t)
  BY <1>15, <1>t DEF RemoveWaiter, SetCtxSlow, Woken, Works
<1>16. CASE SkipWait(t)
  BY <1>16, <1>t DEF SkipWait, SetCtxSlow, Woken, Works
<1>17. CASE Locked(t)
  BY <1>17, <1>t DEF Locked, Works
<1>18. CASE Unlocked(t)
  BY <1>18, <1>t DEF Unlocked, Ends, Works
<1>19. CASE ww_mutex_unlock(t)
  BY <1>19, <1>t DEF ww_mutex_unlock, Works
<1>20. CASE UnlockCount(t)
  BY <1>20, <1>t DEF UnlockCount, Works
<1>21. CASE UnlockSlow(t)
  BY <1>21, <1>t DEF UnlockSlow, Works
<1>22. CASE Wake(t)
  BY <1>22, <1>t DEF Wake, Woken, Works
<1>23. CASE Signal(t)
  BY <1>23, <1>t DEF Signal, Woken, Works
<1> QED
  BY <1>1, <1>2, <1>3, <1>4, <1>5, <1>6, <1>7, <1>8, <1>9, <1>10, <1>11, <1>12, <1>13, <1>14, <1>15,
     <1>16, <1>17, <1>18, <1>19, <1>20, <1>21, <1>22, <1>23 DEF TaskStep, Step

(* A context joins the list as its youngest. *)
LEMMA AgeBegins ==
  ASSUME TypeOK, AgeInv, StampsClose, NEW t \in Tasks, Begins(t)
  PROVE  StampTypes' /\ AgeRight'
<1>1. /\ pc \in [Tasks -> PC] /\ pc[t] = "idle" /\ pc' = [pc EXCEPT ![t] = "lock"]
      /\ StampTypes /\ AgeRight /\ "lock" # "idle" /\ hold_ctx' = hold_ctx
      /\ calls' = calls + 1
  BY DEF TypeOK, AgeInv, Begins
<1>2. CASE UseCtx(t)
  <2>1. /\ class_stamp' = (class_stamp + 1) % (ULONG_MAX + 1)
        /\ stamp' = [stamp EXCEPT ![t] = class_stamp'] /\ age' = Append(age, t)
    BY <1>2 DEF Begins
  <2>2. /\ class_stamp' \in 0..ULONG_MAX
        /\ Since(class_stamp', class_stamp') = 0
        /\ \A a \in 0..ULONG_MAX : Since(class_stamp, a) <= LONG_MAX =>
             Since(class_stamp', a) = Since(class_stamp, a) + 1
    BY <1>1, <2>1, NextStamp DEF StampTypes
  <2>3. StampTypes'
    BY <1>1, <2>1, <2>2 DEF StampTypes
  <2>4. Contexts' = Contexts \cup {t} /\ t \notin Contexts
    BY <1>1, <1>2 DEF Contexts, UseCtx
  <2>5. /\ age \in Seq(Tasks) /\ NoDuplicates(age) /\ ToSet(age) = Contexts
        /\ t \notin ToSet(age) /\ Len(age) \in Nat
        /\ \A i, j \in 1..Len(age) : i < j =>
             Since(class_stamp, stamp[age[i]]) > Since(class_stamp, stamp[age[j]])
    BY <1>1, <2>4 DEF AgeRight
  <2>6. /\ age' \in Seq(Tasks) /\ NoDuplicates(age') /\ ToSet(age') = Contexts'
    BY <2>1, <2>4, <2>5, ListAddTail DEF list_add_tail
  <2>7. ASSUME NEW i \in 1..Len(age)
        PROVE  /\ age[i] \in Tasks /\ age[i] # t
               /\ Since(class_stamp, stamp[age[i]]) \in Nat
               /\ Since(class_stamp', stamp'[age[i]]) = Since(class_stamp, stamp[age[i]]) + 1
    <3>1. age[i] \in ToSet(age) /\ age[i] \in Tasks
      BY <2>5 DEF ToSet
    <3>2. age[i] # t /\ Since(class_stamp, stamp[age[i]]) <= LONG_MAX
      BY <2>5, <3>1 DEF StampsClose
    <3>3. stamp[age[i]] \in 0..ULONG_MAX /\ stamp'[age[i]] = stamp[age[i]]
      BY <1>1, <2>1, <3>1, <3>2 DEF StampTypes
    <3>4. Since(class_stamp, stamp[age[i]]) \in Nat
      BY <1>1, <3>3, SinceNat DEF StampTypes
    <3> QED BY <2>2, <3>1, <3>2, <3>3, <3>4
  <2>8. /\ Len(age') = Len(age) + 1 /\ age'[Len(age) + 1] = t
        /\ \A i \in 1..Len(age) : age'[i] = age[i]
    BY <2>1, <2>5
  <2>9. stamp'[t] = class_stamp'
    BY <1>1, <2>1 DEF StampTypes
  <2>10. ASSUME NEW i \in 1..Len(age'), NEW j \in 1..Len(age'), i < j
         PROVE  Since(class_stamp', stamp'[age'[i]]) > Since(class_stamp', stamp'[age'[j]])
    <3>1. i \in 1..Len(age) /\ age'[i] = age[i]
      BY <2>5, <2>8, <2>10
    <3>2. CASE j = Len(age) + 1
      BY <2>2, <2>7, <2>8, <2>9, <3>1, <3>2
    <3>3. CASE j # Len(age) + 1
      <4>1. j \in 1..Len(age) /\ age'[j] = age[j]
        BY <2>5, <2>8, <3>3
      <4>2. Since(class_stamp, stamp[age[i]]) > Since(class_stamp, stamp[age[j]])
        BY <2>5, <2>10, <3>1, <4>1
      <4> QED BY <2>7, <3>1, <4>1, <4>2, SMTT(60)
    <3> QED BY <3>2, <3>3
  <2> QED BY <2>3, <2>6, <2>10 DEF AgeRight
<1>3. CASE ~UseCtx(t)
  <2>1. class_stamp' = class_stamp /\ stamp' = stamp /\ age' = age
    BY <1>3 DEF Begins
  <2>2. Contexts' = Contexts
    BY <1>1, <1>3 DEF Contexts, UseCtx
  <2>3. StampTypes'
    BY <1>1, <2>1 DEF StampTypes
  <2>4. AgeRight'
    BY <1>1, <2>1, <2>2 DEF AgeRight
  <2> QED BY <2>3, <2>4
<1> QED BY <1>2, <1>3

(* A context leaves the list; waiters that were about to look at it are    *)
(* left with a pointer to what is gone.                                    *)
LEMMA AgeEnds ==
  ASSUME TypeOK, AgeInv, NEW t \in Tasks, Ends(t)
  PROVE  StampTypes' /\ AgeRight'
<1>1. /\ pc \in [Tasks -> PC] /\ pc[t] = "unlock" /\ pc' = [pc EXCEPT ![t] = "idle"]
      /\ StampTypes /\ AgeRight /\ "unlock" # "idle"
      /\ hold_ctx' = [u \in Tasks |-> IF hold_ctx[u] = t THEN Gone ELSE hold_ctx[u]]
      /\ class_stamp' = class_stamp /\ stamp' = stamp /\ calls' = calls
      /\ age' = IF UseCtx(t) THEN list_del(age, t) ELSE age
  BY DEF TypeOK, AgeInv, Ends
<1>2. StampTypes'
  BY <1>1 DEF StampTypes
<1>3. CASE UseCtx(t)
  <2>1. Contexts' = Contexts \ {t} /\ t \in Contexts
    BY <1>1, <1>3 DEF Contexts, UseCtx
  <2>2. /\ age \in Seq(Tasks) /\ NoDuplicates(age) /\ ToSet(age) = Contexts /\ t \in ToSet(age)
        /\ \A i, j \in 1..Len(age) : i < j =>
             Since(class_stamp, stamp[age[i]]) > Since(class_stamp, stamp[age[j]])
    BY <1>1, <2>1 DEF AgeRight
  <2>3. age' = list_del(age, t)
    BY <1>1, <1>3
  <2>4. age' \in Seq(Tasks) /\ NoDuplicates(age') /\ ToSet(age') = Contexts'
    BY <2>1, <2>2, <2>3, ListDel
  <2>5. KeepsOrder(age', age)
    BY <2>2, <2>3, ListDelOrder
  <2>6. ASSUME NEW i \in 1..Len(age'), NEW j \in 1..Len(age'), i < j
        PROVE  Since(class_stamp', stamp'[age'[i]]) > Since(class_stamp', stamp'[age'[j]])
    <3>1. PICK k \in 1..Len(age), l \in 1..Len(age) : k < l /\ age'[i] = age[k] /\ age'[j] = age[l]
      BY <2>5, <2>6 DEF KeepsOrder
    <3>2. Since(class_stamp, stamp[age[k]]) > Since(class_stamp, stamp[age[l]])
      BY <2>2, <3>1
    <3> QED BY <1>1, <3>1, <3>2
  <2> QED BY <1>2, <2>4, <2>6 DEF AgeRight
<1>4. CASE ~UseCtx(t)
  <2>1. Contexts' = Contexts
    BY <1>1, <1>4 DEF Contexts, UseCtx
  <2> QED BY <1>1, <1>2, <1>4, <2>1 DEF AgeRight
<1> QED BY <1>3, <1>4

(* The contexts that exist stay while t goes on. *)
LEMMA ContextsKept ==
  ASSUME TypeOK, NEW t \in Tasks, KeepsStamps(t)
  PROVE  Contexts' = Contexts
<1>1. \A u \in Tasks : pc'[u] = "idle" <=> pc[u] = "idle"
  BY DEF KeepsStamps
<1> QED BY <1>1 DEF Contexts, UseCtx

(* Who is compared with exists, as long as the pointer is not to what is   *)
(* gone: a lock's ctx is a task that has the lock.                         *)
LEMMA HoldCtxStep ==
  ASSUME IInv, AgeInv, NEW t \in Tasks, TaskStep(t)
  PROVE  CtxUsed' /\ \A u \in Tasks : HoldCtxAt(u)'
<1>t. /\ pc \in [Tasks -> PC] /\ TypeOK /\ ListsRight
      /\ hold_ctx \in [Tasks -> Tasks \cup {NULL, Gone}]
      /\ CtxUsed /\ \A u \in Tasks : HoldCtxAt(u)
  BY DEF IInv, TypeOK, AgeInv, StampTypes
<1>1. CASE Begins(t)
  <2>1. /\ pc[t] = "idle" /\ pc' = [pc EXCEPT ![t] = "lock"]
        /\ ctx' = ctx /\ hold_ctx' = hold_ctx
    BY <1>1 DEF Begins
  <2>2. Contexts \subseteq Contexts'
    BY <1>t, <2>1 DEF Contexts, UseCtx
  <2> QED BY <1>t, <2>1, <2>2 DEF CtxUsed, HoldCtxAt, UseCtx
<1>2. CASE Ends(t)
  <2>1. /\ pc[t] = "unlock" /\ pc' = [pc EXCEPT ![t] = "idle"] /\ ctx' = ctx
        /\ hold_ctx' = [u \in Tasks |-> IF hold_ctx[u] = t THEN Gone ELSE hold_ctx[u]]
    BY <1>2 DEF Ends
  <2>2. Contexts \ {t} \subseteq Contexts'
    BY <1>t, <2>1 DEF Contexts, UseCtx
  <2>3. CtxUsed'
    BY <1>t, <2>1 DEF CtxUsed, UseCtx
  <2>4. ASSUME NEW u \in Tasks, pc'[u] = "check_stamp"
        PROVE  UseCtx(u) /\ hold_ctx'[u] \in (Contexts' \ {u}) \cup {Gone}
    <3>1. pc[u] = "check_stamp"
      BY <1>t, <2>1, <2>4
    <3>2. UseCtx(u) /\ hold_ctx[u] \in (Contexts \ {u}) \cup {Gone}
      BY <1>t, <3>1 DEF HoldCtxAt
    <3> QED BY <2>1, <2>2, <3>2
  <2> QED BY <2>3, <2>4 DEF HoldCtxAt, UseCtx
<1>3. CASE KeepsStamps(t) /\ (ReadsCtx(t) \/ Compares(t) \/ Works(t))
  <2>1. Contexts' = Contexts
    BY <1>3, <1>t, ContextsKept
  <2>2. /\ \A u \in Tasks \ {t} : pc'[u] = pc[u] \/ (pc[u] = "sleep" /\ pc'[u] = "woken")
        /\ pc'[t] = "set_ctx" => UseCtx(t)
    BY <1>3 DEF KeepsStamps
  <2>3. CtxUsed'
    <3>1. \A u \in Tasks : pc'[u] = "set_ctx" => UseCtx(u)
      BY <1>t, <2>2 DEF CtxUsed
    <3>2. ASSUME NEW l \in Locks, ctx'[l] # NULL PROVE UseCtx(ctx'[l])
      <4>1. ctx' = ctx \/ Works(t)
        BY <1>3 DEF ReadsCtx, Compares
      <4> QED BY <1>t, <3>2, <4>1 DEF CtxUsed, Works
    <3> QED BY <3>1, <3>2 DEF CtxUsed, UseCtx
  <2>4. ASSUME NEW u \in Tasks, u # t PROVE HoldCtxAt(u)'
    <3>1. hold_ctx'[u] = hold_ctx[u]
      BY <1>3, <1>t, <2>4 DEF ReadsCtx, Compares, Works
    <3>2. pc'[u] = "check_stamp" => pc[u] = "check_stamp"
      BY <2>2, <2>4
    <3> QED BY <1>t, <2>1, <3>1, <3>2 DEF HoldCtxAt, UseCtx
  <2>5. HoldCtxAt(t)'
    <3>1. CASE pc'[t] # "check_stamp"
      BY <3>1 DEF HoldCtxAt
    <3>2. CASE pc'[t] = "check_stamp"
      <4> DEFINE c == ctx[lock[t]]
      <4>1. /\ UseCtx(t) /\ c \notin {NULL, t} /\ hold_ctx'[t] = c
            /\ pc[t] # "idle" /\ lock[t] \in Locks
        BY <1>3, <1>t, <3>2 DEF KeepsStamps, ReadsCtx, Compares, Works, ListsRight
      <4>2. c \in Tasks /\ Has(c, lock[t]) /\ UseCtx(c)
        BY <1>t, <4>1 DEF IInv, TypeOK, CtxHolds, CtxUsed
      <4>3. pc[c] # "idle"
        BY <1>t, <4>2, EmptyList DEF Has, HoldPC, ListsRight
      <4>4. c \in Contexts
        BY <4>2, <4>3 DEF Contexts
      <4> HIDE DEF c
      <4> QED BY <2>1, <3>2, <4>1, <4>4 DEF HoldCtxAt, UseCtx
    <3> QED BY <3>1, <3>2
  <2> QED BY <2>3, <2>4, <2>5
<1> QED BY <1>1, <1>2, <1>3, <1>t, StampKinds

(* AgeInv holds at first, and as long as the stamps are close. *)
LEMMA AgeInductive ==
  /\ Init => AgeInv
  /\ IInv /\ AgeInv /\ StampsClose /\ [Next]_vars => AgeInv'
<1>1. ASSUME Init PROVE AgeInv
  <2>1. StampTypes
    BY <1>1, Halves, StampAssumption DEF Init, StampTypes
  <2>2. Contexts = {}
    BY <1>1 DEF Init, Contexts
  <2>3. AgeRight
    BY <1>1, <2>2, EmptyList DEF Init, AgeRight
  <2>4. CtxUsed /\ \A t \in Tasks : HoldCtxAt(t)
    BY <1>1 DEF Init, CtxUsed, HoldCtxAt
  <2> QED BY <2>1, <2>3, <2>4 DEF AgeInv
<1>2. ASSUME IInv, AgeInv, StampsClose, Next PROVE AgeInv'
  <2>1. PICK t \in Tasks : TaskStep(t)
    BY <1>2 DEF Next, TaskStep
  <2>2. CtxUsed' /\ \A u \in Tasks : HoldCtxAt(u)'
    BY <1>2, <2>1, HoldCtxStep
  <2>t. TypeOK /\ ListsRight
    BY <1>2 DEF IInv
  <2>3. StampTypes' /\ AgeRight'
    <3>1. CASE Begins(t)
      BY <1>2, <2>t, <3>1, AgeBegins
    <3>2. CASE Ends(t)
      BY <1>2, <2>t, <3>2, AgeEnds
    <3>3. CASE KeepsStamps(t) /\ (ReadsCtx(t) \/ Compares(t) \/ Works(t))
      <4>1. Contexts' = Contexts
        BY <2>t, <3>3, ContextsKept
      <4>2. class_stamp' = class_stamp /\ stamp' = stamp /\ age' = age /\ calls' = calls
        BY <3>3 DEF KeepsStamps
      <4>3. hold_ctx' \in [Tasks -> Tasks \cup {NULL, Gone}]
        <5>1. hold_ctx \in [Tasks -> Tasks \cup {NULL, Gone}] /\ pc[t] # "idle"
          BY <1>2, <3>3 DEF AgeInv, StampTypes, KeepsStamps
        <5>2. ctx[lock[t]] \in Tasks \cup {NULL}
          BY <2>t, <5>1 DEF TypeOK, ListsRight
        <5> QED BY <3>3, <5>1, <5>2 DEF ReadsCtx, Compares, Works
      <4>4. StampTypes'
        BY <1>2, <4>2, <4>3 DEF AgeInv, StampTypes
      <4>5. AgeRight'
        BY <1>2, <4>1, <4>2 DEF AgeInv, AgeRight
      <4> QED BY <4>4, <4>5
    <3> QED BY <2>1, <2>t, <3>1, <3>2, <3>3, StampKinds
  <2> QED BY <2>2, <2>3 DEF AgeInv
<1>3. ASSUME AgeInv, UNCHANGED vars PROVE AgeInv'
  <2>1. /\ class_stamp' = class_stamp /\ stamp' = stamp /\ age' = age /\ calls' = calls
        /\ hold_ctx' = hold_ctx /\ ctx' = ctx /\ pc' = pc
    BY <1>3 DEF vars, mutex, context
  <2>2. Contexts' = Contexts
    BY <2>1 DEF Contexts, UseCtx
  <2>3. StampTypes' /\ AgeRight'
    BY <1>3, <2>1, <2>2 DEF AgeInv, StampTypes, AgeRight
  <2>4. CtxUsed' /\ \A t \in Tasks : HoldCtxAt(t)'
    BY <1>3, <2>1, <2>2 DEF AgeInv, CtxUsed, HoldCtxAt, UseCtx
  <2> QED BY <2>3, <2>4 DEF AgeInv
<1> QED BY <1>1, <1>2, <1>3

(* Of two contexts, the one that age has first has the older stamp. *)
LEMMA OlderIs ==
  ASSUME AgeInv, StampsClose, NEW h \in Contexts, NEW t \in Contexts, h # t,
         Younger(stamp[t], stamp[h])
  PROVE  Older(h, t)
<1>1. /\ age \in Seq(Tasks) /\ ToSet(age) = Contexts /\ h \in ToSet(age) /\ t \in ToSet(age)
      /\ \A i, j \in 1..Len(age) : i < j =>
           Since(class_stamp, stamp[age[i]]) > Since(class_stamp, stamp[age[j]])
  BY DEF AgeInv, AgeRight
<1>2. Contains(age, h) /\ Contains(age, t)
  BY <1>1, ContainsToSet
<1>3. /\ stamp[h] \in 0..ULONG_MAX /\ stamp[t] \in 0..ULONG_MAX /\ class_stamp \in 0..ULONG_MAX
      /\ Since(class_stamp, stamp[h]) <= LONG_MAX /\ Since(class_stamp, stamp[t]) <= LONG_MAX
  BY DEF AgeInv, StampTypes, StampsClose, Contexts
<1>4. Since(class_stamp, stamp[t]) < Since(class_stamp, stamp[h])
  BY <1>3, YoungerIs
<1>5. Since(class_stamp, stamp[t]) \in Nat /\ Since(class_stamp, stamp[h]) \in Nat
  BY <1>3, SinceNat
<1> DEFINE i == IndexOf(age, h)
           j == IndexOf(age, t)
<1>6. i \in 1..Len(age) /\ age[i] = h /\ j \in 1..Len(age) /\ age[j] = t
  BY <1>1, IndexOfFound
<1> HIDE DEF i, j
<1>7. ~(j < i) /\ i # j
  <2>1. i # j
    BY <1>6
  <2>2. j < i => Since(class_stamp, stamp[t]) > Since(class_stamp, stamp[h])
    BY <1>1, <1>6
  <2> QED BY <1>4, <1>5, <2>1, <2>2
<1>8. i < j
  <2>1. i \in Nat /\ j \in Nat
    BY <1>1, <1>6
  <2> QED BY <1>7, <2>1
<1> QED BY <1>2, <1>8 DEF Older, i, j

(* __ww_mutex_lock_check_stamp() returns -EDEADLK only to the younger of   *)
(* two contexts, also after the stamps have wrapped around any number of   *)
(* times, as long as no context lives while half the range of stamps is    *)
(* given out.                                                              *)
THEOREM OldestCorrect == Spec /\ []StampsClose => OldestStays
<1> DEFINE Stays == \A t \in Tasks :
                      contended[t] = NULL /\ contended'[t] # NULL /\ hold_ctx[t] # Gone
                        => Older(hold_ctx[t], t)
<1>1. ASSUME IInv, AgeInv, StampsClose, Next PROVE Stays
  <2> SUFFICES ASSUME NEW u \in Tasks, contended[u] = NULL, contended'[u] # NULL, hold_ctx[u] # Gone
               PROVE  Older(hold_ctx[u], u)
    OBVIOUS
  <2>1. PICK t \in Tasks : TaskStep(t)
    BY <1>1 DEF Next, TaskStep
  <2>2. KeepsStamps(t) /\ Compares(t) /\ u = t
    <3>1. TypeOK /\ ListsRight
      BY <1>1 DEF IInv
    <3>2. \/ Begins(t) \/ Ends(t)
          \/ KeepsStamps(t) /\ (ReadsCtx(t) \/ Compares(t) \/ Works(t))
      BY <2>1, <3>1, StampKinds
    <3>3. ~Begins(t) /\ ~Ends(t) /\ ~ReadsCtx(t)
      BY DEF Begins, Ends, ReadsCtx
    <3>4. ~Works(t)
      BY DEF Works
    <3>5. Compares(t) => u = t
      BY DEF Compares
    <3> QED BY <3>2, <3>3, <3>4, <3>5
  <2>3. pc[t] = "check_stamp" /\ Younger(stamp[t], stamp[hold_ctx[t]])
    BY <2>2 DEF Compares
  <2>4. UseCtx(t) /\ hold_ctx[t] \in Contexts /\ hold_ctx[t] # t
    BY <1>1, <2>2, <2>3 DEF AgeInv, HoldCtxAt
  <2>5. t \in Contexts
    BY <2>3, <2>4 DEF Contexts
  <2> QED BY <1>1, <2>2, <2>3, <2>4, <2>5, OlderIs
<1>2. IInv /\ AgeInv /\ StampsClose /\ [Next]_vars => [Stays]_vars
  BY <1>1
<1> QED BY <1>2, Inductive, AgeInductive, PTL DEF Spec, OldestStays

(* Fewer stamps were given since a context began than plans were begun. *)
CallsBound == calls <= MaxCalls /\ \A t \in Contexts : Since(class_stamp, stamp[t]) < calls

(* If the tasks begin no more than LONG_MAX plans together, the stamps are *)
(* always close.  So the hypothesis of OldestCorrect holds of the program  *)
(* (LONG_MAX is 2^63 - 1) and of the instance that TLC checks.             *)
THEOREM StampsStayClose == MaxCalls <= LONG_MAX => (Spec => []StampsClose)
<1> SUFFICES ASSUME MaxCalls <= LONG_MAX PROVE Spec => []StampsClose
  OBVIOUS
<1> USE MaxCallsAssumption, Halves
<1> DEFINE Inv == IInv /\ AgeInv /\ CallsBound
<1>1. AgeInv /\ CallsBound => StampsClose
  <2> SUFFICES ASSUME AgeInv, CallsBound, NEW t \in Contexts
               PROVE  Since(class_stamp, stamp[t]) <= LONG_MAX
    BY DEF StampsClose
  <2>1. /\ class_stamp \in 0..ULONG_MAX /\ stamp[t] \in 0..ULONG_MAX /\ calls \in Nat
    BY DEF AgeInv, StampTypes, Contexts
  <2>2. Since(class_stamp, stamp[t]) \in Nat
    BY <2>1, SinceNat
  <2> QED BY <2>1, <2>2 DEF CallsBound
<1>2. Init => CallsBound
  BY DEF Init, CallsBound, Contexts
<1>3. ASSUME IInv, AgeInv, CallsBound, Next PROVE CallsBound'
  <2>1. PICK t \in Tasks : TaskStep(t)
    BY <1>3 DEF Next, TaskStep
  <2>t. /\ TypeOK /\ ListsRight /\ pc \in [Tasks -> PC] /\ StampsClose
        /\ calls \in Nat /\ calls <= MaxCalls
        /\ class_stamp \in 0..ULONG_MAX /\ stamp \in [Tasks -> 0..ULONG_MAX]
        /\ \A u \in Contexts : Since(class_stamp, stamp[u]) < calls
    BY <1>1, <1>3 DEF IInv, TypeOK, AgeInv, StampTypes, CallsBound
  <2>2. CASE Begins(t)
    <3>1. /\ pc[t] = "idle" /\ pc' = [pc EXCEPT ![t] = "lock"]
          /\ calls < MaxCalls /\ calls' = calls + 1
      BY <2>2 DEF Begins
    <3>2. ASSUME NEW u \in Contexts' PROVE Since(class_stamp', stamp'[u]) < calls'
      <4>0. u \in Tasks
        BY DEF Contexts
      <4>1. CASE u # t
        <5>1. u \in Contexts
          BY <2>t, <3>1, <4>0, <4>1 DEF Contexts, UseCtx
        <5>2. stamp'[u] = stamp[u] /\ stamp[u] \in 0..ULONG_MAX
          BY <2>2, <2>t, <4>0, <4>1 DEF Begins
        <5>3. /\ Since(class_stamp, stamp[u]) \in Nat /\ Since(class_stamp, stamp[u]) <= LONG_MAX
              /\ Since(class_stamp, stamp[u]) < calls
          BY <2>t, <5>1, <5>2, SinceNat DEF StampsClose
        <5>4. \/ class_stamp' = class_stamp
              \/ Since(class_stamp', stamp[u]) = Since(class_stamp, stamp[u]) + 1
          <6>1. class_stamp' \in {class_stamp, (class_stamp + 1) % (ULONG_MAX + 1)}
            BY <2>2 DEF Begins
          <6>2. Since((class_stamp + 1) % (ULONG_MAX + 1), stamp[u]) = Since(class_stamp, stamp[u]) + 1
            BY <2>t, <5>2, <5>3, NextStamp
          <6> QED BY <6>1, <6>2
        <5> QED BY <2>t, <3>1, <5>2, <5>3, <5>4
      <4>2. CASE u = t
        <5>1. UseCtx(t)
          BY <4>2 DEF Contexts, UseCtx
        <5>2. stamp'[t] = class_stamp' /\ Since(class_stamp', class_stamp') = 0
          BY <2>2, <2>t, <5>1, NextStamp DEF Begins
        <5> QED BY <2>t, <3>1, <4>2, <5>2
      <4> QED BY <4>1, <4>2
    <3> QED BY <2>t, <3>1, <3>2 DEF CallsBound
  <2>3. CASE ~Begins(t)
    <3>1. class_stamp' = class_stamp /\ stamp' = stamp /\ calls' = calls
      BY <2>1, <2>3, <2>t, StampKinds DEF Ends, KeepsStamps
    <3>2. Contexts' \subseteq Contexts
      <4>1. CASE Ends(t)
        BY <2>t, <4>1 DEF Ends, Contexts, UseCtx
      <4>2. CASE KeepsStamps(t)
        BY <2>t, <4>2, ContextsKept
      <4> QED BY <2>1, <2>3, <2>t, <4>1, <4>2, StampKinds
    <3> QED BY <2>t, <3>1, <3>2 DEF CallsBound
  <2> QED BY <2>2, <2>3
<1>4. ASSUME CallsBound, UNCHANGED vars PROVE CallsBound'
  BY <1>4 DEF CallsBound, Contexts, UseCtx, vars, context
<1>5. Init => Inv
  BY <1>2, Inductive, AgeInductive
<1>6. Inv /\ [Next]_vars => Inv'
  <2> SUFFICES ASSUME IInv, AgeInv, CallsBound, [Next]_vars PROVE Inv'
    OBVIOUS
  <2>1. CallsBound'
    BY <1>3, <1>4
  <2> QED BY <1>1, <2>1, Inductive, AgeInductive
<1>7. Inv => StampsClose
  BY <1>1
<1> HIDE DEF Inv
<1> QED BY <1>5, <1>6, <1>7, PTL DEF Spec

----------------------------------------------------------------------------
(* Waiters.  Who is on a wait list, and who holds a wait_lock *)

QueuedPC == {"loop", "loop_xchg", "check", "check_stamp", "sleep", "woken", "remove_waiter"}

WaitLockPC == {"try_xchg", "loop", "loop_xchg", "check", "check_stamp", "remove_waiter", "skip_wait"}

QueueTypes ==
  /\ wait_list \in [Locks -> Seq(Tasks)]
  /\ wait_lock \in [Locks -> Tasks \cup {NULL}]

(* A task in the wait loop is on the list of its lock, ... *)
OnList(x) == pc[x] \in QueuedPC => x \in ToSet(wait_list[lock[x]])

(* ... and holds its wait_lock unless it sleeps. *)
HoldsWaitLock(x) == pc[x] \in WaitLockPC => wait_lock[lock[x]] = x

QueueInv == QueueTypes /\ \A x \in Tasks : OnList(x) /\ HoldsWaitLock(x)

(* The other tasks in a step of t: they are woken at most. *)
LeavesOthers(t) ==
  \A u \in Tasks \ {t} :
    lock'[u] = lock[u] /\ (pc'[u] = pc[u] \/ (pc[u] = "sleep" /\ pc'[u] = "woken"))

(* A step of t keeps the others on the lists, and their wait_locks. *)
LeavesQueues(t) ==
  /\ QueueTypes'
  /\ \A l \in Locks : \A u \in Tasks \ {t} : u \in ToSet(wait_list[l]) => u \in ToSet(wait_list'[l])
  /\ \A l \in Locks : wait_lock[l] \in Tasks \ {t} => wait_lock'[l] = wait_lock[l]

(* list_del() of one entry leaves the others. *)
LEMMA DelKeeps ==
  ASSUME NEW T, NEW q \in Seq(T), NEW e \in ToSet(q), NEW x \in ToSet(q), x # e
  PROVE  x \in ToSet(list_del(q, e)) /\ list_del(q, e) \in Seq(T) /\ list_del(q, e) # <<>>
<1> DEFINE i == IndexOf(q, e)
           r == list_del(q, e)
<1>1. /\ r \in Seq(T) /\ Len(r) = Len(q) - 1
      /\ \A j \in 1..(Len(q) - 1) : r[j] = IF j < i THEN q[j] ELSE q[j + 1]
  BY ListDelEntries
<1>2. i \in 1..Len(q) /\ q[i] = e /\ Len(q) \in Nat
  BY IndexOfFound
<1>3. PICK k \in 1..Len(q) : q[k] = x
  BY DEF ToSet
<1> HIDE DEF i, r
<1>4. k # i
  BY <1>2, <1>3
<1>5. PICK j \in 1..(Len(q) - 1) : r[j] = x
  <2>1. CASE k < i
    BY <1>1, <1>2, <1>3, <2>1
  <2>2. CASE k > i
    <3>1. k - 1 \in 1..(Len(q) - 1) /\ ~(k - 1 < i) /\ (k - 1) + 1 = k
      BY <1>2, <1>3, <2>2
    <3>2. r[k - 1] = q[(k - 1) + 1]
      BY <1>1, <3>1
    <3> QED BY <1>3, <3>1, <3>2
  <2> QED BY <1>2, <1>3, <1>4, <2>1, <2>2
<1>6. x \in ToSet(r) /\ r # <<>>
  <2>1. j \in DOMAIN r
    BY <1>1, <1>5
  <2>2. x \in ToSet(r)
    BY <1>5, <2>1 DEF ToSet
  <2> QED BY <2>2, EmptyList
<1> QED BY <1>1, <1>6 DEF r

(* list_add_tail() leaves the others and adds one, new or not. *)
LEMMA AppendKeeps ==
  ASSUME NEW T, NEW q \in Seq(T), NEW e \in T
  PROVE  /\ list_add_tail(q, e) \in Seq(T) /\ e \in ToSet(list_add_tail(q, e))
         /\ \A x \in ToSet(q) : x \in ToSet(list_add_tail(q, e))
<1>1. /\ Append(q, e) \in Seq(T) /\ Len(Append(q, e)) = Len(q) + 1 /\ Len(q) \in Nat
      /\ Append(q, e)[Len(q) + 1] = e
      /\ \A i \in 1..Len(q) : Append(q, e)[i] = q[i]
  OBVIOUS
<1>2. Len(q) + 1 \in DOMAIN Append(q, e)
  BY <1>1
<1>3. ASSUME NEW x \in ToSet(q) PROVE x \in ToSet(Append(q, e))
  <2>1. PICK i \in 1..Len(q) : q[i] = x
    BY DEF ToSet
  <2>2. i \in DOMAIN Append(q, e) /\ Append(q, e)[i] = x
    BY <1>1, <2>1
  <2> QED BY <2>2 DEF ToSet
<1>4. e \in ToSet(Append(q, e))
  BY <1>1, <1>2 DEF ToSet
<1> QED BY <1>1, <1>3, <1>4 DEF list_add_tail

(* What the actions do to the lists and wait_locks, one lock at a time *)
LEMMA QueueSame ==
  ASSUME QueueInv, NEW t \in Tasks, wait_list' = wait_list, wait_lock' = wait_lock
  PROVE  LeavesQueues(t)
BY DEF QueueInv, QueueTypes, LeavesQueues

(* The wait_lock is taken or dropped. *)
LEMMA QueueLocked ==
  ASSUME QueueInv, NEW t \in Tasks, NEW l \in Locks, wait_list' = wait_list,
         wait_lock[l] \in {NULL, t}, NEW v \in {NULL, t}, wait_lock' = [wait_lock EXCEPT ![l] = v]
  PROVE  LeavesQueues(t) /\ wait_lock'[l] = v
BY DEF QueueInv, QueueTypes, LeavesQueues

(* A task joins the list. *)
LEMMA QueueJoined ==
  ASSUME QueueInv, NEW t \in Tasks, NEW l \in Locks,
         wait_list' = [wait_list EXCEPT ![l] = list_add_tail(@, t)],
         wait_lock[l] \in {NULL, t}, wait_lock' = [wait_lock EXCEPT ![l] = t]
  PROVE  LeavesQueues(t) /\ wait_lock'[l] = t /\ t \in ToSet(wait_list'[l])
<1>1. /\ wait_list \in [Locks -> Seq(Tasks)] /\ wait_lock \in [Locks -> Tasks \cup {NULL}]
      /\ wait_list[l] \in Seq(Tasks)
  BY DEF QueueInv, QueueTypes
<1>2. PICK q \in Seq(Tasks) : q = list_add_tail(wait_list[l], t)
  BY <1>1, AppendKeeps
<1>3. t \in ToSet(q) /\ \A x \in ToSet(wait_list[l]) : x \in ToSet(q)
  BY <1>1, <1>2, AppendKeeps
<1>4. wait_list' = [wait_list EXCEPT ![l] = q]
  BY <1>2
<1>5. wait_list' \in [Locks -> Seq(Tasks)] /\ wait_lock' \in [Locks -> Tasks \cup {NULL}]
  BY <1>1, <1>4
<1>6. \A k \in Locks : wait_list'[k] = IF k = l THEN q ELSE wait_list[k]
  BY <1>1, <1>4
<1>7. \A k \in Locks : wait_lock'[k] = IF k = l THEN t ELSE wait_lock[k]
  BY <1>1
<1> QED BY <1>3, <1>5, <1>6, <1>7 DEF LeavesQueues, QueueTypes

(* A task leaves the list and drops the wait_lock. *)
LEMMA QueueLeft ==
  ASSUME QueueInv, NEW t \in Tasks, NEW l \in Locks, t \in ToSet(wait_list[l]),
         wait_list' = [wait_list EXCEPT ![l] = list_del(@, t)],
         wait_lock[l] = t, wait_lock' = [wait_lock EXCEPT ![l] = NULL]
  PROVE  LeavesQueues(t)
<1>1. /\ wait_list \in [Locks -> Seq(Tasks)] /\ wait_lock \in [Locks -> Tasks \cup {NULL}]
      /\ wait_list[l] \in Seq(Tasks)
  BY DEF QueueInv, QueueTypes
<1>2. PICK q \in Seq(Tasks) : q = list_del(wait_list[l], t)
  BY <1>1, ListDelEntries
<1>3. \A x \in ToSet(wait_list[l]) : x # t => x \in ToSet(q)
  BY <1>1, <1>2, DelKeeps
<1>4. wait_list' = [wait_list EXCEPT ![l] = q]
  BY <1>2
<1>5. wait_list' \in [Locks -> Seq(Tasks)] /\ wait_lock' \in [Locks -> Tasks \cup {NULL}]
  BY <1>1, <1>4
<1>6. \A k \in Locks : wait_list'[k] = IF k = l THEN q ELSE wait_list[k]
  BY <1>1, <1>4
<1>7. \A k \in Locks : wait_lock'[k] = IF k = l THEN NULL ELSE wait_lock[k]
  BY <1>1
<1> QED BY <1>3, <1>5, <1>6, <1>7 DEF LeavesQueues, QueueTypes

(* The other tasks are woken at most. *)
LEMMA OthersLeft ==
  ASSUME IInv, NEW t \in Tasks, TaskStep(t)
  PROVE  LeavesOthers(t)
<1>1. TypeOK /\ ListsRight /\ Exclusion /\ CtxHolds
  BY DEF IInv
<1>2. \A u \in Tasks \ {t} : lock'[u] = lock[u]
  BY <1>1, HoldStep DEF Others
<1>3. \A u \in Tasks \ {t} : pc'[u] = pc[u] \/ (pc[u] = "sleep" /\ pc'[u] = "woken")
  <2>1. pc \in [Tasks -> PC]
    BY <1>1 DEF TypeOK
  <2>2. CASE Begins(t)
    BY <2>1, <2>2 DEF Begins
  <2>3. CASE Ends(t)
    BY <2>1, <2>3 DEF Ends
  <2>4. CASE KeepsStamps(t)
    BY <2>4 DEF KeepsStamps
  <2> QED BY <1>1, <2>2, <2>3, <2>4, StampKinds
<1> QED BY <1>2, <1>3 DEF LeavesOthers

(* A step that joins no wait loop, or stays in it, keeps QueueInv. *)
LEMMA QueueKept ==
  ASSUME IInv, QueueInv, NEW t \in Tasks, LeavesOthers(t), LeavesQueues(t),
         pc'[t] \in QueuedPC => t \in ToSet(wait_list'[lock'[t]]),
         pc'[t] \in WaitLockPC => wait_lock'[lock'[t]] = t
  PROVE  QueueInv'
<1>1. ASSUME NEW x \in Tasks \ {t} PROVE OnList(x)'
  <2>1. SUFFICES ASSUME pc'[x] \in QueuedPC PROVE x \in ToSet(wait_list'[lock'[x]])
    BY DEF OnList
  <2>2. lock'[x] = lock[x] /\ pc[x] \in QueuedPC
    BY <2>1 DEF LeavesOthers, QueuedPC
  <2>3. x \in ToSet(wait_list[lock[x]]) /\ lock[x] \in Locks
    BY <2>2 DEF QueueInv, OnList, IInv, ListsRight, QueuedPC
  <2> QED BY <2>2, <2>3 DEF LeavesQueues
<1>2. ASSUME NEW x \in Tasks \ {t} PROVE HoldsWaitLock(x)'
  <2>1. SUFFICES ASSUME pc'[x] \in WaitLockPC PROVE wait_lock'[lock'[x]] = x
    BY DEF HoldsWaitLock
  <2>2. lock'[x] = lock[x] /\ pc[x] \in WaitLockPC
    BY <2>1 DEF LeavesOthers, WaitLockPC
  <2>3. wait_lock[lock[x]] = x /\ lock[x] \in Locks
    BY <2>2 DEF QueueInv, HoldsWaitLock, IInv, ListsRight, WaitLockPC
  <2> QED BY <2>2, <2>3 DEF LeavesQueues
<1>3. OnList(t)' /\ HoldsWaitLock(t)'
  BY DEF OnList, HoldsWaitLock
<1> QED BY <1>1, <1>2, <1>3 DEF QueueInv, LeavesQueues

(* Every step keeps the lists and the wait_locks right. *)
LEMMA QueueStep ==
  ASSUME IInv, QueueInv, NEW t \in Tasks, TaskStep(t)
  PROVE  QueueInv'
<1>o. LeavesOthers(t)
  BY OthersLeft
<1>t. /\ pc \in [Tasks -> PC] /\ lock \in [Tasks -> Locks \cup {NULL}]
      /\ pc[t] # "idle" => lock[t] \in Locks
  BY DEF IInv, TypeOK, ListsRight
<1>w. /\ pc[t] \in QueuedPC => t \in ToSet(wait_list[lock[t]])
      /\ pc[t] \in WaitLockPC => wait_lock[lock[t]] = t
      /\ wait_lock \in [Locks -> Tasks \cup {NULL}]
  BY DEF QueueInv, OnList, HoldsWaitLock, QueueTypes
<1>p. QueuedPC \cup WaitLockPC \subseteq PC \ {"idle"}
  BY DEF QueuedPC, WaitLockPC, PC
<1>outside. ASSUME wait_list' = wait_list, wait_lock' = wait_lock,
                   pc'[t] \notin QueuedPC \cup WaitLockPC
            PROVE  QueueInv'
  BY <1>o, <1>outside, QueueSame, QueueKept
<1> USE DEF Goto, mutex, context, caller
<1>1. ASSUME NEW p \in Plans[t], ww_acquire_init(t, p) PROVE QueueInv'
  <2>1. wait_list' = wait_list /\ wait_lock' = wait_lock
    BY <1>1 DEF ww_acquire_init
  <2>2. pc'[t] \notin QueuedPC \cup WaitLockPC
    BY <1>1, <1>t DEF ww_acquire_init, QueuedPC, WaitLockPC
  <2> QED BY <2>1, <2>2, <1>outside
<1>2. CASE ww_mutex_lock(t)
  <2>1. wait_list' = wait_list /\ wait_lock' = wait_lock
    BY <1>2 DEF ww_mutex_lock, Got
  <2>2. pc'[t] \notin QueuedPC \cup WaitLockPC
    BY <1>2, <1>t DEF ww_mutex_lock, Got, QueuedPC, WaitLockPC
  <2> QED BY <2>1, <2>2, <1>outside
<1>3. CASE ww_mutex_trylock(t)
  <2>1. wait_list' = wait_list /\ wait_lock' = wait_lock
    BY <1>3 DEF ww_mutex_trylock
  <2>2. pc'[t] \notin QueuedPC \cup WaitLockPC
    BY <1>3, <1>t DEF ww_mutex_trylock, QueuedPC, WaitLockPC
  <2> QED BY <2>1, <2>2, <1>outside
<1>4. CASE SetCtx(t)
  <2>1. wait_list' = wait_list /\ wait_lock' = wait_lock
    BY <1>4 DEF SetCtx
  <2>2. pc'[t] \notin QueuedPC \cup WaitLockPC
    BY <1>4, <1>t DEF SetCtx, QueuedPC, WaitLockPC
  <2> QED BY <2>1, <2>2, <1>outside
<1>5. CASE ReadCount(t)
  <2>1. wait_list' = wait_list /\ wait_lock' = wait_lock
    BY <1>5 DEF ReadCount
  <2>2. pc'[t] \notin QueuedPC \cup WaitLockPC
    BY <1>5, <1>t DEF ReadCount, QueuedPC, WaitLockPC
  <2> QED BY <2>1, <2>2, <1>outside
<1>6. CASE WakeAll(t)
  <2>1. wait_list' = wait_list /\ wait_lock' = wait_lock
    BY <1>6 DEF WakeAll, Woken
  <2>2. pc'[t] \notin QueuedPC \cup WaitLockPC
    BY <1>6, <1>t DEF WakeAll, Woken, QueuedPC, WaitLockPC
  <2> QED BY <2>1, <2>2, <1>outside
<1>7. CASE Spin(t)
  <2>1. wait_list' = wait_list /\ wait_lock' = wait_lock
    BY <1>7 DEF Spin
  <2>2. pc'[t] \notin QueuedPC \cup WaitLockPC
    BY <1>7, <1>t DEF Spin, QueuedPC, WaitLockPC
  <2> QED BY <2>1, <2>2, <1>outside
<1>8. CASE TryAcquire(t)
  <2>1. wait_list' = wait_list /\ wait_lock' = wait_lock
    BY <1>8 DEF TryAcquire, Got
  <2>2. pc'[t] \notin QueuedPC \cup WaitLockPC
    BY <1>8, <1>t DEF TryAcquire, Got, QueuedPC, WaitLockPC
  <2> QED BY <2>1, <2>2, <1>outside
<1>9. CASE SlowLock(t)
  <2>1. /\ lock[t] \in Locks /\ lock' = lock /\ wait_lock[lock[t]] = NULL
        /\ wait_lock' = [wait_lock EXCEPT ![lock[t]] = t]
        /\ \/ pc'[t] = "try_xchg" /\ wait_list' = wait_list
           \/ pc'[t] = "loop" /\ wait_list' = [wait_list EXCEPT ![lock[t]] = list_add_tail(@, t)]
    BY <1>9, <1>t DEF SlowLock
  <2>2. CASE pc'[t] = "try_xchg" /\ wait_list' = wait_list
    <3>1. LeavesQueues(t) /\ wait_lock'[lock[t]] = t
      BY <2>1, <2>2, QueueLocked
    <3> QED BY <1>o, <2>1, <2>2, <3>1, QueueKept DEF QueuedPC
  <2>3. CASE pc'[t] = "loop" /\ wait_list' = [wait_list EXCEPT ![lock[t]] = list_add_tail(@, t)]
    <3>1. LeavesQueues(t) /\ wait_lock'[lock[t]] = t /\ t \in ToSet(wait_list'[lock[t]])
      BY <2>1, <2>3, QueueJoined
    <3> QED BY <1>o, <2>1, <3>1, QueueKept
  <2> QED BY <2>1, <2>2, <2>3
<1>10. CASE TryXchg(t)
  <2>1. /\ lock[t] \in Locks /\ lock' = lock /\ wait_lock' = wait_lock /\ pc[t] = "try_xchg"
        /\ \/ pc'[t] = "skip_wait" /\ wait_list' = wait_list
           \/ pc'[t] = "loop" /\ wait_list' = [wait_list EXCEPT ![lock[t]] = list_add_tail(@, t)]
    BY <1>10, <1>t DEF TryXchg
  <2>2. wait_lock[lock[t]] = t
    BY <1>w, <2>1 DEF WaitLockPC
  <2>3. CASE pc'[t] = "skip_wait" /\ wait_list' = wait_list
    <3>1. LeavesQueues(t)
      BY <2>1, <2>3, QueueSame
    <3> QED BY <1>o, <2>1, <2>2, <2>3, <3>1, QueueKept DEF QueuedPC
  <2>4. CASE pc'[t] = "loop" /\ wait_list' = [wait_list EXCEPT ![lock[t]] = list_add_tail(@, t)]
    <3>1. wait_lock' = [wait_lock EXCEPT ![lock[t]] = t]
      BY <1>w, <2>1, <2>2
    <3>2. LeavesQueues(t) /\ wait_lock'[lock[t]] = t /\ t \in ToSet(wait_list'[lock[t]])
      BY <2>1, <2>2, <2>4, <3>1, QueueJoined
    <3> QED BY <1>o, <2>1, <3>2, QueueKept
  <2> QED BY <2>1, <2>3, <2>4
<1>11. CASE Loop(t)
  <2>1. /\ lock[t] \in Locks /\ lock' = lock /\ wait_list' = wait_list /\ pc[t] \in QueuedPC
        /\ \/ pc[t] = "loop" /\ wait_lock' = wait_lock
           \/ wait_lock[lock[t]] = NULL /\ wait_lock' = [wait_lock EXCEPT ![lock[t]] = t]
    BY <1>11, <1>t DEF Loop, QueuedPC
  <2>2. t \in ToSet(wait_list'[lock[t]])
    BY <1>w, <2>1
  <2>3. CASE pc[t] = "loop" /\ wait_lock' = wait_lock
    <3>1. LeavesQueues(t) /\ wait_lock'[lock[t]] = t
      BY <1>w, <2>1, <2>3, QueueSame DEF WaitLockPC
    <3> QED BY <1>o, <2>1, <2>2, <3>1, QueueKept
  <2>4. CASE wait_lock[lock[t]] = NULL /\ wait_lock' = [wait_lock EXCEPT ![lock[t]] = t]
    <3>1. LeavesQueues(t) /\ wait_lock'[lock[t]] = t
      BY <2>1, <2>4, QueueLocked
    <3> QED BY <1>o, <2>1, <2>2, <3>1, QueueKept
  <2> QED BY <2>1, <2>3, <2>4
<1>12. CASE LoopXchg(t)
  <2>1. /\ lock[t] \in Locks /\ lock' = lock /\ wait_list' = wait_list /\ wait_lock' = wait_lock
        /\ pc[t] \in QueuedPC \cap WaitLockPC
    BY <1>12, <1>t DEF LoopXchg, QueuedPC, WaitLockPC
  <2>2. LeavesQueues(t)
    BY <2>1, QueueSame
  <2> QED BY <1>o, <1>w, <2>1, <2>2, QueueKept
<1>13. CASE Check(t)
  <2>1. /\ lock[t] \in Locks /\ lock' = lock /\ pc[t] = "check"
        /\ \/ /\ pc'[t] \notin QueuedPC \cup WaitLockPC
              /\ wait_list' = [wait_list EXCEPT ![lock[t]] = list_del(@, t)]
              /\ wait_lock' = [wait_lock EXCEPT ![lock[t]] = NULL]
           \/ /\ pc'[t] \in QueuedPC \ WaitLockPC /\ wait_list' = wait_list
              /\ wait_lock' = [wait_lock EXCEPT ![lock[t]] = NULL]
           \/ wait_list' = wait_list /\ wait_lock' = wait_lock
    BY <1>13, <1>t DEF Check, Fail, Sleep, QueuedPC, WaitLockPC
  <2>2. wait_lock[lock[t]] = t /\ t \in ToSet(wait_list[lock[t]])
    BY <1>w, <2>1 DEF QueuedPC, WaitLockPC
  <2>3. CASE /\ pc'[t] \notin QueuedPC \cup WaitLockPC
             /\ wait_list' = [wait_list EXCEPT ![lock[t]] = list_del(@, t)]
             /\ wait_lock' = [wait_lock EXCEPT ![lock[t]] = NULL]
    <3>1. LeavesQueues(t)
      BY <2>1, <2>2, <2>3, QueueLeft
    <3> QED BY <1>o, <2>3, <3>1, QueueKept
  <2>4. CASE /\ pc'[t] \in QueuedPC \ WaitLockPC /\ wait_list' = wait_list
             /\ wait_lock' = [wait_lock EXCEPT ![lock[t]] = NULL]
    <3>1. LeavesQueues(t)
      BY <2>1, <2>2, <2>4, QueueLocked
    <3> QED BY <1>o, <2>1, <2>2, <2>4, <3>1, QueueKept
  <2>6. CASE wait_list' = wait_list /\ wait_lock' = wait_lock
    <3>1. LeavesQueues(t)
      BY <2>6, QueueSame
    <3> QED BY <1>o, <2>1, <2>2, <2>6, <3>1, QueueKept
  <2> QED BY <2>1, <2>3, <2>4, <2>6
<1>14. CASE CheckStamp(t)
  <2>1. /\ lock[t] \in Locks /\ lock' = lock /\ pc[t] = "check_stamp"
        /\ \/ /\ pc'[t] \notin QueuedPC \cup WaitLockPC
              /\ wait_list' = [wait_list EXCEPT ![lock[t]] = list_del(@, t)]
              /\ wait_lock' = [wait_lock EXCEPT ![lock[t]] = NULL]
           \/ /\ pc'[t] \in QueuedPC \ WaitLockPC /\ wait_list' = wait_list
              /\ wait_lock' = [wait_lock EXCEPT ![lock[t]] = NULL]
    BY <1>14, <1>t DEF CheckStamp, Fail, Sleep, QueuedPC, WaitLockPC
  <2>2. wait_lock[lock[t]] = t /\ t \in ToSet(wait_list[lock[t]])
    BY <1>w, <2>1 DEF QueuedPC, WaitLockPC
  <2>3. CASE /\ pc'[t] \notin QueuedPC \cup WaitLockPC
             /\ wait_list' = [wait_list EXCEPT ![lock[t]] = list_del(@, t)]
             /\ wait_lock' = [wait_lock EXCEPT ![lock[t]] = NULL]
    <3>1. LeavesQueues(t)
      BY <2>1, <2>2, <2>3, QueueLeft
    <3> QED BY <1>o, <2>3, <3>1, QueueKept
  <2>4. CASE /\ pc'[t] \in QueuedPC \ WaitLockPC /\ wait_list' = wait_list
             /\ wait_lock' = [wait_lock EXCEPT ![lock[t]] = NULL]
    <3>1. LeavesQueues(t)
      BY <2>1, <2>2, <2>4, QueueLocked
    <3> QED BY <1>o, <2>1, <2>2, <2>4, <3>1, QueueKept
  <2> QED BY <2>1, <2>3, <2>4
<1>15. CASE RemoveWaiter(t)
  <2>1. /\ lock[t] \in Locks /\ pc[t] = "remove_waiter"
        /\ wait_list' = [wait_list EXCEPT ![lock[t]] = list_del(@, t)]
        /\ wait_lock' = [wait_lock EXCEPT ![lock[t]] = NULL]
    BY <1>15, <1>t DEF RemoveWaiter, SetCtxSlow
  <2>2. pc'[t] = "locked"
    BY <1>15, <1>t DEF RemoveWaiter, SetCtxSlow, Woken
  <2>3. wait_lock[lock[t]] = t /\ t \in ToSet(wait_list[lock[t]])
    BY <1>w, <2>1 DEF QueuedPC, WaitLockPC
  <2>4. LeavesQueues(t)
    BY <2>1, <2>3, QueueLeft
  <2> QED BY <1>o, <2>2, <2>4, QueueKept DEF QueuedPC, WaitLockPC
<1>16. CASE SkipWait(t)
  <2>1. /\ lock[t] \in Locks /\ pc[t] = "skip_wait" /\ wait_list' = wait_list
        /\ wait_lock' = [wait_lock EXCEPT ![lock[t]] = NULL]
    BY <1>16, <1>t DEF SkipWait, SetCtxSlow
  <2>2. pc'[t] = "locked"
    BY <1>16, <1>t DEF SkipWait, SetCtxSlow, Woken
  <2>3. wait_lock[lock[t]] = t
    BY <1>w, <2>1 DEF WaitLockPC
  <2>4. LeavesQueues(t)
    BY <2>1, <2>3, QueueLocked
  <2> QED BY <1>o, <2>2, <2>4, QueueKept DEF QueuedPC, WaitLockPC
<1>17. CASE Locked(t)
  <2>1. wait_list' = wait_list /\ wait_lock' = wait_lock
    BY <1>17 DEF Locked
  <2>2. pc'[t] \notin QueuedPC \cup WaitLockPC
    BY <1>17, <1>t DEF Locked, QueuedPC, WaitLockPC
  <2> QED BY <2>1, <2>2, <1>outside
<1>18. CASE Unlocked(t)
  <2>1. wait_list' = wait_list /\ wait_lock' = wait_lock
    BY <1>18 DEF Unlocked
  <2>2. pc'[t] \notin QueuedPC \cup WaitLockPC
    BY <1>18, <1>t DEF Unlocked, QueuedPC, WaitLockPC
  <2> QED BY <2>1, <2>2, <1>outside
<1>19. CASE ww_mutex_unlock(t)
  <2>1. wait_list' = wait_list /\ wait_lock' = wait_lock
    BY <1>19 DEF ww_mutex_unlock
  <2>2. pc'[t] \notin QueuedPC \cup WaitLockPC
    BY <1>19, <1>t DEF ww_mutex_unlock, QueuedPC, WaitLockPC
  <2> QED BY <2>1, <2>2, <1>outside
<1>20. CASE UnlockCount(t)
  <2>1. wait_list' = wait_list /\ wait_lock' = wait_lock
    BY <1>20 DEF UnlockCount
  <2>2. pc'[t] \notin QueuedPC \cup WaitLockPC
    BY <1>20, <1>t DEF UnlockCount, QueuedPC, WaitLockPC
  <2> QED BY <2>1, <2>2, <1>outside
<1>21. CASE UnlockSlow(t)
  <2>1. wait_list' = wait_list /\ wait_lock' = wait_lock
    BY <1>21 DEF UnlockSlow
  <2>2. pc'[t] \notin QueuedPC \cup WaitLockPC
    BY <1>21, <1>t DEF UnlockSlow, QueuedPC, WaitLockPC
  <2> QED BY <2>1, <2>2, <1>outside
<1>22. CASE Wake(t)
  <2>1. wait_list' = wait_list /\ wait_lock' = wait_lock
    BY <1>22 DEF Wake, Woken
  <2>2. pc'[t] \notin QueuedPC \cup WaitLockPC
    BY <1>22, <1>t DEF Wake, Woken, QueuedPC, WaitLockPC
  <2> QED BY <2>1, <2>2, <1>outside
<1>23. CASE Signal(t)
  <2>1. /\ wait_list' = wait_list /\ wait_lock' = wait_lock /\ lock' = lock
        /\ pc'[t] = pc[t] \/ (pc[t] = "sleep" /\ pc'[t] = "woken")
    BY <1>23, <1>t DEF Signal, Woken
  <2>2. LeavesQueues(t)
    BY <2>1, QueueSame
  <2> QED BY <1>o, <1>w, <2>1, <2>2, QueueKept DEF QueuedPC, WaitLockPC
<1> QED
  BY <1>1, <1>2, <1>3, <1>4, <1>5, <1>6, <1>7, <1>8, <1>9, <1>10, <1>11,
     <1>12, <1>13, <1>14, <1>15, <1>16, <1>17, <1>18, <1>19, <1>20, <1>21,
     <1>22, <1>23 DEF TaskStep, Step

(* The lists and the wait_locks are always right. *)
LEMMA QueueInductive ==
  /\ Init => QueueInv
  /\ IInv /\ QueueInv /\ [Next]_vars => QueueInv'
<1>1. ASSUME Init PROVE QueueInv
  BY <1>1, EmptyList DEF Init, QueueInv, QueueTypes, OnList, HoldsWaitLock, QueuedPC, WaitLockPC
<1>2. ASSUME IInv, QueueInv, Next PROVE QueueInv'
  <2>1. PICK t \in Tasks : TaskStep(t)
    BY <1>2 DEF Next, TaskStep
  <2> QED BY <1>2, <2>1, QueueStep
<1>3. ASSUME QueueInv, UNCHANGED vars PROVE QueueInv'
  BY <1>3 DEF QueueInv, QueueTypes, OnList, HoldsWaitLock, vars, mutex
<1> QED BY <1>1, <1>2, <1>3

----------------------------------------------------------------------------
(* What the first waiter, if it has other locks, knows about the holder *)

(* Tasks that look at ctx when they wait *)
HasOthers(x) == UseCtx(x) /\ acquired[x] > 0

WaitingPC == {"check", "check_stamp", "sleep"}

SomeoneAt(l, pcs) == \E u \in Tasks : lock[u] = l /\ pc[u] \in pcs

(* A waiter has left the count negative; if it is not any more, or is      *)
(* about to be set to 0, an unlock is on its way to wake the waiter.       *)
NotLost(x) ==
  /\ HasOthers(x) /\ pc[x] \in WaitingPC /\ ctx[lock[x]] # x
  /\ count[lock[x]] >= 0 \/ SomeoneAt(lock[x], {"try_xchg"})
  => SomeoneAt(lock[x], {"unlock_slow", "wake"})

(* Somebody will wake the first waiter of l: the holder that just set ctx, *)
(* or the task that unlocked before.                                       *)
WillTell(l) ==
  \/ ctx[l] # NULL /\ lock[ctx[l]] = l /\ pc[ctx[l]] \in {"read_count", "wake_all"}
  \/ SomeoneAt(l, {"wake"})

(* A waiter has seen the holder's ctx, or will be told of it. *)
HasLooked(x) ==
  HasOthers(x) =>
    /\ pc[x] = "check_stamp" => ctx[lock[x]] \in {NULL, hold_ctx[x]} \/ WillTell(lock[x])
    /\ pc[x] = "sleep" => \/ ctx[lock[x]] = NULL
                          \/ ~Younger(stamp[x], stamp[ctx[lock[x]]])
                          \/ WillTell(lock[x])
    /\ pc[x] \in {"check_stamp", "sleep"} => ctx[lock[x]] # x

WaitInv == \A x \in Tasks : Paired(lock[x]) => NotLost(x) /\ HasLooked(x)

(* What a step of t does to the count of a lock l others wait for: it does *)
(* not make it 0 or 1, and is no unlock; or it is an unlock that is not    *)
(* over yet; or it is the xchg() after a look at the count, ...            *)
KeepsCount(t, l) ==
  \/ /\ count'[l] >= 0 => count[l] >= 0
     /\ pc'[t] = "try_xchg" /\ lock'[t] = l => count[l] >= 0
     /\ ~(lock[t] = l /\ pc[t] \in {"unlock_slow", "wake"})
  \/ lock'[t] = l /\ pc'[t] \in {"unlock_slow", "wake"}
  \/ lock[t] = l /\ pc[t] = "try_xchg"

(* ... and to its ctx: nothing, and whoever was to tell the waiters still  *)
(* is; it clears or sets it; or it finds the lock not contended.           *)
KeepsCtx(t, l) ==
  \/ /\ ctx'[l] = ctx[l]
     /\ \/ ~(lock[t] = l /\ pc[t] \in {"read_count", "wake_all", "wake"})
        \/ lock'[t] = l /\ pc[t] = "read_count" /\ pc'[t] = "wake_all"
  \/ ctx'[l] = NULL
  \/ ctx'[l] = t /\ lock'[t] = l /\ pc'[t] = "read_count"
  \/ ctx'[l] = ctx[l] /\ lock[t] = l /\ pc[t] = "read_count" /\ count[l] = 0

(* Every step is of these kinds, or wakes the first waiter. *)
LEMMA WaiterKinds ==
  ASSUME IInv, QueueInv, NEW t \in Tasks, TaskStep(t), NEW x \in Tasks \ {t}, pc[x] \in WaitingPC,
         x = Head(wait_list[lock[x]])
  PROVE  pc'[x] # pc[x] \/ (KeepsCount(t, lock[x]) /\ KeepsCtx(t, lock[x]))
<1> DEFINE l == lock[x]
<1>t. /\ pc \in [Tasks -> PC] /\ lock \in [Tasks -> Locks \cup {NULL}] /\ l \in Locks
      /\ count \in [Locks -> Int] /\ ctx \in [Locks -> Tasks \cup {NULL}]
      /\ pc[t] # "idle" => lock[t] \in Locks
  BY DEF IInv, TypeOK, ListsRight, WaitingPC
<1>w. /\ x \in ToSet(wait_list[l]) /\ wait_list[l] \in Seq(Tasks)
      /\ pc[x] = "sleep" \/ wait_lock[l] = x
      /\ pc[t] \in QueuedPC => t \in ToSet(wait_list[lock[t]])
      /\ pc[t] \in WaitLockPC => wait_lock[lock[t]] = t
      /\ t # NULL /\ x # NULL
  BY <1>t DEF QueueInv, OnList, HoldsWaitLock, QueueTypes, WaitingPC, QueuedPC, WaitLockPC
<1> HIDE DEF l
<1> SUFFICES pc'[x] # pc[x] \/ (KeepsCount(t, l) /\ KeepsCtx(t, l))
  BY DEF l
<1> USE DEF Goto, mutex, context, caller
<1>1. ASSUME NEW p \in Plans[t], ww_acquire_init(t, p)
      PROVE  KeepsCount(t, l) /\ KeepsCtx(t, l)
  <2>1. KeepsCount(t, l)
    BY <1>1, <1>t DEF ww_acquire_init, KeepsCount
  <2>2. KeepsCtx(t, l)
    BY <1>1, <1>t DEF ww_acquire_init, KeepsCtx
  <2> QED BY <2>1, <2>2
<1>2. CASE ww_mutex_lock(t)
  <2>1. KeepsCount(t, l)
    BY <1>2, <1>t DEF ww_mutex_lock, Got, KeepsCount
  <2>2. KeepsCtx(t, l)
    BY <1>2, <1>t DEF ww_mutex_lock, Got, KeepsCtx
  <2> QED BY <2>1, <2>2
<1>3. CASE ww_mutex_trylock(t)
  <2>1. KeepsCount(t, l)
    BY <1>3, <1>t DEF ww_mutex_trylock, KeepsCount
  <2>2. KeepsCtx(t, l)
    BY <1>3, <1>t DEF ww_mutex_trylock, KeepsCtx
  <2> QED BY <2>1, <2>2
<1>4. CASE SetCtx(t)
  <2>1. KeepsCount(t, l)
    BY <1>4, <1>t DEF SetCtx, KeepsCount
  <2>2. KeepsCtx(t, l)
    BY <1>4, <1>t DEF SetCtx, KeepsCtx
  <2> QED BY <2>1, <2>2
<1>5. CASE ReadCount(t)
  <2>1. KeepsCount(t, l)
    BY <1>5, <1>t DEF ReadCount, KeepsCount
  <2>2. KeepsCtx(t, l)
    BY <1>5, <1>t DEF ReadCount, KeepsCtx
  <2> QED BY <2>1, <2>2
<1>6. CASE WakeAll(t)
  <2>1. CASE lock[t] = l
    <3>1. pc[x] = "sleep" /\ pc'[x] = "woken"
      BY <1>6, <1>t, <1>w, <2>1 DEF WakeAll, Woken
    <3> QED BY <3>1
  <2>2. CASE lock[t] # l
    BY <1>6, <1>t, <2>2 DEF WakeAll, Woken, KeepsCount, KeepsCtx
  <2> QED BY <2>1, <2>2
<1>7. CASE Spin(t)
  <2>1. KeepsCount(t, l)
    BY <1>7, <1>t DEF Spin, KeepsCount
  <2>2. KeepsCtx(t, l)
    BY <1>7, <1>t DEF Spin, KeepsCtx
  <2> QED BY <2>1, <2>2
<1>8. CASE TryAcquire(t)
  <2>1. KeepsCount(t, l)
    BY <1>8, <1>t DEF TryAcquire, Got, KeepsCount
  <2>2. KeepsCtx(t, l)
    BY <1>8, <1>t DEF TryAcquire, Got, KeepsCtx
  <2> QED BY <2>1, <2>2
<1>9. CASE SlowLock(t)
  <2>1. KeepsCount(t, l)
    BY <1>9, <1>t DEF SlowLock, KeepsCount
  <2>2. KeepsCtx(t, l)
    BY <1>9, <1>t DEF SlowLock, KeepsCtx
  <2> QED BY <2>1, <2>2
<1>10. CASE TryXchg(t)
  <2>1. KeepsCount(t, l)
    BY <1>10, <1>t DEF TryXchg, KeepsCount
  <2>2. KeepsCtx(t, l)
    BY <1>10, <1>t DEF TryXchg, KeepsCtx
  <2> QED BY <2>1, <2>2
<1>11. CASE Loop(t)
  <2>1. KeepsCount(t, l)
    BY <1>11, <1>t DEF Loop, KeepsCount
  <2>2. KeepsCtx(t, l)
    BY <1>11, <1>t DEF Loop, KeepsCtx
  <2> QED BY <2>1, <2>2
<1>12. CASE LoopXchg(t)
  <2>1. KeepsCount(t, l)
    BY <1>12, <1>t DEF LoopXchg, KeepsCount
  <2>2. KeepsCtx(t, l)
    BY <1>12, <1>t DEF LoopXchg, KeepsCtx
  <2> QED BY <2>1, <2>2
<1>13. CASE Check(t)
  <2>1. KeepsCount(t, l)
    BY <1>13, <1>t DEF Check, Fail, Sleep, KeepsCount
  <2>2. KeepsCtx(t, l)
    BY <1>13, <1>t DEF Check, Fail, Sleep, KeepsCtx
  <2> QED BY <2>1, <2>2
<1>14. CASE CheckStamp(t)
  <2>1. KeepsCount(t, l)
    BY <1>14, <1>t DEF CheckStamp, Fail, Sleep, KeepsCount
  <2>2. KeepsCtx(t, l)
    BY <1>14, <1>t DEF CheckStamp, Fail, Sleep, KeepsCtx
  <2> QED BY <2>1, <2>2
<1>15. CASE RemoveWaiter(t)
  <2>0. /\ pc[t] = "remove_waiter" /\ pc'[t] = "locked"
        /\ count' = [count EXCEPT ![lock[t]] =
                       IF list_del(wait_list[lock[t]], t) = <<>> THEN 0 ELSE @]
    BY <1>15, <1>t DEF RemoveWaiter, SetCtxSlow, Woken
  <2>1. CASE lock[t] = l
    <3>1. wait_lock[l] = t /\ t \in ToSet(wait_list[l]) /\ pc[x] = "sleep"
      BY <1>w, <2>0, <2>1 DEF QueuedPC, WaitLockPC
    <3>2. x \in ToSet(list_del(wait_list[l], t)) /\ list_del(wait_list[l], t) # <<>>
      BY <1>w, <3>1, DelKeeps
    <3>3. CASE UseCtx(t)
      <4>1. pc'[x] = "woken"
        BY <1>15, <1>t, <2>1, <3>1, <3>2, <3>3 DEF RemoveWaiter, SetCtxSlow, Woken
      <4> QED BY <3>1, <4>1
    <3>4. CASE ~UseCtx(t)
      <4>1. count' = count
        BY <1>t, <2>0, <2>1, <3>2
      <4>2. ctx' = ctx
        BY <1>15, <3>4 DEF RemoveWaiter, SetCtxSlow
      <4> QED BY <2>0, <4>1, <4>2 DEF KeepsCount, KeepsCtx
    <3> QED BY <3>3, <3>4
  <2>2. CASE lock[t] # l
    <3>1. count'[l] = count[l]
      BY <1>t, <2>0, <2>2
    <3>2. ctx'[l] = ctx[l]
      BY <1>15, <1>t, <2>2 DEF RemoveWaiter, SetCtxSlow
    <3> QED BY <2>0, <2>2, <3>1, <3>2 DEF KeepsCount, KeepsCtx
  <2> QED BY <2>1, <2>2
<1>16. CASE SkipWait(t)
  <2>0. pc[t] = "skip_wait" /\ pc'[t] = "locked" /\ count' = count
    BY <1>16, <1>t DEF SkipWait, SetCtxSlow, Woken
  <2>1. CASE lock[t] = l /\ UseCtx(t)
    <3>1. wait_lock[l] = t /\ pc[x] = "sleep"
      BY <1>w, <2>0, <2>1 DEF WaitLockPC
    <3>2. pc'[x] = "woken"
      BY <1>16, <1>t, <1>w, <2>1, <3>1 DEF SkipWait, SetCtxSlow, Woken
    <3> QED BY <3>1, <3>2
  <2>2. CASE ~(lock[t] = l /\ UseCtx(t))
    <3>1. ctx'[l] = ctx[l]
      BY <1>16, <1>t, <2>2 DEF SkipWait, SetCtxSlow
    <3> QED BY <2>0, <3>1 DEF KeepsCount, KeepsCtx
  <2> QED BY <2>1, <2>2
<1>17. CASE Locked(t)
  <2>1. KeepsCount(t, l)
    BY <1>17, <1>t DEF Locked, KeepsCount
  <2>2. KeepsCtx(t, l)
    BY <1>17, <1>t DEF Locked, KeepsCtx
  <2> QED BY <2>1, <2>2
<1>18. CASE Unlocked(t)
  <2>1. KeepsCount(t, l)
    BY <1>18, <1>t DEF Unlocked, KeepsCount
  <2>2. KeepsCtx(t, l)
    BY <1>18, <1>t DEF Unlocked, KeepsCtx
  <2> QED BY <2>1, <2>2
<1>19. CASE ww_mutex_unlock(t)
  <2>1. KeepsCount(t, l)
    BY <1>19, <1>t DEF ww_mutex_unlock, KeepsCount
  <2>2. KeepsCtx(t, l)
    BY <1>19, <1>t DEF ww_mutex_unlock, KeepsCtx
  <2> QED BY <2>1, <2>2
<1>20. CASE UnlockCount(t)
  <2>1. KeepsCount(t, l)
    BY <1>20, <1>t DEF UnlockCount, KeepsCount
  <2>2. KeepsCtx(t, l)
    BY <1>20, <1>t DEF UnlockCount, KeepsCtx
  <2> QED BY <2>1, <2>2
<1>21. CASE UnlockSlow(t)
  <2>1. KeepsCount(t, l)
    BY <1>21, <1>t DEF UnlockSlow, KeepsCount
  <2>2. KeepsCtx(t, l)
    BY <1>21, <1>t DEF UnlockSlow, KeepsCtx
  <2> QED BY <2>1, <2>2
<1>22. CASE Wake(t)
  <2>1. CASE lock[t] = l
    <3>1. pc[x] = "sleep" /\ wait_list[l] # <<>>
      BY <1>22, <1>t, <1>w, <2>1, EmptyList DEF Wake
    <3>2. pc'[x] = "woken"
      BY <1>22, <1>t, <2>1, <3>1 DEF Wake, Woken, l
    <3> QED BY <3>1, <3>2
  <2>2. CASE lock[t] # l
    BY <1>22, <1>t, <2>2 DEF Wake, Woken, KeepsCount, KeepsCtx
  <2> QED BY <2>1, <2>2
<1>23. CASE Signal(t)
  <2>1. KeepsCount(t, l)
    BY <1>23, <1>t DEF Signal, Woken, KeepsCount
  <2>2. KeepsCtx(t, l)
    BY <1>23, <1>t DEF Signal, Woken, KeepsCtx
  <2> QED BY <2>1, <2>2
<1> QED
  BY <1>1, <1>2, <1>3, <1>4, <1>5, <1>6, <1>7, <1>8, <1>9, <1>10, <1>11,
     <1>12, <1>13, <1>14, <1>15, <1>16, <1>17, <1>18, <1>19, <1>20, <1>21,
     <1>22, <1>23 DEF TaskStep, Step

(* A step of t leaves the number of another task's locks alone. *)
LEMMA AcquiredKept ==
  ASSUME IInv, NEW t \in Tasks, TaskStep(t), NEW x \in Tasks \ {t}
  PROVE  acquired'[x] = acquired[x]
<1>1. TypeOK /\ ListsRight /\ Exclusion /\ CtxHolds /\ acquired \in [Tasks -> Int]
  BY DEF IInv, TypeOK
<1>2. CASE SameCtx(t)
  BY <1>1, <1>2 DEF SameCtx
<1>3. CASE SetsCtx(t)
  BY <1>1, <1>3 DEF SetsCtx
<1>4. CASE ClearsCtx(t)
  <2>1. PICK l \in Locks :
          /\ Has(t, l)
          /\ acquired' = IF ctx[l] = NULL THEN acquired
                         ELSE [acquired EXCEPT ![ctx[l]] = IF @ > 0 THEN @ - 1 ELSE @]
    BY <1>4 DEF ClearsCtx
  <2>2. CASE ctx[l] = NULL
    BY <2>1, <2>2
  <2>3. CASE ctx[l] # NULL
    <3>1. ctx[l] \in Tasks /\ Has(ctx[l], l)
      BY <1>1, <2>3 DEF TypeOK, CtxHolds
    <3>2. ctx[l] = t
      BY <1>1, <2>1, <3>1 DEF Exclusion
    <3> QED BY <1>1, <2>1, <2>3, <3>2
  <2> QED BY <2>2, <2>3
<1> QED BY <1>1, <1>2, <1>3, <1>4, CtxKinds

(* A lock's ctx is a task with a context in use. *)
LEMMA CtxBusy ==
  ASSUME IInv, NEW l \in Locks, ctx[l] # NULL
  PROVE  ctx[l] \in Tasks /\ pc[ctx[l]] # "idle"
<1>1. ctx[l] \in Tasks /\ Has(ctx[l], l)
  BY DEF IInv, TypeOK, CtxHolds
<1>2. ASSUME NEW c \in Tasks, pc[c] = "idle" PROVE ~Has(c, l)
  BY <1>2, EmptyList DEF IInv, ListsRight, Has, HoldPC
<1> QED BY <1>1, <1>2

(* A context that is in use keeps its stamp. *)
LEMMA StampKept ==
  ASSUME IInv, AgeInv, NEW t \in Tasks, TaskStep(t), NEW u \in Tasks, pc[u] # "idle"
  PROVE  stamp'[u] = stamp[u]
<1>1. TypeOK /\ ListsRight /\ stamp \in [Tasks -> 0..ULONG_MAX]
  BY DEF IInv, AgeInv, StampTypes
<1>2. CASE Begins(t)
  BY <1>1, <1>2 DEF Begins
<1>3. CASE Ends(t)
  BY <1>3 DEF Ends
<1>4. CASE KeepsStamps(t)
  BY <1>4 DEF KeepsStamps
<1> QED BY <1>1, <1>2, <1>3, <1>4, StampKinds

(* The context that another waiter has read is the same, or is gone and    *)
(* not the lock's any more.                                                *)
LEMMA HoldCtxKept ==
  ASSUME IInv, IInv', AgeInv, NEW t \in Tasks, TaskStep(t), NEW x \in Tasks \ {t},
         NEW l \in Locks, ctx'[l] = hold_ctx[x]
  PROVE  hold_ctx'[x] = hold_ctx[x]
<1>1. TypeOK /\ ListsRight /\ hold_ctx \in [Tasks -> Tasks \cup {NULL, Gone}]
  BY DEF IInv, AgeInv, StampTypes
<1>2. CASE Begins(t)
  BY <1>2 DEF Begins
<1>3. CASE Ends(t)
  <2>1. /\ pc'[t] = "idle"
        /\ hold_ctx'[x] = IF hold_ctx[x] = t THEN Gone ELSE hold_ctx[x]
    BY <1>1, <1>3 DEF Ends, TypeOK
  <2>2. ctx'[l] # t
    <3>1. ctx'[l] = t => Has(t, l)'
      BY DEF IInv, CtxHolds
    <3>2. locked'[t] = <<>>
      BY <2>1 DEF IInv, ListsRight
    <3>3. ~Has(t, l)'
      BY <2>1, <3>2, EmptyList DEF Has, HoldPC
    <3> QED BY <3>1, <3>3
  <2> QED BY <2>1, <2>2
<1>4. CASE ReadsCtx(t) \/ Compares(t) \/ Works(t)
  BY <1>1, <1>4 DEF ReadsCtx, Compares, Works
<1> QED BY <1>1, <1>2, <1>3, <1>4, StampKinds

(* NotLost of a waiter, when another task makes a step *)
LEMMA NotLostOther ==
  ASSUME IInv, NEW t \in Tasks, LeavesOthers(t), NEW x \in Tasks \ {t}, pc'[x] = pc[x],
         acquired'[x] = acquired[x], ctx[lock[x]] # x, NotLost(x), KeepsCount(t, lock[x])
  PROVE  NotLost(x)'
<1>l. PICK l : l = lock[x]
  OBVIOUS
<1>1. lock'[x] = l
  BY <1>l DEF LeavesOthers
<1> SUFFICES ASSUME HasOthers(x), pc[x] \in WaitingPC,
                    count'[l] >= 0 \/ SomeoneAt(l, {"try_xchg"})'
             PROVE  SomeoneAt(l, {"unlock_slow", "wake"})'
  BY <1>1 DEF NotLost, HasOthers, UseCtx, SomeoneAt
<1>n. /\ count[l] >= 0 \/ SomeoneAt(l, {"try_xchg"}) => SomeoneAt(l, {"unlock_slow", "wake"})
      /\ KeepsCount(t, l)
  BY <1>l DEF NotLost
<1>2. CASE lock'[t] = l /\ pc'[t] \in {"unlock_slow", "wake"}
  BY <1>2 DEF SomeoneAt
<1>3. ASSUME NEW u \in Tasks \ {t}, lock[u] = l, pc[u] \in {"unlock_slow", "wake"}
      PROVE  SomeoneAt(l, {"unlock_slow", "wake"})'
  BY <1>3 DEF LeavesOthers, SomeoneAt
<1>4. CASE /\ count'[l] >= 0 => count[l] >= 0
           /\ pc'[t] = "try_xchg" /\ lock'[t] = l => count[l] >= 0
           /\ ~(lock[t] = l /\ pc[t] \in {"unlock_slow", "wake"})
  <2>1. count[l] >= 0 \/ SomeoneAt(l, {"try_xchg"})
    BY <1>4 DEF SomeoneAt, LeavesOthers
  <2>2. PICK u \in Tasks : lock[u] = l /\ pc[u] \in {"unlock_slow", "wake"}
    BY <1>n, <2>1 DEF SomeoneAt
  <2> QED BY <1>3, <1>4, <2>2
<1>5. CASE lock[t] = l /\ pc[t] = "try_xchg"
  <2>1. SomeoneAt(l, {"try_xchg"})
    BY <1>5 DEF SomeoneAt
  <2>2. PICK u \in Tasks : lock[u] = l /\ pc[u] \in {"unlock_slow", "wake"}
    BY <1>n, <2>1 DEF SomeoneAt
  <2> QED BY <1>3, <1>5, <2>2
<1> QED BY <1>n, <1>2, <1>4, <1>5 DEF KeepsCount

(* HasLooked of a waiter, when another task makes a step *)
LEMMA LookedOther ==
  ASSUME IInv, IInv', AgeInv, NEW t \in Tasks, TaskStep(t), LeavesOthers(t),
         NEW x \in Tasks \ {t}, pc'[x] = pc[x], pc[x] \in WaitingPC,
         ctx[lock[x]] # x, NotLost(x), HasLooked(x), KeepsCtx(t, lock[x])
  PROVE  HasLooked(x)'
<1>l. PICK l : l = lock[x]
  OBVIOUS
<1>1. /\ lock'[x] = l /\ l \in Locks /\ acquired'[x] = acquired[x]
      /\ ctx \in [Locks -> Tasks \cup {NULL}] /\ pc[x] # "idle"
  BY <1>l, AcquiredKept DEF LeavesOthers, IInv, ListsRight, TypeOK, WaitingPC
<1> SUFFICES ASSUME HasOthers(x)
             PROVE  /\ pc[x] = "check_stamp" => ctx'[l] \in {NULL, hold_ctx'[x]} \/ WillTell(l)'
                    /\ pc[x] = "sleep" => \/ ctx'[l] = NULL
                                          \/ ~Younger(stamp'[x], stamp'[ctx'[l]])
                                          \/ WillTell(l)'
                    /\ pc[x] \in {"check_stamp", "sleep"} => ctx'[l] # x
  BY <1>1 DEF HasLooked, HasOthers, UseCtx, WillTell, SomeoneAt, Younger
<1>2. /\ pc[x] = "check_stamp" => ctx[l] \in {NULL, hold_ctx[x]} \/ WillTell(l)
      /\ pc[x] = "sleep" => ctx[l] = NULL \/ ~Younger(stamp[x], stamp[ctx[l]]) \/ WillTell(l)
      /\ pc[x] \in {"check_stamp", "sleep"} => ctx[l] # x
  BY <1>l DEF HasLooked
<1>3. CASE ctx'[l] = NULL
  BY <1>3
<1>4. CASE ctx'[l] = t /\ lock'[t] = l /\ pc'[t] = "read_count"
  <2>1. WillTell(l)'
    BY <1>4 DEF WillTell
  <2> QED BY <1>4, <2>1
<1>5. ASSUME ctx'[l] = ctx[l], WillTell(l) => WillTell(l)'
      PROVE  /\ pc[x] = "check_stamp" => ctx'[l] \in {NULL, hold_ctx'[x]} \/ WillTell(l)'
             /\ pc[x] = "sleep" => \/ ctx'[l] = NULL
                                   \/ ~Younger(stamp'[x], stamp'[ctx'[l]])
                                   \/ WillTell(l)'
             /\ pc[x] \in {"check_stamp", "sleep"} => ctx'[l] # x
  <2>1. stamp'[x] = stamp[x]
    BY <1>1, StampKept
  <2>2. ctx[l] # NULL => stamp'[ctx[l]] = stamp[ctx[l]]
    BY <1>1, CtxBusy, StampKept
  <2>3. ctx[l] = hold_ctx[x] => hold_ctx'[x] = hold_ctx[x]
    BY <1>1, <1>5, HoldCtxKept
  <2> QED BY <1>2, <1>5, <2>1, <2>2, <2>3
<1>6. CASE /\ ctx'[l] = ctx[l]
           /\ \/ ~(lock[t] = l /\ pc[t] \in {"read_count", "wake_all", "wake"})
              \/ lock'[t] = l /\ pc[t] = "read_count" /\ pc'[t] = "wake_all"
  <2>1. ASSUME ctx[l] # NULL, lock[ctx[l]] = l, pc[ctx[l]] \in {"read_count", "wake_all"}
        PROVE  WillTell(l)'
    <3>1. ctx[l] \in Tasks
      BY <1>1, <2>1
    <3>2. CASE ctx[l] = t
      BY <1>6, <2>1, <3>2 DEF WillTell
    <3>3. CASE ctx[l] # t
      BY <1>6, <2>1, <3>1, <3>3 DEF WillTell, LeavesOthers
    <3> QED BY <3>2, <3>3
  <2>2. ASSUME SomeoneAt(l, {"wake"}) PROVE WillTell(l)'
    <3>1. PICK u \in Tasks : lock[u] = l /\ pc[u] = "wake"
      BY <2>2 DEF SomeoneAt
    <3>2. u # t
      BY <1>6, <3>1
    <3> QED BY <3>1, <3>2 DEF WillTell, SomeoneAt, LeavesOthers
  <2>3. WillTell(l) => WillTell(l)'
    BY <2>1, <2>2 DEF WillTell
  <2> QED BY <1>5, <1>6, <2>3
<1>7. CASE ctx'[l] = ctx[l] /\ lock[t] = l /\ pc[t] = "read_count" /\ count[l] = 0
  <2>1. SomeoneAt(l, {"unlock_slow", "wake"})
    BY <1>7, <1>l DEF NotLost
  <2>2. PICK u \in Tasks : lock[u] = l /\ pc[u] \in {"unlock_slow", "wake"}
    BY <2>1 DEF SomeoneAt
  <2>3. u # t
    BY <1>7, <2>2
  <2>4. pc[u] = "wake"
    <3>1. Has(t, l)
      BY <1>7 DEF Has, HoldPC
    <3>2. pc[u] = "unlock_slow" => Has(u, l)
      BY <2>2 DEF Has, HoldPC
    <3> QED BY <1>1, <2>2, <2>3, <3>1, <3>2 DEF IInv, Exclusion
  <2>5. WillTell(l)'
    BY <2>2, <2>3, <2>4 DEF WillTell, SomeoneAt, LeavesOthers
  <2> QED BY <1>5, <1>7, <2>5
<1> QED BY <1>l, <1>3, <1>4, <1>6, <1>7 DEF KeepsCtx

(* A task comes to wait, having made the count negative, ... *)
ComesToWait(t) == pc'[t] = "check" /\ lock' = lock /\ ~(count'[lock[t]] >= 0)

(* ... or it looks at the ctx, or falls asleep, with nothing else changed. *)
LooksOrSleeps(t) ==
  /\ pc[t] \in WaitingPC /\ lock' = lock /\ count' = count /\ ctx' = ctx /\ acquired' = acquired
  /\ stamp' = stamp /\ \A u \in Tasks \ {t} : pc'[u] = pc[u]
  /\ \/ pc'[t] = "check"
     \/ pc'[t] = "check_stamp" /\ hold_ctx'[t] = ctx[lock[t]] /\ ctx[lock[t]] # t
     \/ pc'[t] = "sleep" /\ (HasOthers(t) => ctx[lock[t]] = NULL)
     \/ /\ pc[t] = "check_stamp" /\ pc'[t] = "sleep"
        /\ hold_ctx[t] # Gone => ~Younger(stamp[t], stamp[hold_ctx[t]])

(* A step after which t waits is one of these. *)
LEMMA SelfKinds ==
  ASSUME IInv, AgeInv, NEW t \in Tasks, TaskStep(t), pc'[t] \in WaitingPC
  PROVE  ComesToWait(t) \/ LooksOrSleeps(t)
<1>t. /\ pc \in [Tasks -> PC] /\ count \in [Locks -> Int]
      /\ pc[t] # "idle" => lock[t] \in Locks
      /\ hold_ctx \in [Tasks -> Tasks \cup {NULL, Gone}]
  BY DEF IInv, TypeOK, ListsRight, AgeInv, StampTypes
<1> USE DEF Goto, mutex, context, caller
<1>1. ASSUME NEW p \in Plans[t], ww_acquire_init(t, p) PROVE FALSE
  BY <1>1, <1>t DEF ww_acquire_init, WaitingPC
<1>2. CASE ww_mutex_lock(t)
  BY <1>2, <1>t DEF ww_mutex_lock, Got, WaitingPC
<1>3. CASE ww_mutex_trylock(t)
  BY <1>3, <1>t DEF ww_mutex_trylock, WaitingPC
<1>4. CASE SetCtx(t)
  BY <1>4, <1>t DEF SetCtx, WaitingPC
<1>5. CASE ReadCount(t)
  BY <1>5, <1>t DEF ReadCount, WaitingPC
<1>6. CASE WakeAll(t)
  BY <1>6, <1>t DEF WakeAll, Woken, WaitingPC
<1>7. CASE Spin(t)
  BY <1>7, <1>t DEF Spin, WaitingPC
<1>8. CASE TryAcquire(t)
  BY <1>8, <1>t DEF TryAcquire, Got, WaitingPC
<1>9. CASE SlowLock(t)
  BY <1>9, <1>t DEF SlowLock, WaitingPC
<1>10. CASE TryXchg(t)
  BY <1>10, <1>t DEF TryXchg, WaitingPC
<1>11. CASE Loop(t)
  <2>1. ComesToWait(t)
    BY <1>11, <1>t DEF Loop, ComesToWait, WaitingPC
  <2> QED BY <2>1
<1>12. CASE LoopXchg(t)
  <2>1. ComesToWait(t)
    BY <1>12, <1>t DEF LoopXchg, ComesToWait, WaitingPC
  <2> QED BY <2>1
<1>13. CASE Check(t)
  <2>1. LooksOrSleeps(t)
    BY <1>13, <1>t DEF Check, Fail, Sleep, LooksOrSleeps, WaitingPC, HasOthers
  <2> QED BY <2>1
<1>14. CASE CheckStamp(t)
  <2>1. LooksOrSleeps(t)
    BY <1>14, <1>t DEF CheckStamp, Fail, Sleep, LooksOrSleeps, WaitingPC
  <2> QED BY <2>1
<1>15. CASE RemoveWaiter(t)
  BY <1>15, <1>t DEF RemoveWaiter, SetCtxSlow, Woken, WaitingPC
<1>16. CASE SkipWait(t)
  BY <1>16, <1>t DEF SkipWait, SetCtxSlow, Woken, WaitingPC
<1>17. CASE Locked(t)
  BY <1>17, <1>t DEF Locked, WaitingPC
<1>18. CASE Unlocked(t)
  BY <1>18, <1>t DEF Unlocked, WaitingPC
<1>19. CASE ww_mutex_unlock(t)
  BY <1>19, <1>t DEF ww_mutex_unlock, WaitingPC
<1>20. CASE UnlockCount(t)
  BY <1>20, <1>t DEF UnlockCount, WaitingPC
<1>21. CASE UnlockSlow(t)
  BY <1>21, <1>t DEF UnlockSlow, WaitingPC
<1>22. CASE Wake(t)
  BY <1>22, <1>t DEF Wake, Woken, WaitingPC
<1>23. CASE Signal(t)
  <2>1. pc[t] = "check" /\ pc' = pc
    BY <1>23, <1>t DEF Signal, Woken, WaitingPC
  <2>2. LooksOrSleeps(t)
    BY <1>23, <2>1 DEF Signal, LooksOrSleeps, WaitingPC
  <2> QED BY <2>2
<1> QED
  BY <1>1, <1>2, <1>3, <1>4, <1>5, <1>6, <1>7, <1>8, <1>9, <1>10, <1>11,
     <1>12, <1>13, <1>14, <1>15, <1>16, <1>17, <1>18, <1>19, <1>20, <1>21,
     <1>22, <1>23 DEF TaskStep, Step

(* The waiter's own steps: it looks while it holds wait_lock. *)
LEMMA WaiterSelf ==
  ASSUME IInv, AgeInv, QueueInv', NEW t \in Tasks, TaskStep(t),
         lock'[t] = lock[t] => NotLost(t) /\ HasLooked(t)
  PROVE  NotLost(t)' /\ HasLooked(t)'
<1>1. CASE pc'[t] \notin WaitingPC
  BY <1>1 DEF NotLost, HasLooked, WaitingPC
<1>2. CASE ComesToWait(t)
  <2>l. PICK l : l = lock[t]
    OBVIOUS
  <2>1. pc'[t] = "check" /\ lock'[t] = l /\ ~(count'[l] >= 0)
    BY <1>2, <2>l DEF ComesToWait
  <2>2. wait_lock'[l] = t
    BY <2>1 DEF QueueInv, HoldsWaitLock, WaitLockPC
  <2>3. ~SomeoneAt(l, {"try_xchg"})'
    <3>1. SUFFICES ASSUME NEW u \in Tasks, lock'[u] = l, pc'[u] = "try_xchg" PROVE FALSE
      BY DEF SomeoneAt
    <3>2. wait_lock'[l] = u
      BY <3>1 DEF QueueInv, HoldsWaitLock, WaitLockPC
    <3> QED BY <2>1, <2>2, <3>1, <3>2
  <2>4. NotLost(t)'
    BY <2>1, <2>3 DEF NotLost
  <2>5. HasLooked(t)'
    BY <2>1 DEF HasLooked
  <2> QED BY <2>4, <2>5
<1>3. CASE LooksOrSleeps(t)
  <2>l. PICK l : l = lock[t]
    OBVIOUS
  <2>1. /\ pc[t] \in WaitingPC /\ lock' = lock /\ count' = count /\ ctx' = ctx
        /\ acquired' = acquired /\ stamp' = stamp /\ \A u \in Tasks \ {t} : pc'[u] = pc[u]
        /\ pc'[t] \in WaitingPC
    BY <1>3 DEF LooksOrSleeps, WaitingPC
  <2>2. ASSUME NEW u \in Tasks, pc[u] \notin WaitingPC PROVE pc'[u] = pc[u]
    BY <2>1, <2>2
  <2>3. ASSUME NEW u \in Tasks, pc'[u] \notin WaitingPC PROVE pc'[u] = pc[u]
    BY <2>1, <2>3
  <2>4. SomeoneAt(l, {"try_xchg"})' <=> SomeoneAt(l, {"try_xchg"})
    BY <2>1, <2>2, <2>3 DEF SomeoneAt, WaitingPC
  <2>5. SomeoneAt(l, {"unlock_slow", "wake"}) => SomeoneAt(l, {"unlock_slow", "wake"})'
    BY <2>1, <2>2 DEF SomeoneAt, WaitingPC
  <2>6. SomeoneAt(l, {"wake"}) => SomeoneAt(l, {"wake"})'
    BY <2>1, <2>2 DEF SomeoneAt, WaitingPC
  <2>7. NotLost(t)'
    BY <2>l, <2>1, <2>4, <2>5 DEF NotLost, HasOthers, UseCtx
  <2>8. lock[t] \in Locks /\ ctx[l] \in Tasks \cup {NULL}
    BY <2>l, <2>1 DEF IInv, TypeOK, ListsRight, WaitingPC
  <2>9. WillTell(l) => WillTell(l)'
    BY <2>1, <2>2, <2>6, <2>8 DEF WillTell, WaitingPC
  <2>10. HasOthers(t)' <=> HasOthers(t)
    BY <2>1 DEF HasOthers, UseCtx
  <2>11. ASSUME HasOthers(t)
         PROVE  /\ pc'[t] = "check_stamp" => ctx[l] \in {NULL, hold_ctx'[t]} \/ WillTell(l)'
                /\ pc'[t] = "sleep" => ctx[l] = NULL \/ ~Younger(stamp[t], stamp[ctx[l]]) \/ WillTell(l)'
                /\ pc'[t] \in {"check_stamp", "sleep"} => ctx[l] # t
    <3>1. CASE pc'[t] = "check"
      BY <3>1
    <3>2. CASE pc'[t] = "check_stamp" /\ hold_ctx'[t] = ctx[lock[t]] /\ ctx[lock[t]] # t
      BY <2>l, <3>2
    <3>3. CASE pc'[t] = "sleep" /\ (HasOthers(t) => ctx[lock[t]] = NULL)
      BY <2>l, <2>11, <3>3
    <3>4. CASE /\ pc[t] = "check_stamp" /\ pc'[t] = "sleep"
               /\ hold_ctx[t] # Gone => ~Younger(stamp[t], stamp[hold_ctx[t]])
      <4>1. (ctx[l] \in {NULL, hold_ctx[t]} \/ WillTell(l)) /\ ctx[l] # t
        BY <2>l, <2>1, <2>11, <3>4 DEF HasLooked
      <4>2. ctx[l] # Gone
        BY <2>8
      <4> QED BY <2>9, <3>4, <4>1, <4>2
    <3> QED BY <1>3, <3>1, <3>2, <3>3, <3>4 DEF LooksOrSleeps
  <2>12. HasLooked(t)'
    BY <2>l, <2>1, <2>10, <2>11 DEF HasLooked
  <2> QED BY <2>7, <2>12
<1> QED BY <1>1, <1>2, <1>3, SelfKinds

----------------------------------------------------------------------------
(* The lists, and that no wakeup is lost, for whatever tasks wait *)

(* A wait list has the tasks in the wait loop, each once. *)
ListExact(l) ==
  /\ NoDuplicates(wait_list[l])
  /\ \A y \in ToSet(wait_list[l]) : lock[y] = l /\ pc[y] \in QueuedPC

AttendingPC == {"unlock_slow", "wake", "loop", "loop_xchg", "woken"}

(* If the count is not negative while somebody waits, somebody else is     *)
(* about to wake a waiter or to look at the count again.                   *)
Attended(l) ==
  SomeoneAt(l, WaitingPC) /\ count[l] >= 0 => SomeoneAt(l, AttendingPC)

AttendInv == \A l \in Locks : ListExact(l) /\ Attended(l)

(* What a step of t does to the lists *)
ListSame(t) ==
  /\ wait_list' = wait_list
  /\ pc[t] \in QueuedPC => pc'[t] \in QueuedPC /\ lock'[t] = lock[t]

ListJoined(t) ==
  /\ lock[t] \in Locks /\ wait_list' = [wait_list EXCEPT ![lock[t]] = list_add_tail(@, t)]
  /\ pc[t] \notin QueuedPC /\ pc'[t] \in QueuedPC /\ lock'[t] = lock[t]
  /\ pc[t] = "try_xchg" \/ (pc[t] = "slow" /\ wait_lock[lock[t]] = NULL)
  /\ count[lock[t]] # 1

ListLeft(t) ==
  /\ lock[t] \in Locks /\ wait_list' = [wait_list EXCEPT ![lock[t]] = list_del(@, t)]
  /\ pc[t] \in QueuedPC

(* Every step is of one of these kinds. *)
LEMMA ListKinds ==
  ASSUME IInv, NEW t \in Tasks, TaskStep(t)
  PROVE  ListSame(t) \/ ListJoined(t) \/ ListLeft(t)
<1>t. /\ pc \in [Tasks -> PC] /\ lock \in [Tasks -> Locks \cup {NULL}]
      /\ pc[t] # "idle" => lock[t] \in Locks
  BY DEF IInv, TypeOK, ListsRight
<1>q. /\ {"loop", "loop_xchg", "check", "check_stamp", "sleep", "woken", "remove_waiter"} \subseteq QueuedPC
      /\ {"slow", "try_xchg", "skip_wait", "lock", "spin", "locked", "unlock"} \cap QueuedPC = {}
  BY DEF QueuedPC
<1> USE DEF Goto, mutex, context, caller
<1>1. ASSUME NEW p \in Plans[t], ww_acquire_init(t, p) PROVE ListSame(t)
  BY <1>1, <1>t DEF ww_acquire_init, ListSame, QueuedPC
<1>2. CASE ww_mutex_lock(t)
  BY <1>2, <1>t DEF ww_mutex_lock, Got, ListSame, QueuedPC
<1>3. CASE ww_mutex_trylock(t)
  BY <1>3, <1>t DEF ww_mutex_trylock, ListSame, QueuedPC
<1>4. CASE SetCtx(t)
  BY <1>4, <1>t DEF SetCtx, ListSame, QueuedPC
<1>5. CASE ReadCount(t)
  BY <1>5, <1>t DEF ReadCount, ListSame, QueuedPC
<1>6. CASE WakeAll(t)
  BY <1>6, <1>t DEF WakeAll, Woken, ListSame, QueuedPC
<1>7. CASE Spin(t)
  BY <1>7, <1>t DEF Spin, ListSame, QueuedPC
<1>8. CASE TryAcquire(t)
  BY <1>8, <1>t DEF TryAcquire, Got, ListSame, QueuedPC
<1>9. CASE SlowLock(t)
  <2>1. /\ lock[t] \in Locks /\ lock' = lock /\ pc[t] = "slow"
        /\ \/ pc'[t] = "try_xchg" /\ wait_list' = wait_list
           \/ /\ pc'[t] = "loop" /\ wait_list' = [wait_list EXCEPT ![lock[t]] = list_add_tail(@, t)]
              /\ count[lock[t]] # 1 /\ wait_lock[lock[t]] = NULL
    BY <1>9, <1>t DEF SlowLock
  <2> QED BY <1>q, <2>1 DEF ListSame, ListJoined
<1>10. CASE TryXchg(t)
  <2>1. /\ lock[t] \in Locks /\ lock' = lock /\ pc[t] = "try_xchg"
        /\ \/ pc'[t] = "skip_wait" /\ wait_list' = wait_list
           \/ /\ pc'[t] = "loop" /\ wait_list' = [wait_list EXCEPT ![lock[t]] = list_add_tail(@, t)]
              /\ count[lock[t]] # 1
    BY <1>10, <1>t DEF TryXchg
  <2> QED BY <1>q, <2>1 DEF ListSame, ListJoined
<1>11. CASE Loop(t)
  <2>1. lock' = lock /\ wait_list' = wait_list /\ pc'[t] \in {"loop_xchg", "check"}
    BY <1>11, <1>t DEF Loop
  <2> QED BY <1>q, <2>1 DEF ListSame
<1>12. CASE LoopXchg(t)
  BY <1>12, <1>t DEF LoopXchg, ListSame, QueuedPC
<1>13. CASE Check(t)
  <2>1. /\ lock[t] \in Locks /\ lock' = lock /\ pc[t] = "check"
        /\ \/ wait_list' = [wait_list EXCEPT ![lock[t]] = list_del(@, t)]
           \/ pc'[t] \in {"sleep", "check_stamp"} /\ wait_list' = wait_list
    BY <1>13, <1>t DEF Check, Fail, Sleep
  <2> QED BY <1>q, <2>1 DEF ListSame, ListLeft
<1>14. CASE CheckStamp(t)
  <2>1. /\ lock[t] \in Locks /\ lock' = lock /\ pc[t] = "check_stamp"
        /\ \/ wait_list' = [wait_list EXCEPT ![lock[t]] = list_del(@, t)]
           \/ pc'[t] = "sleep" /\ wait_list' = wait_list
    BY <1>14, <1>t DEF CheckStamp, Fail, Sleep
  <2> QED BY <1>q, <2>1 DEF ListSame, ListLeft
<1>15. CASE RemoveWaiter(t)
  <2>1. /\ lock[t] \in Locks /\ pc[t] = "remove_waiter"
        /\ wait_list' = [wait_list EXCEPT ![lock[t]] = list_del(@, t)]
    BY <1>15, <1>t DEF RemoveWaiter, SetCtxSlow
  <2> QED BY <1>q, <2>1 DEF ListLeft
<1>16. CASE SkipWait(t)
  BY <1>16, <1>t DEF SkipWait, SetCtxSlow, Woken, ListSame, QueuedPC
<1>17. CASE Locked(t)
  BY <1>17, <1>t DEF Locked, ListSame, QueuedPC
<1>18. CASE Unlocked(t)
  BY <1>18, <1>t DEF Unlocked, ListSame, QueuedPC
<1>19. CASE ww_mutex_unlock(t)
  BY <1>19, <1>t DEF ww_mutex_unlock, ListSame, QueuedPC
<1>20. CASE UnlockCount(t)
  BY <1>20, <1>t DEF UnlockCount, ListSame, QueuedPC
<1>21. CASE UnlockSlow(t)
  BY <1>21, <1>t DEF UnlockSlow, ListSame, QueuedPC
<1>22. CASE Wake(t)
  BY <1>22, <1>t DEF Wake, Woken, ListSame, QueuedPC
<1>23. CASE Signal(t)
  BY <1>23, <1>t DEF Signal, Woken, ListSame, QueuedPC
<1> QED
  BY <1>1, <1>2, <1>3, <1>4, <1>5, <1>6, <1>7, <1>8, <1>9, <1>10, <1>11,
     <1>12, <1>13, <1>14, <1>15, <1>16, <1>17, <1>18, <1>19, <1>20, <1>21,
     <1>22, <1>23 DEF TaskStep, Step

(* The lists stay exact. *)
LEMMA ListExactStep ==
  ASSUME IInv, QueueInv, NEW t \in Tasks, TaskStep(t), NEW l \in Locks, ListExact(l)
  PROVE  ListExact(l)'
<1>o. LeavesOthers(t)
  BY OthersLeft
<1>t. /\ wait_list \in [Locks -> Seq(Tasks)] /\ wait_list[l] \in Seq(Tasks)
      /\ NoDuplicates(wait_list[l])
      /\ \A y \in ToSet(wait_list[l]) : lock[y] = l /\ pc[y] \in QueuedPC
      /\ ToSet(wait_list[l]) \subseteq Tasks
  <2>1. wait_list \in [Locks -> Seq(Tasks)]
    BY DEF QueueInv, QueueTypes
  <2>2. ToSet(wait_list[l]) \subseteq Tasks
    BY <2>1 DEF ToSet
  <2> QED BY <2>1, <2>2 DEF ListExact
<1>k. ASSUME NEW y \in Tasks \ {t}, y \in ToSet(wait_list[l])
      PROVE  lock'[y] = l /\ pc'[y] \in QueuedPC
  <2>1. lock[y] = l /\ pc[y] \in QueuedPC
    BY <1>t, <1>k
  <2>2. "woken" \in QueuedPC
    BY DEF QueuedPC
  <2> QED BY <1>o, <2>1, <2>2 DEF LeavesOthers
<1>1. CASE ListSame(t)
  <2>1. wait_list'[l] = wait_list[l]
    BY <1>1 DEF ListSame
  <2>2. t \in ToSet(wait_list[l]) => lock'[t] = l /\ pc'[t] \in QueuedPC
    BY <1>1, <1>t DEF ListSame
  <2> QED BY <1>t, <1>k, <2>1, <2>2 DEF ListExact
<1>2. CASE ListJoined(t)
  <2>1. CASE l # lock[t]
    <3>1. wait_list'[l] = wait_list[l] /\ t \notin ToSet(wait_list[l])
      BY <1>2, <1>t, <2>1 DEF ListJoined
    <3> QED BY <1>t, <1>k, <3>1 DEF ListExact
  <2>2. CASE l = lock[t]
    <3>1. /\ wait_list'[l] = list_add_tail(wait_list[l], t) /\ t \notin ToSet(wait_list[l])
          /\ lock'[t] = l /\ pc'[t] \in QueuedPC
      BY <1>2, <1>t, <2>2 DEF ListJoined
    <3>2. /\ ToSet(wait_list'[l]) = ToSet(wait_list[l]) \cup {t}
          /\ NoDuplicates(wait_list'[l])
      BY <1>t, <3>1, ListAddTail
    <3> QED BY <1>t, <1>k, <3>1, <3>2 DEF ListExact
  <2> QED BY <2>1, <2>2
<1>3. CASE ListLeft(t)
  <2>1. CASE l # lock[t]
    <3>1. wait_list'[l] = wait_list[l] /\ t \notin ToSet(wait_list[l])
      BY <1>3, <1>t, <2>1 DEF ListLeft
    <3> QED BY <1>t, <1>k, <3>1 DEF ListExact
  <2>2. CASE l = lock[t]
    <3>1. wait_list'[l] = list_del(wait_list[l], t) /\ t \in ToSet(wait_list[l])
      BY <1>3, <1>t, <2>2 DEF ListLeft, QueueInv, OnList
    <3>2. /\ ToSet(wait_list'[l]) = ToSet(wait_list[l]) \ {t}
          /\ NoDuplicates(wait_list'[l])
      BY <1>t, <3>1, ListDel
    <3> QED BY <1>t, <1>k, <3>2 DEF ListExact
  <2> QED BY <2>1, <2>2
<1> QED BY <1>1, <1>2, <1>3, ListKinds

(* What a step of t does to those that wait for l: it leaves the count     *)
(* negative; it leaves t, or somebody it woke, attending; nobody waits; or *)
(* the count was not negative before, and somebody else attends.           *)
KeepsAttended(t, l) ==
  \/ ~(count'[l] >= 0)
  \/ lock'[t] = l /\ pc'[t] \in AttendingPC
  \/ \E y \in Tasks \ {t} : lock[y] = l /\ pc'[y] = "woken"
  \/ ~SomeoneAt(l, WaitingPC)'
  \/ /\ count[l] >= 0
     /\ lock'[t] = l /\ pc'[t] \in WaitingPC => lock[t] = l /\ pc[t] \in WaitingPC
     /\ ~(lock[t] = l /\ pc[t] \in AttendingPC)

(* Every step is of these kinds. *)
LEMMA AttendKinds ==
  ASSUME IInv, QueueInv, QueueInv', NEW t \in Tasks, TaskStep(t), NEW l \in Locks, ListExact(l)
  PROVE  KeepsAttended(t, l)
<1>t. /\ pc \in [Tasks -> PC] /\ lock \in [Tasks -> Locks \cup {NULL}]
      /\ count \in [Locks -> Int]
      /\ pc[t] # "idle" => lock[t] \in Locks
  BY DEF IInv, TypeOK, ListsRight
<1> USE DEF Goto, mutex, context, caller, AttendingPC, WaitingPC
<1>1. ASSUME NEW p \in Plans[t], ww_acquire_init(t, p) PROVE KeepsAttended(t, l)
  BY <1>1, <1>t DEF ww_acquire_init, KeepsAttended
<1>2. CASE ww_mutex_lock(t)
  <2>1. /\ lock' = lock /\ pc[t] = "lock" /\ lock[t] \in Locks
        /\ count' = [count EXCEPT ![lock[t]] = count[lock[t]] - 1]
    BY <1>2, <1>t DEF ww_mutex_lock
  <2>2. pc'[t] \notin WaitingPC
    BY <1>2, <1>t DEF ww_mutex_lock, Got
  <2>3. count'[l] >= 0 => count[l] >= 0
    BY <1>t, <2>1
  <2> QED BY <2>1, <2>2, <2>3 DEF KeepsAttended
<1>3. CASE ww_mutex_trylock(t)
  <2>1. /\ lock' = lock /\ pc[t] = "lock" /\ lock[t] \in Locks
        /\ count' = count \/ (count[lock[t]] = 1 /\ count' = [count EXCEPT ![lock[t]] = 0])
    BY <1>3, <1>t DEF ww_mutex_trylock
  <2>2. pc'[t] \notin WaitingPC
    BY <1>3, <1>t DEF ww_mutex_trylock
  <2>3. count'[l] >= 0 => count[l] >= 0
    BY <1>t, <2>1
  <2> QED BY <2>1, <2>2, <2>3 DEF KeepsAttended
<1>4. CASE SetCtx(t)
  BY <1>4, <1>t DEF SetCtx, KeepsAttended
<1>5. CASE ReadCount(t)
  BY <1>5, <1>t DEF ReadCount, KeepsAttended
<1>6. CASE WakeAll(t)
  BY <1>6, <1>t DEF WakeAll, Woken, KeepsAttended
<1>7. CASE Spin(t)
  BY <1>7, <1>t DEF Spin, KeepsAttended
<1>8. CASE TryAcquire(t)
  <2>1. /\ lock' = lock /\ pc[t] = "try" /\ lock[t] \in Locks
        /\ count' = count \/ (count[lock[t]] = 1 /\ count' = [count EXCEPT ![lock[t]] = 0])
    BY <1>8, <1>t DEF TryAcquire
  <2>2. pc'[t] \notin WaitingPC
    BY <1>8, <1>t DEF TryAcquire, Got
  <2>3. count'[l] >= 0 => count[l] >= 0
    BY <1>t, <2>1
  <2> QED BY <2>1, <2>2, <2>3 DEF KeepsAttended
<1>9. CASE SlowLock(t)
  BY <1>9, <1>t DEF SlowLock, KeepsAttended
<1>10. CASE TryXchg(t)
  BY <1>10, <1>t DEF TryXchg, KeepsAttended
<1>11. CASE Loop(t)
  BY <1>11, <1>t DEF Loop, KeepsAttended
<1>12. CASE LoopXchg(t)
  <2>1. /\ lock' = lock /\ lock[t] \in Locks
        /\ count' = [count EXCEPT ![lock[t]] = -1]
    BY <1>12, <1>t DEF LoopXchg
  <2>2. CASE l = lock[t]
    <3>1. count'[l] = -1
      BY <1>t, <2>1, <2>2
    <3> QED BY <3>1 DEF KeepsAttended
  <2>3. CASE l # lock[t]
    <3>1. count'[l] = count[l]
      BY <1>t, <2>1, <2>3
    <3> QED BY <1>t, <2>1, <2>3, <3>1 DEF KeepsAttended
  <2> QED BY <2>2, <2>3
<1>13. CASE Check(t)
  BY <1>13, <1>t DEF Check, Fail, Sleep, KeepsAttended
<1>14. CASE CheckStamp(t)
  BY <1>14, <1>t DEF CheckStamp, Fail, Sleep, KeepsAttended
<1>15. CASE RemoveWaiter(t)
  <2>1. /\ pc[t] = "remove_waiter" /\ pc'[t] = "locked" /\ lock' = lock
        /\ wait_list' = [wait_list EXCEPT ![lock[t]] = list_del(@, t)]
        /\ count' = [count EXCEPT ![lock[t]] =
                       IF list_del(wait_list[lock[t]], t) = <<>> THEN 0 ELSE @]
    BY <1>15, <1>t DEF RemoveWaiter, SetCtxSlow, Woken
  <2>2. CASE l = lock[t] /\ list_del(wait_list[lock[t]], t) = <<>>
    <3>1. wait_list'[l] = <<>>
      BY <2>1, <2>2 DEF QueueInv, QueueTypes
    <3>2. ASSUME NEW x \in Tasks, lock'[x] = l, pc'[x] \in WaitingPC PROVE FALSE
      <4>1. x \in ToSet(wait_list'[l])
        BY <3>2 DEF QueueInv, OnList, QueuedPC
      <4> QED BY <3>1, <4>1, EmptyList
    <3>3. ~SomeoneAt(l, WaitingPC)'
      BY <3>2 DEF SomeoneAt
    <3> QED BY <3>3 DEF KeepsAttended
  <2>3. CASE ~(l = lock[t] /\ list_del(wait_list[lock[t]], t) = <<>>)
    <3>1. count'[l] = count[l]
      BY <1>t, <2>1, <2>3
    <3> QED BY <2>1, <3>1 DEF KeepsAttended
  <2> QED BY <2>2, <2>3
<1>16. CASE SkipWait(t)
  BY <1>16, <1>t DEF SkipWait, SetCtxSlow, Woken, KeepsAttended
<1>17. CASE Locked(t)
  BY <1>17, <1>t DEF Locked, KeepsAttended
<1>18. CASE Unlocked(t)
  BY <1>18, <1>t DEF Unlocked, KeepsAttended
<1>19. CASE ww_mutex_unlock(t)
  BY <1>19, <1>t DEF ww_mutex_unlock, KeepsAttended
<1>20. CASE UnlockCount(t)
  <2>1. /\ lock' = lock /\ pc[t] = "unlock_count" /\ lock[t] \in Locks
        /\ count' = [count EXCEPT ![lock[t]] = count[lock[t]] + 1]
        /\ pc'[t] = IF count[lock[t]] + 1 > 0 THEN "unlock" ELSE "unlock_slow"
    BY <1>20, <1>t DEF UnlockCount
  <2>2. CASE l = lock[t] /\ ~(count[lock[t]] + 1 > 0)
    BY <2>1, <2>2 DEF KeepsAttended
  <2>3. CASE ~(l = lock[t] /\ ~(count[lock[t]] + 1 > 0))
    <3>1. count'[l] >= 0 => count[l] >= 0
      BY <1>t, <2>1, <2>3
    <3>2. pc'[t] \notin WaitingPC /\ pc[t] \notin AttendingPC
      BY <2>1
    <3> QED BY <3>1, <3>2 DEF KeepsAttended
  <2> QED BY <2>2, <2>3
<1>21. CASE UnlockSlow(t)
  BY <1>21, <1>t DEF UnlockSlow, KeepsAttended
<1>22. CASE Wake(t)
  <2>1. /\ pc[t] = "wake" /\ pc'[t] = "unlock" /\ lock' = lock /\ count' = count
        /\ wait_list' = wait_list /\ wait_lock[lock[t]] = NULL
    BY <1>22, <1>t DEF Wake, Woken
  <2>2. CASE l # lock[t]
    BY <2>1, <2>2 DEF KeepsAttended
  <2>3. CASE l = lock[t] /\ wait_list[l] = <<>>
    <3>1. ASSUME NEW x \in Tasks, lock'[x] = l, pc'[x] \in WaitingPC PROVE FALSE
      <4>1. x \in ToSet(wait_list'[l])
        BY <3>1 DEF QueueInv, OnList, QueuedPC
      <4> QED BY <2>1, <2>3, <4>1, EmptyList
    <3>2. ~SomeoneAt(l, WaitingPC)'
      BY <3>1 DEF SomeoneAt
    <3> QED BY <3>2 DEF KeepsAttended
  <2>4. CASE l = lock[t] /\ wait_list[l] # <<>>
    <3>1. wait_list[l] \in Seq(Tasks) /\ NoDuplicates(wait_list[l])
      BY DEF QueueInv, QueueTypes, ListExact
    <3>2. PICK y \in Tasks : y = Head(wait_list[l]) /\ y \in ToSet(wait_list[l])
      BY <2>4, <3>1, ListTail
    <3>3. lock[y] = l /\ pc[y] \in QueuedPC
      BY <3>2 DEF ListExact
    <3>4. pc[y] \in WaitLockPC => wait_lock[l] = y
      BY <3>3 DEF QueueInv, HoldsWaitLock
    <3>5. pc[y] \in {"sleep", "woken"} /\ y # t
      BY <2>1, <2>4, <3>2, <3>3, <3>4 DEF QueuedPC, WaitLockPC
    <3>6. pc'[y] = "woken"
      BY <1>22, <1>t, <2>4, <3>2, <3>5 DEF Wake, Woken
    <3> QED BY <3>3, <3>5, <3>6 DEF KeepsAttended
  <2> QED BY <2>2, <2>3, <2>4
<1>23. CASE Signal(t)
  BY <1>23, <1>t DEF Signal, Woken, KeepsAttended
<1> QED
  BY <1>1, <1>2, <1>3, <1>4, <1>5, <1>6, <1>7, <1>8, <1>9, <1>10, <1>11,
     <1>12, <1>13, <1>14, <1>15, <1>16, <1>17, <1>18, <1>19, <1>20, <1>21,
     <1>22, <1>23 DEF TaskStep, Step

(* No wakeup is lost. *)
LEMMA AttendInductive ==
  /\ Init => AttendInv
  /\ IInv /\ QueueInv /\ AttendInv /\ [Next]_vars /\ QueueInv' => AttendInv'
<1>1. ASSUME Init PROVE AttendInv
  BY <1>1, EmptyList DEF Init, AttendInv, ListExact, Attended, SomeoneAt, WaitingPC
<1>2. ASSUME IInv, QueueInv, AttendInv, Next, QueueInv' PROVE AttendInv'
  <2>1. PICK t \in Tasks : TaskStep(t)
    BY <1>2 DEF Next, TaskStep
  <2>2. LeavesOthers(t)
    BY <1>2, <2>1, OthersLeft
  <2>3. ASSUME NEW l \in Locks PROVE ListExact(l)'
    BY <1>2, <2>1, ListExactStep DEF AttendInv
  <2>4. ASSUME NEW l \in Locks PROVE Attended(l)'
    <3>1. KeepsAttended(t, l) /\ Attended(l)
      BY <1>2, <2>1, AttendKinds DEF AttendInv
    <3> SUFFICES ASSUME NEW x \in Tasks, lock'[x] = l, pc'[x] \in WaitingPC, count'[l] >= 0
                 PROVE  \E u \in Tasks : lock'[u] = l /\ pc'[u] \in AttendingPC
      BY DEF Attended, SomeoneAt
    <3>2. CASE lock'[t] = l /\ pc'[t] \in AttendingPC
      BY <3>2
    <3>3. CASE \E y \in Tasks \ {t} : lock[y] = l /\ pc'[y] = "woken"
      BY <2>2, <3>3 DEF LeavesOthers, AttendingPC
    <3>4. CASE /\ count[l] >= 0
               /\ lock'[t] = l /\ pc'[t] \in WaitingPC => lock[t] = l /\ pc[t] \in WaitingPC
               /\ ~(lock[t] = l /\ pc[t] \in AttendingPC)
      <4>1. lock[x] = l /\ pc[x] \in WaitingPC
        BY <2>2, <3>4 DEF LeavesOthers, WaitingPC
      <4>2. PICK u \in Tasks : lock[u] = l /\ pc[u] \in AttendingPC
        BY <3>1, <3>4, <4>1 DEF Attended, SomeoneAt
      <4>3. u # t /\ pc[u] # "sleep"
        BY <3>4, <4>2 DEF AttendingPC
      <4> QED BY <2>2, <4>2, <4>3 DEF LeavesOthers
    <3> QED BY <3>1, <3>2, <3>3, <3>4 DEF KeepsAttended, SomeoneAt
  <2> QED BY <2>3, <2>4 DEF AttendInv
<1>3. ASSUME AttendInv, UNCHANGED vars PROVE AttendInv'
  BY <1>3 DEF AttendInv, ListExact, Attended, SomeoneAt, vars, mutex
<1> QED BY <1>1, <1>2, <1>3

----------------------------------------------------------------------------
(* A task's locks name it in their ctx, so that the others can tell its    *)
(* age, and a task without a context waits for its only lock.              *)

(* A task has its lock, and ctx is set if it has a context. *)
CtxPC == {"read_count", "wake_all", "locked"}

OwnsCtx(t) ==
  UseCtx(t) => /\ \A l \in ToSet(locked[t]) : ctx[l] = t
               /\ pc[t] \in CtxPC => ctx[lock[t]] = t

(* Where a task without a context may have a lock on its list *)
PlainPC == {"unlock", "unlock_count", "unlock_slow", "wake"}

PlainAt(t) ==
  ~UseCtx(t) => /\ contended[t] = NULL /\ todo[t] = <<>>
                /\ pc[t] # "check_stamp"
                /\ pc[t] \notin PlainPC => locked[t] = <<>>

OwnInv == \A t \in Tasks : OwnsCtx(t) /\ PlainAt(t)

(* A step of t leaves what the other callers keep. *)
LeavesCallers(t) ==
  \A u \in Tasks \ {t} :
    locked'[u] = locked[u] /\ contended'[u] = contended[u] /\ todo'[u] = todo[u]

(* What a step of t does to its locks: it leaves them alone, and may set   *)
(* the ctx of the one it just got, ...                                     *)
HeldSame(t) ==
  /\ locked'[t] = locked[t]
  /\ ctx' = ctx \/ (lock[t] \in Locks /\ ctx' = [ctx EXCEPT ![lock[t]] = t])
  /\ UseCtx(t) /\ pc'[t] \in CtxPC =>
       lock'[t] = lock[t] /\ lock[t] \in Locks /\ (pc[t] \in CtxPC \/ ctx'[lock[t]] = t)

(* ... it notes one it has, ... *)
HeldNoted(t) ==
  /\ pc[t] = "locked" /\ pc'[t] \notin CtxPC /\ ctx' = ctx
  /\ ToSet(locked'[t]) \subseteq ToSet(locked[t]) \cup {lock[t]}

(* ... or it gives one up. *)
HeldLeft(t) ==
  /\ pc[t] = "unlock" /\ lock'[t] \in Locks /\ pc'[t] \notin CtxPC
  /\ ctx' = [ctx EXCEPT ![lock'[t]] = NULL]
  /\ ToSet(locked'[t]) = ToSet(locked[t]) \ {lock'[t]}

OwnStep(t) ==
  /\ LeavesCallers(t)
  /\ HeldSame(t) \/ HeldNoted(t) \/ HeldLeft(t)
  /\ PlainAt(t) => PlainAt(t)'

(* Every step is of these kinds. *)
LEMMA OwnKinds ==
  ASSUME IInv, NEW t \in Tasks, TaskStep(t)
  PROVE  OwnStep(t)
<1>t. /\ pc \in [Tasks -> PC] /\ lock \in [Tasks -> Locks \cup {NULL}]
      /\ ctx \in [Locks -> Tasks \cup {NULL}]
      /\ locked \in [Tasks -> Seq(Locks)] /\ todo \in [Tasks -> Seq(Locks)]
      /\ contended \in [Tasks -> Locks \cup {NULL}]
      /\ pc[t] # "idle" => lock[t] \in Locks
      /\ pc[t] = "idle" => locked[t] = <<>>
  BY DEF IInv, TypeOK, ListsRight
<1>same. ASSUME locked' = locked, contended' = contended, todo' = todo, ctx' = ctx, lock' = lock,
                pc'[t] \in CtxPC /\ UseCtx(t) => pc[t] \in CtxPC,
                pc[t] \in PlainPC => pc'[t] \in PlainPC,
                pc'[t] # "check_stamp"
         PROVE  OwnStep(t)
  <2>1. LeavesCallers(t)
    BY <1>same DEF LeavesCallers
  <2>2. HeldSame(t)
    BY <1>t, <1>same DEF HeldSame, CtxPC, PlainPC
  <2>3. PlainAt(t) => PlainAt(t)'
    BY <1>same DEF PlainAt
  <2> QED BY <2>1, <2>2, <2>3 DEF OwnStep
<1> USE DEF Goto, mutex, context, caller
<1>1. ASSUME NEW p \in Plans[t], ww_acquire_init(t, p) PROVE OwnStep(t)
  <2>1. /\ locked' = locked /\ contended' = contended /\ ctx' = ctx
        /\ todo' = [todo EXCEPT ![t] = Tail(p)] /\ pc[t] = "idle" /\ pc'[t] = "lock"
    BY <1>1, <1>t DEF ww_acquire_init
  <2>2. LeavesCallers(t)
    BY <1>t, <2>1 DEF LeavesCallers
  <2>3. HeldSame(t)
    BY <2>1 DEF HeldSame, CtxPC
  <2>4. ASSUME PlainAt(t), ~UseCtx(t) PROVE todo'[t] = <<>>
    <3>1. p \in Seq(Locks) /\ Len(p) = 1
      BY <2>4, PlainAssumption DEF UseCtx
    <3>2. Tail(p) \in Seq(Locks) /\ Len(Tail(p)) = 0
      BY <3>1
    <3>3. Tail(p) = <<>>
      BY <3>2
    <3> QED BY <1>t, <2>1, <3>3
  <2>5. PlainAt(t) => PlainAt(t)'
    BY <1>t, <2>1, <2>4 DEF PlainAt
  <2> QED BY <2>2, <2>3, <2>5 DEF OwnStep
<1>2. CASE ww_mutex_lock(t)
  <2>1. locked' = locked /\ contended' = contended /\ todo' = todo /\ ctx' = ctx /\ lock' = lock
    BY <1>2 DEF ww_mutex_lock, Got
  <2>2. /\ pc'[t] \in CtxPC /\ UseCtx(t) => pc[t] \in CtxPC
        /\ pc[t] \in PlainPC => pc'[t] \in PlainPC
        /\ pc'[t] # "check_stamp"
    BY <1>2, <1>t DEF ww_mutex_lock, Got, CtxPC, PlainPC
  <2> QED BY <1>same, <2>1, <2>2
<1>3. CASE ww_mutex_trylock(t)
  <2>1. locked' = locked /\ contended' = contended /\ todo' = todo /\ ctx' = ctx /\ lock' = lock
    BY <1>3 DEF ww_mutex_trylock
  <2>2. /\ pc'[t] \in CtxPC /\ UseCtx(t) => pc[t] \in CtxPC
        /\ pc[t] \in PlainPC => pc'[t] \in PlainPC
        /\ pc'[t] # "check_stamp"
    BY <1>3, <1>t DEF ww_mutex_trylock, CtxPC, PlainPC
  <2> QED BY <1>same, <2>1, <2>2
<1>4. CASE SetCtx(t)
  <2>1. /\ locked' = locked /\ contended' = contended /\ todo' = todo /\ lock' = lock
        /\ pc[t] = "set_ctx" /\ lock[t] \in Locks
        /\ ctx' = [ctx EXCEPT ![lock[t]] = t]
    BY <1>4, <1>t DEF SetCtx
  <2>2. pc'[t] = "read_count"
    BY <1>4, <1>t DEF SetCtx
  <2>3. LeavesCallers(t)
    BY <2>1 DEF LeavesCallers
  <2>4. HeldSame(t)
    BY <1>t, <2>1 DEF HeldSame
  <2>5. PlainAt(t) => PlainAt(t)'
    BY <2>1, <2>2 DEF PlainAt, PlainPC
  <2> QED BY <2>3, <2>4, <2>5 DEF OwnStep
<1>5. CASE ReadCount(t)
  <2>1. locked' = locked /\ contended' = contended /\ todo' = todo /\ ctx' = ctx /\ lock' = lock
    BY <1>5 DEF ReadCount
  <2>2. /\ pc'[t] \in CtxPC /\ UseCtx(t) => pc[t] \in CtxPC
        /\ pc[t] \in PlainPC => pc'[t] \in PlainPC
        /\ pc'[t] # "check_stamp"
    BY <1>5, <1>t DEF ReadCount, CtxPC, PlainPC
  <2> QED BY <1>same, <2>1, <2>2
<1>6. CASE WakeAll(t)
  <2>1. locked' = locked /\ contended' = contended /\ todo' = todo /\ ctx' = ctx /\ lock' = lock
    BY <1>6 DEF WakeAll, Woken
  <2>2. /\ pc'[t] \in CtxPC /\ UseCtx(t) => pc[t] \in CtxPC
        /\ pc[t] \in PlainPC => pc'[t] \in PlainPC
        /\ pc'[t] # "check_stamp"
    BY <1>6, <1>t DEF WakeAll, Woken, CtxPC, PlainPC
  <2> QED BY <1>same, <2>1, <2>2
<1>7. CASE Spin(t)
  <2>1. locked' = locked /\ contended' = contended /\ todo' = todo /\ ctx' = ctx /\ lock' = lock
    BY <1>7 DEF Spin
  <2>2. /\ pc'[t] \in CtxPC /\ UseCtx(t) => pc[t] \in CtxPC
        /\ pc[t] \in PlainPC => pc'[t] \in PlainPC
        /\ pc'[t] # "check_stamp"
    BY <1>7, <1>t DEF Spin, CtxPC, PlainPC
  <2> QED BY <1>same, <2>1, <2>2
<1>8. CASE TryAcquire(t)
  <2>1. locked' = locked /\ contended' = contended /\ todo' = todo /\ ctx' = ctx /\ lock' = lock
    BY <1>8 DEF TryAcquire, Got
  <2>2. /\ pc'[t] \in CtxPC /\ UseCtx(t) => pc[t] \in CtxPC
        /\ pc[t] \in PlainPC => pc'[t] \in PlainPC
        /\ pc'[t] # "check_stamp"
    BY <1>8, <1>t DEF TryAcquire, Got, CtxPC, PlainPC
  <2> QED BY <1>same, <2>1, <2>2
<1>9. CASE SlowLock(t)
  <2>1. locked' = locked /\ contended' = contended /\ todo' = todo /\ ctx' = ctx /\ lock' = lock
    BY <1>9 DEF SlowLock
  <2>2. /\ pc'[t] \in CtxPC /\ UseCtx(t) => pc[t] \in CtxPC
        /\ pc[t] \in PlainPC => pc'[t] \in PlainPC
        /\ pc'[t] # "check_stamp"
    BY <1>9, <1>t DEF SlowLock, CtxPC, PlainPC
  <2> QED BY <1>same, <2>1, <2>2
<1>10. CASE TryXchg(t)
  <2>1. locked' = locked /\ contended' = contended /\ todo' = todo /\ ctx' = ctx /\ lock' = lock
    BY <1>10 DEF TryXchg
  <2>2. /\ pc'[t] \in CtxPC /\ UseCtx(t) => pc[t] \in CtxPC
        /\ pc[t] \in PlainPC => pc'[t] \in PlainPC
        /\ pc'[t] # "check_stamp"
    BY <1>10, <1>t DEF TryXchg, CtxPC, PlainPC
  <2> QED BY <1>same, <2>1, <2>2
<1>11. CASE Loop(t)
  <2>1. locked' = locked /\ contended' = contended /\ todo' = todo /\ ctx' = ctx /\ lock' = lock
    BY <1>11 DEF Loop
  <2>2. /\ pc'[t] \in CtxPC /\ UseCtx(t) => pc[t] \in CtxPC
        /\ pc[t] \in PlainPC => pc'[t] \in PlainPC
        /\ pc'[t] # "check_stamp"
    BY <1>11, <1>t DEF Loop, CtxPC, PlainPC
  <2> QED BY <1>same, <2>1, <2>2
<1>12. CASE LoopXchg(t)
  <2>1. locked' = locked /\ contended' = contended /\ todo' = todo /\ ctx' = ctx /\ lock' = lock
    BY <1>12 DEF LoopXchg
  <2>2. /\ pc'[t] \in CtxPC /\ UseCtx(t) => pc[t] \in CtxPC
        /\ pc[t] \in PlainPC => pc'[t] \in PlainPC
        /\ pc'[t] # "check_stamp"
    BY <1>12, <1>t DEF LoopXchg, CtxPC, PlainPC
  <2> QED BY <1>same, <2>1, <2>2
<1>13. CASE Check(t)
  <2>1. /\ locked' = locked /\ todo' = todo /\ lock' = lock /\ ctx' = ctx /\ pc[t] = "check"
        /\ contended' = contended \/ contended' = [contended EXCEPT ![t] = NULL]
    BY <1>13 DEF Check, Fail, Sleep
  <2>2. /\ pc'[t] \in {"unlock", "sleep", "locked", "check_stamp"}
        /\ pc'[t] = "locked" => ctx[lock[t]] = t
        /\ pc'[t] = "check_stamp" => UseCtx(t)
    BY <1>13, <1>t DEF Check, Fail, Sleep
  <2>3. LeavesCallers(t)
    BY <1>t, <2>1 DEF LeavesCallers
  <2>4. HeldSame(t)
    BY <1>t, <2>1, <2>2 DEF HeldSame, CtxPC
  <2>5. PlainAt(t) => PlainAt(t)'
    BY <1>t, <2>1, <2>2 DEF PlainAt, PlainPC
  <2> QED BY <2>3, <2>4, <2>5 DEF OwnStep
<1>14. CASE CheckStamp(t)
  <2>1. /\ locked' = locked /\ todo' = todo /\ lock' = lock /\ ctx' = ctx /\ pc[t] = "check_stamp"
        /\ contended' = contended \/ contended' = [contended EXCEPT ![t] = lock[t]]
    BY <1>14 DEF CheckStamp, Fail, Sleep
  <2>2. /\ pc'[t] \in {"unlock", "sleep", "locked", "check_stamp"}
        /\ pc'[t] \notin {"locked", "check_stamp"}
    BY <1>14, <1>t DEF CheckStamp, Fail, Sleep
  <2>3. LeavesCallers(t)
    BY <1>t, <2>1 DEF LeavesCallers
  <2>4. HeldSame(t)
    BY <1>t, <2>1, <2>2 DEF HeldSame, CtxPC
  <2>5. PlainAt(t) => PlainAt(t)'
    BY <1>t, <2>1, <2>2 DEF PlainAt, PlainPC
  <2> QED BY <2>3, <2>4, <2>5 DEF OwnStep
<1>15. CASE RemoveWaiter(t)
  <2>1. /\ locked' = locked /\ contended' = contended /\ todo' = todo /\ lock' = lock
        /\ pc[t] = "remove_waiter" /\ lock[t] \in Locks
        /\ ctx' = IF UseCtx(t) THEN [ctx EXCEPT ![lock[t]] = t] ELSE ctx
    BY <1>15, <1>t DEF RemoveWaiter, SetCtxSlow
  <2>2. pc'[t] = "locked"
    BY <1>15, <1>t DEF RemoveWaiter, SetCtxSlow, Woken
  <2>3. LeavesCallers(t)
    BY <2>1 DEF LeavesCallers
  <2>4. HeldSame(t)
    BY <1>t, <2>1 DEF HeldSame
  <2>5. PlainAt(t) => PlainAt(t)'
    BY <2>1, <2>2 DEF PlainAt, PlainPC
  <2> QED BY <2>3, <2>4, <2>5 DEF OwnStep
<1>16. CASE SkipWait(t)
  <2>1. /\ locked' = locked /\ contended' = contended /\ todo' = todo /\ lock' = lock
        /\ pc[t] = "skip_wait" /\ lock[t] \in Locks
        /\ ctx' = IF UseCtx(t) THEN [ctx EXCEPT ![lock[t]] = t] ELSE ctx
    BY <1>16, <1>t DEF SkipWait, SetCtxSlow
  <2>2. pc'[t] = "locked"
    BY <1>16, <1>t DEF SkipWait, SetCtxSlow, Woken
  <2>3. LeavesCallers(t)
    BY <2>1 DEF LeavesCallers
  <2>4. HeldSame(t)
    BY <1>t, <2>1 DEF HeldSame
  <2>5. PlainAt(t) => PlainAt(t)'
    BY <2>1, <2>2 DEF PlainAt, PlainPC
  <2> QED BY <2>3, <2>4, <2>5 DEF OwnStep
<1>17. CASE Locked(t)
  <2>1. /\ pc[t] = "locked" /\ lock[t] \in Locks /\ ctx' = ctx /\ locked[t] \in Seq(Locks)
        /\ locked' = [locked EXCEPT ![t] = IF Contains(@, lock[t]) THEN @ ELSE list_add(@, lock[t])]
        /\ contended' = [contended EXCEPT ![t] = NULL]
    BY <1>17, <1>t DEF Locked
  <2>2. pc'[t] \in {"unlock", "lock"}
    BY <1>17, <1>t DEF Locked
  <2>3. LeavesCallers(t)
    <3>1. \A u \in Tasks \ {t} : todo'[u] = todo[u]
      BY <1>17, <1>t DEF Locked
    <3> QED BY <1>t, <2>1, <3>1 DEF LeavesCallers
  <2>4. ToSet(locked'[t]) \subseteq ToSet(locked[t]) \cup {lock[t]}
    <3>1. CASE Contains(locked[t], lock[t])
      BY <1>t, <2>1, <3>1
    <3>2. CASE ~Contains(locked[t], lock[t])
      <4>1. locked'[t] = list_add(locked[t], lock[t])
        BY <1>t, <2>1, <3>2
      <4>2. lock[t] \notin ToSet(locked[t]) /\ NoDuplicates(locked[t])
        BY <2>1, <3>2, ContainsToSet DEF IInv, ListsRight
      <4>3. ToSet(list_add(locked[t], lock[t])) = ToSet(locked[t]) \cup {lock[t]}
        BY <2>1, <4>2, ListAdd
      <4> QED BY <4>1, <4>3
    <3> QED BY <3>1, <3>2
  <2>5. HeldNoted(t)
    BY <2>1, <2>2, <2>4 DEF HeldNoted, CtxPC
  <2>6. ASSUME PlainAt(t), ~UseCtx(t) PROVE PlainAt(t)'
    <3>1. contended[t] # lock[t] /\ todo[t] = <<>>
      BY <2>1, <2>6 DEF PlainAt
    <3>2. pc'[t] = "unlock" /\ todo' = todo
      BY <1>17, <1>t, <3>1 DEF Locked
    <3> QED BY <1>t, <2>1, <3>1, <3>2 DEF PlainAt, PlainPC
  <2>7. PlainAt(t) => PlainAt(t)'
    BY <2>6 DEF PlainAt
  <2> QED BY <2>3, <2>5, <2>7 DEF OwnStep
<1>18. CASE Unlocked(t)
  <2>1. /\ locked' = locked /\ contended' = contended /\ ctx' = ctx /\ locked[t] = <<>>
        /\ pc'[t] \in {"lock", "idle"}
        /\ todo' = todo \/ todo' = [todo EXCEPT ![t] = <<>>]
    BY <1>18, <1>t DEF Unlocked
  <2>2. LeavesCallers(t)
    BY <1>t, <2>1 DEF LeavesCallers
  <2>3. HeldSame(t)
    BY <2>1 DEF HeldSame, CtxPC
  <2>4. PlainAt(t) => PlainAt(t)'
    BY <1>t, <2>1 DEF PlainAt
  <2> QED BY <2>2, <2>3, <2>4 DEF OwnStep
<1>19. CASE ww_mutex_unlock(t)
  <2>1. /\ locked[t] # <<>> /\ locked[t] \in Seq(Locks) /\ NoDuplicates(locked[t])
        /\ contended' = contended /\ todo' = todo
        /\ lock' = [lock EXCEPT ![t] = Head(locked[t])]
        /\ locked' = [locked EXCEPT ![t] = Tail(locked[t])]
        /\ ctx' = [ctx EXCEPT ![Head(locked[t])] = NULL]
        /\ pc[t] = "unlock" /\ pc'[t] = "unlock_count"
    BY <1>19, <1>t DEF ww_mutex_unlock, IInv, ListsRight
  <2>2. lock'[t] = Head(locked[t]) /\ locked'[t] = Tail(locked[t])
    BY <1>t, <2>1
  <2>3. /\ Head(locked[t]) \in Locks
        /\ ToSet(Tail(locked[t])) = ToSet(locked[t]) \ {Head(locked[t])}
    BY <2>1, ListTail
  <2>4. LeavesCallers(t)
    BY <1>t, <2>1 DEF LeavesCallers
  <2>5. HeldLeft(t)
    BY <2>1, <2>2, <2>3 DEF HeldLeft, CtxPC
  <2>6. PlainAt(t) => PlainAt(t)'
    BY <2>1 DEF PlainAt, PlainPC
  <2> QED BY <2>4, <2>5, <2>6 DEF OwnStep
<1>20. CASE UnlockCount(t)
  <2>1. locked' = locked /\ contended' = contended /\ todo' = todo /\ ctx' = ctx /\ lock' = lock
    BY <1>20 DEF UnlockCount
  <2>2. /\ pc'[t] \in CtxPC /\ UseCtx(t) => pc[t] \in CtxPC
        /\ pc[t] \in PlainPC => pc'[t] \in PlainPC
        /\ pc'[t] # "check_stamp"
    BY <1>20, <1>t DEF UnlockCount, CtxPC, PlainPC
  <2> QED BY <1>same, <2>1, <2>2
<1>21. CASE UnlockSlow(t)
  <2>1. locked' = locked /\ contended' = contended /\ todo' = todo /\ ctx' = ctx /\ lock' = lock
    BY <1>21 DEF UnlockSlow
  <2>2. /\ pc'[t] \in CtxPC /\ UseCtx(t) => pc[t] \in CtxPC
        /\ pc[t] \in PlainPC => pc'[t] \in PlainPC
        /\ pc'[t] # "check_stamp"
    BY <1>21, <1>t DEF UnlockSlow, CtxPC, PlainPC
  <2> QED BY <1>same, <2>1, <2>2
<1>22. CASE Wake(t)
  <2>1. locked' = locked /\ contended' = contended /\ todo' = todo /\ ctx' = ctx /\ lock' = lock
    BY <1>22 DEF Wake, Woken
  <2>2. /\ pc'[t] \in CtxPC /\ UseCtx(t) => pc[t] \in CtxPC
        /\ pc[t] \in PlainPC => pc'[t] \in PlainPC
        /\ pc'[t] # "check_stamp"
    BY <1>22, <1>t DEF Wake, Woken, CtxPC, PlainPC
  <2> QED BY <1>same, <2>1, <2>2
<1>23. CASE Signal(t)
  <2>1. locked' = locked /\ contended' = contended /\ todo' = todo /\ ctx' = ctx /\ lock' = lock
    BY <1>23 DEF Signal, Woken
  <2>2. /\ pc'[t] \in CtxPC /\ UseCtx(t) => pc[t] \in CtxPC
        /\ pc[t] \in PlainPC => pc'[t] \in PlainPC
        /\ pc'[t] # "check_stamp"
    BY <1>23, <1>t DEF Signal, Woken, CtxPC, PlainPC
  <2> QED BY <1>same, <2>1, <2>2
<1> QED
  BY <1>1, <1>2, <1>3, <1>4, <1>5, <1>6, <1>7, <1>8, <1>9, <1>10, <1>11,
     <1>12, <1>13, <1>14, <1>15, <1>16, <1>17, <1>18, <1>19, <1>20, <1>21,
     <1>22, <1>23 DEF TaskStep, Step

(* Every task keeps its locks in its name. *)
LEMMA OwnInductive ==
  /\ Init => OwnInv
  /\ IInv /\ OwnInv /\ [Next]_vars => OwnInv'
<1>1. ASSUME Init PROVE OwnInv
  BY <1>1, EmptyList DEF Init, OwnInv, OwnsCtx, PlainAt, CtxPC
<1>2. ASSUME IInv, OwnInv, Next PROVE OwnInv'
  <2>1. PICK t \in Tasks : TaskStep(t)
    BY <1>2 DEF Next, TaskStep
  <2>2. OwnStep(t) /\ LeavesOthers(t)
    BY <1>2, <2>1, OwnKinds, OthersLeft
  <2>3. ctx \in [Locks -> Tasks \cup {NULL}]
    BY <1>2 DEF IInv, TypeOK
  <2>4. SameCtx(t) \/ SetsCtx(t) \/ ClearsCtx(t)
    BY <1>2, <2>1, CtxKinds DEF IInv
  <2>5. ASSUME NEW u \in Tasks \ {t}, NEW l \in Locks, Has(u, l), ctx[l] = u PROVE ctx'[l] = u
    <3>1. ~Has(t, l)
      BY <1>2, <2>5 DEF IInv, Exclusion
    <3>2. CASE SameCtx(t)
      BY <2>5, <3>2 DEF SameCtx
    <3>3. CASE SetsCtx(t)
      BY <2>3, <2>5, <3>1, <3>3 DEF SetsCtx
    <3>4. CASE ClearsCtx(t)
      BY <2>3, <2>5, <3>1, <3>4 DEF ClearsCtx
    <3> QED BY <2>4, <3>2, <3>3, <3>4
  <2>6. ASSUME NEW u \in Tasks \ {t} PROVE OwnsCtx(u)'
    <3> SUFFICES ASSUME UseCtx(u)
                 PROVE  /\ \A l \in ToSet(locked'[u]) : ctx'[l] = u
                        /\ pc'[u] \in CtxPC => ctx'[lock'[u]] = u
      BY DEF OwnsCtx, UseCtx
    <3>1. /\ \A l \in ToSet(locked[u]) : ctx[l] = u
          /\ pc[u] \in CtxPC => ctx[lock[u]] = u
      BY <1>2 DEF OwnInv, OwnsCtx
    <3>2. ASSUME NEW l \in ToSet(locked[u]) PROVE ctx'[l] = u
      <4>1. l \in Locks /\ Has(u, l)
        BY <1>2 DEF IInv, TypeOK, ToSet, Has
      <4> QED BY <2>5, <3>1, <4>1
    <3>3. ASSUME pc[u] \in CtxPC PROVE ctx'[lock[u]] = u
      <4>1. lock[u] \in Locks /\ Has(u, lock[u])
        BY <1>2, <3>3 DEF IInv, ListsRight, Has, HoldPC, CtxPC
      <4> QED BY <2>5, <3>1, <3>3, <4>1
    <3>4. locked'[u] = locked[u] /\ lock'[u] = lock[u]
      BY <2>2 DEF OwnStep, LeavesCallers, LeavesOthers
    <3>5. pc'[u] \in CtxPC => pc[u] \in CtxPC
      BY <2>2 DEF LeavesOthers, CtxPC
    <3> QED BY <3>2, <3>3, <3>4, <3>5
  <2>7. OwnsCtx(t)'
    <3> SUFFICES ASSUME UseCtx(t)
                 PROVE  /\ \A l \in ToSet(locked'[t]) : ctx'[l] = t
                        /\ pc'[t] \in CtxPC => ctx'[lock'[t]] = t
      BY DEF OwnsCtx, UseCtx
    <3>1. /\ \A l \in ToSet(locked[t]) : ctx[l] = t
          /\ pc[t] \in CtxPC => ctx[lock[t]] = t
          /\ ToSet(locked[t]) \subseteq Locks
      BY <1>2 DEF OwnInv, OwnsCtx, IInv, TypeOK, ToSet
    <3>2. CASE HeldSame(t)
      <4>1. \A l \in Locks : ctx[l] = t => ctx'[l] = t
        BY <2>3, <3>2 DEF HeldSame
      <4> QED BY <3>1, <3>2, <4>1 DEF HeldSame
    <3>3. CASE HeldNoted(t)
      BY <3>1, <3>3 DEF HeldNoted, CtxPC
    <3>4. CASE HeldLeft(t)
      <4>1. \A l \in Locks : l # lock'[t] => ctx'[l] = ctx[l]
        BY <2>3, <3>4 DEF HeldLeft
      <4> QED BY <3>1, <3>4, <4>1 DEF HeldLeft
    <3> QED BY <2>2, <3>2, <3>3, <3>4 DEF OwnStep
  <2>8. ASSUME NEW u \in Tasks \ {t} PROVE PlainAt(u)'
    <3>1. /\ locked'[u] = locked[u] /\ contended'[u] = contended[u] /\ todo'[u] = todo[u]
          /\ pc'[u] = pc[u] \/ (pc[u] = "sleep" /\ pc'[u] = "woken")
      BY <2>2 DEF OwnStep, LeavesCallers, LeavesOthers
    <3>2. PlainAt(u)
      BY <1>2 DEF OwnInv
    <3> QED BY <3>1, <3>2 DEF PlainAt, PlainPC, UseCtx
  <2>9. PlainAt(t)'
    BY <1>2, <2>2 DEF OwnInv, OwnStep
  <2> QED BY <2>6, <2>7, <2>8, <2>9 DEF OwnInv
<1>3. ASSUME OwnInv, UNCHANGED vars PROVE OwnInv'
  BY <1>3 DEF OwnInv, OwnsCtx, PlainAt, UseCtx, vars, mutex, caller
<1> QED BY <1>1, <1>2, <1>3

----------------------------------------------------------------------------
(* Callers stay within their plans *)

InPlan(t) ==
  IF pc[t] = "idle" THEN contended[t] = NULL
  ELSE /\ plan[t] \in Plans[t] /\ lock[t] \in ToSet(plan[t])
       /\ ToSet(todo[t]) \subseteq ToSet(plan[t])
       /\ ToSet(locked[t]) \subseteq ToSet(plan[t])
       /\ contended[t] \in ToSet(plan[t]) \cup {NULL}

PlanInv == \A t \in Tasks : InPlan(t)

(* A step of t that leaves its caller alone *)
KeepsPlan(t) ==
  /\ plan'[t] = plan[t] /\ todo'[t] = todo[t] /\ locked'[t] = locked[t] /\ lock'[t] = lock[t]
  /\ contended'[t] \in {contended[t], lock[t], NULL}
  /\ pc[t] # "idle" /\ pc'[t] # "idle"

LEMMA PlanKept ==
  ASSUME NEW t \in Tasks, InPlan(t), KeepsPlan(t)
  PROVE  InPlan(t)'
BY DEF InPlan, KeepsPlan

(* The first entry and the rest of a list are entries of it. *)
LEMMA HeadTail ==
  ASSUME NEW q \in Seq(Locks), q # <<>>
  PROVE  Head(q) \in ToSet(q) /\ ToSet(Tail(q)) \subseteq ToSet(q)
<1>1. /\ Len(q) \in Nat \ {0} /\ Head(q) = q[1] /\ DOMAIN q = 1..Len(q)
      /\ Len(Tail(q)) = Len(q) - 1 /\ DOMAIN Tail(q) = 1..(Len(q) - 1)
      /\ \A i \in 1..(Len(q) - 1) : Tail(q)[i] = q[i + 1]
  OBVIOUS
<1>2. Head(q) \in ToSet(q)
  BY <1>1 DEF ToSet
<1>3. ASSUME NEW e \in ToSet(Tail(q)) PROVE e \in ToSet(q)
  <2>1. PICK i \in 1..(Len(q) - 1) : e = Tail(q)[i]
    BY <1>1 DEF ToSet
  <2>2. i + 1 \in 1..Len(q) /\ e = q[i + 1]
    BY <1>1, <2>1
  <2> QED BY <1>1, <2>2 DEF ToSet
<1> QED BY <1>2, <1>3

(* Every step of t keeps it within its plan, ... *)
LEMMA PlanSelf ==
  ASSUME IInv, NEW t \in Tasks, TaskStep(t), InPlan(t)
  PROVE  InPlan(t)'
<1>t. /\ pc \in [Tasks -> PC] /\ lock \in [Tasks -> Locks \cup {NULL}]
      /\ plan \in [Tasks -> Seq(Locks)] /\ todo \in [Tasks -> Seq(Locks)]
      /\ locked \in [Tasks -> Seq(Locks)] /\ contended \in [Tasks -> Locks \cup {NULL}]
      /\ pc[t] # "idle" => lock[t] \in Locks
      /\ pc[t] = "idle" => locked[t] = <<>>
  BY DEF IInv, TypeOK, ListsRight
<1> USE DEF Goto, mutex, context, caller
<1>1. ASSUME NEW p \in Plans[t], ww_acquire_init(t, p) PROVE InPlan(t)'
  <2>1. /\ pc[t] = "idle" /\ pc'[t] = "lock" /\ plan'[t] = p /\ todo'[t] = Tail(p)
        /\ lock'[t] = Head(p) /\ locked'[t] = <<>> /\ contended'[t] = contended[t]
    BY <1>1, <1>t DEF ww_acquire_init
  <2>2. p \in Seq(Locks) /\ p # <<>>
    OBVIOUS
  <2>3. Head(p) \in ToSet(p) /\ ToSet(Tail(p)) \subseteq ToSet(p)
    BY <2>2, HeadTail
  <2>4. contended[t] = NULL
    BY <2>1 DEF InPlan
  <2> QED BY <2>1, <2>3, <2>4, EmptyList DEF InPlan
<1>2. CASE ww_mutex_lock(t)
  BY <1>2, <1>t, PlanKept DEF ww_mutex_lock, Got, KeepsPlan
<1>3. CASE ww_mutex_trylock(t)
  BY <1>3, <1>t, PlanKept DEF ww_mutex_trylock, KeepsPlan
<1>4. CASE SetCtx(t)
  BY <1>4, <1>t, PlanKept DEF SetCtx, KeepsPlan
<1>5. CASE ReadCount(t)
  BY <1>5, <1>t, PlanKept DEF ReadCount, KeepsPlan
<1>6. CASE WakeAll(t)
  BY <1>6, <1>t, PlanKept DEF WakeAll, Woken, KeepsPlan
<1>7. CASE Spin(t)
  BY <1>7, <1>t, PlanKept DEF Spin, KeepsPlan
<1>8. CASE TryAcquire(t)
  BY <1>8, <1>t, PlanKept DEF TryAcquire, Got, KeepsPlan
<1>9. CASE SlowLock(t)
  BY <1>9, <1>t, PlanKept DEF SlowLock, KeepsPlan
<1>10. CASE TryXchg(t)
  BY <1>10, <1>t, PlanKept DEF TryXchg, KeepsPlan
<1>11. CASE Loop(t)
  BY <1>11, <1>t, PlanKept DEF Loop, KeepsPlan
<1>12. CASE LoopXchg(t)
  BY <1>12, <1>t, PlanKept DEF LoopXchg, KeepsPlan
<1>13. CASE Check(t)
  BY <1>13, <1>t, PlanKept DEF Check, Fail, Sleep, KeepsPlan
<1>14. CASE CheckStamp(t)
  BY <1>14, <1>t, PlanKept DEF CheckStamp, Fail, Sleep, KeepsPlan
<1>15. CASE RemoveWaiter(t)
  BY <1>15, <1>t, PlanKept DEF RemoveWaiter, SetCtxSlow, Woken, KeepsPlan
<1>16. CASE SkipWait(t)
  BY <1>16, <1>t, PlanKept DEF SkipWait, SetCtxSlow, Woken, KeepsPlan
<1>17. CASE Locked(t)
  <2> DEFINE rest == IF contended[t] = lock[t] THEN plan[t] ELSE todo[t]
  <2>1. /\ pc[t] = "locked" /\ plan'[t] = plan[t] /\ contended'[t] = NULL
        /\ \/ pc'[t] = "unlock" /\ lock'[t] = lock[t] /\ todo'[t] = todo[t]
           \/ /\ rest # <<>> /\ pc'[t] = "lock"
              /\ lock'[t] = Head(rest) /\ todo'[t] = Tail(rest)
    BY <1>17, <1>t DEF Locked
  <2>2. /\ plan[t] \in Plans[t] /\ lock[t] \in ToSet(plan[t]) /\ rest \in Seq(Locks)
        /\ ToSet(todo[t]) \subseteq ToSet(plan[t]) /\ ToSet(locked[t]) \subseteq ToSet(plan[t])
        /\ ToSet(rest) \subseteq ToSet(plan[t])
    BY <1>t, <2>1 DEF InPlan
  <2>3. ToSet(locked'[t]) \subseteq ToSet(plan[t])
    <3>1. HeldNoted(t) \/ locked'[t] = locked[t]
      <4>1. OwnStep(t)
        BY OwnKinds
      <4> QED BY <2>1, <4>1 DEF OwnStep, HeldSame, HeldLeft
    <3> QED BY <2>2, <3>1 DEF HeldNoted
  <2>4. rest # <<>> => Head(rest) \in ToSet(plan[t]) /\ ToSet(Tail(rest)) \subseteq ToSet(plan[t])
    <3> HIDE DEF rest
    <3> QED BY <2>2, HeadTail
  <2> HIDE DEF rest
  <2> QED BY <2>1, <2>2, <2>3, <2>4 DEF InPlan
<1>18. CASE Unlocked(t)
  <2>1. /\ pc[t] = "unlock" /\ contended'[t] = contended[t] /\ locked'[t] = locked[t]
        /\ \/ /\ contended[t] # NULL /\ pc'[t] = "lock" /\ lock'[t] = contended[t]
              /\ plan'[t] = plan[t] /\ todo'[t] = todo[t]
           \/ contended[t] = NULL /\ pc'[t] = "idle"
    BY <1>18, <1>t DEF Unlocked
  <2> QED BY <2>1 DEF InPlan
<1>19. CASE ww_mutex_unlock(t)
  <2>1. /\ pc[t] = "unlock" /\ pc'[t] = "unlock_count" /\ locked[t] # <<>>
        /\ plan'[t] = plan[t] /\ todo'[t] = todo[t] /\ contended'[t] = contended[t]
        /\ lock'[t] = Head(locked[t]) /\ locked'[t] = Tail(locked[t])
    BY <1>19, <1>t DEF ww_mutex_unlock
  <2>2. Head(locked[t]) \in ToSet(locked[t]) /\ ToSet(Tail(locked[t])) \subseteq ToSet(locked[t])
    BY <1>t, <2>1, HeadTail
  <2> QED BY <2>1, <2>2 DEF InPlan
<1>20. CASE UnlockCount(t)
  BY <1>20, <1>t, PlanKept DEF UnlockCount, KeepsPlan
<1>21. CASE UnlockSlow(t)
  BY <1>21, <1>t, PlanKept DEF UnlockSlow, KeepsPlan
<1>22. CASE Wake(t)
  BY <1>22, <1>t, PlanKept DEF Wake, Woken, KeepsPlan
<1>23. CASE Signal(t)
  BY <1>23, <1>t, PlanKept DEF Signal, Woken, KeepsPlan
<1> QED
  BY <1>1, <1>2, <1>3, <1>4, <1>5, <1>6, <1>7, <1>8, <1>9, <1>10, <1>11,
     <1>12, <1>13, <1>14, <1>15, <1>16, <1>17, <1>18, <1>19, <1>20, <1>21,
     <1>22, <1>23 DEF TaskStep, Step

(* ... and leaves the plans of the others alone. *)
LEMMA PlanOthers ==
  ASSUME IInv, NEW t \in Tasks, TaskStep(t), NEW u \in Tasks \ {t}
  PROVE  plan'[u] = plan[u]
<1>t. plan \in [Tasks -> Seq(Locks)]
  BY DEF IInv, TypeOK
<1>1. \A p : ww_acquire_init(t, p) => plan' = [plan EXCEPT ![t] = p]
  BY DEF ww_acquire_init
<1>2. Unlocked(t) => plan' = plan \/ plan' = [plan EXCEPT ![t] = <<>>]
  BY DEF Unlocked
<1>3. /\ ww_mutex_lock(t) \/ ww_mutex_trylock(t) \/ SetCtx(t) \/ ReadCount(t) \/ WakeAll(t) => plan' = plan
      /\ Spin(t) \/ TryAcquire(t) \/ SlowLock(t) \/ TryXchg(t) \/ Loop(t) \/ LoopXchg(t) => plan' = plan
      /\ Check(t) \/ CheckStamp(t) => plan' = plan
      /\ RemoveWaiter(t) \/ SkipWait(t) => plan' = plan
      /\ Locked(t) \/ ww_mutex_unlock(t) => plan' = plan
      /\ UnlockCount(t) \/ UnlockSlow(t) \/ Wake(t) \/ Signal(t) => plan' = plan
  <2>1. ww_mutex_lock(t) \/ ww_mutex_trylock(t) \/ SetCtx(t) \/ ReadCount(t) \/ WakeAll(t) => plan' = plan
    BY DEF ww_mutex_lock, ww_mutex_trylock, SetCtx, ReadCount, WakeAll, caller
  <2>2. Spin(t) \/ TryAcquire(t) \/ SlowLock(t) \/ TryXchg(t) \/ Loop(t) \/ LoopXchg(t) => plan' = plan
    BY DEF Spin, TryAcquire, SlowLock, TryXchg, Loop, LoopXchg, caller
  <2>3. Check(t) \/ CheckStamp(t) => plan' = plan
    BY DEF Check, CheckStamp
  <2>4. RemoveWaiter(t) \/ SkipWait(t) => plan' = plan
    BY DEF RemoveWaiter, SkipWait, SetCtxSlow, caller
  <2>5. Locked(t) \/ ww_mutex_unlock(t) => plan' = plan
    BY DEF Locked, ww_mutex_unlock
  <2>6. UnlockCount(t) \/ UnlockSlow(t) \/ Wake(t) \/ Signal(t) => plan' = plan
    BY DEF UnlockCount, UnlockSlow, Wake, Signal, caller
  <2> QED BY <2>1, <2>2, <2>3, <2>4, <2>5, <2>6
<1> QED BY <1>t, <1>1, <1>2, <1>3 DEF TaskStep, Step

(* Every task stays within its plan. *)
LEMMA PlanInductive ==
  /\ Init => PlanInv
  /\ IInv /\ PlanInv /\ [Next]_vars => PlanInv'
<1>1. ASSUME Init PROVE PlanInv
  BY <1>1 DEF Init, PlanInv, InPlan
<1>2. ASSUME IInv, PlanInv, Next PROVE PlanInv'
  <2>1. PICK t \in Tasks : TaskStep(t)
    BY <1>2 DEF Next, TaskStep
  <2>2. InPlan(t)'
    BY <1>2, <2>1, PlanSelf DEF PlanInv
  <2>3. ASSUME NEW u \in Tasks \ {t} PROVE InPlan(u)'
    <3>1. /\ locked'[u] = locked[u] /\ contended'[u] = contended[u] /\ todo'[u] = todo[u]
      BY <1>2, <2>1, OwnKinds DEF OwnStep, LeavesCallers
    <3>2. lock'[u] = lock[u] /\ (pc'[u] = pc[u] \/ (pc[u] = "sleep" /\ pc'[u] = "woken"))
      BY <1>2, <2>1, OthersLeft DEF LeavesOthers
    <3>3. plan'[u] = plan[u] /\ InPlan(u)
      BY <1>2, <2>1, PlanOthers DEF PlanInv
    <3> QED BY <3>1, <3>2, <3>3 DEF InPlan
  <2> QED BY <2>2, <2>3 DEF PlanInv
<1>3. ASSUME PlanInv, UNCHANGED vars PROVE PlanInv'
  BY <1>3 DEF PlanInv, InPlan, vars, caller
<1> QED BY <1>1, <1>2, <1>3

(* Who works on a lock, or has it, is a user of it. *)
LEMMA UsersAre ==
  ASSUME IInv, PlanInv, NEW t \in Tasks, NEW l \in Locks, (lock[t] = l /\ pc[t] # "idle") \/ Has(t, l)
  PROVE  t \in Users(l)
<1>1. pc[t] # "idle"
  BY EmptyList DEF IInv, ListsRight, Has, HoldPC
<1>2. plan[t] \in Plans[t] /\ l \in ToSet(plan[t])
  BY <1>1 DEF PlanInv, InPlan, Has
<1> QED BY <1>2 DEF Users

----------------------------------------------------------------------------
(* Of two users of a lock, only the first in line waits for the other *)

(* Nobody sleeps for a lock it has: -EALREADY comes first. *)
NotOwn(x) == pc[x] \in {"check_stamp", "sleep", "woken"} => lock[x] \notin ToSet(locked[x])

FirstOfTwo(l) ==
  Paired(l) => \A x \in ToSet(wait_list[l]) : x = Head(wait_list[l]) \/ l \in ToSet(locked[x])

FirstInv == (\A x \in Tasks : NotOwn(x)) /\ \A l \in Locks : FirstOfTwo(l)

(* A task is woken from its sleep only. *)
LEMMA WokenFrom ==
  ASSUME IInv, NEW t \in Tasks, TaskStep(t), pc'[t] = "woken"
  PROVE  pc[t] \in {"sleep", "woken"} /\ lock'[t] = lock[t]
<1>t. pc \in [Tasks -> PC]
  BY DEF IInv, TypeOK
<1> USE DEF Goto, mutex, context, caller
<1>1. ASSUME NEW p \in Plans[t], ww_acquire_init(t, p) PROVE FALSE
  BY <1>1, <1>t DEF ww_acquire_init
<1>2. CASE ww_mutex_lock(t)
  BY <1>2, <1>t DEF ww_mutex_lock, Got
<1>3. CASE ww_mutex_trylock(t)
  BY <1>3, <1>t DEF ww_mutex_trylock
<1>4. CASE SetCtx(t)
  BY <1>4, <1>t DEF SetCtx
<1>5. CASE ReadCount(t)
  BY <1>5, <1>t DEF ReadCount
<1>6. CASE WakeAll(t)
  BY <1>6, <1>t DEF WakeAll, Woken
<1>7. CASE Spin(t)
  BY <1>7, <1>t DEF Spin
<1>8. CASE TryAcquire(t)
  BY <1>8, <1>t DEF TryAcquire, Got
<1>9. CASE SlowLock(t)
  BY <1>9, <1>t DEF SlowLock
<1>10. CASE TryXchg(t)
  BY <1>10, <1>t DEF TryXchg
<1>11. CASE Loop(t)
  BY <1>11, <1>t DEF Loop
<1>12. CASE LoopXchg(t)
  BY <1>12, <1>t DEF LoopXchg
<1>13. CASE Check(t)
  BY <1>13, <1>t DEF Check, Fail, Sleep
<1>14. CASE CheckStamp(t)
  BY <1>14, <1>t DEF CheckStamp, Fail, Sleep
<1>15. CASE RemoveWaiter(t)
  BY <1>15, <1>t DEF RemoveWaiter, SetCtxSlow, Woken
<1>16. CASE SkipWait(t)
  BY <1>16, <1>t DEF SkipWait, SetCtxSlow, Woken
<1>17. CASE Locked(t)
  BY <1>17, <1>t DEF Locked
<1>18. CASE Unlocked(t)
  BY <1>18, <1>t DEF Unlocked
<1>19. CASE ww_mutex_unlock(t)
  BY <1>19, <1>t DEF ww_mutex_unlock
<1>20. CASE UnlockCount(t)
  BY <1>20, <1>t DEF UnlockCount
<1>21. CASE UnlockSlow(t)
  BY <1>21, <1>t DEF UnlockSlow
<1>22. CASE Wake(t)
  BY <1>22, <1>t DEF Wake, Woken
<1>23. CASE Signal(t)
  BY <1>23, <1>t DEF Signal, Woken
<1> QED
  BY <1>1, <1>2, <1>3, <1>4, <1>5, <1>6, <1>7, <1>8, <1>9, <1>10, <1>11,
     <1>12, <1>13, <1>14, <1>15, <1>16, <1>17, <1>18, <1>19, <1>20, <1>21,
     <1>22, <1>23 DEF TaskStep, Step

(* A task that is queued keeps its list of locks. *)
LEMMA QueuedKeeps ==
  ASSUME IInv, NEW t \in Tasks, TaskStep(t), pc[t] \in QueuedPC \cup {"slow", "try_xchg"}
  PROVE  locked'[t] = locked[t]
<1>1. OwnStep(t)
  BY OwnKinds
<1> QED BY <1>1 DEF OwnStep, HeldSame, HeldNoted, HeldLeft, QueuedPC

(* A context that has a lock on its list counts it. *)
LEMMA CountsOwn ==
  ASSUME IInv, NEW t \in Tasks, OwnsCtx(t), UseCtx(t), NEW l \in ToSet(locked[t])
  PROVE  ctx[l] = t /\ HasOthers(t)
<1>1. ctx[l] = t /\ l \in Locks
  BY DEF OwnsCtx, IInv, TypeOK, ToSet
<1>2. IsFiniteSet(Counted(t)) /\ Cardinality(Counted(t)) \in Nat
  BY CountedFinite
<1>3. Counted(t) # {}
  BY <1>1 DEF Counted
<1>4. Cardinality(Counted(t)) # 0
  BY <1>2, <1>3, FS_EmptySet
<1>5. acquired[t] = Cardinality(Counted(t))
  BY DEF IInv, AcquiredCounts
<1> QED BY <1>1, <1>2, <1>4, <1>5 DEF HasOthers

(* A task that goes to sleep has looked for its own lock. *)
LEMMA NotOwnStep ==
  ASSUME IInv, AgeInv, OwnInv, NEW t \in Tasks, TaskStep(t), NEW x \in Tasks, NotOwn(x)
  PROVE  NotOwn(x)'
<1>1. CASE x # t
  <2>1. locked'[x] = locked[x]
    BY <1>1, OwnKinds DEF OwnStep, LeavesCallers
  <2>2. lock'[x] = lock[x] /\ (pc'[x] = pc[x] \/ (pc[x] = "sleep" /\ pc'[x] = "woken"))
    BY <1>1, OthersLeft DEF LeavesOthers
  <2> QED BY <2>1, <2>2 DEF NotOwn
<1>2. CASE x = t
  <2> SUFFICES ASSUME pc'[t] \in {"check_stamp", "sleep", "woken"}, lock'[t] \in ToSet(locked'[t])
               PROVE  FALSE
    BY <1>2 DEF NotOwn
  <2>1. CASE pc'[t] = "woken"
    <3>1. pc[t] \in {"sleep", "woken"} /\ lock'[t] = lock[t]
      BY <2>1, WokenFrom
    <3>2. locked'[t] = locked[t]
      BY <3>1, QueuedKeeps DEF QueuedPC
    <3> QED BY <1>2, <3>1, <3>2 DEF NotOwn
  <2>2. CASE pc'[t] \in {"check_stamp", "sleep"}
    <3>1. LooksOrSleeps(t)
      BY <2>2, SelfKinds DEF WaitingPC, ComesToWait
    <3>2. pc[t] \in WaitingPC /\ lock'[t] = lock[t]
      BY <3>1 DEF LooksOrSleeps
    <3>3. locked'[t] = locked[t] /\ lock[t] \in ToSet(locked[t])
      BY <3>2, QueuedKeeps DEF QueuedPC, WaitingPC
    <3>4. UseCtx(t)
      <4>1. locked[t] # <<>>
        BY <3>3, EmptyList
      <4>2. pc[t] \notin PlainPC
        BY <3>2 DEF WaitingPC, PlainPC
      <4> QED BY <4>1, <4>2 DEF OwnInv, PlainAt
    <3>5. ctx[lock[t]] = t /\ HasOthers(t)
      BY <3>3, <3>4, CountsOwn DEF OwnInv
    <3>6. pc[t] # "check_stamp"
      BY <1>2, <3>3 DEF NotOwn
    <3> QED BY <2>2, <3>1, <3>5, <3>6 DEF LooksOrSleeps
  <2> QED BY <2>1, <2>2
<1> QED BY <1>1, <1>2

(* list_del() leaves the first entry first, unless it is the one. *)
LEMMA DelHead ==
  ASSUME NEW T, NEW q \in Seq(T), NEW e \in ToSet(q), q # <<>>, Head(q) # e
  PROVE  Head(list_del(q, e)) = Head(q)
<1> DEFINE i == IndexOf(q, e)
           r == list_del(q, e)
<1>1. /\ r \in Seq(T) /\ Len(r) = Len(q) - 1
      /\ \A j \in 1..(Len(q) - 1) : r[j] = IF j < i THEN q[j] ELSE q[j + 1]
  BY ListDelEntries
<1>2. i \in 1..Len(q) /\ q[i] = e /\ Len(q) \in Nat /\ Head(q) = q[1]
  BY IndexOfFound
<1> HIDE DEF i, r
<1>3. i # 1
  BY <1>2
<1>4. 1 \in 1..(Len(q) - 1) /\ 1 < i
  BY <1>2, <1>3
<1>5. r[1] = q[1] /\ Len(r) > 0
  BY <1>1, <1>2, <1>4
<1>6. Head(r) = r[1]
  BY <1>1, <1>5
<1> QED BY <1>2, <1>5, <1>6 DEF r

(* If t joins a list with a task on it, t itself has the lock: it or the   *)
(* other user has it, and the other would be about to leave.               *)
LEMMA JoinsOwn ==
  ASSUME IInv, QueueInv, AttendInv, PlanInv, \A x \in Tasks : NotOwn(x), NEW t \in Tasks, ListJoined(t),
         Paired(lock[t]), NEW y \in ToSet(wait_list[lock[t]])
  PROVE  lock[t] \in ToSet(locked[t])
<1>l. PICK l \in Locks : l = lock[t]
  BY DEF ListJoined
<1>1. y \in Tasks /\ lock[y] = l /\ pc[y] \in QueuedPC
  <2>1. wait_list[l] \in Seq(Tasks)
    BY DEF QueueInv, QueueTypes
  <2>2. y \in Tasks
    BY <1>l, <2>1 DEF ToSet
  <2> QED BY <1>l, <2>2 DEF AttendInv, ListExact
<1>2. /\ count[l] # 1 /\ y # t /\ pc[t] \in {"slow", "try_xchg"}
      /\ pc[t] = "slow" => wait_lock[l] = NULL
  BY <1>l, <1>1 DEF ListJoined
<1>3. wait_lock[l] # y
  BY <1>l, <1>1, <1>2 DEF QueueInv, HoldsWaitLock, WaitLockPC
<1>4. PICK h \in Tasks : Has(h, l)
  BY <1>2 DEF IInv, Exclusion
<1>5. h \in Users(l) /\ t \in Users(l) /\ y \in Users(l)
  BY <1>l, <1>1, <1>2, <1>4, UsersAre DEF QueuedPC
<1>6. h = t \/ h = y
  BY <1>l, <1>2, <1>5 DEF Paired
<1>7. CASE h = t
  BY <1>l, <1>2, <1>4, <1>7 DEF Has, HoldPC
<1>8. CASE h = y
  <2>1. pc[y] \in {"sleep", "woken"}
    BY <1>1, <1>3 DEF QueueInv, HoldsWaitLock, WaitLockPC, QueuedPC
  <2>2. l \in ToSet(locked[y])
    BY <1>4, <1>8, <2>1 DEF Has, HoldPC
  <2> QED BY <1>1, <2>1, <2>2 DEF NotOwn
<1> QED BY <1>6, <1>7, <1>8

(* Who waits behind the other user of a lock has the lock. *)
LEMMA FirstStep ==
  ASSUME IInv, QueueInv, AttendInv, PlanInv, \A x \in Tasks : NotOwn(x), NEW t \in Tasks, TaskStep(t),
         NEW l \in Locks, FirstOfTwo(l)
  PROVE  FirstOfTwo(l)'
<1> SUFFICES ASSUME Paired(l), NEW x \in ToSet(wait_list'[l])
             PROVE  x = Head(wait_list'[l]) \/ l \in ToSet(locked'[x])
  BY DEF FirstOfTwo
<1>t. /\ wait_list \in [Locks -> Seq(Tasks)] /\ wait_list[l] \in Seq(Tasks)
      /\ NoDuplicates(wait_list[l])
      /\ \A y \in ToSet(wait_list[l]) : y \in Tasks /\ lock[y] = l /\ pc[y] \in QueuedPC
      /\ \A y \in ToSet(wait_list[l]) : y = Head(wait_list[l]) \/ l \in ToSet(locked[y])
  <2>1. wait_list \in [Locks -> Seq(Tasks)] /\ wait_list[l] \in Seq(Tasks)
    BY DEF QueueInv, QueueTypes
  <2>2. \A y \in ToSet(wait_list[l]) : y \in Tasks
    BY <2>1 DEF ToSet
  <2> QED BY <2>1, <2>2 DEF AttendInv, ListExact, FirstOfTwo
<1>k. ASSUME NEW y \in ToSet(wait_list[l]) PROVE locked'[y] = locked[y]
  <2>1. CASE y = t
    BY <1>t, <1>k, <2>1, QueuedKeeps
  <2>2. CASE y # t
    BY <1>t, <1>k, <2>2, OwnKinds DEF OwnStep, LeavesCallers
  <2> QED BY <2>1, <2>2
<1>1. CASE wait_list'[l] = wait_list[l]
  BY <1>t, <1>k, <1>1
<1>2. CASE ListJoined(t) /\ l = lock[t]
  <2>1. /\ wait_list'[l] = list_add_tail(wait_list[l], t) /\ t \notin ToSet(wait_list[l])
        /\ locked'[t] = locked[t]
    BY <1>2, <1>t, QueuedKeeps DEF ListJoined
  <2>2. ToSet(wait_list'[l]) = ToSet(wait_list[l]) \cup {t}
    BY <1>t, <2>1, ListAddTail
  <2>3. CASE wait_list[l] = <<>>
    <3>1. x = t
      BY <2>2, <2>3, EmptyList
    <3>2. Head(wait_list'[l]) = t
      BY <2>1, <2>3 DEF list_add_tail
    <3> QED BY <3>1, <3>2
  <2>4. CASE wait_list[l] # <<>>
    <3>1. Head(wait_list'[l]) = Head(wait_list[l])
      BY <1>t, <2>1, <2>4 DEF list_add_tail
    <3>2. PICK y : y \in ToSet(wait_list[l])
      BY <1>t, <2>4, EmptyToSet
    <3>3. l \in ToSet(locked[t])
      BY <1>2, <3>2, JoinsOwn
    <3> QED BY <1>t, <1>k, <2>1, <2>2, <3>1, <3>3
  <2> QED BY <2>3, <2>4
<1>3. CASE ListLeft(t) /\ l = lock[t]
  <2>1. wait_list'[l] = list_del(wait_list[l], t) /\ t \in ToSet(wait_list[l])
    BY <1>3, <1>t DEF ListLeft, QueueInv, OnList
  <2>2. x \in ToSet(wait_list[l]) /\ x # t
    BY <1>t, <2>1, ListDel
  <2>3. wait_list[l] # <<>>
    BY <2>1, EmptyList
  <2>4. CASE x = Head(wait_list[l])
    BY <1>t, <2>1, <2>2, <2>3, <2>4, DelHead
  <2>5. CASE x # Head(wait_list[l])
    BY <1>t, <1>k, <2>2, <2>5
  <2> QED BY <2>4, <2>5
<1>4. wait_list'[l] = wait_list[l] \/ (ListJoined(t) /\ l = lock[t]) \/ (ListLeft(t) /\ l = lock[t])
  BY <1>t, ListKinds DEF ListSame, ListJoined, ListLeft
<1> QED BY <1>1, <1>2, <1>3, <1>4

LEMMA FirstInductive ==
  /\ Init => FirstInv
  /\ IInv /\ AgeInv /\ QueueInv /\ AttendInv /\ OwnInv /\ PlanInv /\ FirstInv /\ [Next]_vars
     => FirstInv'
<1>1. ASSUME Init PROVE FirstInv
  BY <1>1, EmptyList DEF Init, FirstInv, NotOwn, FirstOfTwo
<1>2. ASSUME IInv, AgeInv, QueueInv, AttendInv, OwnInv, PlanInv, FirstInv, Next PROVE FirstInv'
  <2>1. PICK t \in Tasks : TaskStep(t)
    BY <1>2 DEF Next, TaskStep
  <2>2. \A x \in Tasks : NotOwn(x)'
    BY <1>2, <2>1, NotOwnStep DEF FirstInv
  <2>3. \A l \in Locks : FirstOfTwo(l)'
    BY <1>2, <2>1, FirstStep DEF FirstInv
  <2> QED BY <2>2, <2>3 DEF FirstInv
<1>3. ASSUME FirstInv, UNCHANGED vars PROVE FirstInv'
  BY <1>3 DEF FirstInv, NotOwn, FirstOfTwo, vars, mutex, caller
<1> QED BY <1>1, <1>2, <1>3

(* A waiter that has other locks, and not this one, is first. *)
LEMMA WaiterFirst ==
  ASSUME OwnInv, FirstInv, NEW l \in Locks, Paired(l), NEW x \in Tasks, x \in ToSet(wait_list[l]),
         HasOthers(x), ctx[l] # x
  PROVE  x = Head(wait_list[l])
BY DEF FirstInv, FirstOfTwo, OwnInv, OwnsCtx, HasOthers

(* The ctx of a lock that another task has stays. *)
LEMMA CtxStays ==
  ASSUME IInv, NEW t \in Tasks, TaskStep(t), NEW x \in Tasks \ {t}, NEW l \in Locks, ctx[l] = x
  PROVE  ctx'[l] = x
<1>1. ctx \in [Locks -> Tasks \cup {NULL}] /\ Has(x, l)
  BY DEF IInv, TypeOK, CtxHolds
<1>2. ~Has(t, l)
  BY <1>1 DEF IInv, Exclusion
<1>3. CASE SameCtx(t)
  BY <1>3 DEF SameCtx
<1>4. CASE SetsCtx(t)
  BY <1>1, <1>2, <1>4 DEF SetsCtx
<1>5. CASE ClearsCtx(t)
  BY <1>1, <1>2, <1>5 DEF ClearsCtx
<1> QED BY <1>3, <1>4, <1>5, CtxKinds DEF IInv

(* Every step keeps what waiters know. *)
LEMMA WaitInductive ==
  /\ Init => WaitInv
  /\ /\ IInv /\ AgeInv /\ QueueInv /\ OwnInv /\ FirstInv /\ WaitInv
     /\ [Next]_vars /\ IInv' /\ QueueInv'
     => WaitInv'
<1>1. ASSUME Init PROVE WaitInv
  BY <1>1 DEF Init, WaitInv, NotLost, HasLooked, WaitingPC
<1>2. ASSUME IInv, AgeInv, QueueInv, OwnInv, FirstInv, WaitInv, Next, IInv', QueueInv' PROVE WaitInv'
  <2>1. PICK t \in Tasks : TaskStep(t)
    BY <1>2 DEF Next, TaskStep
  <2>2. ASSUME Paired(lock'[t]) PROVE NotLost(t)' /\ HasLooked(t)'
    BY <1>2, <2>1, <2>2, WaiterSelf DEF WaitInv
  <2>3. LeavesOthers(t)
    BY <1>2, <2>1, OthersLeft
  <2>4. ASSUME NEW x \in Tasks \ {t}, Paired(lock'[x]) PROVE NotLost(x)' /\ HasLooked(x)'
    <3>1. /\ acquired'[x] = acquired[x] /\ lock'[x] = lock[x] /\ Paired(lock[x])
          /\ NotLost(x) /\ HasLooked(x)
      BY <1>2, <2>1, <2>3, <2>4, AcquiredKept DEF WaitInv, LeavesOthers
    <3>2. CASE pc'[x] \notin WaitingPC \/ ~HasOthers(x)
      BY <3>1, <3>2 DEF NotLost, HasLooked, WaitingPC, HasOthers, UseCtx
    <3>3. CASE pc'[x] \in WaitingPC /\ HasOthers(x)
      <4>1. pc'[x] = pc[x] /\ pc[x] \in WaitingPC
        BY <2>3, <3>3 DEF LeavesOthers, WaitingPC
      <4>2. lock[x] \in Locks /\ x \in ToSet(wait_list[lock[x]])
        BY <1>2, <4>1 DEF IInv, ListsRight, QueueInv, OnList, WaitingPC, QueuedPC
      <4>3. CASE ctx[lock[x]] = x
        <5>1. ctx'[lock'[x]] = x
          BY <1>2, <2>1, <3>1, <4>2, <4>3, CtxStays
        <5>2. pc'[x] = "check"
          BY <3>1, <3>3, <4>1, <4>3 DEF HasLooked, WaitingPC
        <5> QED BY <5>1, <5>2 DEF NotLost, HasLooked
      <4>4. CASE ctx[lock[x]] # x
        <5>1. x = Head(wait_list[lock[x]])
          BY <1>2, <3>1, <3>3, <4>2, <4>4, WaiterFirst
        <5>2. KeepsCount(t, lock[x]) /\ KeepsCtx(t, lock[x])
          BY <1>2, <2>1, <4>1, <5>1, WaiterKinds
        <5> QED BY <1>2, <2>1, <2>3, <3>1, <4>1, <4>4, <5>2, NotLostOther, LookedOther
      <4> QED BY <4>3, <4>4
    <3> QED BY <3>2, <3>3
  <2> QED BY <2>2, <2>4 DEF WaitInv
<1>3. ASSUME WaitInv, UNCHANGED vars PROVE WaitInv'
  <2>1. /\ count' = count /\ ctx' = ctx /\ stamp' = stamp /\ acquired' = acquired /\ pc' = pc
        /\ lock' = lock /\ hold_ctx' = hold_ctx
    BY <1>3 DEF vars, mutex, context
  <2> QED BY <1>3, <2>1 DEF WaitInv, NotLost, HasLooked, HasOthers, UseCtx, SomeoneAt, WillTell, Younger
<1> QED BY <1>1, <1>2, <1>3

(* Of two contexts, the one that is not younger is the older. *)
LEMMA NotYoungerIs ==
  ASSUME AgeInv, StampsClose, NEW h \in Contexts, NEW t \in Contexts, h # t,
         ~Younger(stamp[t], stamp[h])
  PROVE  Older(t, h)
<1>1. /\ age \in Seq(Tasks) /\ ToSet(age) = Contexts /\ h \in ToSet(age) /\ t \in ToSet(age)
      /\ \A i, j \in 1..Len(age) : i < j =>
           Since(class_stamp, stamp[age[i]]) > Since(class_stamp, stamp[age[j]])
  BY DEF AgeInv, AgeRight
<1>2. Contains(age, h) /\ Contains(age, t)
  BY <1>1, ContainsToSet
<1>3. /\ stamp[h] \in 0..ULONG_MAX /\ stamp[t] \in 0..ULONG_MAX /\ class_stamp \in 0..ULONG_MAX
      /\ Since(class_stamp, stamp[h]) <= LONG_MAX /\ Since(class_stamp, stamp[t]) <= LONG_MAX
  BY DEF AgeInv, StampTypes, StampsClose, Contexts
<1>4. ~(Since(class_stamp, stamp[t]) < Since(class_stamp, stamp[h]))
  BY <1>3, YoungerIs
<1>5. Since(class_stamp, stamp[t]) \in Nat /\ Since(class_stamp, stamp[h]) \in Nat
  BY <1>3, SinceNat
<1> DEFINE i == IndexOf(age, t)
           j == IndexOf(age, h)
<1>6. i \in 1..Len(age) /\ age[i] = t /\ j \in 1..Len(age) /\ age[j] = h
  BY <1>1, IndexOfFound
<1> HIDE DEF i, j
<1>7. i # j
  BY <1>6
<1>8. ~(j < i)
  <2>1. j < i => Since(class_stamp, stamp[h]) > Since(class_stamp, stamp[t])
    BY <1>1, <1>6
  <2> QED BY <1>4, <1>5, <2>1
<1>9. i < j
  <2>1. i \in Nat /\ j \in Nat
    BY <1>1, <1>6
  <2> QED BY <1>7, <1>8, <2>1
<1> QED BY <1>2, <1>9 DEF Older, i, j

(* Nobody sleeps who has to back off, for any number of tasks, locks and   *)
(* calls, as long as the stamps are close.  This is about the locks that   *)
(* two tasks share; ww_deadlock shows what happens with three.             *)
THEOREM SleepersCorrect == Spec /\ []StampsClose => []SleepersMayWait
<1> DEFINE Inv == /\ IInv /\ AgeInv /\ QueueInv /\ AttendInv /\ OwnInv /\ PlanInv
                  /\ FirstInv /\ WaitInv
<1>1. ASSUME IInv, AgeInv, QueueInv, OwnInv, FirstInv, WaitInv, StampsClose PROVE SleepersMayWait
  <2> SUFFICES ASSUME NEW x \in Tasks, pc[x] = "sleep", Paired(lock[x]), UseCtx(x), acquired[x] > 0,
                      ctx[lock[x]] # NULL
               PROVE  \/ Older(x, ctx[lock[x]])
                      \/ lock[ctx[lock[x]]] = lock[x] /\ pc[ctx[lock[x]]] \in {"read_count", "wake_all"}
                      \/ /\ x = Head(wait_list[lock[x]])
                         /\ \E u \in Tasks : lock[u] = lock[x] /\ pc[u] = "wake"
    BY DEF SleepersMayWait
  <2>1. HasOthers(x) /\ lock[x] \in Locks /\ x \in ToSet(wait_list[lock[x]])
    BY <1>1 DEF HasOthers, IInv, ListsRight, QueueInv, OnList, QueuedPC
  <2>2. /\ ~Younger(stamp[x], stamp[ctx[lock[x]]]) \/ WillTell(lock[x])
        /\ ctx[lock[x]] # x
    BY <1>1, <2>1 DEF WaitInv, HasLooked
  <2>3. x = Head(wait_list[lock[x]])
    BY <1>1, <2>1, <2>2, WaiterFirst
  <2>4. x \in Contexts /\ ctx[lock[x]] \in Contexts
    <3>1. ctx[lock[x]] \in Tasks /\ pc[ctx[lock[x]]] # "idle"
      BY <1>1, <2>1, CtxBusy
    <3>2. UseCtx(ctx[lock[x]])
      BY <1>1, <2>1 DEF AgeInv, CtxUsed
    <3> QED BY <3>1, <3>2 DEF Contexts
  <2>5. CASE ~Younger(stamp[x], stamp[ctx[lock[x]]])
    BY <1>1, <2>2, <2>4, <2>5, NotYoungerIs
  <2>6. CASE WillTell(lock[x])
    BY <2>3, <2>6 DEF WillTell, SomeoneAt
  <2> QED BY <2>2, <2>5, <2>6
<1>2. Init => Inv
  BY Inductive, AgeInductive, QueueInductive, AttendInductive, OwnInductive, PlanInductive,
     FirstInductive, WaitInductive
<1>3. Inv /\ StampsClose /\ [Next]_vars => Inv'
  <2> SUFFICES ASSUME Inv, StampsClose, [Next]_vars PROVE Inv'
    OBVIOUS
  <2>1. IInv' /\ AgeInv' /\ QueueInv'
    BY Inductive, AgeInductive, QueueInductive
  <2>2. AttendInv' /\ OwnInv' /\ PlanInv' /\ FirstInv'
    BY <2>1, AttendInductive, OwnInductive, PlanInductive, FirstInductive
  <2>3. WaitInv'
    BY <2>1, WaitInductive
  <2> QED BY <2>1, <2>2, <2>3
<1>4. Inv /\ StampsClose => SleepersMayWait
  BY <1>1
<1> HIDE DEF Inv
<1> QED BY <1>2, <1>3, <1>4, PTL DEF Spec

----------------------------------------------------------------------------
(* Deadlock: a ring of waiters would have to get younger all the way       *)
(* round.                                                                  *)

(* A set of indices of a list has a largest one. *)
LEMMA LargestIndex ==
  ASSUME NEW len \in Nat, NEW I \in SUBSET (1..len), I # {}
  PROVE  \E i \in I : \A j \in I : ~(i < j)
<1> DEFINE rest(i) == i..len
           R == StrictSubsetOrdering(1..len)
           F == FiniteSubsetsOf(1..len)
           T == {rest(i) : i \in I}
<1>1. IsWellFoundedOn(R, F)
  BY FS_StrictSubsetOrderingWellFounded
<1>2. T \subseteq F
  <2> SUFFICES ASSUME NEW i \in I PROVE rest(i) \in F
    OBVIOUS
  <2>1. rest(i) \subseteq 1..len
    OBVIOUS
  <2>2. IsFiniteSet(rest(i))
    BY FS_Interval
  <2> QED BY <2>1, <2>2 DEF FiniteSubsetsOf
<1>3. T # {}
  OBVIOUS
<1>4. PICK s \in T : \A r \in T : ~(<<r, s>> \in R)
  <2> HIDE DEF R, F, T
  <2> QED BY <1>1, <1>2, <1>3, WFMin
<1>5. PICK i \in I : s = rest(i)
  OBVIOUS
<1>6. ASSUME NEW j \in I, i < j PROVE FALSE
  <2>1. rest(j) \in T
    OBVIOUS
  <2>2. rest(j) \subseteq 1..len /\ rest(i) \subseteq 1..len /\ rest(j) \subseteq rest(i)
    BY <1>6
  <2>3. i \in rest(i) /\ i \notin rest(j)
    BY <1>6
  <2>4. <<rest(j), rest(i)>> \in R
    <3> HIDE DEF rest
    <3> QED BY <2>2, <2>3 DEF StrictSubsetOrdering
  <2> QED BY <1>4, <1>5, <2>1, <2>4
<1> QED BY <1>6

(* Nobody is about to do anything. *)
Stuck == \A u \in Tasks : pc[u] \in {"idle", "sleep"}

(* When all sleep, somebody else that sleeps has the lock a task waits     *)
(* for, and has set its ctx.                                               *)
LEMMA StuckHolder ==
  ASSUME IInv, AttendInv, OwnInv, Stuck, NEW x \in Tasks, pc[x] = "sleep"
  PROVE  \E h \in Tasks : pc[h] = "sleep" /\ HasOthers(h) /\ ctx[lock[x]] = h
<1>1. lock[x] \in Locks
  BY DEF IInv, ListsRight
<1>2. PICK l \in Locks : l = lock[x]
  BY <1>1
<1>3. ~SomeoneAt(l, AttendingPC)
  BY DEF SomeoneAt, AttendingPC, Stuck
<1>4. SomeoneAt(l, WaitingPC)
  BY <1>2 DEF SomeoneAt, WaitingPC
<1>5. ~(count[l] >= 0)
  BY <1>3, <1>4 DEF AttendInv, Attended
<1>6. PICK h \in Tasks : Has(h, l)
  <2>1. count[l] # 1
    BY <1>5
  <2> QED BY <2>1 DEF IInv, Exclusion
<1>7. l \in ToSet(locked[h])
  BY <1>6 DEF Has, HoldPC, Stuck
<1>8. pc[h] = "sleep"
  <2>1. locked[h] # <<>>
    BY <1>7, EmptyList
  <2> QED BY <2>1 DEF IInv, ListsRight, Stuck
<1>9. UseCtx(h)
  <2>1. locked[h] # <<>> /\ pc[h] \notin PlainPC
    BY <1>7, <1>8, EmptyList DEF PlainPC
  <2> QED BY <2>1 DEF OwnInv, PlainAt
<1>10. ctx[l] = h
  BY <1>7, <1>9 DEF OwnInv, OwnsCtx
<1>11. acquired[h] > 0
  <2>1. IsFiniteSet(Counted(h)) /\ Cardinality(Counted(h)) \in Nat
    BY CountedFinite
  <2>2. Counted(h) # {}
    BY <1>10 DEF Counted
  <2>3. Cardinality(Counted(h)) # 0
    BY <2>1, <2>2, FS_EmptySet
  <2>4. acquired[h] = Cardinality(Counted(h))
    BY DEF IInv, AcquiredCounts
  <2> QED BY <2>1, <2>3, <2>4
<1> QED BY <1>2, <1>8, <1>9, <1>10, <1>11 DEF HasOthers

(* A task takes lock l together with another one. *)
Nested(l) == \E t \in Tasks : \E p \in Plans[t] : l \in ToSet(p) /\ \E k \in ToSet(p) : k # l

(* A sleeper that has locks nests the one it waits for in them. *)
LEMMA SleeperNests ==
  ASSUME IInv, PlanInv, NEW h \in Tasks, NotOwn(h), pc[h] = "sleep", HasOthers(h)
  PROVE  Nested(lock[h])
<1>1. Counted(h) # {}
  <2>1. acquired[h] = Cardinality(Counted(h)) /\ acquired[h] # 0
    BY DEF IInv, AcquiredCounts, HasOthers
  <2> QED BY <2>1, FS_EmptySet
<1>2. PICK k \in Locks : ctx[k] = h
  BY <1>1 DEF Counted
<1>3. k \in ToSet(locked[h])
  BY <1>2 DEF IInv, CtxHolds, Has, HoldPC
<1>4. k # lock[h]
  BY <1>3 DEF NotOwn
<1>5. plan[h] \in Plans[h] /\ k \in ToSet(plan[h]) /\ lock[h] \in ToSet(plan[h])
  BY <1>3 DEF PlanInv, InPlan
<1> QED BY <1>4, <1>5 DEF Nested

(* So not all of them sleep: of the sleepers that have locks, consider the *)
(* youngest.                                                               *)
LEMMA NotStuck ==
  ASSUME IInv, AgeInv, AttendInv, OwnInv, PlanInv, \A x \in Tasks : NotOwn(x), SleepersMayWait,
         \A l \in Locks : Nested(l) => Paired(l)
  PROVE  NoDeadlock
<1> SUFFICES ASSUME Stuck, NEW x \in Tasks, pc[x] # "idle" PROVE FALSE
  BY DEF NoDeadlock, Stuck
<1> DEFINE S == {h \in Tasks : pc[h] = "sleep" /\ HasOthers(h)}
           I == {i \in 1..Len(age) : age[i] \in S}
<1>1. S # {}
  <2>1. pc[x] = "sleep"
    BY DEF Stuck
  <2> QED BY <2>1, StuckHolder
<1>2. age \in Seq(Tasks) /\ ToSet(age) = Contexts /\ Len(age) \in Nat
  BY DEF AgeInv, AgeRight
<1>3. ASSUME NEW h \in S PROVE h \in ToSet(age)
  BY <1>2 DEF Contexts, HasOthers
<1>4. ASSUME NEW h \in S PROVE IndexOf(age, h) \in I
  <2>1. IndexOf(age, h) \in 1..Len(age) /\ age[IndexOf(age, h)] = h
    BY <1>2, <1>3, IndexOfFound
  <2> QED BY <2>1
<1>5. PICK i \in I : \A j \in I : ~(i < j)
  <2>1. I \in SUBSET (1..Len(age)) /\ I # {}
    BY <1>1, <1>4
  <2> HIDE DEF I
  <2> QED BY <1>2, <2>1, LargestIndex
<1>6. PICK h \in S : h = age[i]
  OBVIOUS
<1>7. IndexOf(age, h) = i
  <2>1. IndexOf(age, h) \in 1..Len(age) /\ age[IndexOf(age, h)] = h
    BY <1>2, <1>3, IndexOfFound
  <2>2. \A j, k \in 1..Len(age) : age[j] = age[k] => j = k
    BY <1>2 DEF AgeInv, AgeRight, NoDuplicates
  <2> QED BY <1>6, <2>1, <2>2
<1>8. PICK y \in S : ctx[lock[h]] = y
  BY <1>6, StuckHolder
<1>9. Older(h, y)
  <2>1. pc[h] = "sleep" /\ UseCtx(h) /\ acquired[h] > 0 /\ ctx[lock[h]] # NULL /\ lock[h] \in Locks
    BY <1>6, <1>8 DEF HasOthers, IInv, ListsRight
  <2>p. Paired(lock[h])
    BY <1>6, <2>1, SleeperNests
  <2>2. /\ pc[ctx[lock[h]]] \notin {"read_count", "wake_all"}
        /\ ~\E u \in Tasks : lock[u] = lock[h] /\ pc[u] = "wake"
    BY <1>8 DEF Stuck
  <2>3. Older(h, ctx[lock[h]])
    BY <1>6, <2>1, <2>2, <2>p DEF SleepersMayWait
  <2> QED BY <1>8, <2>3
<1>10. i < IndexOf(age, y)
  BY <1>7, <1>9 DEF Older
<1> QED BY <1>4, <1>5, <1>8, <1>10

(* The "Deadlock-Proof Mutex" of ww-mutex-design.txt: never do all the     *)
(* tasks that have not returned sleep, for any number of tasks, locks,     *)
(* plans and calls, if the locks that a task takes together with others    *)
(* are each shared by two tasks at most.  ww_deadlock shows that with      *)
(* three tasks on such a lock the code does not keep it.                   *)
THEOREM DeadlockFree ==
  (\A l \in Locks : Nested(l) => Paired(l)) => (Spec /\ []StampsClose => []NoDeadlock)
<1> SUFFICES ASSUME \A l \in Locks : Nested(l) => Paired(l)
             PROVE  Spec /\ []StampsClose => []NoDeadlock
  OBVIOUS
<1> DEFINE Inv == IInv /\ AgeInv /\ QueueInv /\ AttendInv /\ OwnInv /\ PlanInv /\ FirstInv
<1>1. Init => Inv
  BY Inductive, AgeInductive, QueueInductive, AttendInductive, OwnInductive, PlanInductive,
     FirstInductive
<1>2. Inv /\ StampsClose /\ [Next]_vars => Inv'
  <2> SUFFICES ASSUME Inv, StampsClose, [Next]_vars PROVE Inv'
    OBVIOUS
  <2>1. IInv' /\ AgeInv' /\ QueueInv'
    BY Inductive, AgeInductive, QueueInductive
  <2>2. AttendInv' /\ OwnInv' /\ PlanInv' /\ FirstInv'
    BY <2>1, AttendInductive, OwnInductive, PlanInductive, FirstInductive
  <2> QED BY <2>1, <2>2
<1>3. Inv /\ SleepersMayWait => NoDeadlock
  BY NotStuck DEF FirstInv
<1> HIDE DEF Inv
<1> QED BY <1>1, <1>2, <1>3, SleepersCorrect, PTL DEF Spec

==============================================================================
