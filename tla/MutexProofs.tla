---------------------------- MODULE MutexProofs ----------------------------
(***************************************************************************)
(* Proofs about Mutex, for any number of tasks and calls.                  *)
(*                                                                         *)
(* The inductive invariant IInv has, besides the properties themselves,    *)
(* who holds wait_lock in the slow path, that the count is negative while  *)
(* a waiter that got the mutex takes itself off the list, that lock->owner *)
(* is cleared before the count is touched, and the lower bound of count.   *)
(***************************************************************************)
EXTENDS Mutex, ListSeqProofs

USE NullAssumption, WaitStatesAssumption, SentSignalsAssumption, MaxCallsAssumption

(* The steps of the slow path made under wait_lock. *)
Locked == {"try_xchg", "loop", "loop_xchg", "check", "remove_waiter", "slow_set_owner"}

WaitLockHeld == \A t \in Tasks : pc[t] \in Locked => wait_lock = t

(* The tasks whose waiter is on the list. *)
Queued == {"loop", "loop_xchg", "check", "sleep", "woken", "remove_waiter"}

OwnerSet == owner # NULL => pc[owner] \in {"spin_osq_unlock", "critical"}

CountBound ==
  /\ count >= 0 - calls
  /\ \A t \in Tasks : pc[t] # "idle" => calls > 0

MarkedContended == \A t \in Tasks : pc[t] = "remove_waiter" => count < 0

(* NoLostWakeup, also for a waiter that is about to sleep. *)
NobodyForgotten ==
  (\E t \in Tasks : pc[t] \in {"check", "sleep"}) /\ count >= 0 => Responsible # {}

IInv ==
  /\ TypeOK
  /\ MutualExclusion
  /\ CountMeaning
  /\ WaitListExact
  /\ WaitLockHeld
  /\ OwnerSet
  /\ CountBound
  /\ MarkedContended
  /\ NobodyForgotten

(* The count and the holders stay in agreement: whoever turns 1 into       *)
(* something else becomes the only holder, and only the holder makes it 1. *)
LEMMA ExclusionStep ==
  ASSUME TypeOK, MutualExclusion, CountMeaning, Next
  PROVE  MutualExclusion' /\ CountMeaning'
<1> SUFFICES ASSUME NEW t \in Tasks,
                    \/ \E st \in WaitStates : mutex_lock(t, st)
                    \/ mutex_trylock(t) \/ Step(t) \/ SendSignal(t) \/ TakeSignal(t)
             PROVE  MutualExclusion' /\ CountMeaning'
  BY DEF Next
<1> USE DEF TypeOK, MutualExclusion, CountMeaning, Holders, HoldingPC, Goto, PC, Signals, States
<1>1. CASE \E st \in WaitStates : mutex_lock(t, st)
  BY <1>1 DEF mutex_lock
<1>2. CASE mutex_trylock(t)
  BY <1>2 DEF mutex_trylock
<1>3. CASE FastSetOwner(t)
  BY <1>3 DEF FastSetOwner
<1>4. CASE CanSpin(t)
  BY <1>4 DEF CanSpin
<1>5. CASE OsqLock(t)
  BY <1>5 DEF OsqLock
<1>6. CASE Spin(t)
  BY <1>6 DEF Spin
<1>7. CASE SpinOnOwner(t)
  BY <1>7 DEF SpinOnOwner
<1>8. CASE TryAcquire(t)
  BY <1>8 DEF TryAcquire
<1>9. CASE SpinSetOwner(t)
  BY <1>9 DEF SpinSetOwner
<1>10. CASE OsqUnlock(t)
  BY <1>10 DEF OsqUnlock
<1>11. CASE SlowLock(t)
  BY <1>11 DEF SlowLock
<1>12. CASE TryXchg(t)
  BY <1>12 DEF TryXchg
<1>13. CASE Loop(t)
  BY <1>13 DEF Loop
<1>14. CASE LoopXchg(t)
  BY <1>14 DEF LoopXchg
<1>15. CASE Check(t)
  BY <1>15 DEF Check
<1>16. CASE RemoveWaiter(t)
  BY <1>16 DEF RemoveWaiter
<1>17. CASE SlowSetOwner(t)
  BY <1>17 DEF SlowSetOwner
<1>18. CASE mutex_unlock(t)
  BY <1>18 DEF mutex_unlock
<1>19. CASE FastUnlock(t)
  BY <1>19 DEF FastUnlock
<1>20. CASE SlowUnlock(t)
  BY <1>20 DEF SlowUnlock
<1>21. CASE Wake(t)
  BY <1>21, ZenonT(60) DEF Wake
<1>22. CASE SendSignal(t)
  BY <1>22 DEF SendSignal
<1>23. CASE TakeSignal(t)
  BY <1>23 DEF TakeSignal
<1> QED
  BY <1>1, <1>2, <1>3, <1>4, <1>5, <1>6, <1>7, <1>8, <1>9, <1>10, <1>11, <1>12, <1>13, <1>14, <1>15, <1>16, <1>17, <1>18, <1>19, <1>20, <1>21, <1>22, <1>23 DEF Step

(* The count never falls below minus the number of calls. *)
LEMMA CountBoundStep ==
  ASSUME TypeOK, CountBound, Next
  PROVE  CountBound'
<1> SUFFICES ASSUME NEW t \in Tasks,
                    \/ \E st \in WaitStates : mutex_lock(t, st)
                    \/ mutex_trylock(t) \/ Step(t) \/ SendSignal(t) \/ TakeSignal(t)
             PROVE  CountBound'
  BY DEF Next
<1> USE DEF TypeOK, CountBound, Goto
<1>1. CASE \E st \in WaitStates : mutex_lock(t, st)
  BY <1>1 DEF mutex_lock
<1>2. CASE mutex_trylock(t)
  BY <1>2 DEF mutex_trylock
<1>3. CASE FastSetOwner(t)
  BY <1>3 DEF FastSetOwner
<1>4. CASE CanSpin(t)
  BY <1>4 DEF CanSpin
<1>5. CASE OsqLock(t)
  BY <1>5 DEF OsqLock
<1>6. CASE Spin(t)
  BY <1>6 DEF Spin
<1>7. CASE SpinOnOwner(t)
  BY <1>7 DEF SpinOnOwner
<1>8. CASE TryAcquire(t)
  BY <1>8 DEF TryAcquire
<1>9. CASE SpinSetOwner(t)
  BY <1>9 DEF SpinSetOwner
<1>10. CASE OsqUnlock(t)
  BY <1>10 DEF OsqUnlock
<1>11. CASE SlowLock(t)
  BY <1>11 DEF SlowLock
<1>12. CASE TryXchg(t)
  BY <1>12 DEF TryXchg
<1>13. CASE Loop(t)
  BY <1>13 DEF Loop
<1>14. CASE LoopXchg(t)
  BY <1>14 DEF LoopXchg
<1>15. CASE Check(t)
  BY <1>15 DEF Check
<1>16. CASE RemoveWaiter(t)
  BY <1>16 DEF RemoveWaiter
<1>17. CASE SlowSetOwner(t)
  BY <1>17 DEF SlowSetOwner
<1>18. CASE mutex_unlock(t)
  BY <1>18 DEF mutex_unlock
<1>19. CASE FastUnlock(t)
  BY <1>19 DEF FastUnlock
<1>20. CASE SlowUnlock(t)
  BY <1>20 DEF SlowUnlock
<1>21. CASE Wake(t)
  BY <1>21 DEF Wake
<1>22. CASE SendSignal(t)
  BY <1>22 DEF SendSignal
<1>23. CASE TakeSignal(t)
  BY <1>23 DEF TakeSignal
<1> QED
  BY <1>1, <1>2, <1>3, <1>4, <1>5, <1>6, <1>7, <1>8, <1>9, <1>10, <1>11, <1>12, <1>13, <1>14, <1>15, <1>16, <1>17, <1>18, <1>19, <1>20, <1>21, <1>22, <1>23 DEF Step

(* Only the holder of wait_lock is at a step that needs it. *)
LEMMA WaitLockStep ==
  ASSUME TypeOK, WaitLockHeld, Next
  PROVE  WaitLockHeld'
<1> SUFFICES ASSUME NEW t \in Tasks,
                    \/ \E st \in WaitStates : mutex_lock(t, st)
                    \/ mutex_trylock(t) \/ Step(t) \/ SendSignal(t) \/ TakeSignal(t)
             PROVE  WaitLockHeld'
  BY DEF Next
<1> USE DEF TypeOK, WaitLockHeld, Locked, Goto
<1>1. CASE \E st \in WaitStates : mutex_lock(t, st)
  BY <1>1 DEF mutex_lock
<1>2. CASE mutex_trylock(t)
  BY <1>2 DEF mutex_trylock
<1>3. CASE FastSetOwner(t)
  BY <1>3 DEF FastSetOwner
<1>4. CASE CanSpin(t)
  BY <1>4 DEF CanSpin
<1>5. CASE OsqLock(t)
  BY <1>5 DEF OsqLock
<1>6. CASE Spin(t)
  BY <1>6 DEF Spin
<1>7. CASE SpinOnOwner(t)
  BY <1>7 DEF SpinOnOwner
<1>8. CASE TryAcquire(t)
  BY <1>8 DEF TryAcquire
<1>9. CASE SpinSetOwner(t)
  BY <1>9 DEF SpinSetOwner
<1>10. CASE OsqUnlock(t)
  BY <1>10 DEF OsqUnlock
<1>11. CASE SlowLock(t)
  BY <1>11 DEF SlowLock
<1>12. CASE TryXchg(t)
  BY <1>12 DEF TryXchg
<1>13. CASE Loop(t)
  BY <1>13 DEF Loop
<1>14. CASE LoopXchg(t)
  BY <1>14 DEF LoopXchg
<1>15. CASE Check(t)
  BY <1>15 DEF Check
<1>16. CASE RemoveWaiter(t)
  BY <1>16 DEF RemoveWaiter
<1>17. CASE SlowSetOwner(t)
  BY <1>17 DEF SlowSetOwner
<1>18. CASE mutex_unlock(t)
  BY <1>18 DEF mutex_unlock
<1>19. CASE FastUnlock(t)
  BY <1>19 DEF FastUnlock
<1>20. CASE SlowUnlock(t)
  BY <1>20 DEF SlowUnlock
<1>21. CASE Wake(t)
  BY <1>21 DEF Wake
<1>22. CASE SendSignal(t)
  BY <1>22 DEF SendSignal
<1>23. CASE TakeSignal(t)
  BY <1>23 DEF TakeSignal
<1> QED
  BY <1>1, <1>2, <1>3, <1>4, <1>5, <1>6, <1>7, <1>8, <1>9, <1>10, <1>11, <1>12, <1>13, <1>14, <1>15, <1>16, <1>17, <1>18, <1>19, <1>20, <1>21, <1>22, <1>23 DEF Step

(* lock->owner names the holder, from the time it says it has the mutex to *)
(* the time it starts to give it back.                                     *)
LEMMA OwnerStep ==
  ASSUME TypeOK, MutualExclusion, OwnerSet, Next
  PROVE  OwnerSet'
<1> SUFFICES ASSUME NEW t \in Tasks,
                    \/ \E st \in WaitStates : mutex_lock(t, st)
                    \/ mutex_trylock(t) \/ Step(t) \/ SendSignal(t) \/ TakeSignal(t)
             PROVE  OwnerSet'
  BY DEF Next
<1> USE DEF TypeOK, MutualExclusion, OwnerSet, Holders, HoldingPC, Goto, PC, Signals, States
<1>1. CASE \E st \in WaitStates : mutex_lock(t, st)
  BY <1>1 DEF mutex_lock
<1>2. CASE mutex_trylock(t)
  BY <1>2 DEF mutex_trylock
<1>3. CASE FastSetOwner(t)
  BY <1>3 DEF FastSetOwner
<1>4. CASE CanSpin(t)
  BY <1>4 DEF CanSpin
<1>5. CASE OsqLock(t)
  BY <1>5 DEF OsqLock
<1>6. CASE Spin(t)
  BY <1>6 DEF Spin
<1>7. CASE SpinOnOwner(t)
  BY <1>7 DEF SpinOnOwner
<1>8. CASE TryAcquire(t)
  BY <1>8 DEF TryAcquire
<1>9. CASE SpinSetOwner(t)
  BY <1>9 DEF SpinSetOwner
<1>10. CASE OsqUnlock(t)
  BY <1>10 DEF OsqUnlock
<1>11. CASE SlowLock(t)
  BY <1>11 DEF SlowLock
<1>12. CASE TryXchg(t)
  BY <1>12 DEF TryXchg
<1>13. CASE Loop(t)
  BY <1>13 DEF Loop
<1>14. CASE LoopXchg(t)
  BY <1>14 DEF LoopXchg
<1>15. CASE Check(t)
  BY <1>15 DEF Check
<1>16. CASE RemoveWaiter(t)
  BY <1>16 DEF RemoveWaiter
<1>17. CASE SlowSetOwner(t)
  BY <1>17 DEF SlowSetOwner
<1>18. CASE mutex_unlock(t)
  BY <1>18 DEF mutex_unlock
<1>19. CASE FastUnlock(t)
  BY <1>19 DEF FastUnlock
<1>20. CASE SlowUnlock(t)
  BY <1>20 DEF SlowUnlock
<1>21. CASE Wake(t)
  BY <1>21 DEF Wake
<1>22. CASE SendSignal(t)
  BY <1>22 DEF SendSignal
<1>23. CASE TakeSignal(t)
  BY <1>23 DEF TakeSignal
<1> QED
  BY <1>1, <1>2, <1>3, <1>4, <1>5, <1>6, <1>7, <1>8, <1>9, <1>10, <1>11, <1>12, <1>13, <1>14, <1>15, <1>16, <1>17, <1>18, <1>19, <1>20, <1>21, <1>22, <1>23 DEF Step

(* The wait list and the tasks in the wait loop change together. *)
LEMMA WaitListStep ==
  ASSUME TypeOK, WaitListExact, Next
  PROVE  WaitListExact' /\ wait_list' \in Seq(Tasks)
<1> SUFFICES ASSUME NEW t \in Tasks,
                    \/ \E st \in WaitStates : mutex_lock(t, st)
                    \/ mutex_trylock(t) \/ Step(t) \/ SendSignal(t) \/ TakeSignal(t)
             PROVE  WaitListExact' /\ wait_list' \in Seq(Tasks)
  BY DEF Next
<1> USE DEF TypeOK, WaitListExact, Goto, PC
<1>1. CASE \E st \in WaitStates : mutex_lock(t, st)
  BY <1>1 DEF mutex_lock
<1>2. CASE mutex_trylock(t)
  BY <1>2 DEF mutex_trylock
<1>3. CASE FastSetOwner(t)
  BY <1>3 DEF FastSetOwner
<1>4. CASE CanSpin(t)
  BY <1>4 DEF CanSpin
<1>5. CASE OsqLock(t)
  BY <1>5 DEF OsqLock
<1>6. CASE Spin(t)
  BY <1>6 DEF Spin
<1>7. CASE SpinOnOwner(t)
  BY <1>7 DEF SpinOnOwner
<1>8. CASE TryAcquire(t)
  BY <1>8 DEF TryAcquire
<1>9. CASE SpinSetOwner(t)
  BY <1>9 DEF SpinSetOwner
<1>10. CASE OsqUnlock(t)
  BY <1>10 DEF OsqUnlock
<1>11. CASE SlowLock(t)
  <2>1. wait_list \in Seq(Tasks) /\ t \notin ToSet(wait_list) /\ pc[t] = "slow"
    BY <1>11 DEF SlowLock
  <2>2. CASE wait_list' = wait_list /\ pc' = [pc EXCEPT ![t] = "try_xchg"]
    BY <2>1, <2>2
  <2>3. CASE wait_list' = list_add_tail(wait_list, t) /\ pc' = [pc EXCEPT ![t] = "loop"]
    <3>1. NoDuplicates(wait_list)
      OBVIOUS
    <3> DEFINE r == list_add_tail(wait_list, t)
    <3>2. r \in Seq(Tasks) /\ NoDuplicates(r) /\ ToSet(r) = ToSet(wait_list) \cup {t}
      BY <2>1, <3>1, ListAddTail
    <3> QED BY <2>1, <2>3, <3>2
  <2> QED BY <2>2, <2>3, <1>11 DEF SlowLock
<1>12. CASE TryXchg(t)
  <2>1. wait_list \in Seq(Tasks) /\ t \notin ToSet(wait_list) /\ pc[t] = "try_xchg"
    BY <1>12 DEF TryXchg
  <2>2. CASE wait_list' = wait_list /\ pc' = [pc EXCEPT ![t] = "slow_set_owner"]
    BY <2>1, <2>2
  <2>3. CASE wait_list' = list_add_tail(wait_list, t) /\ pc' = [pc EXCEPT ![t] = "loop"]
    <3>1. NoDuplicates(wait_list)
      OBVIOUS
    <3> DEFINE r == list_add_tail(wait_list, t)
    <3>2. r \in Seq(Tasks) /\ NoDuplicates(r) /\ ToSet(r) = ToSet(wait_list) \cup {t}
      BY <2>1, <3>1, ListAddTail
    <3> QED BY <2>1, <2>3, <3>2
  <2> QED BY <2>2, <2>3, <1>12 DEF TryXchg
<1>13. CASE Loop(t)
  BY <1>13 DEF Loop
<1>14. CASE LoopXchg(t)
  BY <1>14 DEF LoopXchg
<1>15. CASE Check(t)
  <2>1. wait_list \in Seq(Tasks) /\ t \in ToSet(wait_list) /\ pc[t] = "check"
    BY <1>15 DEF Check
  <2>2. CASE wait_list' = wait_list /\ pc' = [pc EXCEPT ![t] = "sleep"]
    BY <2>1, <2>2
  <2>3. CASE wait_list' = list_del(wait_list, t) /\ pc' = [pc EXCEPT ![t] = "idle"]
    BY <2>1, <2>3, ListDel
  <2> QED BY <2>2, <2>3, <1>15 DEF Check
<1>16. CASE RemoveWaiter(t)
  <2>1. wait_list \in Seq(Tasks) /\ t \in ToSet(wait_list) /\ pc[t] = "remove_waiter"
    BY <1>16 DEF RemoveWaiter
  <2>2. wait_list' = list_del(wait_list, t) /\ pc' = [pc EXCEPT ![t] = "slow_set_owner"]
    BY <1>16 DEF RemoveWaiter
  <2> QED BY <2>1, <2>2, ListDel
<1>17. CASE SlowSetOwner(t)
  BY <1>17 DEF SlowSetOwner
<1>18. CASE mutex_unlock(t)
  BY <1>18 DEF mutex_unlock
<1>19. CASE FastUnlock(t)
  BY <1>19 DEF FastUnlock
<1>20. CASE SlowUnlock(t)
  BY <1>20 DEF SlowUnlock
<1>21. CASE Wake(t)
  BY <1>21 DEF Wake
<1>22. CASE SendSignal(t)
  BY <1>22 DEF SendSignal
<1>23. CASE TakeSignal(t)
  BY <1>23 DEF TakeSignal
<1> QED
  BY <1>1, <1>2, <1>3, <1>4, <1>5, <1>6, <1>7, <1>8, <1>9, <1>10, <1>11, <1>12, <1>13, <1>14, <1>15, <1>16, <1>17, <1>18, <1>19, <1>20, <1>21, <1>22, <1>23 DEF Step

(* A waiter that got the mutex finds the count still negative when it      *)
(* leaves the list: nobody else may raise it meanwhile.                    *)
LEMMA MarkedStep ==
  ASSUME TypeOK, MutualExclusion, CountMeaning, WaitLockHeld, MarkedContended, Next
  PROVE  MarkedContended'
<1> SUFFICES ASSUME NEW t \in Tasks,
                    \/ \E st \in WaitStates : mutex_lock(t, st)
                    \/ mutex_trylock(t) \/ Step(t) \/ SendSignal(t) \/ TakeSignal(t)
             PROVE  MarkedContended'
  BY DEF Next
<1> USE DEF TypeOK, MutualExclusion, CountMeaning, WaitLockHeld, MarkedContended, Locked, Holders, HoldingPC, Goto, PC, Signals, States
<1>1. CASE \E st \in WaitStates : mutex_lock(t, st)
  BY <1>1 DEF mutex_lock
<1>2. CASE mutex_trylock(t)
  BY <1>2 DEF mutex_trylock
<1>3. CASE FastSetOwner(t)
  BY <1>3 DEF FastSetOwner
<1>4. CASE CanSpin(t)
  BY <1>4 DEF CanSpin
<1>5. CASE OsqLock(t)
  BY <1>5 DEF OsqLock
<1>6. CASE Spin(t)
  BY <1>6 DEF Spin
<1>7. CASE SpinOnOwner(t)
  BY <1>7 DEF SpinOnOwner
<1>8. CASE TryAcquire(t)
  BY <1>8 DEF TryAcquire
<1>9. CASE SpinSetOwner(t)
  BY <1>9 DEF SpinSetOwner
<1>10. CASE OsqUnlock(t)
  BY <1>10 DEF OsqUnlock
<1>11. CASE SlowLock(t)
  BY <1>11 DEF SlowLock
<1>12. CASE TryXchg(t)
  BY <1>12 DEF TryXchg
<1>13. CASE Loop(t)
  BY <1>13 DEF Loop
<1>14. CASE LoopXchg(t)
  BY <1>14 DEF LoopXchg
<1>15. CASE Check(t)
  BY <1>15 DEF Check
<1>16. CASE RemoveWaiter(t)
  BY <1>16 DEF RemoveWaiter
<1>17. CASE SlowSetOwner(t)
  BY <1>17 DEF SlowSetOwner
<1>18. CASE mutex_unlock(t)
  BY <1>18 DEF mutex_unlock
<1>19. CASE FastUnlock(t)
  BY <1>19 DEF FastUnlock
<1>20. CASE SlowUnlock(t)
  BY <1>20 DEF SlowUnlock
<1>21. CASE Wake(t)
  BY <1>21 DEF Wake
<1>22. CASE SendSignal(t)
  BY <1>22 DEF SendSignal
<1>23. CASE TakeSignal(t)
  BY <1>23 DEF TakeSignal
<1> QED
  BY <1>1, <1>2, <1>3, <1>4, <1>5, <1>6, <1>7, <1>8, <1>9, <1>10, <1>11, <1>12, <1>13, <1>14, <1>15, <1>16, <1>17, <1>18, <1>19, <1>20, <1>21, <1>22, <1>23 DEF Step

(* Whoever leaves the wait loop, or is done with its unlock, leaves a      *)
(* count that is negative or somebody who will look at the list again.     *)
LEMMA WakeupStep ==
  ASSUME TypeOK, MutualExclusion, CountMeaning, WaitLockHeld, WaitListExact,
         MarkedContended, NobodyForgotten, WaitListExact', Next
  PROVE  NobodyForgotten'
<1> SUFFICES ASSUME NEW t \in Tasks,
                    \/ \E st \in WaitStates : mutex_lock(t, st)
                    \/ mutex_trylock(t) \/ Step(t) \/ SendSignal(t) \/ TakeSignal(t)
             PROVE  NobodyForgotten'
  BY DEF Next
<1> USE DEF TypeOK, MutualExclusion, CountMeaning, WaitLockHeld, MarkedContended,
           NobodyForgotten, Responsible, Locked, Holders, HoldingPC, Goto, PC, Signals, States
<1>1. CASE \E st \in WaitStates : mutex_lock(t, st)
  BY <1>1 DEF mutex_lock
<1>2. CASE mutex_trylock(t)
  BY <1>2 DEF mutex_trylock
<1>3. CASE FastSetOwner(t)
  BY <1>3 DEF FastSetOwner
<1>4. CASE CanSpin(t)
  BY <1>4 DEF CanSpin
<1>5. CASE OsqLock(t)
  BY <1>5 DEF OsqLock
<1>6. CASE Spin(t)
  BY <1>6 DEF Spin
<1>7. CASE SpinOnOwner(t)
  BY <1>7 DEF SpinOnOwner
<1>8. CASE TryAcquire(t)
  BY <1>8 DEF TryAcquire
<1>9. CASE SpinSetOwner(t)
  BY <1>9 DEF SpinSetOwner
<1>10. CASE OsqUnlock(t)
  BY <1>10 DEF OsqUnlock
<1>11. CASE SlowLock(t)
  BY <1>11 DEF SlowLock
<1>12. CASE TryXchg(t)
  BY <1>12 DEF TryXchg
<1>13. CASE Loop(t)
  BY <1>13 DEF Loop
<1>14. CASE LoopXchg(t)
  BY <1>14 DEF LoopXchg
<1>15. CASE Check(t)
  BY <1>15 DEF Check
<1>16. CASE RemoveWaiter(t)
  <2>1. CASE wait_list' = <<>>
    <3>1. ToSet(wait_list') = {}
      BY <2>1 DEF ToSet
    <3>2. \A u \in Tasks : pc'[u] \notin {"check", "sleep"}
      BY <3>1 DEF WaitListExact
    <3> QED BY <3>2
  <2>2. CASE wait_list' # <<>>
    BY <1>16, <2>2 DEF RemoveWaiter
  <2> QED BY <2>1, <2>2
<1>17. CASE SlowSetOwner(t)
  BY <1>17 DEF SlowSetOwner
<1>18. CASE mutex_unlock(t)
  BY <1>18 DEF mutex_unlock
<1>19. CASE FastUnlock(t)
  BY <1>19 DEF FastUnlock
<1>20. CASE SlowUnlock(t)
  BY <1>20 DEF SlowUnlock
<1>21. CASE Wake(t)
  <2> SUFFICES ASSUME NEW u \in Tasks, pc'[u] \in {"check", "sleep"}
               PROVE  Responsible' # {}
    OBVIOUS
  <2>1. pc[t] = "wake" /\ \A v \in Tasks : pc[v] \notin Locked
    BY <1>21 DEF Wake
  <2>2. pc[u] = "sleep"
    BY <1>21, <2>1 DEF Wake
  <2> DEFINE h == Head(wait_list)
  <2>3. wait_list # <<>> /\ h \in ToSet(wait_list)
    BY <2>2 DEF WaitListExact, ToSet
  <2>4. h \in Tasks /\ pc[h] \in {"sleep", "woken"}
    BY <2>1, <2>3 DEF WaitListExact
  <2>5. pc'[h] = "woken"
    BY <1>21, <2>1, <2>3, <2>4 DEF Wake
  <2> QED BY <2>4, <2>5
<1>22. CASE SendSignal(t)
  BY <1>22 DEF SendSignal
<1>23. CASE TakeSignal(t)
  BY <1>23 DEF TakeSignal
<1> QED
  BY <1>1, <1>2, <1>3, <1>4, <1>5, <1>6, <1>7, <1>8, <1>9, <1>10, <1>11, <1>12, <1>13, <1>14, <1>15, <1>16, <1>17, <1>18, <1>19, <1>20, <1>21, <1>22, <1>23 DEF Step

(* Every variable keeps its type. *)
LEMMA TypeStep ==
  ASSUME TypeOK, CountMeaning', CountBound', wait_list' \in Seq(Tasks), Next
  PROVE  TypeOK'
<1> SUFFICES ASSUME NEW t \in Tasks,
                    \/ \E st \in WaitStates : mutex_lock(t, st)
                    \/ mutex_trylock(t) \/ Step(t) \/ SendSignal(t) \/ TakeSignal(t)
             PROVE  TypeOK'
  BY DEF Next
<1> USE DEF TypeOK, CountMeaning, CountBound, Goto, PC, Signals, States
<1>1. CASE \E st \in WaitStates : mutex_lock(t, st)
  BY <1>1 DEF mutex_lock
<1>2. CASE mutex_trylock(t)
  BY <1>2 DEF mutex_trylock
<1>3. CASE FastSetOwner(t)
  BY <1>3 DEF FastSetOwner
<1>4. CASE CanSpin(t)
  BY <1>4 DEF CanSpin
<1>5. CASE OsqLock(t)
  BY <1>5 DEF OsqLock
<1>6. CASE Spin(t)
  BY <1>6 DEF Spin
<1>7. CASE SpinOnOwner(t)
  BY <1>7 DEF SpinOnOwner
<1>8. CASE TryAcquire(t)
  BY <1>8 DEF TryAcquire
<1>9. CASE SpinSetOwner(t)
  BY <1>9 DEF SpinSetOwner
<1>10. CASE OsqUnlock(t)
  BY <1>10 DEF OsqUnlock
<1>11. CASE SlowLock(t)
  BY <1>11 DEF SlowLock
<1>12. CASE TryXchg(t)
  BY <1>12 DEF TryXchg
<1>13. CASE Loop(t)
  BY <1>13 DEF Loop
<1>14. CASE LoopXchg(t)
  BY <1>14 DEF LoopXchg
<1>15. CASE Check(t)
  BY <1>15 DEF Check
<1>16. CASE RemoveWaiter(t)
  BY <1>16 DEF RemoveWaiter
<1>17. CASE SlowSetOwner(t)
  BY <1>17 DEF SlowSetOwner
<1>18. CASE mutex_unlock(t)
  BY <1>18 DEF mutex_unlock
<1>19. CASE FastUnlock(t)
  BY <1>19 DEF FastUnlock
<1>20. CASE SlowUnlock(t)
  BY <1>20 DEF SlowUnlock
<1>21. CASE Wake(t)
  BY <1>21 DEF Wake
<1>22. CASE SendSignal(t)
  BY <1>22 DEF SendSignal
<1>23. CASE TakeSignal(t)
  BY <1>23 DEF TakeSignal
<1> QED
  BY <1>1, <1>2, <1>3, <1>4, <1>5, <1>6, <1>7, <1>8, <1>9, <1>10, <1>11, <1>12, <1>13, <1>14, <1>15, <1>16, <1>17, <1>18, <1>19, <1>20, <1>21, <1>22, <1>23 DEF Step

(* The invariant holds at first and every step keeps it. *)
LEMMA Inductive ==
  /\ Init => IInv
  /\ IInv /\ [Next]_vars => IInv'
<1>1. Init => IInv
  BY DEF Init, IInv, TypeOK, MutualExclusion, CountMeaning, WaitListExact,
         WaitLockHeld, OwnerSet, CountBound, MarkedContended, NobodyForgotten,
         Holders, HoldingPC, Locked, NoDuplicates, ToSet, PC, States, Signals
<1>2. IInv /\ Next => IInv'
  <2> SUFFICES ASSUME IInv, Next PROVE IInv'
    OBVIOUS
  <2> USE DEF IInv
  <2>1. MutualExclusion' /\ CountMeaning'
    BY ExclusionStep
  <2>2. CountBound'
    BY CountBoundStep
  <2>3. WaitLockHeld'
    BY WaitLockStep
  <2>4. OwnerSet'
    BY OwnerStep
  <2>5. WaitListExact' /\ wait_list' \in Seq(Tasks)
    BY WaitListStep
  <2>6. MarkedContended'
    BY MarkedStep
  <2>7. NobodyForgotten'
    BY <2>5, WakeupStep
  <2>8. TypeOK'
    BY <2>1, <2>2, <2>5, TypeStep
  <2> QED BY <2>1, <2>2, <2>3, <2>4, <2>5, <2>6, <2>7, <2>8
<1>3. IInv /\ UNCHANGED vars => IInv'
  BY DEF IInv, vars, TypeOK, MutualExclusion, CountMeaning, WaitListExact,
         WaitLockHeld, OwnerSet, CountBound, MarkedContended, NobodyForgotten,
         Holders, Responsible
<1> QED BY <1>1, <1>2, <1>3

(* The inductive invariant holds in every behaviour of the mutex. *)
LEMMA Invariance == Spec => []IInv
<1> QED BY Inductive, PTL DEF Spec

----------------------------------------------------------------------------

(* Every variable of a mutex keeps its type; lock->count stays between     *)
(* minus the number of lock calls and 1.                                   *)
THEOREM TypeCorrect == Spec => []TypeOK
<1>1. IInv => TypeOK
  BY DEF IInv
<1> QED BY <1>1, Invariance, PTL

(* No two tasks have the mutex at a time, whatever the paths they took.    *)
THEOREM Exclusion == Spec => []MutualExclusion
<1>1. IInv => MutualExclusion
  BY DEF IInv
<1> QED BY <1>1, Invariance, PTL

(* lock->count is 1 exactly when the mutex is free.                        *)
THEOREM CountCorrect == Spec => []CountMeaning
<1>1. IInv => CountMeaning
  BY DEF IInv
<1> QED BY <1>1, Invariance, PTL

(* lock->wait_list links exactly the tasks in the wait loop, each once.    *)
THEOREM WaitListCorrect == Spec => []WaitListExact
<1>1. IInv => WaitListExact
  BY DEF IInv
<1> QED BY <1>1, Invariance, PTL

(* The owner the spinners look at is a task that has the mutex.            *)
THEOREM OwnerCorrect == Spec => []OwnerHolds
<1>1. IInv => OwnerHolds
  BY DEF IInv, TypeOK, OwnerSet, OwnerHolds, Holders, HoldingPC
<1> QED BY <1>1, Invariance, PTL

(* No sleeper is forgotten: an unlock that will not look at the wait list  *)
(* comes only while somebody else is about to.                             *)
THEOREM WakeupCorrect == Spec => []NoLostWakeup
<1>1. IInv => NoLostWakeup
  BY DEF IInv, NobodyForgotten, NoLostWakeup
<1> QED BY <1>1, Invariance, PTL

============================================================================
