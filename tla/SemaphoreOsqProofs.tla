------------------------- MODULE SemaphoreOsqProofs -------------------------
(***************************************************************************)
(* Proofs about Osq, for any number of CPUs, and about Semaphore, for any  *)
(* number of tasks, permits and timeouts.                                  *)
(*                                                                         *)
(* In Osq, Links says how the nodes hang together while CPUs enqueue,      *)
(* leave and pass the lock on: a node has at most one successor, known by  *)
(* at most one of a next pointer, a CPU that took it from there, and a CPU *)
(* that leaves and is about to write it.  Order adds that the queue is in  *)
(* the order of arrival, which is what the lock implements.                *)
(***************************************************************************)
EXTENDS Osq, Semaphore, ListSeqProofs, FiniteSetTheorems

USE NullAssumption

----------------------------------------------------------------------------

(* The waiters that have linked themselves to their predecessor, those     *)
(* that have unlinked themselves and are still to be skipped, and who has  *)
(* the lock or passes it on                                                *)
SpinPC == {"spin", "unqueue", "check_locked", "reload_prev"}
LeavePC == {"unqueue_tail", "unqueue_next", "link_next_prev"}
HeadPC == {"locked", "unlock_next", "unlock_tail", "unlock_wait", "pass"}

(* The types of TypeOK but for arrival *)
QueueTypes ==
  /\ tail \in NodeOrNull
  /\ next \in [Cpus -> NodeOrNull]
  /\ prev \in [Cpus -> NodeOrNull]
  /\ locked \in [Cpus -> BOOLEAN]
  /\ pc \in [Cpus -> PC]
  /\ myprev \in [Cpus -> NodeOrNull]
  /\ mynext \in [Cpus -> NodeOrNull]

(* What a call has in hand before it is at the head *)
EntryAt(c) ==
  /\ pc[c] \in {"xchg_tail", "set_prev", "set_prev_next"} => ~locked[c]
  /\ pc[c] = "set_prev_next" => prev[c] = myprev[c]
  /\ pc[c] \in SpinPC => prev[c] \in Cpus /\ myprev[c] \in Cpus

(* c is in the queue; a CPU at link_prev_next is already skipped. *)
InQueue(c) == pc[c] \notin {"idle", "xchg_tail", "link_prev_next"}

(* c is at the head of the queue: it has the lock, or is told so. *)
AtHead(c) == pc[c] \in HeadPC \/ (pc[c] \in SpinPC /\ locked[c])

(* c is behind its predecessor. *)
Behind(c) ==
  \/ pc[c] \in {"set_prev", "set_prev_next"} \cup LeavePC
  \/ pc[c] \in SpinPC /\ ~locked[c]

Pred(c) == IF pc[c] \in SpinPC THEN prev[c] ELSE myprev[c]

(* n waits behind p. *)
Waits(n, p) == pc[n] \in SpinPC /\ ~locked[n] /\ prev[n] = p

(* p has no next pointer, and has not taken one. *)
NoNext(p) == next[p] = NULL /\ pc[p] \notin {"link_next_prev", "pass"}

(* A predecessor is in the queue, has one successor, and is not its tail. *)
PredAt(c) == Behind(c) => Pred(c) \in Cpus /\ InQueue(Pred(c)) /\ Pred(c) # tail

OneSucc(c, d) == Behind(c) /\ Behind(d) /\ Pred(c) = Pred(d) => c = d

(* A next pointer leads to the waiter behind the node, *)
NextAt(p) == next[p] # NULL => next[p] \in Cpus /\ Waits(next[p], p)

(* so does one that was taken from there, *)
TakenAt(p) ==
  pc[p] \in {"link_next_prev", "pass"} =>
    mynext[p] \in Cpus /\ Waits(mynext[p], p) /\ next[p] = NULL

(* and then the waiter is behind the predecessor, which does not know it,  *)
SkippedAt(p) ==
  pc[p] = "link_prev_next" =>
    myprev[p] \in Cpus /\ mynext[p] \in Cpus /\ Waits(mynext[p], myprev[p]) /\ NoNext(myprev[p])

(* but from one CPU. *)
OneLink(p, r) ==
  pc[p] = "link_prev_next" /\ pc[r] = "link_prev_next" /\ mynext[p] = mynext[r] => p = r

(* Nor does the predecessor of one that leaves know it. *)
LeavesAt(c) == pc[c] \in LeavePC => NoNext(myprev[c])

(* Only one is at the head, none if the queue is empty. *)
OneHead(c, d) == AtHead(c) /\ AtHead(d) => c = d
HeadAt(c) == AtHead(c) => tail # NULL
TailAt == tail # NULL => InQueue(tail)

(* The queue as the nodes link it *)
Links ==
  /\ QueueTypes /\ TailAt
  /\ \A c \in Cpus : EntryAt(c) /\ PredAt(c) /\ LeavesAt(c) /\ HeadAt(c)
  /\ \A c \in Cpus : NextAt(c) /\ TakenAt(c) /\ SkippedAt(c)
  /\ \A c, d \in Cpus : OneSucc(c, d) /\ OneLink(c, d) /\ OneHead(c, d)

(* The order of the queue, as numbers for its CPUs: each comes directly    *)
(* after its predecessor, the head first and the tail last, and those that *)
(* still want the lock are in arrival in this order.                       *)
WantPC == {"set_prev", "set_prev_next"} \cup SpinPC

PlacesDiffer(pos) == \A c, d \in Cpus : InQueue(c) /\ InQueue(d) /\ pos[c] = pos[d] => c = d

PlaceAfterPred(pos) ==
  \A c \in Cpus : Behind(c) =>
    /\ pos[Pred(c)] < pos[c]
    /\ \A d \in Cpus : InQueue(d) /\ pos[d] < pos[c] => pos[d] <= pos[Pred(c)]

TailLast(pos) == \A c \in Cpus : InQueue(c) => tail # NULL /\ pos[c] <= pos[tail]

HeadFirst(pos) == \A c, d \in Cpus : AtHead(c) /\ InQueue(d) => pos[c] <= pos[d]

ArrivalSorted(pos) == \A i, j \in 1..Len(arrival) : i < j => pos[arrival[i]] < pos[arrival[j]]

Order(pos) ==
  PlacesDiffer(pos) /\ PlaceAfterPred(pos) /\ TailLast(pos) /\ HeadFirst(pos) /\ ArrivalSorted(pos)

Arrivals ==
  /\ arrival \in Seq(Cpus) /\ NoDuplicates(arrival)
  /\ ToSet(arrival) = {c \in Cpus : pc[c] \in WantPC}

IInv == Links /\ Arrivals /\ \E pos \in [Cpus -> Nat] : Order(pos)

----------------------------------------------------------------------------

(* The moves that the steps of a CPU c come down to.  What is in hand at c *)
(* changes to p and n.                                                     *)
Moves(c, to, p, n) ==
  /\ pc' = [pc EXCEPT ![c] = to]
  /\ myprev' = [myprev EXCEPT ![c] = p]
  /\ mynext' = [mynext EXCEPT ![c] = n]

Starts(c) ==
  /\ pc[c] = "idle" /\ Moves(c, "xchg_tail", myprev[c], mynext[c])
  /\ locked' = [locked EXCEPT ![c] = FALSE]
  /\ next' = [next EXCEPT ![c] = NULL]
  /\ UNCHANGED <<tail, prev, arrival>>

TakesFree(c) ==
  /\ pc[c] = "xchg_tail" /\ tail = NULL /\ Moves(c, "locked", NULL, mynext[c])
  /\ tail' = c
  /\ UNCHANGED <<next, prev, locked, arrival>>

Joins(c) ==
  /\ pc[c] = "xchg_tail" /\ tail # NULL /\ Moves(c, "set_prev", tail, mynext[c])
  /\ tail' = c
  /\ arrival' = Append(arrival, c)
  /\ UNCHANGED <<next, prev, locked>>

SetsPrev(c) ==
  /\ pc[c] = "set_prev" /\ Moves(c, "set_prev_next", myprev[c], mynext[c])
  /\ prev' = [prev EXCEPT ![c] = myprev[c]]
  /\ UNCHANGED <<tail, next, locked, arrival>>

SetsNext(c) ==
  /\ pc[c] = "set_prev_next" /\ Moves(c, "spin", myprev[c], mynext[c])
  /\ next' = [next EXCEPT ![myprev[c]] = c]
  /\ UNCHANGED <<tail, prev, locked, arrival>>

Acquires(c) ==
  /\ pc[c] \in SpinPC /\ locked[c] /\ Moves(c, "locked", NULL, NULL)
  /\ arrival' = list_del(arrival, c)
  /\ UNCHANGED <<tail, next, prev, locked>>

(* Around the loops of osq_lock() *)
Spins(c) ==
  /\ pc[c] \in SpinPC /\ \E to \in SpinPC, p \in {myprev[c], prev[c]} : Moves(c, to, p, mynext[c])
  /\ UNCHANGED <<tail, next, prev, locked, arrival>>

Unlinks(c) ==
  /\ pc[c] \in SpinPC /\ next[myprev[c]] = c /\ Moves(c, "unqueue_tail", myprev[c], mynext[c])
  /\ next' = [next EXCEPT ![myprev[c]] = NULL]
  /\ arrival' = list_del(arrival, c)
  /\ UNCHANGED <<tail, prev, locked>>

(* Around the loop of osq_wait_next() *)
Turns(c) ==
  /\ \/ pc[c] \in HeadPC \ {"pass"} /\ \E to \in HeadPC \ {"pass", "locked"}, n \in {mynext[c], NULL} :
                                         Moves(c, to, myprev[c], n)
     \/ /\ pc[c] \in {"unqueue_tail", "unqueue_next"}
        /\ \E to \in {"unqueue_tail", "unqueue_next"}, n \in {mynext[c], NULL} : Moves(c, to, myprev[c], n)
  /\ UNCHANGED <<tail, next, prev, locked, arrival>>

LeavesTail(c) ==
  /\ pc[c] = "unqueue_tail" /\ tail = c /\ Moves(c, "idle", NULL, NULL)
  /\ tail' = myprev[c]
  /\ UNCHANGED <<next, prev, locked, arrival>>

UnlocksTail(c) ==
  /\ pc[c] \in HeadPC \ {"pass"} /\ tail = c /\ Moves(c, "idle", NULL, NULL)
  /\ tail' = NULL
  /\ UNCHANGED <<next, prev, locked, arrival>>

TakesNext(c) ==
  /\ next[c] # NULL
  /\ \/ pc[c] = "unqueue_next" /\ Moves(c, "link_next_prev", myprev[c], next[c])
     \/ pc[c] \in HeadPC \ {"pass", "locked"} /\ Moves(c, "pass", myprev[c], next[c])
  /\ next' = [next EXCEPT ![c] = NULL]
  /\ UNCHANGED <<tail, prev, locked, arrival>>

LinksPrev(c) ==
  /\ pc[c] = "link_next_prev" /\ Moves(c, "link_prev_next", myprev[c], mynext[c])
  /\ prev' = [prev EXCEPT ![mynext[c]] = myprev[c]]
  /\ UNCHANGED <<tail, next, locked, arrival>>

LinksNext(c) ==
  /\ pc[c] = "link_prev_next" /\ Moves(c, "idle", NULL, NULL)
  /\ next' = [next EXCEPT ![myprev[c]] = mynext[c]]
  /\ UNCHANGED <<tail, prev, locked, arrival>>

Passes(c) ==
  /\ pc[c] = "pass" /\ Moves(c, "idle", NULL, NULL)
  /\ locked' = [locked EXCEPT ![mynext[c]] = TRUE]
  /\ UNCHANGED <<tail, next, prev, arrival>>

Move(c) ==
  \/ Starts(c) \/ TakesFree(c) \/ Joins(c) \/ SetsPrev(c) \/ SetsNext(c) \/ Acquires(c) \/ Spins(c)
  \/ Unlinks(c) \/ Turns(c) \/ LeavesTail(c) \/ UnlocksTail(c) \/ TakesNext(c) \/ LinksPrev(c)
  \/ LinksNext(c) \/ Passes(c)

(* Every step is such a move. *)
LEMMA NextMoves ==
  ASSUME QueueTypes, Next
  PROVE  \E c \in Cpus : Move(c)
<1>1. PICK c \in Cpus : InitNode(c) \/ LockStep(c) \/ UnlockStep(c)
  BY DEF Next
<1>t. /\ myprev = [myprev EXCEPT ![c] = myprev[c]] /\ mynext = [mynext EXCEPT ![c] = mynext[c]]
      /\ next[c] = NULL => [next EXCEPT ![c] = NULL] = next
  BY DEF QueueTypes
<1> SUFFICES Move(c)
  OBVIOUS
<1>2. CASE InitNode(c)
  <2>1. Starts(c)
    BY <1>2, <1>t DEF InitNode, Goto, Starts, Moves
  <2> QED BY <2>1 DEF Move
<1>3. CASE XchgTail(c)
  <2>1. TakesFree(c) \/ Joins(c)
    BY <1>3, <1>t DEF XchgTail, Goto, TakesFree, Joins, Moves
  <2> QED BY <2>1 DEF Move
<1>4. CASE SetPrev(c)
  <2>1. SetsPrev(c)
    BY <1>4, <1>t DEF SetPrev, Goto, SetsPrev, Moves
  <2> QED BY <2>1 DEF Move
<1>5. CASE SetPrevNext(c)
  <2>1. SetsNext(c)
    BY <1>5, <1>t DEF SetPrevNext, Goto, SetsNext, Moves
  <2> QED BY <2>1 DEF Move
<1>6. CASE Spin(c)
  <2>1. Acquires(c) \/ Spins(c)
    BY <1>6, <1>t DEF Spin, Acquire, Return, Goto, Acquires, Spins, SpinPC, Moves
  <2> QED BY <2>1 DEF Move
<1>7. CASE Unqueue(c)
  <2>1. Unlinks(c) \/ Spins(c)
    BY <1>7, <1>t DEF Unqueue, Goto, Unlinks, Spins, SpinPC, Moves
  <2> QED BY <2>1 DEF Move
<1>8. CASE CheckLocked(c)
  <2>1. Acquires(c) \/ Spins(c)
    BY <1>8, <1>t DEF CheckLocked, Acquire, Return, Goto, Acquires, Spins, SpinPC, Moves
  <2> QED BY <2>1 DEF Move
<1>9. CASE ReloadPrev(c)
  <2>1. Spins(c)
    BY <1>9, <1>t DEF ReloadPrev, Goto, Spins, SpinPC, Moves
  <2> QED BY <2>1 DEF Move
<1>10. CASE UnqueueTail(c)
  <2>1. LeavesTail(c) \/ Turns(c)
    BY <1>10, <1>t DEF UnqueueTail, MoveTailBack, Return, Goto, LeavesTail, Turns, Moves
  <2> QED BY <2>1 DEF Move
<1>11. CASE UnqueueNext(c)
  <2>1. TakesNext(c) \/ Turns(c)
    BY <1>11, <1>t DEF UnqueueNext, TakeNext, Goto, TakesNext, Turns, Moves
  <2> QED BY <2>1 DEF Move
<1>12. CASE LinkNextPrev(c)
  <2>1. LinksPrev(c)
    BY <1>12, <1>t DEF LinkNextPrev, Goto, LinksPrev, Moves
  <2> QED BY <2>1 DEF Move
<1>13. CASE LinkPrevNext(c)
  <2>1. LinksNext(c)
    BY <1>13, <1>t DEF LinkPrevNext, Return, Goto, LinksNext, Moves
  <2> QED BY <2>1 DEF Move
<1>14. CASE Unlock(c)
  <2>1. UnlocksTail(c) \/ Turns(c)
    BY <1>14, <1>t DEF Unlock, MoveTailBack, Return, Goto, UnlocksTail, Turns, HeadPC, Moves
  <2> QED BY <2>1 DEF Move
<1>15. CASE UnlockNext(c)
  <2>1. TakesNext(c) \/ Turns(c)
    BY <1>15, <1>t DEF UnlockNext, TakeNext, Goto, TakesNext, Turns, HeadPC, Moves
  <2> QED BY <2>1 DEF Move
<1>16. CASE UnlockTail(c)
  <2>1. UnlocksTail(c) \/ Turns(c)
    BY <1>16, <1>t DEF UnlockTail, MoveTailBack, Return, Goto, UnlocksTail, Turns, HeadPC, Moves
  <2> QED BY <2>1 DEF Move
<1>17. CASE UnlockWait(c)
  <2>1. TakesNext(c) \/ Turns(c)
    BY <1>17, <1>t DEF UnlockWait, TakeNext, Goto, TakesNext, Turns, HeadPC, Moves
  <2> QED BY <2>1 DEF Move
<1>18. CASE Pass(c)
  <2>1. Passes(c)
    BY <1>18, <1>t DEF Pass, Return, Goto, Passes, Moves
  <2> QED BY <2>1 DEF Move
<1> QED
  BY <1>1, <1>2, <1>3, <1>4, <1>5, <1>6, <1>7, <1>8, <1>9, <1>10,
     <1>11, <1>12, <1>13, <1>14, <1>15, <1>16, <1>17, <1>18
     DEF LockStep, UnlockStep

(* A new call that only initialises its node keeps the links. *)
LEMMA StartsLinks ==
  ASSUME Links, NEW c \in Cpus, Starts(c)
  PROVE  Links'
<1>t. /\ tail \in NodeOrNull /\ next \in [Cpus -> NodeOrNull] /\ prev \in [Cpus -> NodeOrNull]
      /\ locked \in [Cpus -> BOOLEAN] /\ pc \in [Cpus -> PC] /\ myprev \in [Cpus -> NodeOrNull]
      /\ mynext \in [Cpus -> NodeOrNull] /\ NULL \notin Cpus /\ NodeOrNull = Cpus \cup {NULL}
  BY DEF Links, QueueTypes, NodeOrNull
<1>i. /\ TailAt
      /\ \A d \in Cpus : EntryAt(d) /\ PredAt(d) /\ LeavesAt(d) /\ HeadAt(d)
      /\ \A d \in Cpus : NextAt(d) /\ TakenAt(d) /\ SkippedAt(d)
      /\ \A d, e \in Cpus : OneSucc(d, e) /\ OneLink(d, e) /\ OneHead(d, e)
  BY DEF Links
<1>1. QueueTypes'
  BY <1>t, <1>i DEF Starts, Moves, SpinPC, LeavePC, HeadPC,
     QueueTypes, NodeOrNull, PC, PredAt, Behind, Pred, TakenAt, SkippedAt, NextAt, EntryAt
<1>2. TailAt'
  BY <1>t, <1>i DEF Starts, Moves, SpinPC, LeavePC, HeadPC,
     TailAt, InQueue, PredAt, Behind, Pred
<1>3. \A d \in Cpus : EntryAt(d)'
  BY <1>t, <1>i DEF Starts, Moves, SpinPC, LeavePC, HeadPC,
     EntryAt, PredAt, Behind, Pred, TakenAt, Waits
<1>4. \A d \in Cpus : PredAt(d)'
  BY <1>t, <1>i DEF Starts, Moves, SpinPC, LeavePC, HeadPC,
     PredAt, Behind, Pred, InQueue, OneSucc, EntryAt, TakenAt, SkippedAt, NextAt, Waits, TailAt
<1>5. \A d \in Cpus : LeavesAt(d)'
  BY <1>t, <1>i DEF Starts, Moves, SpinPC, LeavePC, HeadPC,
     LeavesAt, NoNext, PredAt, Behind, Pred, InQueue, OneSucc, NextAt, TakenAt, Waits
<1>6. \A d \in Cpus : HeadAt(d)'
  BY <1>t, <1>i DEF Starts, Moves, SpinPC, LeavePC, HeadPC,
     HeadAt, AtHead, OneHead, TakenAt, PredAt, Behind, Pred, Waits
<1>7. \A d \in Cpus : NextAt(d)'
  BY <1>t, <1>i DEF Starts, Moves, SpinPC, LeavePC, HeadPC,
     NextAt, Waits, NoNext, PredAt, Behind, Pred, OneSucc, EntryAt, TakenAt, SkippedAt, InQueue
<1>8. \A d \in Cpus : TakenAt(d)'
  BY <1>t, <1>i DEF Starts, Moves, SpinPC, LeavePC, HeadPC,
     TakenAt, Waits, NextAt, PredAt, Behind, Pred, OneSucc, NoNext, EntryAt, SkippedAt
<1>9. \A d \in Cpus : SkippedAt(d)'
  BY <1>t, <1>i DEF Starts, Moves, SpinPC, LeavePC, HeadPC,
     SkippedAt, Waits, NoNext, NextAt, TakenAt, PredAt, Behind, Pred, OneSucc, InQueue, LeavesAt, OneLink
<1>10. \A d, e \in Cpus : OneSucc(d, e)'
  BY <1>t, <1>i DEF Starts, Moves, SpinPC, LeavePC, HeadPC,
     OneSucc, Behind, Pred, PredAt, TakenAt, Waits, EntryAt
<1>11. \A d, e \in Cpus : OneLink(d, e)'
  BY <1>t, <1>i DEF Starts, Moves, SpinPC, LeavePC, HeadPC,
     OneLink, SkippedAt, TakenAt, Waits, NoNext, Behind, Pred, OneSucc, PredAt
<1>12. \A d, e \in Cpus : OneHead(d, e)'
  BY <1>t, <1>i DEF Starts, Moves, SpinPC, LeavePC, HeadPC,
     OneHead, AtHead, HeadAt, TakenAt, Waits, EntryAt
<1> QED
  BY <1>1, <1>2, <1>3, <1>4, <1>5, <1>6, <1>7, <1>8, <1>9, <1>10, <1>11, <1>12 DEF Links

(* A call that finds the queue empty keeps the links. *)
LEMMA TakesFreeLinks ==
  ASSUME Links, NEW c \in Cpus, TakesFree(c)
  PROVE  Links'
<1>t. /\ tail \in NodeOrNull /\ next \in [Cpus -> NodeOrNull] /\ prev \in [Cpus -> NodeOrNull]
      /\ locked \in [Cpus -> BOOLEAN] /\ pc \in [Cpus -> PC] /\ myprev \in [Cpus -> NodeOrNull]
      /\ mynext \in [Cpus -> NodeOrNull] /\ NULL \notin Cpus /\ NodeOrNull = Cpus \cup {NULL}
  BY DEF Links, QueueTypes, NodeOrNull
<1>i. /\ TailAt
      /\ \A d \in Cpus : EntryAt(d) /\ PredAt(d) /\ LeavesAt(d) /\ HeadAt(d)
      /\ \A d \in Cpus : NextAt(d) /\ TakenAt(d) /\ SkippedAt(d)
      /\ \A d, e \in Cpus : OneSucc(d, e) /\ OneLink(d, e) /\ OneHead(d, e)
  BY DEF Links
<1>1. QueueTypes'
  BY <1>t, <1>i DEF TakesFree, Moves, SpinPC, LeavePC, HeadPC,
     QueueTypes, NodeOrNull, PC, PredAt, Behind, Pred, TakenAt, SkippedAt, NextAt, EntryAt
<1>2. TailAt'
  BY <1>t, <1>i DEF TakesFree, Moves, SpinPC, LeavePC, HeadPC,
     TailAt, InQueue, PredAt, Behind, Pred
<1>3. \A d \in Cpus : EntryAt(d)'
  BY <1>t, <1>i DEF TakesFree, Moves, SpinPC, LeavePC, HeadPC,
     EntryAt, PredAt, Behind, Pred, TakenAt, Waits
<1>4. \A d \in Cpus : PredAt(d)'
  BY <1>t, <1>i DEF TakesFree, Moves, SpinPC, LeavePC, HeadPC,
     PredAt, Behind, Pred, InQueue, OneSucc, EntryAt, TakenAt, SkippedAt, NextAt, Waits, TailAt
<1>5. \A d \in Cpus : LeavesAt(d)'
  BY <1>t, <1>i DEF TakesFree, Moves, SpinPC, LeavePC, HeadPC,
     LeavesAt, NoNext, PredAt, Behind, Pred, InQueue, OneSucc, NextAt, TakenAt, Waits
<1>6. \A d \in Cpus : HeadAt(d)'
  BY <1>t, <1>i DEF TakesFree, Moves, SpinPC, LeavePC, HeadPC,
     HeadAt, AtHead, OneHead, TakenAt, PredAt, Behind, Pred, Waits
<1>7. \A d \in Cpus : NextAt(d)'
  BY <1>t, <1>i DEF TakesFree, Moves, SpinPC, LeavePC, HeadPC,
     NextAt, Waits, NoNext, PredAt, Behind, Pred, OneSucc, EntryAt, TakenAt, SkippedAt, InQueue
<1>8. \A d \in Cpus : TakenAt(d)'
  BY <1>t, <1>i DEF TakesFree, Moves, SpinPC, LeavePC, HeadPC,
     TakenAt, Waits, NextAt, PredAt, Behind, Pred, OneSucc, NoNext, EntryAt, SkippedAt
<1>9. \A d \in Cpus : SkippedAt(d)'
  BY <1>t, <1>i DEF TakesFree, Moves, SpinPC, LeavePC, HeadPC,
     SkippedAt, Waits, NoNext, NextAt, TakenAt, PredAt, Behind, Pred, OneSucc, InQueue, LeavesAt, OneLink
<1>10. \A d, e \in Cpus : OneSucc(d, e)'
  BY <1>t, <1>i DEF TakesFree, Moves, SpinPC, LeavePC, HeadPC,
     OneSucc, Behind, Pred, PredAt, TakenAt, Waits, EntryAt
<1>11. \A d, e \in Cpus : OneLink(d, e)'
  BY <1>t, <1>i DEF TakesFree, Moves, SpinPC, LeavePC, HeadPC,
     OneLink, SkippedAt, TakenAt, Waits, NoNext, Behind, Pred, OneSucc, PredAt
<1>12. \A d, e \in Cpus : OneHead(d, e)'
  BY <1>t, <1>i DEF TakesFree, Moves, SpinPC, LeavePC, HeadPC,
     OneHead, AtHead, HeadAt, TakenAt, Waits, EntryAt
<1> QED
  BY <1>1, <1>2, <1>3, <1>4, <1>5, <1>6, <1>7, <1>8, <1>9, <1>10, <1>11, <1>12 DEF Links

(* A call that joins the queue keeps the links. *)
LEMMA JoinsLinks ==
  ASSUME Links, NEW c \in Cpus, Joins(c)
  PROVE  Links'
<1>t. /\ tail \in NodeOrNull /\ next \in [Cpus -> NodeOrNull] /\ prev \in [Cpus -> NodeOrNull]
      /\ locked \in [Cpus -> BOOLEAN] /\ pc \in [Cpus -> PC] /\ myprev \in [Cpus -> NodeOrNull]
      /\ mynext \in [Cpus -> NodeOrNull] /\ NULL \notin Cpus /\ NodeOrNull = Cpus \cup {NULL}
  BY DEF Links, QueueTypes, NodeOrNull
<1>i. /\ TailAt
      /\ \A d \in Cpus : EntryAt(d) /\ PredAt(d) /\ LeavesAt(d) /\ HeadAt(d)
      /\ \A d \in Cpus : NextAt(d) /\ TakenAt(d) /\ SkippedAt(d)
      /\ \A d, e \in Cpus : OneSucc(d, e) /\ OneLink(d, e) /\ OneHead(d, e)
  BY DEF Links
<1>1. QueueTypes'
  BY <1>t, <1>i DEF Joins, Moves, SpinPC, LeavePC, HeadPC,
     QueueTypes, NodeOrNull, PC, PredAt, Behind, Pred, TakenAt, SkippedAt, NextAt, EntryAt
<1>2. TailAt'
  BY <1>t, <1>i DEF Joins, Moves, SpinPC, LeavePC, HeadPC,
     TailAt, InQueue, PredAt, Behind, Pred
<1>3. \A d \in Cpus : EntryAt(d)'
  BY <1>t, <1>i DEF Joins, Moves, SpinPC, LeavePC, HeadPC,
     EntryAt, PredAt, Behind, Pred, TakenAt, Waits
<1>4. \A d \in Cpus : PredAt(d)'
  BY <1>t, <1>i DEF Joins, Moves, SpinPC, LeavePC, HeadPC,
     PredAt, Behind, Pred, InQueue, OneSucc, EntryAt, TakenAt, SkippedAt, NextAt, Waits, TailAt
<1>5. \A d \in Cpus : LeavesAt(d)'
  BY <1>t, <1>i DEF Joins, Moves, SpinPC, LeavePC, HeadPC,
     LeavesAt, NoNext, PredAt, Behind, Pred, InQueue, OneSucc, NextAt, TakenAt, Waits
<1>6. \A d \in Cpus : HeadAt(d)'
  BY <1>t, <1>i DEF Joins, Moves, SpinPC, LeavePC, HeadPC,
     HeadAt, AtHead, OneHead, TakenAt, PredAt, Behind, Pred, Waits
<1>7. \A d \in Cpus : NextAt(d)'
  BY <1>t, <1>i DEF Joins, Moves, SpinPC, LeavePC, HeadPC,
     NextAt, Waits, NoNext, PredAt, Behind, Pred, OneSucc, EntryAt, TakenAt, SkippedAt, InQueue
<1>8. \A d \in Cpus : TakenAt(d)'
  BY <1>t, <1>i DEF Joins, Moves, SpinPC, LeavePC, HeadPC,
     TakenAt, Waits, NextAt, PredAt, Behind, Pred, OneSucc, NoNext, EntryAt, SkippedAt
<1>9. \A d \in Cpus : SkippedAt(d)'
  BY <1>t, <1>i DEF Joins, Moves, SpinPC, LeavePC, HeadPC,
     SkippedAt, Waits, NoNext, NextAt, TakenAt, PredAt, Behind, Pred, OneSucc, InQueue, LeavesAt, OneLink
<1>10. \A d, e \in Cpus : OneSucc(d, e)'
  BY <1>t, <1>i DEF Joins, Moves, SpinPC, LeavePC, HeadPC,
     OneSucc, Behind, Pred, PredAt, TakenAt, Waits, EntryAt
<1>11. \A d, e \in Cpus : OneLink(d, e)'
  BY <1>t, <1>i DEF Joins, Moves, SpinPC, LeavePC, HeadPC,
     OneLink, SkippedAt, TakenAt, Waits, NoNext, Behind, Pred, OneSucc, PredAt
<1>12. \A d, e \in Cpus : OneHead(d, e)'
  BY <1>t, <1>i DEF Joins, Moves, SpinPC, LeavePC, HeadPC,
     OneHead, AtHead, HeadAt, TakenAt, Waits, EntryAt
<1> QED
  BY <1>1, <1>2, <1>3, <1>4, <1>5, <1>6, <1>7, <1>8, <1>9, <1>10, <1>11, <1>12 DEF Links

(* Setting node->prev keeps the links. *)
LEMMA SetsPrevLinks ==
  ASSUME Links, NEW c \in Cpus, SetsPrev(c)
  PROVE  Links'
<1>t. /\ tail \in NodeOrNull /\ next \in [Cpus -> NodeOrNull] /\ prev \in [Cpus -> NodeOrNull]
      /\ locked \in [Cpus -> BOOLEAN] /\ pc \in [Cpus -> PC] /\ myprev \in [Cpus -> NodeOrNull]
      /\ mynext \in [Cpus -> NodeOrNull] /\ NULL \notin Cpus /\ NodeOrNull = Cpus \cup {NULL}
  BY DEF Links, QueueTypes, NodeOrNull
<1>i. /\ TailAt
      /\ \A d \in Cpus : EntryAt(d) /\ PredAt(d) /\ LeavesAt(d) /\ HeadAt(d)
      /\ \A d \in Cpus : NextAt(d) /\ TakenAt(d) /\ SkippedAt(d)
      /\ \A d, e \in Cpus : OneSucc(d, e) /\ OneLink(d, e) /\ OneHead(d, e)
  BY DEF Links
<1>1. QueueTypes'
  BY <1>t, <1>i DEF SetsPrev, Moves, SpinPC, LeavePC, HeadPC,
     QueueTypes, NodeOrNull, PC, PredAt, Behind, Pred, TakenAt, SkippedAt, NextAt, EntryAt
<1>2. TailAt'
  BY <1>t, <1>i DEF SetsPrev, Moves, SpinPC, LeavePC, HeadPC,
     TailAt, InQueue, PredAt, Behind, Pred
<1>3. \A d \in Cpus : EntryAt(d)'
  BY <1>t, <1>i DEF SetsPrev, Moves, SpinPC, LeavePC, HeadPC,
     EntryAt, PredAt, Behind, Pred, TakenAt, Waits
<1>4. \A d \in Cpus : PredAt(d)'
  BY <1>t, <1>i DEF SetsPrev, Moves, SpinPC, LeavePC, HeadPC,
     PredAt, Behind, Pred, InQueue, OneSucc, EntryAt, TakenAt, SkippedAt, NextAt, Waits, TailAt
<1>5. \A d \in Cpus : LeavesAt(d)'
  BY <1>t, <1>i DEF SetsPrev, Moves, SpinPC, LeavePC, HeadPC,
     LeavesAt, NoNext, PredAt, Behind, Pred, InQueue, OneSucc, NextAt, TakenAt, Waits
<1>6. \A d \in Cpus : HeadAt(d)'
  BY <1>t, <1>i DEF SetsPrev, Moves, SpinPC, LeavePC, HeadPC,
     HeadAt, AtHead, OneHead, TakenAt, PredAt, Behind, Pred, Waits
<1>7. \A d \in Cpus : NextAt(d)'
  BY <1>t, <1>i DEF SetsPrev, Moves, SpinPC, LeavePC, HeadPC,
     NextAt, Waits, NoNext, PredAt, Behind, Pred, OneSucc, EntryAt, TakenAt, SkippedAt, InQueue
<1>8. \A d \in Cpus : TakenAt(d)'
  BY <1>t, <1>i DEF SetsPrev, Moves, SpinPC, LeavePC, HeadPC,
     TakenAt, Waits, NextAt, PredAt, Behind, Pred, OneSucc, NoNext, EntryAt, SkippedAt
<1>9. \A d \in Cpus : SkippedAt(d)'
  BY <1>t, <1>i DEF SetsPrev, Moves, SpinPC, LeavePC, HeadPC,
     SkippedAt, Waits, NoNext, NextAt, TakenAt, PredAt, Behind, Pred, OneSucc, InQueue, LeavesAt, OneLink
<1>10. \A d, e \in Cpus : OneSucc(d, e)'
  BY <1>t, <1>i DEF SetsPrev, Moves, SpinPC, LeavePC, HeadPC,
     OneSucc, Behind, Pred, PredAt, TakenAt, Waits, EntryAt
<1>11. \A d, e \in Cpus : OneLink(d, e)'
  BY <1>t, <1>i DEF SetsPrev, Moves, SpinPC, LeavePC, HeadPC,
     OneLink, SkippedAt, TakenAt, Waits, NoNext, Behind, Pred, OneSucc, PredAt
<1>12. \A d, e \in Cpus : OneHead(d, e)'
  BY <1>t, <1>i DEF SetsPrev, Moves, SpinPC, LeavePC, HeadPC,
     OneHead, AtHead, HeadAt, TakenAt, Waits, EntryAt
<1> QED
  BY <1>1, <1>2, <1>3, <1>4, <1>5, <1>6, <1>7, <1>8, <1>9, <1>10, <1>11, <1>12 DEF Links

(* Setting prev->next keeps the links. *)
LEMMA SetsNextLinks ==
  ASSUME Links, NEW c \in Cpus, SetsNext(c)
  PROVE  Links'
<1>t. /\ tail \in NodeOrNull /\ next \in [Cpus -> NodeOrNull] /\ prev \in [Cpus -> NodeOrNull]
      /\ locked \in [Cpus -> BOOLEAN] /\ pc \in [Cpus -> PC] /\ myprev \in [Cpus -> NodeOrNull]
      /\ mynext \in [Cpus -> NodeOrNull] /\ NULL \notin Cpus /\ NodeOrNull = Cpus \cup {NULL}
  BY DEF Links, QueueTypes, NodeOrNull
<1>i. /\ TailAt
      /\ \A d \in Cpus : EntryAt(d) /\ PredAt(d) /\ LeavesAt(d) /\ HeadAt(d)
      /\ \A d \in Cpus : NextAt(d) /\ TakenAt(d) /\ SkippedAt(d)
      /\ \A d, e \in Cpus : OneSucc(d, e) /\ OneLink(d, e) /\ OneHead(d, e)
  BY DEF Links
<1>1. QueueTypes'
  BY <1>t, <1>i DEF SetsNext, Moves, SpinPC, LeavePC, HeadPC,
     QueueTypes, NodeOrNull, PC, PredAt, Behind, Pred, TakenAt, SkippedAt, NextAt, EntryAt
<1>2. TailAt'
  BY <1>t, <1>i DEF SetsNext, Moves, SpinPC, LeavePC, HeadPC,
     TailAt, InQueue, PredAt, Behind, Pred
<1>3. \A d \in Cpus : EntryAt(d)'
  BY <1>t, <1>i DEF SetsNext, Moves, SpinPC, LeavePC, HeadPC,
     EntryAt, PredAt, Behind, Pred, TakenAt, Waits
<1>4. \A d \in Cpus : PredAt(d)'
  BY <1>t, <1>i DEF SetsNext, Moves, SpinPC, LeavePC, HeadPC,
     PredAt, Behind, Pred, InQueue, OneSucc, EntryAt, TakenAt, SkippedAt, NextAt, Waits, TailAt
<1>5. \A d \in Cpus : LeavesAt(d)'
  BY <1>t, <1>i DEF SetsNext, Moves, SpinPC, LeavePC, HeadPC,
     LeavesAt, NoNext, PredAt, Behind, Pred, InQueue, OneSucc, NextAt, TakenAt, Waits
<1>6. \A d \in Cpus : HeadAt(d)'
  BY <1>t, <1>i DEF SetsNext, Moves, SpinPC, LeavePC, HeadPC,
     HeadAt, AtHead, OneHead, TakenAt, PredAt, Behind, Pred, Waits, EntryAt
<1>7. \A d \in Cpus : NextAt(d)'
  BY <1>t, <1>i DEF SetsNext, Moves, SpinPC, LeavePC, HeadPC,
     NextAt, Waits, NoNext, PredAt, Behind, Pred, OneSucc, EntryAt, TakenAt, SkippedAt, InQueue
<1>8. \A d \in Cpus : TakenAt(d)'
  BY <1>t, <1>i DEF SetsNext, Moves, SpinPC, LeavePC, HeadPC,
     TakenAt, Waits, NextAt, PredAt, Behind, Pred, OneSucc, NoNext, EntryAt, SkippedAt
<1>9. \A d \in Cpus : SkippedAt(d)'
  BY <1>t, <1>i DEF SetsNext, Moves, SpinPC, LeavePC, HeadPC,
     SkippedAt, Waits, NoNext, NextAt, TakenAt, PredAt, Behind, Pred, OneSucc, InQueue, LeavesAt, OneLink
<1>10. \A d, e \in Cpus : OneSucc(d, e)'
  BY <1>t, <1>i DEF SetsNext, Moves, SpinPC, LeavePC, HeadPC,
     OneSucc, Behind, Pred, PredAt, TakenAt, Waits, EntryAt
<1>11. \A d, e \in Cpus : OneLink(d, e)'
  BY <1>t, <1>i DEF SetsNext, Moves, SpinPC, LeavePC, HeadPC,
     OneLink, SkippedAt, TakenAt, Waits, NoNext, Behind, Pred, OneSucc, PredAt
<1>12. \A d, e \in Cpus : OneHead(d, e)'
  BY <1>t, <1>i DEF SetsNext, Moves, SpinPC, LeavePC, HeadPC,
     OneHead, AtHead, HeadAt, TakenAt, Waits, EntryAt
<1> QED
  BY <1>1, <1>2, <1>3, <1>4, <1>5, <1>6, <1>7, <1>8, <1>9, <1>10, <1>11, <1>12 DEF Links

(* A return from osq_lock() with the lock keeps the links. *)
LEMMA AcquiresLinks ==
  ASSUME Links, NEW c \in Cpus, Acquires(c)
  PROVE  Links'
<1>t. /\ tail \in NodeOrNull /\ next \in [Cpus -> NodeOrNull] /\ prev \in [Cpus -> NodeOrNull]
      /\ locked \in [Cpus -> BOOLEAN] /\ pc \in [Cpus -> PC] /\ myprev \in [Cpus -> NodeOrNull]
      /\ mynext \in [Cpus -> NodeOrNull] /\ NULL \notin Cpus /\ NodeOrNull = Cpus \cup {NULL}
  BY DEF Links, QueueTypes, NodeOrNull
<1>i. /\ TailAt
      /\ \A d \in Cpus : EntryAt(d) /\ PredAt(d) /\ LeavesAt(d) /\ HeadAt(d)
      /\ \A d \in Cpus : NextAt(d) /\ TakenAt(d) /\ SkippedAt(d)
      /\ \A d, e \in Cpus : OneSucc(d, e) /\ OneLink(d, e) /\ OneHead(d, e)
  BY DEF Links
<1>1. QueueTypes'
  BY <1>t, <1>i DEF Acquires, Moves, SpinPC, LeavePC, HeadPC,
     QueueTypes, NodeOrNull, PC, PredAt, Behind, Pred, TakenAt, SkippedAt, NextAt, EntryAt
<1>2. TailAt'
  BY <1>t, <1>i DEF Acquires, Moves, SpinPC, LeavePC, HeadPC,
     TailAt, InQueue, PredAt, Behind, Pred
<1>3. \A d \in Cpus : EntryAt(d)'
  BY <1>t, <1>i DEF Acquires, Moves, SpinPC, LeavePC, HeadPC,
     EntryAt, PredAt, Behind, Pred, TakenAt, Waits
<1>4. \A d \in Cpus : PredAt(d)'
  BY <1>t, <1>i DEF Acquires, Moves, SpinPC, LeavePC, HeadPC,
     PredAt, Behind, Pred, InQueue, OneSucc, EntryAt, TakenAt, SkippedAt, NextAt, Waits, TailAt
<1>5. \A d \in Cpus : LeavesAt(d)'
  BY <1>t, <1>i DEF Acquires, Moves, SpinPC, LeavePC, HeadPC,
     LeavesAt, NoNext, PredAt, Behind, Pred, InQueue, OneSucc, NextAt, TakenAt, Waits
<1>6. \A d \in Cpus : HeadAt(d)'
  BY <1>t, <1>i DEF Acquires, Moves, SpinPC, LeavePC, HeadPC,
     HeadAt, AtHead, OneHead, TakenAt, PredAt, Behind, Pred, Waits
<1>7. \A d \in Cpus : NextAt(d)'
  BY <1>t, <1>i DEF Acquires, Moves, SpinPC, LeavePC, HeadPC,
     NextAt, Waits, NoNext, PredAt, Behind, Pred, OneSucc, EntryAt, TakenAt, SkippedAt, InQueue
<1>8. \A d \in Cpus : TakenAt(d)'
  BY <1>t, <1>i DEF Acquires, Moves, SpinPC, LeavePC, HeadPC,
     TakenAt, Waits, NextAt, PredAt, Behind, Pred, OneSucc, NoNext, EntryAt, SkippedAt
<1>9. \A d \in Cpus : SkippedAt(d)'
  BY <1>t, <1>i DEF Acquires, Moves, SpinPC, LeavePC, HeadPC,
     SkippedAt, Waits, NoNext, NextAt, TakenAt, PredAt, Behind, Pred, OneSucc, InQueue, LeavesAt, OneLink
<1>10. \A d, e \in Cpus : OneSucc(d, e)'
  BY <1>t, <1>i DEF Acquires, Moves, SpinPC, LeavePC, HeadPC,
     OneSucc, Behind, Pred, PredAt, TakenAt, Waits, EntryAt
<1>11. \A d, e \in Cpus : OneLink(d, e)'
  BY <1>t, <1>i DEF Acquires, Moves, SpinPC, LeavePC, HeadPC,
     OneLink, SkippedAt, TakenAt, Waits, NoNext, Behind, Pred, OneSucc, PredAt
<1>12. \A d, e \in Cpus : OneHead(d, e)'
  BY <1>t, <1>i DEF Acquires, Moves, SpinPC, LeavePC, HeadPC,
     OneHead, AtHead, HeadAt, TakenAt, Waits, EntryAt
<1> QED
  BY <1>1, <1>2, <1>3, <1>4, <1>5, <1>6, <1>7, <1>8, <1>9, <1>10, <1>11, <1>12 DEF Links

(* A turn of the loops of osq_lock() keeps the links. *)
LEMMA SpinsLinks ==
  ASSUME Links, NEW c \in Cpus, Spins(c)
  PROVE  Links'
<1>t. /\ tail \in NodeOrNull /\ next \in [Cpus -> NodeOrNull] /\ prev \in [Cpus -> NodeOrNull]
      /\ locked \in [Cpus -> BOOLEAN] /\ pc \in [Cpus -> PC] /\ myprev \in [Cpus -> NodeOrNull]
      /\ mynext \in [Cpus -> NodeOrNull] /\ NULL \notin Cpus /\ NodeOrNull = Cpus \cup {NULL}
  BY DEF Links, QueueTypes, NodeOrNull
<1>i. /\ TailAt
      /\ \A d \in Cpus : EntryAt(d) /\ PredAt(d) /\ LeavesAt(d) /\ HeadAt(d)
      /\ \A d \in Cpus : NextAt(d) /\ TakenAt(d) /\ SkippedAt(d)
      /\ \A d, e \in Cpus : OneSucc(d, e) /\ OneLink(d, e) /\ OneHead(d, e)
  BY DEF Links
<1>1. QueueTypes'
  BY <1>t, <1>i DEF Spins, Moves, SpinPC, LeavePC, HeadPC,
     QueueTypes, NodeOrNull, PC, PredAt, Behind, Pred, TakenAt, SkippedAt, NextAt, EntryAt
<1>2. TailAt'
  BY <1>t, <1>i DEF Spins, Moves, SpinPC, LeavePC, HeadPC,
     TailAt, InQueue, PredAt, Behind, Pred
<1>3. \A d \in Cpus : EntryAt(d)'
  BY <1>t, <1>i DEF Spins, Moves, SpinPC, LeavePC, HeadPC,
     EntryAt, PredAt, Behind, Pred, TakenAt, Waits
<1>4. \A d \in Cpus : PredAt(d)'
  BY <1>t, <1>i DEF Spins, Moves, SpinPC, LeavePC, HeadPC,
     PredAt, Behind, Pred, InQueue, OneSucc, EntryAt, TakenAt, SkippedAt, NextAt, Waits, TailAt
<1>5. \A d \in Cpus : LeavesAt(d)'
  BY <1>t, <1>i DEF Spins, Moves, SpinPC, LeavePC, HeadPC,
     LeavesAt, NoNext, PredAt, Behind, Pred, InQueue, OneSucc, NextAt, TakenAt, Waits
<1>6. \A d \in Cpus : HeadAt(d)'
  BY <1>t, <1>i DEF Spins, Moves, SpinPC, LeavePC, HeadPC,
     HeadAt, AtHead, OneHead, TakenAt, PredAt, Behind, Pred, Waits
<1>7. \A d \in Cpus : NextAt(d)'
  BY <1>t, <1>i DEF Spins, Moves, SpinPC, LeavePC, HeadPC,
     NextAt, Waits, NoNext, PredAt, Behind, Pred, OneSucc, EntryAt, TakenAt, SkippedAt, InQueue
<1>8. \A d \in Cpus : TakenAt(d)'
  BY <1>t, <1>i DEF Spins, Moves, SpinPC, LeavePC, HeadPC,
     TakenAt, Waits, NextAt, PredAt, Behind, Pred, OneSucc, NoNext, EntryAt, SkippedAt
<1>9. \A d \in Cpus : SkippedAt(d)'
  BY <1>t, <1>i DEF Spins, Moves, SpinPC, LeavePC, HeadPC,
     SkippedAt, Waits, NoNext, NextAt, TakenAt, PredAt, Behind, Pred, OneSucc, InQueue, LeavesAt, OneLink
<1>10. \A d, e \in Cpus : OneSucc(d, e)'
  BY <1>t, <1>i DEF Spins, Moves, SpinPC, LeavePC, HeadPC,
     OneSucc, Behind, Pred, PredAt, TakenAt, Waits, EntryAt
<1>11. \A d, e \in Cpus : OneLink(d, e)'
  BY <1>t, <1>i DEF Spins, Moves, SpinPC, LeavePC, HeadPC,
     OneLink, SkippedAt, TakenAt, Waits, NoNext, Behind, Pred, OneSucc, PredAt
<1>12. \A d, e \in Cpus : OneHead(d, e)'
  BY <1>t, <1>i DEF Spins, Moves, SpinPC, LeavePC, HeadPC,
     OneHead, AtHead, HeadAt, TakenAt, Waits, EntryAt
<1> QED
  BY <1>1, <1>2, <1>3, <1>4, <1>5, <1>6, <1>7, <1>8, <1>9, <1>10, <1>11, <1>12 DEF Links

(* Step-A keeps the links. *)
LEMMA UnlinksLinks ==
  ASSUME Links, NEW c \in Cpus, Unlinks(c)
  PROVE  Links'
<1>t. /\ tail \in NodeOrNull /\ next \in [Cpus -> NodeOrNull] /\ prev \in [Cpus -> NodeOrNull]
      /\ locked \in [Cpus -> BOOLEAN] /\ pc \in [Cpus -> PC] /\ myprev \in [Cpus -> NodeOrNull]
      /\ mynext \in [Cpus -> NodeOrNull] /\ NULL \notin Cpus /\ NodeOrNull = Cpus \cup {NULL}
  BY DEF Links, QueueTypes, NodeOrNull
<1>i. /\ TailAt
      /\ \A d \in Cpus : EntryAt(d) /\ PredAt(d) /\ LeavesAt(d) /\ HeadAt(d)
      /\ \A d \in Cpus : NextAt(d) /\ TakenAt(d) /\ SkippedAt(d)
      /\ \A d, e \in Cpus : OneSucc(d, e) /\ OneLink(d, e) /\ OneHead(d, e)
  BY DEF Links
<1>u. /\ prev[c] = myprev[c] /\ myprev[c] \in Cpus /\ ~locked[c]
      /\ pc[myprev[c]] \notin {"link_next_prev", "pass"}
  BY <1>t, <1>i DEF Unlinks, EntryAt, NextAt, TakenAt, Waits
<1>1. QueueTypes'
  BY <1>t, <1>i DEF Unlinks, Moves, SpinPC, LeavePC, HeadPC,
     QueueTypes, NodeOrNull, PC, PredAt, Behind, Pred, TakenAt, SkippedAt, NextAt, EntryAt
<1>2. TailAt'
  BY <1>t, <1>i DEF Unlinks, Moves, SpinPC, LeavePC, HeadPC,
     TailAt, InQueue, PredAt, Behind, Pred
<1>3. \A d \in Cpus : EntryAt(d)'
  BY <1>t, <1>i DEF Unlinks, Moves, SpinPC, LeavePC, HeadPC,
     EntryAt, PredAt, Behind, Pred, TakenAt, Waits
<1>4. \A d \in Cpus : PredAt(d)'
  BY <1>t, <1>i DEF Unlinks, Moves, SpinPC, LeavePC, HeadPC,
     PredAt, Behind, Pred, InQueue, OneSucc, EntryAt, TakenAt, SkippedAt, NextAt, Waits, TailAt
<1>5. \A d \in Cpus : LeavesAt(d)'
  BY <1>t, <1>i, <1>u DEF Unlinks, Moves, SpinPC, LeavePC, HeadPC,
     LeavesAt, NoNext, PredAt, Behind, Pred, InQueue, OneSucc, NextAt, TakenAt, Waits
<1>6. \A d \in Cpus : HeadAt(d)'
  BY <1>t, <1>i DEF Unlinks, Moves, SpinPC, LeavePC, HeadPC,
     HeadAt, AtHead, OneHead, TakenAt, PredAt, Behind, Pred, Waits
<1>7. \A d \in Cpus : NextAt(d)'
  BY <1>t, <1>i DEF Unlinks, Moves, SpinPC, LeavePC, HeadPC,
     NextAt, Waits, NoNext, PredAt, Behind, Pred, OneSucc, EntryAt, TakenAt, SkippedAt, InQueue
<1>8. \A d \in Cpus : TakenAt(d)'
  BY <1>t, <1>i DEF Unlinks, Moves, SpinPC, LeavePC, HeadPC,
     TakenAt, Waits, NextAt, PredAt, Behind, Pred, OneSucc, NoNext, EntryAt, SkippedAt
<1>9. \A d \in Cpus : SkippedAt(d)'
  BY <1>t, <1>i, <1>u DEF Unlinks, Moves, SpinPC, LeavePC, HeadPC,
     SkippedAt, Waits, NoNext, NextAt, TakenAt, PredAt, Behind, Pred, OneSucc, InQueue, LeavesAt, OneLink
<1>10. \A d, e \in Cpus : OneSucc(d, e)'
  BY <1>t, <1>i, <1>u DEF Unlinks, Moves, SpinPC, LeavePC, HeadPC,
     OneSucc, Behind, Pred, PredAt, TakenAt, Waits, EntryAt
<1>11. \A d, e \in Cpus : OneLink(d, e)'
  BY <1>t, <1>i DEF Unlinks, Moves, SpinPC, LeavePC, HeadPC,
     OneLink, SkippedAt, TakenAt, Waits, NoNext, Behind, Pred, OneSucc, PredAt
<1>12. \A d, e \in Cpus : OneHead(d, e)'
  BY <1>t, <1>i DEF Unlinks, Moves, SpinPC, LeavePC, HeadPC,
     OneHead, AtHead, HeadAt, TakenAt, Waits, EntryAt
<1> QED
  BY <1>1, <1>2, <1>3, <1>4, <1>5, <1>6, <1>7, <1>8, <1>9, <1>10, <1>11, <1>12 DEF Links

(* A turn of the loop of osq_wait_next() keeps the links. *)
LEMMA TurnsLinks ==
  ASSUME Links, NEW c \in Cpus, Turns(c)
  PROVE  Links'
<1>t. /\ tail \in NodeOrNull /\ next \in [Cpus -> NodeOrNull] /\ prev \in [Cpus -> NodeOrNull]
      /\ locked \in [Cpus -> BOOLEAN] /\ pc \in [Cpus -> PC] /\ myprev \in [Cpus -> NodeOrNull]
      /\ mynext \in [Cpus -> NodeOrNull] /\ NULL \notin Cpus /\ NodeOrNull = Cpus \cup {NULL}
  BY DEF Links, QueueTypes, NodeOrNull
<1>i. /\ TailAt
      /\ \A d \in Cpus : EntryAt(d) /\ PredAt(d) /\ LeavesAt(d) /\ HeadAt(d)
      /\ \A d \in Cpus : NextAt(d) /\ TakenAt(d) /\ SkippedAt(d)
      /\ \A d, e \in Cpus : OneSucc(d, e) /\ OneLink(d, e) /\ OneHead(d, e)
  BY DEF Links
<1>1. QueueTypes'
  BY <1>t, <1>i DEF Turns, Moves, SpinPC, LeavePC, HeadPC,
     QueueTypes, NodeOrNull, PC, PredAt, Behind, Pred, TakenAt, SkippedAt, NextAt, EntryAt
<1>2. TailAt'
  BY <1>t, <1>i DEF Turns, Moves, SpinPC, LeavePC, HeadPC,
     TailAt, InQueue, PredAt, Behind, Pred
<1>3. \A d \in Cpus : EntryAt(d)'
  BY <1>t, <1>i DEF Turns, Moves, SpinPC, LeavePC, HeadPC,
     EntryAt, PredAt, Behind, Pred, TakenAt, Waits
<1>4. \A d \in Cpus : PredAt(d)'
  BY <1>t, <1>i DEF Turns, Moves, SpinPC, LeavePC, HeadPC,
     PredAt, Behind, Pred, InQueue, OneSucc, EntryAt, TakenAt, SkippedAt, NextAt, Waits, TailAt
<1>5. \A d \in Cpus : LeavesAt(d)'
  BY <1>t, <1>i DEF Turns, Moves, SpinPC, LeavePC, HeadPC,
     LeavesAt, NoNext, PredAt, Behind, Pred, InQueue, OneSucc, NextAt, TakenAt, Waits
<1>6. \A d \in Cpus : HeadAt(d)'
  BY <1>t, <1>i DEF Turns, Moves, SpinPC, LeavePC, HeadPC,
     HeadAt, AtHead, OneHead, TakenAt, PredAt, Behind, Pred, Waits
<1>7. \A d \in Cpus : NextAt(d)'
  BY <1>t, <1>i DEF Turns, Moves, SpinPC, LeavePC, HeadPC,
     NextAt, Waits, NoNext, PredAt, Behind, Pred, OneSucc, EntryAt, TakenAt, SkippedAt, InQueue
<1>8. \A d \in Cpus : TakenAt(d)'
  BY <1>t, <1>i DEF Turns, Moves, SpinPC, LeavePC, HeadPC,
     TakenAt, Waits, NextAt, PredAt, Behind, Pred, OneSucc, NoNext, EntryAt, SkippedAt
<1>9. \A d \in Cpus : SkippedAt(d)'
  BY <1>t, <1>i DEF Turns, Moves, SpinPC, LeavePC, HeadPC,
     SkippedAt, Waits, NoNext, NextAt, TakenAt, PredAt, Behind, Pred, OneSucc, InQueue, LeavesAt, OneLink
<1>10. \A d, e \in Cpus : OneSucc(d, e)'
  BY <1>t, <1>i DEF Turns, Moves, SpinPC, LeavePC, HeadPC,
     OneSucc, Behind, Pred, PredAt, TakenAt, Waits, EntryAt
<1>11. \A d, e \in Cpus : OneLink(d, e)'
  BY <1>t, <1>i DEF Turns, Moves, SpinPC, LeavePC, HeadPC,
     OneLink, SkippedAt, TakenAt, Waits, NoNext, Behind, Pred, OneSucc, PredAt
<1>12. \A d, e \in Cpus : OneHead(d, e)'
  BY <1>t, <1>i DEF Turns, Moves, SpinPC, LeavePC, HeadPC,
     OneHead, AtHead, HeadAt, TakenAt, Waits, EntryAt
<1> QED
  BY <1>1, <1>2, <1>3, <1>4, <1>5, <1>6, <1>7, <1>8, <1>9, <1>10, <1>11, <1>12 DEF Links

(* Leaving as the last of the queue keeps the links. *)
LEMMA LeavesTailLinks ==
  ASSUME Links, NEW c \in Cpus, LeavesTail(c)
  PROVE  Links'
<1>t. /\ tail \in NodeOrNull /\ next \in [Cpus -> NodeOrNull] /\ prev \in [Cpus -> NodeOrNull]
      /\ locked \in [Cpus -> BOOLEAN] /\ pc \in [Cpus -> PC] /\ myprev \in [Cpus -> NodeOrNull]
      /\ mynext \in [Cpus -> NodeOrNull] /\ NULL \notin Cpus /\ NodeOrNull = Cpus \cup {NULL}
  BY DEF Links, QueueTypes, NodeOrNull
<1>i. /\ TailAt
      /\ \A d \in Cpus : EntryAt(d) /\ PredAt(d) /\ LeavesAt(d) /\ HeadAt(d)
      /\ \A d \in Cpus : NextAt(d) /\ TakenAt(d) /\ SkippedAt(d)
      /\ \A d, e \in Cpus : OneSucc(d, e) /\ OneLink(d, e) /\ OneHead(d, e)
  BY DEF Links
<1>1. QueueTypes'
  BY <1>t, <1>i DEF LeavesTail, Moves, SpinPC, LeavePC, HeadPC,
     QueueTypes, NodeOrNull, PC, PredAt, Behind, Pred, TakenAt, SkippedAt, NextAt, EntryAt
<1>2. TailAt'
  BY <1>t, <1>i DEF LeavesTail, Moves, SpinPC, LeavePC, HeadPC,
     TailAt, InQueue, PredAt, Behind, Pred
<1>3. \A d \in Cpus : EntryAt(d)'
  BY <1>t, <1>i DEF LeavesTail, Moves, SpinPC, LeavePC, HeadPC,
     EntryAt, PredAt, Behind, Pred, TakenAt, Waits
<1>4. \A d \in Cpus : PredAt(d)'
  BY <1>t, <1>i DEF LeavesTail, Moves, SpinPC, LeavePC, HeadPC,
     PredAt, Behind, Pred, InQueue, OneSucc, EntryAt, TakenAt, SkippedAt, NextAt, Waits, TailAt
<1>5. \A d \in Cpus : LeavesAt(d)'
  BY <1>t, <1>i DEF LeavesTail, Moves, SpinPC, LeavePC, HeadPC,
     LeavesAt, NoNext, PredAt, Behind, Pred, InQueue, OneSucc, NextAt, TakenAt, Waits
<1>6. \A d \in Cpus : HeadAt(d)'
  BY <1>t, <1>i DEF LeavesTail, Moves, SpinPC, LeavePC, HeadPC,
     HeadAt, AtHead, OneHead, TakenAt, PredAt, Behind, Pred, Waits
<1>7. \A d \in Cpus : NextAt(d)'
  BY <1>t, <1>i DEF LeavesTail, Moves, SpinPC, LeavePC, HeadPC,
     NextAt, Waits, NoNext, PredAt, Behind, Pred, OneSucc, EntryAt, TakenAt, SkippedAt, InQueue
<1>8. \A d \in Cpus : TakenAt(d)'
  BY <1>t, <1>i DEF LeavesTail, Moves, SpinPC, LeavePC, HeadPC,
     TakenAt, Waits, NextAt, PredAt, Behind, Pred, OneSucc, NoNext, EntryAt, SkippedAt
<1>9. \A d \in Cpus : SkippedAt(d)'
  BY <1>t, <1>i DEF LeavesTail, Moves, SpinPC, LeavePC, HeadPC,
     SkippedAt, Waits, NoNext, NextAt, TakenAt, PredAt, Behind, Pred, OneSucc, InQueue, LeavesAt, OneLink
<1>10. \A d, e \in Cpus : OneSucc(d, e)'
  BY <1>t, <1>i DEF LeavesTail, Moves, SpinPC, LeavePC, HeadPC,
     OneSucc, Behind, Pred, PredAt, TakenAt, Waits, EntryAt
<1>11. \A d, e \in Cpus : OneLink(d, e)'
  BY <1>t, <1>i DEF LeavesTail, Moves, SpinPC, LeavePC, HeadPC,
     OneLink, SkippedAt, TakenAt, Waits, NoNext, Behind, Pred, OneSucc, PredAt
<1>12. \A d, e \in Cpus : OneHead(d, e)'
  BY <1>t, <1>i DEF LeavesTail, Moves, SpinPC, LeavePC, HeadPC,
     OneHead, AtHead, HeadAt, TakenAt, Waits, EntryAt
<1> QED
  BY <1>1, <1>2, <1>3, <1>4, <1>5, <1>6, <1>7, <1>8, <1>9, <1>10, <1>11, <1>12 DEF Links

(* Unlocking as the last of the queue keeps the links. *)
LEMMA UnlocksTailLinks ==
  ASSUME Links, NEW c \in Cpus, UnlocksTail(c)
  PROVE  Links'
<1>t. /\ tail \in NodeOrNull /\ next \in [Cpus -> NodeOrNull] /\ prev \in [Cpus -> NodeOrNull]
      /\ locked \in [Cpus -> BOOLEAN] /\ pc \in [Cpus -> PC] /\ myprev \in [Cpus -> NodeOrNull]
      /\ mynext \in [Cpus -> NodeOrNull] /\ NULL \notin Cpus /\ NodeOrNull = Cpus \cup {NULL}
  BY DEF Links, QueueTypes, NodeOrNull
<1>i. /\ TailAt
      /\ \A d \in Cpus : EntryAt(d) /\ PredAt(d) /\ LeavesAt(d) /\ HeadAt(d)
      /\ \A d \in Cpus : NextAt(d) /\ TakenAt(d) /\ SkippedAt(d)
      /\ \A d, e \in Cpus : OneSucc(d, e) /\ OneLink(d, e) /\ OneHead(d, e)
  BY DEF Links
<1>1. QueueTypes'
  BY <1>t, <1>i DEF UnlocksTail, Moves, SpinPC, LeavePC, HeadPC,
     QueueTypes, NodeOrNull, PC, PredAt, Behind, Pred, TakenAt, SkippedAt, NextAt, EntryAt
<1>2. TailAt'
  BY <1>t, <1>i DEF UnlocksTail, Moves, SpinPC, LeavePC, HeadPC,
     TailAt, InQueue, PredAt, Behind, Pred
<1>3. \A d \in Cpus : EntryAt(d)'
  BY <1>t, <1>i DEF UnlocksTail, Moves, SpinPC, LeavePC, HeadPC,
     EntryAt, PredAt, Behind, Pred, TakenAt, Waits
<1>4. \A d \in Cpus : PredAt(d)'
  BY <1>t, <1>i DEF UnlocksTail, Moves, SpinPC, LeavePC, HeadPC,
     PredAt, Behind, Pred, InQueue, OneSucc, EntryAt, TakenAt, SkippedAt, NextAt, Waits, TailAt
<1>5. \A d \in Cpus : LeavesAt(d)'
  BY <1>t, <1>i DEF UnlocksTail, Moves, SpinPC, LeavePC, HeadPC,
     LeavesAt, NoNext, PredAt, Behind, Pred, InQueue, OneSucc, NextAt, TakenAt, Waits
<1>6. \A d \in Cpus : HeadAt(d)'
  BY <1>t, <1>i DEF UnlocksTail, Moves, SpinPC, LeavePC, HeadPC,
     HeadAt, AtHead, OneHead, TakenAt, PredAt, Behind, Pred, Waits
<1>7. \A d \in Cpus : NextAt(d)'
  BY <1>t, <1>i DEF UnlocksTail, Moves, SpinPC, LeavePC, HeadPC,
     NextAt, Waits, NoNext, PredAt, Behind, Pred, OneSucc, EntryAt, TakenAt, SkippedAt, InQueue
<1>8. \A d \in Cpus : TakenAt(d)'
  BY <1>t, <1>i DEF UnlocksTail, Moves, SpinPC, LeavePC, HeadPC,
     TakenAt, Waits, NextAt, PredAt, Behind, Pred, OneSucc, NoNext, EntryAt, SkippedAt
<1>9. \A d \in Cpus : SkippedAt(d)'
  BY <1>t, <1>i DEF UnlocksTail, Moves, SpinPC, LeavePC, HeadPC,
     SkippedAt, Waits, NoNext, NextAt, TakenAt, PredAt, Behind, Pred, OneSucc, InQueue, LeavesAt, OneLink
<1>10. \A d, e \in Cpus : OneSucc(d, e)'
  BY <1>t, <1>i DEF UnlocksTail, Moves, SpinPC, LeavePC, HeadPC,
     OneSucc, Behind, Pred, PredAt, TakenAt, Waits, EntryAt
<1>11. \A d, e \in Cpus : OneLink(d, e)'
  BY <1>t, <1>i DEF UnlocksTail, Moves, SpinPC, LeavePC, HeadPC,
     OneLink, SkippedAt, TakenAt, Waits, NoNext, Behind, Pred, OneSucc, PredAt
<1>12. \A d, e \in Cpus : OneHead(d, e)'
  BY <1>t, <1>i DEF UnlocksTail, Moves, SpinPC, LeavePC, HeadPC,
     OneHead, AtHead, HeadAt, TakenAt, Waits, EntryAt
<1> QED
  BY <1>1, <1>2, <1>3, <1>4, <1>5, <1>6, <1>7, <1>8, <1>9, <1>10, <1>11, <1>12 DEF Links

(* Taking the next pointer keeps the links. *)
LEMMA TakesNextLinks ==
  ASSUME Links, NEW c \in Cpus, TakesNext(c)
  PROVE  Links'
<1>t. /\ tail \in NodeOrNull /\ next \in [Cpus -> NodeOrNull] /\ prev \in [Cpus -> NodeOrNull]
      /\ locked \in [Cpus -> BOOLEAN] /\ pc \in [Cpus -> PC] /\ myprev \in [Cpus -> NodeOrNull]
      /\ mynext \in [Cpus -> NodeOrNull] /\ NULL \notin Cpus /\ NodeOrNull = Cpus \cup {NULL}
  BY DEF Links, QueueTypes, NodeOrNull
<1>i. /\ TailAt
      /\ \A d \in Cpus : EntryAt(d) /\ PredAt(d) /\ LeavesAt(d) /\ HeadAt(d)
      /\ \A d \in Cpus : NextAt(d) /\ TakenAt(d) /\ SkippedAt(d)
      /\ \A d, e \in Cpus : OneSucc(d, e) /\ OneLink(d, e) /\ OneHead(d, e)
  BY DEF Links
<1>1. QueueTypes'
  BY <1>t, <1>i DEF TakesNext, Moves, SpinPC, LeavePC, HeadPC,
     QueueTypes, NodeOrNull, PC, PredAt, Behind, Pred, TakenAt, SkippedAt, NextAt, EntryAt
<1>2. TailAt'
  BY <1>t, <1>i DEF TakesNext, Moves, SpinPC, LeavePC, HeadPC,
     TailAt, InQueue, PredAt, Behind, Pred
<1>3. \A d \in Cpus : EntryAt(d)'
  BY <1>t, <1>i DEF TakesNext, Moves, SpinPC, LeavePC, HeadPC,
     EntryAt, PredAt, Behind, Pred, TakenAt, Waits
<1>4. \A d \in Cpus : PredAt(d)'
  BY <1>t, <1>i DEF TakesNext, Moves, SpinPC, LeavePC, HeadPC,
     PredAt, Behind, Pred, InQueue, OneSucc, EntryAt, TakenAt, SkippedAt, NextAt, Waits, TailAt
<1>5. \A d \in Cpus : LeavesAt(d)'
  BY <1>t, <1>i DEF TakesNext, Moves, SpinPC, LeavePC, HeadPC,
     LeavesAt, NoNext, PredAt, Behind, Pred, InQueue, OneSucc, NextAt, TakenAt, Waits
<1>6. \A d \in Cpus : HeadAt(d)'
  BY <1>t, <1>i DEF TakesNext, Moves, SpinPC, LeavePC, HeadPC,
     HeadAt, AtHead, OneHead, TakenAt, PredAt, Behind, Pred, Waits
<1>7. \A d \in Cpus : NextAt(d)'
  BY <1>t, <1>i DEF TakesNext, Moves, SpinPC, LeavePC, HeadPC,
     NextAt, Waits, NoNext, PredAt, Behind, Pred, OneSucc, EntryAt, TakenAt, SkippedAt, InQueue
<1>8. \A d \in Cpus : TakenAt(d)'
  BY <1>t, <1>i DEF TakesNext, Moves, SpinPC, LeavePC, HeadPC,
     TakenAt, Waits, NextAt, PredAt, Behind, Pred, OneSucc, NoNext, EntryAt, SkippedAt
<1>9. \A d \in Cpus : SkippedAt(d)'
  BY <1>t, <1>i DEF TakesNext, Moves, SpinPC, LeavePC, HeadPC,
     SkippedAt, Waits, NoNext, NextAt, TakenAt, PredAt, Behind, Pred, OneSucc, InQueue, LeavesAt, OneLink
<1>10. \A d, e \in Cpus : OneSucc(d, e)'
  BY <1>t, <1>i DEF TakesNext, Moves, SpinPC, LeavePC, HeadPC,
     OneSucc, Behind, Pred, PredAt, TakenAt, Waits, EntryAt
<1>11. \A d, e \in Cpus : OneLink(d, e)'
  BY <1>t, <1>i DEF TakesNext, Moves, SpinPC, LeavePC, HeadPC,
     OneLink, SkippedAt, TakenAt, Waits, NoNext, Behind, Pred, OneSucc, PredAt
<1>12. \A d, e \in Cpus : OneHead(d, e)'
  BY <1>t, <1>i DEF TakesNext, Moves, SpinPC, LeavePC, HeadPC,
     OneHead, AtHead, HeadAt, TakenAt, Waits, EntryAt
<1> QED
  BY <1>1, <1>2, <1>3, <1>4, <1>5, <1>6, <1>7, <1>8, <1>9, <1>10, <1>11, <1>12 DEF Links

(* The first half of Step-C keeps the links. *)
LEMMA LinksPrevLinks ==
  ASSUME Links, NEW c \in Cpus, LinksPrev(c)
  PROVE  Links'
<1>t. /\ tail \in NodeOrNull /\ next \in [Cpus -> NodeOrNull] /\ prev \in [Cpus -> NodeOrNull]
      /\ locked \in [Cpus -> BOOLEAN] /\ pc \in [Cpus -> PC] /\ myprev \in [Cpus -> NodeOrNull]
      /\ mynext \in [Cpus -> NodeOrNull] /\ NULL \notin Cpus /\ NodeOrNull = Cpus \cup {NULL}
  BY DEF Links, QueueTypes, NodeOrNull
<1>i. /\ TailAt
      /\ \A d \in Cpus : EntryAt(d) /\ PredAt(d) /\ LeavesAt(d) /\ HeadAt(d)
      /\ \A d \in Cpus : NextAt(d) /\ TakenAt(d) /\ SkippedAt(d)
      /\ \A d, e \in Cpus : OneSucc(d, e) /\ OneLink(d, e) /\ OneHead(d, e)
  BY DEF Links
<1>1. QueueTypes'
  BY <1>t, <1>i DEF LinksPrev, Moves, SpinPC, LeavePC, HeadPC,
     QueueTypes, NodeOrNull, PC, PredAt, Behind, Pred, TakenAt, SkippedAt, NextAt, EntryAt
<1>2. TailAt'
  BY <1>t, <1>i DEF LinksPrev, Moves, SpinPC, LeavePC, HeadPC,
     TailAt, InQueue, PredAt, Behind, Pred, TakenAt, Waits
<1>3. \A d \in Cpus : EntryAt(d)'
  BY <1>t, <1>i DEF LinksPrev, Moves, SpinPC, LeavePC, HeadPC,
     EntryAt, PredAt, Behind, Pred, TakenAt, Waits
<1>4. \A d \in Cpus : PredAt(d)'
  BY <1>t, <1>i DEF LinksPrev, Moves, SpinPC, LeavePC, HeadPC,
     PredAt, Behind, Pred, InQueue, OneSucc, EntryAt, TakenAt, SkippedAt, NextAt, Waits, TailAt
<1>5. \A d \in Cpus : LeavesAt(d)'
  BY <1>t, <1>i DEF LinksPrev, Moves, SpinPC, LeavePC, HeadPC,
     LeavesAt, NoNext, PredAt, Behind, Pred, InQueue, OneSucc, NextAt, TakenAt, Waits
<1>6. \A d \in Cpus : HeadAt(d)'
  BY <1>t, <1>i DEF LinksPrev, Moves, SpinPC, LeavePC, HeadPC,
     HeadAt, AtHead, OneHead, TakenAt, PredAt, Behind, Pred, Waits
<1>7. \A d \in Cpus : NextAt(d)'
  BY <1>t, <1>i DEF LinksPrev, Moves, SpinPC, LeavePC, HeadPC,
     NextAt, Waits, NoNext, PredAt, Behind, Pred, OneSucc, EntryAt, TakenAt, SkippedAt, InQueue
<1>8. \A d \in Cpus : TakenAt(d)'
  BY <1>t, <1>i DEF LinksPrev, Moves, SpinPC, LeavePC, HeadPC,
     TakenAt, Waits, NextAt, PredAt, Behind, Pred, OneSucc, NoNext, EntryAt, SkippedAt
<1>9. \A d \in Cpus : SkippedAt(d)'
  BY <1>t, <1>i DEF LinksPrev, Moves, SpinPC, LeavePC, HeadPC,
     SkippedAt, Waits, NoNext, NextAt, TakenAt, PredAt, Behind, Pred, OneSucc, InQueue, LeavesAt, OneLink
<1>10. \A d, e \in Cpus : OneSucc(d, e)'
  BY <1>t, <1>i DEF LinksPrev, Moves, SpinPC, LeavePC, HeadPC,
     OneSucc, Behind, Pred, PredAt, TakenAt, Waits, EntryAt
<1>11. \A d, e \in Cpus : OneLink(d, e)'
  BY <1>t, <1>i DEF LinksPrev, Moves, SpinPC, LeavePC, HeadPC,
     OneLink, SkippedAt, TakenAt, Waits, NoNext, Behind, Pred, OneSucc, PredAt
<1>12. \A d, e \in Cpus : OneHead(d, e)'
  BY <1>t, <1>i DEF LinksPrev, Moves, SpinPC, LeavePC, HeadPC,
     OneHead, AtHead, HeadAt, TakenAt, Waits, EntryAt
<1> QED
  BY <1>1, <1>2, <1>3, <1>4, <1>5, <1>6, <1>7, <1>8, <1>9, <1>10, <1>11, <1>12 DEF Links

(* The second half of Step-C keeps the links. *)
LEMMA LinksNextLinks ==
  ASSUME Links, NEW c \in Cpus, LinksNext(c)
  PROVE  Links'
<1>t. /\ tail \in NodeOrNull /\ next \in [Cpus -> NodeOrNull] /\ prev \in [Cpus -> NodeOrNull]
      /\ locked \in [Cpus -> BOOLEAN] /\ pc \in [Cpus -> PC] /\ myprev \in [Cpus -> NodeOrNull]
      /\ mynext \in [Cpus -> NodeOrNull] /\ NULL \notin Cpus /\ NodeOrNull = Cpus \cup {NULL}
  BY DEF Links, QueueTypes, NodeOrNull
<1>i. /\ TailAt
      /\ \A d \in Cpus : EntryAt(d) /\ PredAt(d) /\ LeavesAt(d) /\ HeadAt(d)
      /\ \A d \in Cpus : NextAt(d) /\ TakenAt(d) /\ SkippedAt(d)
      /\ \A d, e \in Cpus : OneSucc(d, e) /\ OneLink(d, e) /\ OneHead(d, e)
  BY DEF Links
<1>1. QueueTypes'
  BY <1>t, <1>i DEF LinksNext, Moves, SpinPC, LeavePC, HeadPC,
     QueueTypes, NodeOrNull, PC, PredAt, Behind, Pred, TakenAt, SkippedAt, NextAt, EntryAt
<1>2. TailAt'
  BY <1>t, <1>i DEF LinksNext, Moves, SpinPC, LeavePC, HeadPC,
     TailAt, InQueue, PredAt, Behind, Pred
<1>3. \A d \in Cpus : EntryAt(d)'
  BY <1>t, <1>i DEF LinksNext, Moves, SpinPC, LeavePC, HeadPC,
     EntryAt, PredAt, Behind, Pred, TakenAt, Waits
<1>4. \A d \in Cpus : PredAt(d)'
  BY <1>t, <1>i DEF LinksNext, Moves, SpinPC, LeavePC, HeadPC,
     PredAt, Behind, Pred, InQueue, OneSucc, EntryAt, TakenAt, SkippedAt, NextAt, Waits, TailAt
<1>5. \A d \in Cpus : LeavesAt(d)'
  BY <1>t, <1>i DEF LinksNext, Moves, SpinPC, LeavePC, HeadPC,
     LeavesAt, NoNext, PredAt, Behind, Pred, InQueue, OneSucc, NextAt, TakenAt, Waits, SkippedAt
<1>6. \A d \in Cpus : HeadAt(d)'
  BY <1>t, <1>i DEF LinksNext, Moves, SpinPC, LeavePC, HeadPC,
     HeadAt, AtHead, OneHead, TakenAt, PredAt, Behind, Pred, Waits
<1>7. \A d \in Cpus : NextAt(d)'
  BY <1>t, <1>i DEF LinksNext, Moves, SpinPC, LeavePC, HeadPC,
     NextAt, Waits, NoNext, PredAt, Behind, Pred, OneSucc, EntryAt, TakenAt, SkippedAt, InQueue
<1>8. \A d \in Cpus : TakenAt(d)'
  BY <1>t, <1>i DEF LinksNext, Moves, SpinPC, LeavePC, HeadPC,
     TakenAt, Waits, NextAt, PredAt, Behind, Pred, OneSucc, NoNext, EntryAt, SkippedAt
<1>9. \A d \in Cpus : SkippedAt(d)'
  BY <1>t, <1>i DEF LinksNext, Moves, SpinPC, LeavePC, HeadPC,
     SkippedAt, Waits, NoNext, NextAt, TakenAt, PredAt, Behind, Pred, OneSucc, InQueue, LeavesAt, OneLink
<1>10. \A d, e \in Cpus : OneSucc(d, e)'
  BY <1>t, <1>i DEF LinksNext, Moves, SpinPC, LeavePC, HeadPC,
     OneSucc, Behind, Pred, PredAt, TakenAt, Waits, EntryAt
<1>11. \A d, e \in Cpus : OneLink(d, e)'
  BY <1>t, <1>i DEF LinksNext, Moves, SpinPC, LeavePC, HeadPC,
     OneLink, SkippedAt, TakenAt, Waits, NoNext, Behind, Pred, OneSucc, PredAt
<1>12. \A d, e \in Cpus : OneHead(d, e)'
  BY <1>t, <1>i DEF LinksNext, Moves, SpinPC, LeavePC, HeadPC,
     OneHead, AtHead, HeadAt, TakenAt, Waits, EntryAt
<1> QED
  BY <1>1, <1>2, <1>3, <1>4, <1>5, <1>6, <1>7, <1>8, <1>9, <1>10, <1>11, <1>12 DEF Links

(* Passing the lock on keeps the links. *)
LEMMA PassesLinks ==
  ASSUME Links, NEW c \in Cpus, Passes(c)
  PROVE  Links'
<1>t. /\ tail \in NodeOrNull /\ next \in [Cpus -> NodeOrNull] /\ prev \in [Cpus -> NodeOrNull]
      /\ locked \in [Cpus -> BOOLEAN] /\ pc \in [Cpus -> PC] /\ myprev \in [Cpus -> NodeOrNull]
      /\ mynext \in [Cpus -> NodeOrNull] /\ NULL \notin Cpus /\ NodeOrNull = Cpus \cup {NULL}
  BY DEF Links, QueueTypes, NodeOrNull
<1>i. /\ TailAt
      /\ \A d \in Cpus : EntryAt(d) /\ PredAt(d) /\ LeavesAt(d) /\ HeadAt(d)
      /\ \A d \in Cpus : NextAt(d) /\ TakenAt(d) /\ SkippedAt(d)
      /\ \A d, e \in Cpus : OneSucc(d, e) /\ OneLink(d, e) /\ OneHead(d, e)
  BY DEF Links
<1>1. QueueTypes'
  BY <1>t, <1>i DEF Passes, Moves, SpinPC, LeavePC, HeadPC,
     QueueTypes, NodeOrNull, PC, PredAt, Behind, Pred, TakenAt, SkippedAt, NextAt, EntryAt
<1>2. TailAt'
  BY <1>t, <1>i DEF Passes, Moves, SpinPC, LeavePC, HeadPC,
     TailAt, InQueue, PredAt, Behind, Pred, TakenAt, Waits
<1>3. \A d \in Cpus : EntryAt(d)'
  BY <1>t, <1>i DEF Passes, Moves, SpinPC, LeavePC, HeadPC,
     EntryAt, PredAt, Behind, Pred, TakenAt, Waits
<1>4. \A d \in Cpus : PredAt(d)'
  BY <1>t, <1>i DEF Passes, Moves, SpinPC, LeavePC, HeadPC,
     PredAt, Behind, Pred, InQueue, OneSucc, EntryAt, TakenAt, SkippedAt, NextAt, Waits, TailAt
<1>5. \A d \in Cpus : LeavesAt(d)'
  BY <1>t, <1>i DEF Passes, Moves, SpinPC, LeavePC, HeadPC,
     LeavesAt, NoNext, PredAt, Behind, Pred, InQueue, OneSucc, NextAt, TakenAt, Waits
<1>6. \A d \in Cpus : HeadAt(d)'
  BY <1>t, <1>i DEF Passes, Moves, SpinPC, LeavePC, HeadPC,
     HeadAt, AtHead, OneHead, TakenAt, PredAt, Behind, Pred, Waits
<1>7. \A d \in Cpus : NextAt(d)'
  BY <1>t, <1>i DEF Passes, Moves, SpinPC, LeavePC, HeadPC,
     NextAt, Waits, NoNext, PredAt, Behind, Pred, OneSucc, EntryAt, TakenAt, SkippedAt, InQueue
<1>8. \A d \in Cpus : TakenAt(d)'
  BY <1>t, <1>i DEF Passes, Moves, SpinPC, LeavePC, HeadPC,
     TakenAt, Waits, NextAt, PredAt, Behind, Pred, OneSucc, NoNext, EntryAt, SkippedAt
<1>9. \A d \in Cpus : SkippedAt(d)'
  BY <1>t, <1>i DEF Passes, Moves, SpinPC, LeavePC, HeadPC,
     SkippedAt, Waits, NoNext, NextAt, TakenAt, PredAt, Behind, Pred, OneSucc, InQueue, LeavesAt, OneLink
<1>10. \A d, e \in Cpus : OneSucc(d, e)'
  BY <1>t, <1>i DEF Passes, Moves, SpinPC, LeavePC, HeadPC,
     OneSucc, Behind, Pred, PredAt, TakenAt, Waits, EntryAt
<1>11. \A d, e \in Cpus : OneLink(d, e)'
  BY <1>t, <1>i DEF Passes, Moves, SpinPC, LeavePC, HeadPC,
     OneLink, SkippedAt, TakenAt, Waits, NoNext, Behind, Pred, OneSucc, PredAt
<1>12. \A d, e \in Cpus : OneHead(d, e)'
  BY <1>t, <1>i DEF Passes, Moves, SpinPC, LeavePC, HeadPC,
     OneHead, AtHead, HeadAt, TakenAt, Waits, EntryAt
<1> QED
  BY <1>1, <1>2, <1>3, <1>4, <1>5, <1>6, <1>7, <1>8, <1>9, <1>10, <1>11, <1>12 DEF Links

(* The links are kept by every move. *)
LEMMA MoveLinks ==
  ASSUME Links, NEW c \in Cpus, Move(c)
  PROVE  Links'
BY StartsLinks, TakesFreeLinks, JoinsLinks, SetsPrevLinks, SetsNextLinks, AcquiresLinks, SpinsLinks,
   UnlinksLinks, TurnsLinks, LeavesTailLinks, UnlocksTailLinks, TakesNextLinks, LinksPrevLinks,
   LinksNextLinks, PassesLinks DEF Move

----------------------------------------------------------------------------

(* The CPUs that still want the lock are in arrival, each once. *)
LEMMA MoveArrivals ==
  ASSUME Links, Arrivals, NEW c \in Cpus, Move(c)
  PROVE  Arrivals'
<1>t. /\ pc \in [Cpus -> PC] /\ arrival \in Seq(Cpus) /\ NoDuplicates(arrival)
      /\ ToSet(arrival) = {d \in Cpus : pc[d] \in WantPC}
  BY DEF Links, QueueTypes, Arrivals
<1>1. CASE Joins(c)
  <2>1. c \notin ToSet(arrival)
    BY <1>1, <1>t DEF Joins, WantPC, SpinPC
  <2>2. arrival' \in Seq(Cpus) /\ NoDuplicates(arrival)' /\ ToSet(arrival)' = ToSet(arrival) \cup {c}
    BY <1>1, <1>t, <2>1, ListAddTail DEF Joins, list_add_tail
  <2>3. {d \in Cpus : pc[d] \in WantPC}' = {d \in Cpus : pc[d] \in WantPC} \cup {c}
    BY <1>1, <1>t DEF Joins, Moves, WantPC
  <2> QED BY <1>t, <2>2, <2>3 DEF Arrivals
<1>2. CASE Acquires(c) \/ Unlinks(c)
  <2>1. c \in ToSet(arrival)
    BY <1>2, <1>t DEF Acquires, Unlinks, WantPC
  <2>2. arrival' \in Seq(Cpus) /\ NoDuplicates(arrival)' /\ ToSet(arrival)' = ToSet(arrival) \ {c}
    BY <1>2, <1>t, <2>1, ListDel DEF Acquires, Unlinks
  <2>3. {d \in Cpus : pc[d] \in WantPC}' = {d \in Cpus : pc[d] \in WantPC} \ {c}
    BY <1>2, <1>t DEF Acquires, Unlinks, Moves, WantPC, SpinPC
  <2> QED BY <1>t, <2>2, <2>3 DEF Arrivals
<1>3. CASE Starts(c) \/ TakesFree(c) \/ SetsPrev(c) \/ SetsNext(c) \/ Spins(c) \/ Turns(c)
           \/ LeavesTail(c) \/ UnlocksTail(c) \/ TakesNext(c) \/ LinksPrev(c) \/ LinksNext(c) \/ Passes(c)
  <2>1. arrival' = arrival
    BY <1>3 DEF Starts, TakesFree, SetsPrev, SetsNext, Spins, Turns, LeavesTail, UnlocksTail, TakesNext,
       LinksPrev, LinksNext, Passes
  <2>2. \A d \in Cpus : pc'[d] \in WantPC <=> pc[d] \in WantPC
    BY <1>3, <1>t DEF Starts, TakesFree, SetsPrev, SetsNext, Spins, Turns, LeavesTail, UnlocksTail, TakesNext,
       LinksPrev, LinksNext, Passes, Moves, WantPC, SpinPC, HeadPC
  <2> QED BY <1>t, <2>1, <2>2 DEF Arrivals
<1> QED BY <1>1, <1>2, <1>3 DEF Move

(* A new call that only initialises its node keeps the order. *)
LEMMA StartsOrder ==
  ASSUME Links, NEW c \in Cpus, Starts(c), NEW pos \in [Cpus -> Nat], Order(pos)
  PROVE  (PlacesDiffer(pos) /\ PlaceAfterPred(pos) /\ TailLast(pos) /\ HeadFirst(pos))'
<1>t. /\ tail \in Cpus \cup {NULL} /\ next \in [Cpus -> Cpus \cup {NULL}] /\ prev \in [Cpus -> Cpus \cup {NULL}]
      /\ locked \in [Cpus -> BOOLEAN] /\ pc \in [Cpus -> PC] /\ myprev \in [Cpus -> Cpus \cup {NULL}]
      /\ mynext \in [Cpus -> Cpus \cup {NULL}] /\ NULL \notin Cpus
  BY DEF Links, QueueTypes, NodeOrNull
<1>i. /\ TailAt
      /\ \A d \in Cpus : EntryAt(d) /\ PredAt(d) /\ NextAt(d) /\ TakenAt(d)
  BY DEF Links
<1>o. PlacesDiffer(pos) /\ PlaceAfterPred(pos) /\ TailLast(pos) /\ HeadFirst(pos)
  BY DEF Order
<1>1. PlacesDiffer(pos)'
  BY <1>t, <1>i, <1>o DEF Starts, Moves, SpinPC, LeavePC, HeadPC,
     PlacesDiffer, InQueue
<1>2. PlaceAfterPred(pos)'
  BY <1>t, <1>i, <1>o DEF Starts, Moves, SpinPC, LeavePC, HeadPC,
     PlaceAfterPred, PlacesDiffer, InQueue, Behind, Pred, PredAt, EntryAt, NextAt, TakenAt, Waits
<1>3. TailLast(pos)'
  BY <1>t, <1>i, <1>o DEF Starts, Moves, SpinPC, LeavePC, HeadPC,
     TailLast, PlaceAfterPred, PlacesDiffer, HeadFirst, AtHead, InQueue, Behind, Pred, PredAt, TailAt, TakenAt
<1>4. HeadFirst(pos)'
  BY <1>t, <1>i, <1>o DEF Starts, Moves, SpinPC, LeavePC, HeadPC,
     HeadFirst, PlaceAfterPred, PlacesDiffer, AtHead, InQueue, Behind, Pred, PredAt, EntryAt, TakenAt, Waits
<1> QED BY <1>1, <1>2, <1>3, <1>4

(* Setting node->prev keeps the order. *)
LEMMA SetsPrevOrder ==
  ASSUME Links, NEW c \in Cpus, SetsPrev(c), NEW pos \in [Cpus -> Nat], Order(pos)
  PROVE  (PlacesDiffer(pos) /\ PlaceAfterPred(pos) /\ TailLast(pos) /\ HeadFirst(pos))'
<1>t. /\ tail \in Cpus \cup {NULL} /\ next \in [Cpus -> Cpus \cup {NULL}] /\ prev \in [Cpus -> Cpus \cup {NULL}]
      /\ locked \in [Cpus -> BOOLEAN] /\ pc \in [Cpus -> PC] /\ myprev \in [Cpus -> Cpus \cup {NULL}]
      /\ mynext \in [Cpus -> Cpus \cup {NULL}] /\ NULL \notin Cpus
  BY DEF Links, QueueTypes, NodeOrNull
<1>i. /\ TailAt
      /\ \A d \in Cpus : EntryAt(d) /\ PredAt(d) /\ NextAt(d) /\ TakenAt(d)
  BY DEF Links
<1>o. PlacesDiffer(pos) /\ PlaceAfterPred(pos) /\ TailLast(pos) /\ HeadFirst(pos)
  BY DEF Order
<1>1. PlacesDiffer(pos)'
  BY <1>t, <1>i, <1>o DEF SetsPrev, Moves, SpinPC, LeavePC, HeadPC,
     PlacesDiffer, InQueue
<1>2. PlaceAfterPred(pos)'
  BY <1>t, <1>i, <1>o DEF SetsPrev, Moves, SpinPC, LeavePC, HeadPC,
     PlaceAfterPred, PlacesDiffer, InQueue, Behind, Pred, PredAt, EntryAt, NextAt, TakenAt, Waits
<1>3. TailLast(pos)'
  BY <1>t, <1>i, <1>o DEF SetsPrev, Moves, SpinPC, LeavePC, HeadPC,
     TailLast, PlaceAfterPred, PlacesDiffer, HeadFirst, AtHead, InQueue, Behind, Pred, PredAt, TailAt, TakenAt
<1>4. HeadFirst(pos)'
  BY <1>t, <1>i, <1>o DEF SetsPrev, Moves, SpinPC, LeavePC, HeadPC,
     HeadFirst, PlaceAfterPred, PlacesDiffer, AtHead, InQueue, Behind, Pred, PredAt, EntryAt, TakenAt, Waits
<1> QED BY <1>1, <1>2, <1>3, <1>4

(* Setting prev->next keeps the order. *)
LEMMA SetsNextOrder ==
  ASSUME Links, NEW c \in Cpus, SetsNext(c), NEW pos \in [Cpus -> Nat], Order(pos)
  PROVE  (PlacesDiffer(pos) /\ PlaceAfterPred(pos) /\ TailLast(pos) /\ HeadFirst(pos))'
<1>t. /\ tail \in Cpus \cup {NULL} /\ next \in [Cpus -> Cpus \cup {NULL}] /\ prev \in [Cpus -> Cpus \cup {NULL}]
      /\ locked \in [Cpus -> BOOLEAN] /\ pc \in [Cpus -> PC] /\ myprev \in [Cpus -> Cpus \cup {NULL}]
      /\ mynext \in [Cpus -> Cpus \cup {NULL}] /\ NULL \notin Cpus
  BY DEF Links, QueueTypes, NodeOrNull
<1>i. /\ TailAt
      /\ \A d \in Cpus : EntryAt(d) /\ PredAt(d) /\ NextAt(d) /\ TakenAt(d)
  BY DEF Links
<1>o. PlacesDiffer(pos) /\ PlaceAfterPred(pos) /\ TailLast(pos) /\ HeadFirst(pos)
  BY DEF Order
<1>1. PlacesDiffer(pos)'
  BY <1>t, <1>i, <1>o DEF SetsNext, Moves, SpinPC, LeavePC, HeadPC,
     PlacesDiffer, InQueue
<1>2. PlaceAfterPred(pos)'
  BY <1>t, <1>i, <1>o DEF SetsNext, Moves, SpinPC, LeavePC, HeadPC,
     PlaceAfterPred, PlacesDiffer, InQueue, Behind, Pred, PredAt, EntryAt, NextAt, TakenAt, Waits
<1>3. TailLast(pos)'
  BY <1>t, <1>i, <1>o DEF SetsNext, Moves, SpinPC, LeavePC, HeadPC,
     TailLast, PlaceAfterPred, PlacesDiffer, HeadFirst, AtHead, InQueue, Behind, Pred, PredAt, TailAt, TakenAt
<1>4. HeadFirst(pos)'
  BY <1>t, <1>i, <1>o DEF SetsNext, Moves, SpinPC, LeavePC, HeadPC,
     HeadFirst, PlaceAfterPred, PlacesDiffer, AtHead, InQueue, Behind, Pred, PredAt, EntryAt, TakenAt, Waits
<1> QED BY <1>1, <1>2, <1>3, <1>4

(* A return from osq_lock() with the lock keeps the order. *)
LEMMA AcquiresOrder ==
  ASSUME Links, NEW c \in Cpus, Acquires(c), NEW pos \in [Cpus -> Nat], Order(pos)
  PROVE  (PlacesDiffer(pos) /\ PlaceAfterPred(pos) /\ TailLast(pos) /\ HeadFirst(pos))'
<1>t. /\ tail \in Cpus \cup {NULL} /\ next \in [Cpus -> Cpus \cup {NULL}] /\ prev \in [Cpus -> Cpus \cup {NULL}]
      /\ locked \in [Cpus -> BOOLEAN] /\ pc \in [Cpus -> PC] /\ myprev \in [Cpus -> Cpus \cup {NULL}]
      /\ mynext \in [Cpus -> Cpus \cup {NULL}] /\ NULL \notin Cpus
  BY DEF Links, QueueTypes, NodeOrNull
<1>i. /\ TailAt
      /\ \A d \in Cpus : EntryAt(d) /\ PredAt(d) /\ NextAt(d) /\ TakenAt(d)
  BY DEF Links
<1>o. PlacesDiffer(pos) /\ PlaceAfterPred(pos) /\ TailLast(pos) /\ HeadFirst(pos)
  BY DEF Order
<1>1. PlacesDiffer(pos)'
  BY <1>t, <1>i, <1>o DEF Acquires, Moves, SpinPC, LeavePC, HeadPC,
     PlacesDiffer, InQueue
<1>2. PlaceAfterPred(pos)'
  BY <1>t, <1>i, <1>o DEF Acquires, Moves, SpinPC, LeavePC, HeadPC,
     PlaceAfterPred, PlacesDiffer, InQueue, Behind, Pred, PredAt, EntryAt, NextAt, TakenAt, Waits
<1>3. TailLast(pos)'
  BY <1>t, <1>i, <1>o DEF Acquires, Moves, SpinPC, LeavePC, HeadPC,
     TailLast, PlaceAfterPred, PlacesDiffer, HeadFirst, AtHead, InQueue, Behind, Pred, PredAt, TailAt, TakenAt
<1>4. HeadFirst(pos)'
  BY <1>t, <1>i, <1>o DEF Acquires, Moves, SpinPC, LeavePC, HeadPC,
     HeadFirst, PlaceAfterPred, PlacesDiffer, AtHead, InQueue, Behind, Pred, PredAt, EntryAt, TakenAt, Waits
<1> QED BY <1>1, <1>2, <1>3, <1>4

(* A turn of the loops of osq_lock() keeps the order. *)
LEMMA SpinsOrder ==
  ASSUME Links, NEW c \in Cpus, Spins(c), NEW pos \in [Cpus -> Nat], Order(pos)
  PROVE  (PlacesDiffer(pos) /\ PlaceAfterPred(pos) /\ TailLast(pos) /\ HeadFirst(pos))'
<1>t. /\ tail \in Cpus \cup {NULL} /\ next \in [Cpus -> Cpus \cup {NULL}] /\ prev \in [Cpus -> Cpus \cup {NULL}]
      /\ locked \in [Cpus -> BOOLEAN] /\ pc \in [Cpus -> PC] /\ myprev \in [Cpus -> Cpus \cup {NULL}]
      /\ mynext \in [Cpus -> Cpus \cup {NULL}] /\ NULL \notin Cpus
  BY DEF Links, QueueTypes, NodeOrNull
<1>i. /\ TailAt
      /\ \A d \in Cpus : EntryAt(d) /\ PredAt(d) /\ NextAt(d) /\ TakenAt(d)
  BY DEF Links
<1>o. PlacesDiffer(pos) /\ PlaceAfterPred(pos) /\ TailLast(pos) /\ HeadFirst(pos)
  BY DEF Order
<1>1. PlacesDiffer(pos)'
  BY <1>t, <1>i, <1>o DEF Spins, Moves, SpinPC, LeavePC, HeadPC,
     PlacesDiffer, InQueue
<1>2. PlaceAfterPred(pos)'
  BY <1>t, <1>i, <1>o DEF Spins, Moves, SpinPC, LeavePC, HeadPC,
     PlaceAfterPred, PlacesDiffer, InQueue, Behind, Pred, PredAt, EntryAt, NextAt, TakenAt, Waits
<1>3. TailLast(pos)'
  BY <1>t, <1>i, <1>o DEF Spins, Moves, SpinPC, LeavePC, HeadPC,
     TailLast, PlaceAfterPred, PlacesDiffer, HeadFirst, AtHead, InQueue, Behind, Pred, PredAt, TailAt, TakenAt
<1>4. HeadFirst(pos)'
  BY <1>t, <1>i, <1>o DEF Spins, Moves, SpinPC, LeavePC, HeadPC,
     HeadFirst, PlaceAfterPred, PlacesDiffer, AtHead, InQueue, Behind, Pred, PredAt, EntryAt, TakenAt, Waits
<1> QED BY <1>1, <1>2, <1>3, <1>4

(* Step-A keeps the order. *)
LEMMA UnlinksOrder ==
  ASSUME Links, NEW c \in Cpus, Unlinks(c), NEW pos \in [Cpus -> Nat], Order(pos)
  PROVE  (PlacesDiffer(pos) /\ PlaceAfterPred(pos) /\ TailLast(pos) /\ HeadFirst(pos))'
<1>t. /\ tail \in Cpus \cup {NULL} /\ next \in [Cpus -> Cpus \cup {NULL}] /\ prev \in [Cpus -> Cpus \cup {NULL}]
      /\ locked \in [Cpus -> BOOLEAN] /\ pc \in [Cpus -> PC] /\ myprev \in [Cpus -> Cpus \cup {NULL}]
      /\ mynext \in [Cpus -> Cpus \cup {NULL}] /\ NULL \notin Cpus
  BY DEF Links, QueueTypes, NodeOrNull
<1>i. /\ TailAt
      /\ \A d \in Cpus : EntryAt(d) /\ PredAt(d) /\ NextAt(d) /\ TakenAt(d)
  BY DEF Links
<1>o. PlacesDiffer(pos) /\ PlaceAfterPred(pos) /\ TailLast(pos) /\ HeadFirst(pos)
  BY DEF Order
<1>1. PlacesDiffer(pos)'
  BY <1>t, <1>i, <1>o DEF Unlinks, Moves, SpinPC, LeavePC, HeadPC,
     PlacesDiffer, InQueue
<1>2. PlaceAfterPred(pos)'
  BY <1>t, <1>i, <1>o DEF Unlinks, Moves, SpinPC, LeavePC, HeadPC,
     PlaceAfterPred, PlacesDiffer, InQueue, Behind, Pred, PredAt, EntryAt, NextAt, TakenAt, Waits
<1>3. TailLast(pos)'
  BY <1>t, <1>i, <1>o DEF Unlinks, Moves, SpinPC, LeavePC, HeadPC,
     TailLast, PlaceAfterPred, PlacesDiffer, HeadFirst, AtHead, InQueue, Behind, Pred, PredAt, TailAt, TakenAt
<1>4. HeadFirst(pos)'
  BY <1>t, <1>i, <1>o DEF Unlinks, Moves, SpinPC, LeavePC, HeadPC,
     HeadFirst, PlaceAfterPred, PlacesDiffer, AtHead, InQueue, Behind, Pred, PredAt, EntryAt, TakenAt, Waits
<1> QED BY <1>1, <1>2, <1>3, <1>4

(* A turn of the loop of osq_wait_next() keeps the order. *)
LEMMA TurnsOrder ==
  ASSUME Links, NEW c \in Cpus, Turns(c), NEW pos \in [Cpus -> Nat], Order(pos)
  PROVE  (PlacesDiffer(pos) /\ PlaceAfterPred(pos) /\ TailLast(pos) /\ HeadFirst(pos))'
<1>t. /\ tail \in Cpus \cup {NULL} /\ next \in [Cpus -> Cpus \cup {NULL}] /\ prev \in [Cpus -> Cpus \cup {NULL}]
      /\ locked \in [Cpus -> BOOLEAN] /\ pc \in [Cpus -> PC] /\ myprev \in [Cpus -> Cpus \cup {NULL}]
      /\ mynext \in [Cpus -> Cpus \cup {NULL}] /\ NULL \notin Cpus
  BY DEF Links, QueueTypes, NodeOrNull
<1>i. /\ TailAt
      /\ \A d \in Cpus : EntryAt(d) /\ PredAt(d) /\ NextAt(d) /\ TakenAt(d)
  BY DEF Links
<1>o. PlacesDiffer(pos) /\ PlaceAfterPred(pos) /\ TailLast(pos) /\ HeadFirst(pos)
  BY DEF Order
<1>1. PlacesDiffer(pos)'
  BY <1>t, <1>i, <1>o DEF Turns, Moves, SpinPC, LeavePC, HeadPC,
     PlacesDiffer, InQueue
<1>2. PlaceAfterPred(pos)'
  BY <1>t, <1>i, <1>o DEF Turns, Moves, SpinPC, LeavePC, HeadPC,
     PlaceAfterPred, PlacesDiffer, InQueue, Behind, Pred, PredAt, EntryAt, NextAt, TakenAt, Waits
<1>3. TailLast(pos)'
  BY <1>t, <1>i, <1>o DEF Turns, Moves, SpinPC, LeavePC, HeadPC,
     TailLast, PlaceAfterPred, PlacesDiffer, HeadFirst, AtHead, InQueue, Behind, Pred, PredAt, TailAt, TakenAt
<1>4. HeadFirst(pos)'
  BY <1>t, <1>i, <1>o DEF Turns, Moves, SpinPC, LeavePC, HeadPC,
     HeadFirst, PlaceAfterPred, PlacesDiffer, AtHead, InQueue, Behind, Pred, PredAt, EntryAt, TakenAt, Waits
<1> QED BY <1>1, <1>2, <1>3, <1>4

(* Leaving as the last of the queue keeps the order. *)
LEMMA LeavesTailOrder ==
  ASSUME Links, NEW c \in Cpus, LeavesTail(c), NEW pos \in [Cpus -> Nat], Order(pos)
  PROVE  (PlacesDiffer(pos) /\ PlaceAfterPred(pos) /\ TailLast(pos) /\ HeadFirst(pos))'
<1>t. /\ tail \in Cpus \cup {NULL} /\ next \in [Cpus -> Cpus \cup {NULL}] /\ prev \in [Cpus -> Cpus \cup {NULL}]
      /\ locked \in [Cpus -> BOOLEAN] /\ pc \in [Cpus -> PC] /\ myprev \in [Cpus -> Cpus \cup {NULL}]
      /\ mynext \in [Cpus -> Cpus \cup {NULL}] /\ NULL \notin Cpus
  BY DEF Links, QueueTypes, NodeOrNull
<1>i. /\ TailAt
      /\ \A d \in Cpus : EntryAt(d) /\ PredAt(d) /\ NextAt(d) /\ TakenAt(d)
  BY DEF Links
<1>o. PlacesDiffer(pos) /\ PlaceAfterPred(pos) /\ TailLast(pos) /\ HeadFirst(pos)
  BY DEF Order
<1>1. PlacesDiffer(pos)'
  BY <1>t, <1>i, <1>o DEF LeavesTail, Moves, SpinPC, LeavePC, HeadPC,
     PlacesDiffer, InQueue
<1>2. PlaceAfterPred(pos)'
  BY <1>t, <1>i, <1>o DEF LeavesTail, Moves, SpinPC, LeavePC, HeadPC,
     PlaceAfterPred, PlacesDiffer, InQueue, Behind, Pred, PredAt, EntryAt, NextAt, TakenAt, Waits
<1>3. TailLast(pos)'
  <2>1. pc[c] = "unqueue_tail" /\ tail = c /\ tail' = myprev[c] /\ myprev[c] \in Cpus /\ Pred(c) = myprev[c] /\ Behind(c)
    BY <1>t, <1>i DEF LeavesTail, LeavePC, SpinPC, PredAt, Behind, Pred
  <2> SUFFICES ASSUME NEW d \in Cpus, InQueue(d)' PROVE pos[d] <= pos[myprev[c]]
    BY <1>t, <2>1 DEF TailLast
  <2>2. d # c /\ InQueue(d) /\ InQueue(c)
    BY <1>t, <2>1 DEF LeavesTail, Moves, InQueue
  <2>3. pos[d] <= pos[c] /\ pos[d] # pos[c]
    BY <1>o, <2>1, <2>2 DEF TailLast, PlacesDiffer
  <2>4. pos[d] < pos[c]
    BY <2>3
  <2> QED BY <1>o, <2>1, <2>2, <2>4 DEF PlaceAfterPred
<1>4. HeadFirst(pos)'
  BY <1>t, <1>i, <1>o DEF LeavesTail, Moves, SpinPC, LeavePC, HeadPC,
     HeadFirst, PlaceAfterPred, PlacesDiffer, AtHead, InQueue, Behind, Pred, PredAt, EntryAt, TakenAt, Waits
<1> QED BY <1>1, <1>2, <1>3, <1>4

(* Unlocking as the last of the queue keeps the order. *)
LEMMA UnlocksTailOrder ==
  ASSUME Links, NEW c \in Cpus, UnlocksTail(c), NEW pos \in [Cpus -> Nat], Order(pos)
  PROVE  (PlacesDiffer(pos) /\ PlaceAfterPred(pos) /\ TailLast(pos) /\ HeadFirst(pos))'
<1>t. /\ tail \in Cpus \cup {NULL} /\ next \in [Cpus -> Cpus \cup {NULL}] /\ prev \in [Cpus -> Cpus \cup {NULL}]
      /\ locked \in [Cpus -> BOOLEAN] /\ pc \in [Cpus -> PC] /\ myprev \in [Cpus -> Cpus \cup {NULL}]
      /\ mynext \in [Cpus -> Cpus \cup {NULL}] /\ NULL \notin Cpus
  BY DEF Links, QueueTypes, NodeOrNull
<1>i. /\ TailAt
      /\ \A d \in Cpus : EntryAt(d) /\ PredAt(d) /\ NextAt(d) /\ TakenAt(d)
  BY DEF Links
<1>o. PlacesDiffer(pos) /\ PlaceAfterPred(pos) /\ TailLast(pos) /\ HeadFirst(pos)
  BY DEF Order
<1>1. PlacesDiffer(pos)'
  BY <1>t, <1>i, <1>o DEF UnlocksTail, Moves, SpinPC, LeavePC, HeadPC,
     PlacesDiffer, InQueue
<1>2. PlaceAfterPred(pos)'
  BY <1>t, <1>i, <1>o DEF UnlocksTail, Moves, SpinPC, LeavePC, HeadPC,
     PlaceAfterPred, PlacesDiffer, InQueue, Behind, Pred, PredAt, EntryAt, NextAt, TakenAt, Waits
<1>3. TailLast(pos)'
  BY <1>t, <1>i, <1>o DEF UnlocksTail, Moves, SpinPC, LeavePC, HeadPC,
     TailLast, PlaceAfterPred, PlacesDiffer, HeadFirst, AtHead, InQueue, Behind, Pred, PredAt, TailAt, TakenAt
<1>4. HeadFirst(pos)'
  BY <1>t, <1>i, <1>o DEF UnlocksTail, Moves, SpinPC, LeavePC, HeadPC,
     HeadFirst, PlaceAfterPred, PlacesDiffer, AtHead, InQueue, Behind, Pred, PredAt, EntryAt, TakenAt, Waits
<1> QED BY <1>1, <1>2, <1>3, <1>4

(* Taking the next pointer keeps the order. *)
LEMMA TakesNextOrder ==
  ASSUME Links, NEW c \in Cpus, TakesNext(c), NEW pos \in [Cpus -> Nat], Order(pos)
  PROVE  (PlacesDiffer(pos) /\ PlaceAfterPred(pos) /\ TailLast(pos) /\ HeadFirst(pos))'
<1>t. /\ tail \in Cpus \cup {NULL} /\ next \in [Cpus -> Cpus \cup {NULL}] /\ prev \in [Cpus -> Cpus \cup {NULL}]
      /\ locked \in [Cpus -> BOOLEAN] /\ pc \in [Cpus -> PC] /\ myprev \in [Cpus -> Cpus \cup {NULL}]
      /\ mynext \in [Cpus -> Cpus \cup {NULL}] /\ NULL \notin Cpus
  BY DEF Links, QueueTypes, NodeOrNull
<1>i. /\ TailAt
      /\ \A d \in Cpus : EntryAt(d) /\ PredAt(d) /\ NextAt(d) /\ TakenAt(d)
  BY DEF Links
<1>o. PlacesDiffer(pos) /\ PlaceAfterPred(pos) /\ TailLast(pos) /\ HeadFirst(pos)
  BY DEF Order
<1>1. PlacesDiffer(pos)'
  BY <1>t, <1>i, <1>o DEF TakesNext, Moves, SpinPC, LeavePC, HeadPC,
     PlacesDiffer, InQueue
<1>2. PlaceAfterPred(pos)'
  BY <1>t, <1>i, <1>o, SMTT(60) DEF TakesNext, Moves, SpinPC, LeavePC, HeadPC,
     PlaceAfterPred, PlacesDiffer, InQueue, Behind, Pred, PredAt, EntryAt, NextAt, TakenAt, Waits
<1>3. TailLast(pos)'
  BY <1>t, <1>i, <1>o DEF TakesNext, Moves, SpinPC, LeavePC, HeadPC,
     TailLast, PlaceAfterPred, PlacesDiffer, HeadFirst, AtHead, InQueue, Behind, Pred, PredAt, TailAt, TakenAt
<1>4. HeadFirst(pos)'
  BY <1>t, <1>i, <1>o DEF TakesNext, Moves, SpinPC, LeavePC, HeadPC,
     HeadFirst, PlaceAfterPred, PlacesDiffer, AtHead, InQueue, Behind, Pred, PredAt, EntryAt, TakenAt, Waits
<1> QED BY <1>1, <1>2, <1>3, <1>4

(* The first half of Step-C keeps the order. *)
LEMMA LinksPrevOrder ==
  ASSUME Links, NEW c \in Cpus, LinksPrev(c), NEW pos \in [Cpus -> Nat], Order(pos)
  PROVE  (PlacesDiffer(pos) /\ PlaceAfterPred(pos) /\ TailLast(pos) /\ HeadFirst(pos))'
<1>t. /\ tail \in Cpus \cup {NULL} /\ next \in [Cpus -> Cpus \cup {NULL}] /\ prev \in [Cpus -> Cpus \cup {NULL}]
      /\ locked \in [Cpus -> BOOLEAN] /\ pc \in [Cpus -> PC] /\ myprev \in [Cpus -> Cpus \cup {NULL}]
      /\ mynext \in [Cpus -> Cpus \cup {NULL}] /\ NULL \notin Cpus
  BY DEF Links, QueueTypes, NodeOrNull
<1>i. /\ TailAt
      /\ \A d \in Cpus : EntryAt(d) /\ PredAt(d) /\ NextAt(d) /\ TakenAt(d)
  BY DEF Links
<1>o. PlacesDiffer(pos) /\ PlaceAfterPred(pos) /\ TailLast(pos) /\ HeadFirst(pos)
  BY DEF Order
<1>1. PlacesDiffer(pos)'
  BY <1>t, <1>i, <1>o DEF LinksPrev, Moves, SpinPC, LeavePC, HeadPC,
     PlacesDiffer, InQueue
<1>2. PlaceAfterPred(pos)'
  <2>0. pc[c] = "link_next_prev" /\ mynext[c] \in Cpus
    BY <1>i DEF LinksPrev, TakenAt
  <2> PICK n \in Cpus : n = mynext[c]
    BY <2>0
  <2>1. /\ pc[c] = "link_next_prev" /\ n \in Cpus /\ pc[n] \in SpinPC /\ ~locked[n] /\ prev[n] = c
        /\ Behind(c) /\ Pred(c) = myprev[c] /\ myprev[c] \in Cpus /\ InQueue(c) /\ Behind(n) /\ Pred(n) = c /\ n # c
    BY <1>t, <1>i DEF LinksPrev, LeavePC, SpinPC, PredAt, Behind, Pred, TakenAt, Waits, InQueue
  <2>2. /\ \A d \in Cpus \ {c} : pc'[d] = pc[d] /\ myprev'[d] = myprev[d]
        /\ pc'[c] = "link_prev_next" /\ locked' = locked
        /\ prev'[n] = myprev[c] /\ \A d \in Cpus \ {n} : prev'[d] = prev[d]
    BY <1>t, <2>1 DEF LinksPrev, Moves
  <2>3. \A d \in Cpus : InQueue(d)' <=> InQueue(d) /\ d # c
    BY <2>2 DEF InQueue
  <2>4. \A d \in Cpus : Behind(d)' => Behind(d) /\ d # c
    BY <2>2 DEF Behind, LeavePC, SpinPC
  <2>5. Pred(n)' = myprev[c] /\ \A d \in Cpus \ {c, n} : Pred(d)' = Pred(d)
    BY <2>1, <2>2 DEF Pred
  <2>6. /\ pos[myprev[c]] < pos[c] /\ pos[c] < pos[n] /\ pos[c] \in Nat /\ pos[n] \in Nat /\ pos[myprev[c]] \in Nat
    BY <1>o, <2>1 DEF PlaceAfterPred
  <2>7. ASSUME NEW d \in Cpus, InQueue(d)', pos[d] < pos[n] PROVE pos[d] <= pos[myprev[c]]
    <3>1. InQueue(d) /\ d # c
      BY <2>3, <2>7
    <3>2. pos[d] <= pos[c]
      BY <1>o, <2>1, <2>7, <3>1 DEF PlaceAfterPred
    <3>3. pos[d] # pos[c]
      BY <1>o, <2>1, <3>1 DEF PlacesDiffer
    <3>4. pos[d] < pos[c]
      BY <3>2, <3>3
    <3> QED BY <1>o, <2>1, <3>1, <3>4 DEF PlaceAfterPred
  <2> SUFFICES ASSUME NEW e \in Cpus, Behind(e)'
               PROVE  /\ pos[Pred(e)'] < pos[e]
                      /\ \A d \in Cpus : InQueue(d)' /\ pos[d] < pos[e] => pos[d] <= pos[Pred(e)']
    BY DEF PlaceAfterPred
  <2>8. CASE e = n
    BY <2>5, <2>6, <2>7, <2>8
  <2>9. CASE e # n
    BY <1>o, <2>3, <2>4, <2>5, <2>9 DEF PlaceAfterPred
  <2> QED BY <2>8, <2>9
<1>3. TailLast(pos)'
  BY <1>t, <1>i, <1>o DEF LinksPrev, Moves, SpinPC, LeavePC, HeadPC,
     TailLast, PlaceAfterPred, PlacesDiffer, HeadFirst, AtHead, InQueue, Behind, Pred, PredAt, TailAt, TakenAt
<1>4. HeadFirst(pos)'
  BY <1>t, <1>i, <1>o DEF LinksPrev, Moves, SpinPC, LeavePC, HeadPC,
     HeadFirst, PlaceAfterPred, PlacesDiffer, AtHead, InQueue, Behind, Pred, PredAt, EntryAt, TakenAt, Waits
<1> QED BY <1>1, <1>2, <1>3, <1>4

(* The second half of Step-C keeps the order. *)
LEMMA LinksNextOrder ==
  ASSUME Links, NEW c \in Cpus, LinksNext(c), NEW pos \in [Cpus -> Nat], Order(pos)
  PROVE  (PlacesDiffer(pos) /\ PlaceAfterPred(pos) /\ TailLast(pos) /\ HeadFirst(pos))'
<1>t. /\ tail \in Cpus \cup {NULL} /\ next \in [Cpus -> Cpus \cup {NULL}] /\ prev \in [Cpus -> Cpus \cup {NULL}]
      /\ locked \in [Cpus -> BOOLEAN] /\ pc \in [Cpus -> PC] /\ myprev \in [Cpus -> Cpus \cup {NULL}]
      /\ mynext \in [Cpus -> Cpus \cup {NULL}] /\ NULL \notin Cpus
  BY DEF Links, QueueTypes, NodeOrNull
<1>i. /\ TailAt
      /\ \A d \in Cpus : EntryAt(d) /\ PredAt(d) /\ NextAt(d) /\ TakenAt(d)
  BY DEF Links
<1>o. PlacesDiffer(pos) /\ PlaceAfterPred(pos) /\ TailLast(pos) /\ HeadFirst(pos)
  BY DEF Order
<1>1. PlacesDiffer(pos)'
  BY <1>t, <1>i, <1>o DEF LinksNext, Moves, SpinPC, LeavePC, HeadPC,
     PlacesDiffer, InQueue
<1>2. PlaceAfterPred(pos)'
  BY <1>t, <1>i, <1>o DEF LinksNext, Moves, SpinPC, LeavePC, HeadPC,
     PlaceAfterPred, PlacesDiffer, InQueue, Behind, Pred, PredAt, EntryAt, NextAt, TakenAt, Waits
<1>3. TailLast(pos)'
  BY <1>t, <1>i, <1>o DEF LinksNext, Moves, SpinPC, LeavePC, HeadPC,
     TailLast, PlaceAfterPred, PlacesDiffer, HeadFirst, AtHead, InQueue, Behind, Pred, PredAt, TailAt, TakenAt
<1>4. HeadFirst(pos)'
  BY <1>t, <1>i, <1>o DEF LinksNext, Moves, SpinPC, LeavePC, HeadPC,
     HeadFirst, PlaceAfterPred, PlacesDiffer, AtHead, InQueue, Behind, Pred, PredAt, EntryAt, TakenAt, Waits
<1> QED BY <1>1, <1>2, <1>3, <1>4

(* Passing the lock on keeps the order. *)
LEMMA PassesOrder ==
  ASSUME Links, NEW c \in Cpus, Passes(c), NEW pos \in [Cpus -> Nat], Order(pos)
  PROVE  (PlacesDiffer(pos) /\ PlaceAfterPred(pos) /\ TailLast(pos) /\ HeadFirst(pos))'
<1>t. /\ tail \in Cpus \cup {NULL} /\ next \in [Cpus -> Cpus \cup {NULL}] /\ prev \in [Cpus -> Cpus \cup {NULL}]
      /\ locked \in [Cpus -> BOOLEAN] /\ pc \in [Cpus -> PC] /\ myprev \in [Cpus -> Cpus \cup {NULL}]
      /\ mynext \in [Cpus -> Cpus \cup {NULL}] /\ NULL \notin Cpus
  BY DEF Links, QueueTypes, NodeOrNull
<1>i. /\ TailAt
      /\ \A d \in Cpus : EntryAt(d) /\ PredAt(d) /\ NextAt(d) /\ TakenAt(d)
  BY DEF Links
<1>o. PlacesDiffer(pos) /\ PlaceAfterPred(pos) /\ TailLast(pos) /\ HeadFirst(pos)
  BY DEF Order
<1>1. PlacesDiffer(pos)'
  BY <1>t, <1>i, <1>o DEF Passes, Moves, SpinPC, LeavePC, HeadPC,
     PlacesDiffer, InQueue
<1>2. PlaceAfterPred(pos)'
  BY <1>t, <1>i, <1>o DEF Passes, Moves, SpinPC, LeavePC, HeadPC,
     PlaceAfterPred, PlacesDiffer, InQueue, Behind, Pred, PredAt, EntryAt, NextAt, TakenAt, Waits
<1>3. TailLast(pos)'
  BY <1>t, <1>i, <1>o DEF Passes, Moves, SpinPC, LeavePC, HeadPC,
     TailLast, PlaceAfterPred, PlacesDiffer, HeadFirst, AtHead, InQueue, Behind, Pred, PredAt, TailAt, TakenAt
<1>4. HeadFirst(pos)'
  <2> DEFINE n == mynext[c]
  <2>1. /\ pc[c] = "pass" /\ n \in Cpus /\ pc[n] \in SpinPC /\ ~locked[n] /\ prev[n] = c
        /\ Behind(n) /\ Pred(n) = c /\ n # c /\ AtHead(c) /\ InQueue(c)
    BY <1>t, <1>i DEF Passes, SpinPC, HeadPC, Behind, Pred, TakenAt, Waits, AtHead, InQueue
  <2>2. /\ \A d \in Cpus \ {c} : pc'[d] = pc[d]
        /\ pc'[c] = "idle" /\ \A d \in Cpus \ {n} : locked'[d] = locked[d]
    BY <1>t, <2>1 DEF Passes, Moves
  <2>3. \A d \in Cpus : AtHead(d)' => d = n \/ (AtHead(d) /\ d # c)
    BY <2>2 DEF AtHead, HeadPC, SpinPC
  <2>4. \A d \in Cpus : InQueue(d)' <=> InQueue(d) /\ d # c
    BY <2>2 DEF InQueue
  <2>5. ASSUME NEW d \in Cpus, InQueue(d)' PROVE pos[n] <= pos[d]
    <3>1. InQueue(d) /\ d # c /\ pos[d] \in Nat /\ pos[n] \in Nat /\ pos[c] \in Nat
      BY <2>1, <2>4, <2>5
    <3>2. pos[c] <= pos[d] /\ pos[c] # pos[d]
      BY <1>o, <2>1, <3>1 DEF HeadFirst, PlacesDiffer
    <3>3. ~(pos[d] <= pos[c])
      BY <3>1, <3>2
    <3>4. ~(pos[d] < pos[n])
      BY <1>o, <2>1, <3>1, <3>3 DEF PlaceAfterPred
    <3> QED BY <3>1, <3>4
  <2>6. \A d, e \in Cpus : AtHead(d) /\ d # c => FALSE
    BY <2>1 DEF Links, OneHead
  <2> QED BY <2>3, <2>5, <2>6 DEF HeadFirst
<1> QED BY <1>1, <1>2, <1>3, <1>4

(* A sorted list stays sorted when an entry leaves it. *)
LEMMA SortedDel ==
  ASSUME NEW q \in Seq(Cpus), NEW c \in ToSet(q), NEW pos \in [Cpus -> Nat],
         \A i, j \in 1..Len(q) : i < j => pos[q[i]] < pos[q[j]]
  PROVE  LET r == list_del(q, c)
         IN  \A i, j \in 1..Len(r) : i < j => pos[r[i]] < pos[r[j]]
<1> DEFINE r == list_del(q, c)
<1>1. KeepsOrder(r, q)
  BY ListDelOrder
<1> HIDE DEF r
<1>2. ASSUME NEW i \in 1..Len(r), NEW j \in 1..Len(r), i < j PROVE pos[r[i]] < pos[r[j]]
  <2>1. PICK k \in 1..Len(q), l \in 1..Len(q) : k < l /\ r[i] = q[k] /\ r[j] = q[l]
    BY <1>1, <1>2 DEF KeepsOrder
  <2>2. pos[q[k]] < pos[q[l]]
    BY <2>1
  <2> QED BY <2>1, <2>2
<1> QED BY <1>2 DEF r

(* A call that finds the queue empty is first and last in it. *)
LEMMA TakesFreeOrder ==
  ASSUME Links, Arrivals, NEW c \in Cpus, TakesFree(c), NEW pos \in [Cpus -> Nat], Order(pos)
  PROVE  Order(pos)'
<1>1. /\ pc \in [Cpus -> PC] /\ tail = NULL /\ tail' = c /\ arrival' = arrival
      /\ pc'[c] = "locked" /\ (\A d \in Cpus \ {c} : pc'[d] = pc[d])
  BY DEF Links, QueueTypes, TakesFree, Moves
<1>2. \A d \in Cpus : ~InQueue(d)
  BY <1>1 DEF Order, TailLast
<1>3. \A d \in Cpus : InQueue(d)' => d = c
  BY <1>1, <1>2 DEF InQueue
<1>4. \A d \in Cpus : ~Behind(d)'
  BY <1>1, <1>2 DEF Behind, InQueue, LeavePC, SpinPC
<1>5. \A d \in Cpus : AtHead(d)' => d = c
  BY <1>1, <1>2 DEF AtHead, InQueue, HeadPC, SpinPC
<1>6. PlacesDiffer(pos)' /\ PlaceAfterPred(pos)' /\ HeadFirst(pos)'
  BY <1>3, <1>4, <1>5 DEF PlacesDiffer, PlaceAfterPred, HeadFirst
<1>7. TailLast(pos)'
  BY <1>1, <1>3 DEF TailLast
<1>8. ArrivalSorted(pos)'
  BY <1>1 DEF Order, ArrivalSorted
<1> QED BY <1>6, <1>7, <1>8 DEF Order

(* A call that joins the queue comes after its tail. *)
LEMMA JoinsOrder ==
  ASSUME Links, Arrivals, NEW c \in Cpus, Joins(c), NEW pos \in [Cpus -> Nat], Order(pos)
  PROVE  \E new \in [Cpus -> Nat] : Order(new)'
<1> PICK t \in Cpus : t = tail
  BY DEF Links, QueueTypes, NodeOrNull, Joins
<1> DEFINE new == [pos EXCEPT ![c] = pos[t] + 1]
<1>1. /\ pc \in [Cpus -> PC] /\ pc[c] = "xchg_tail" /\ tail' = c /\ arrival' = Append(arrival, c)
      /\ pc'[c] = "set_prev" /\ myprev'[c] = t /\ prev' = prev /\ locked' = locked
      /\ \A d \in Cpus \ {c} : pc'[d] = pc[d] /\ myprev'[d] = myprev[d]
  BY DEF Links, QueueTypes, Joins, Moves
<1>2. new \in [Cpus -> Nat] /\ new[c] = pos[t] + 1 /\ (\A d \in Cpus \ {c} : new[d] = pos[d])
  OBVIOUS
<1> HIDE DEF new
<1>3. InQueue(t) /\ t # c
  BY <1>1 DEF Links, TailAt, InQueue
<1>4. \A d \in Cpus : InQueue(d)' <=> InQueue(d) \/ d = c
  BY <1>1 DEF InQueue
<1>5. /\ \A d \in Cpus \ {c} : Behind(d)' => Behind(d) /\ Pred(d)' = Pred(d) /\ Pred(d) \in Cpus \ {c}
      /\ Pred(c)' = t
  <2>1. \A d \in Cpus \ {c} : Behind(d)' => Behind(d) /\ Pred(d)' = Pred(d)
    BY <1>1 DEF Behind, Pred
  <2>2. \A d \in Cpus : Behind(d) => Pred(d) \in Cpus \ {c}
    BY <1>1 DEF Links, PredAt, InQueue
  <2>3. Pred(c)' = t
    BY <1>1 DEF Pred, SpinPC
  <2> QED BY <2>1, <2>2, <2>3
<1>6. \A d \in Cpus : InQueue(d) => pos[d] <= pos[t]
  BY DEF Order, TailLast
<1>7. \A d \in Cpus : InQueue(d) => d # c /\ new[d] = pos[d] /\ new[d] < new[c]
  <2> SUFFICES ASSUME NEW d \in Cpus, InQueue(d) PROVE d # c /\ new[d] = pos[d] /\ new[d] < new[c]
    OBVIOUS
  <2>1. d # c
    BY <1>1 DEF InQueue
  <2>2. new[d] = pos[d] /\ pos[d] <= pos[t] /\ pos[d] \in Nat /\ pos[t] \in Nat
    BY <1>2, <1>6, <2>1
  <2> QED BY <1>2, <2>1, <2>2
<1>8. PlacesDiffer(new)'
  BY <1>2, <1>4, <1>7 DEF Order, PlacesDiffer
<1>9. TailLast(new)'
  BY <1>1, <1>2, <1>4, <1>7 DEF TailLast
<1>10. PlaceAfterPred(new)'
  <2> SUFFICES ASSUME NEW e \in Cpus, Behind(e)'
               PROVE  /\ new[Pred(e)'] < new[e]
                      /\ \A d \in Cpus : InQueue(d)' /\ new[d] < new[e] => new[d] <= new[Pred(e)']
    BY DEF PlaceAfterPred
  <2>1. CASE e = c
    BY <1>2, <1>3, <1>4, <1>5, <1>6, <1>7, <2>1
  <2>2. CASE e # c
    <3>1. Behind(e) /\ Pred(e)' = Pred(e) /\ Pred(e) \in Cpus \ {c} /\ InQueue(e)
      BY <1>5, <2>2 DEF Behind, InQueue, LeavePC, SpinPC
    <3>2. new[e] = pos[e] /\ new[Pred(e)] = pos[Pred(e)]
      BY <1>2, <2>2, <3>1
    <3>3. new[e] < new[c] /\ new[e] \in Nat /\ new[c] \in Nat
      BY <1>2, <1>7, <3>1
    <3>4. pos[Pred(e)] < pos[e] /\ \A d \in Cpus : InQueue(d) /\ pos[d] < pos[e] => pos[d] <= pos[Pred(e)]
      BY <3>1 DEF Order, PlaceAfterPred
    <3>5. \A d \in Cpus : InQueue(d)' /\ new[d] < new[e] => InQueue(d) /\ new[d] = pos[d]
      BY <1>4, <1>7, <3>3
    <3> QED BY <3>1, <3>2, <3>4, <3>5
  <2> QED BY <2>1, <2>2
<1>11. HeadFirst(new)'
  <2>1. \A d \in Cpus : AtHead(d)' => AtHead(d) /\ InQueue(d)
    BY <1>1 DEF AtHead, InQueue, HeadPC, SpinPC
  <2> SUFFICES ASSUME NEW d \in Cpus, NEW e \in Cpus, AtHead(d)', InQueue(e)' PROVE new[d] <= new[e]
    BY DEF HeadFirst
  <2>2. AtHead(d) /\ InQueue(d) /\ new[d] = pos[d] /\ new[d] < new[c] /\ new[d] \in Nat /\ new[c] \in Nat
    BY <1>2, <1>7, <2>1
  <2>3. CASE e = c
    BY <2>2, <2>3
  <2>4. CASE e # c
    BY <1>2, <1>4, <2>2, <2>4 DEF Order, HeadFirst
  <2> QED BY <2>3, <2>4
<1>12. ArrivalSorted(new)'
  <2>1. arrival \in Seq(Cpus) /\ \A i \in 1..Len(arrival) : arrival[i] \in Cpus /\ InQueue(arrival[i])
    <3>1. arrival \in Seq(Cpus) /\ ToSet(arrival) = {d \in Cpus : pc[d] \in WantPC}
      BY DEF Arrivals
    <3>2. \A i \in 1..Len(arrival) : arrival[i] \in ToSet(arrival)
      BY <3>1 DEF ToSet
    <3> QED BY <3>1, <3>2 DEF InQueue, WantPC, SpinPC
  <2>2. /\ Len(arrival') = Len(arrival) + 1 /\ Len(arrival) \in Nat /\ arrival'[Len(arrival) + 1] = c
        /\ \A i \in 1..Len(arrival) : arrival'[i] = arrival[i]
    BY <1>1, <2>1
  <2> SUFFICES ASSUME NEW i \in 1..Len(arrival'), NEW j \in 1..Len(arrival'), i < j
               PROVE  new[arrival'[i]] < new[arrival'[j]]
    BY DEF ArrivalSorted
  <2>3. i \in 1..Len(arrival) /\ arrival'[i] = arrival[i]
    BY <2>2
  <2>4. CASE j = Len(arrival) + 1
    BY <1>7, <2>1, <2>2, <2>3, <2>4
  <2>5. CASE j # Len(arrival) + 1
    <3>1. j \in 1..Len(arrival) /\ arrival'[j] = arrival[j]
      BY <2>2, <2>5
    <3>2. pos[arrival[i]] < pos[arrival[j]]
      BY <2>3, <3>1 DEF Order, ArrivalSorted
    <3> QED BY <1>7, <2>1, <2>3, <3>1, <3>2
  <2> QED BY <2>4, <2>5
<1>13. Order(new)'
  BY <1>8, <1>9, <1>10, <1>11, <1>12 DEF Order
<1> QED BY <1>2, <1>13

(* The order is kept by every other move. *)
LEMMA MoveOrder ==
  ASSUME Links, Arrivals, NEW c \in Cpus, Move(c), NEW pos \in [Cpus -> Nat], Order(pos)
  PROVE  \E new \in [Cpus -> Nat] : Order(new)'
<1>1. CASE TakesFree(c)
  BY <1>1, TakesFreeOrder
<1>2. CASE Joins(c)
  BY <1>2, JoinsOrder
<1>3. CASE ~TakesFree(c) /\ ~Joins(c)
  <2>1. (PlacesDiffer(pos) /\ PlaceAfterPred(pos) /\ TailLast(pos) /\ HeadFirst(pos))'
    BY <1>3, StartsOrder, SetsPrevOrder, SetsNextOrder, AcquiresOrder, SpinsOrder, UnlinksOrder, TurnsOrder,
       LeavesTailOrder, UnlocksTailOrder, TakesNextOrder, LinksPrevOrder, LinksNextOrder, PassesOrder DEF Move
  <2>2. ArrivalSorted(pos)'
    <3>1. ArrivalSorted(pos) /\ arrival \in Seq(Cpus) /\ ToSet(arrival) = {d \in Cpus : pc[d] \in WantPC}
      BY DEF Order, Arrivals
    <3>2. CASE arrival' = arrival
      BY <3>1, <3>2 DEF ArrivalSorted
    <3>3. CASE Acquires(c) \/ Unlinks(c)
      <4>1. c \in ToSet(arrival) /\ arrival' = list_del(arrival, c)
        BY <3>1, <3>3 DEF Acquires, Unlinks, WantPC
      <4> QED BY <3>1, <4>1, SortedDel DEF ArrivalSorted
    <3> QED BY <1>3, <3>2, <3>3 DEF Move, Starts, SetsPrev, SetsNext, Spins, Turns, LeavesTail, UnlocksTail,
         TakesNext, LinksPrev, LinksNext, Passes
  <2> QED BY <2>1, <2>2 DEF Order
<1> QED BY <1>1, <1>2, <1>3

(* Initially the queue is empty. *)
LEMMA InitInv ==
  ASSUME Init
  PROVE  IInv
<1>1. QueueTypes
  BY DEF Init, QueueTypes, NodeOrNull, PC
<1>2. Links
  BY <1>1 DEF Init, Links, TailAt, EntryAt, PredAt, LeavesAt, HeadAt, NextAt, TakenAt, SkippedAt, OneSucc,
     OneLink, OneHead, AtHead, Behind, SpinPC, LeavePC, HeadPC
<1>3. Arrivals
  BY EmptyList DEF Init, Arrivals, WantPC, SpinPC
<1>4. [c \in Cpus |-> 0] \in [Cpus -> Nat] /\ Order([c \in Cpus |-> 0])
  BY DEF Init, Order, PlacesDiffer, PlaceAfterPred, TailLast, HeadFirst, ArrivalSorted, InQueue, Behind,
     AtHead, SpinPC, LeavePC, HeadPC
<1> QED BY <1>2, <1>3, <1>4 DEF IInv

(* A step that changes nothing keeps the invariant. *)
LEMMA StutterInv ==
  ASSUME IInv, UNCHANGED vars
  PROVE  IInv'
<1>1. UNCHANGED <<tail, next, prev, locked, pc, myprev, mynext, arrival>>
  BY DEF vars
<1>2. Links'
  BY <1>1 DEF IInv, Links, QueueTypes, TailAt, EntryAt, PredAt, LeavesAt, HeadAt, NextAt, TakenAt, SkippedAt,
     OneSucc, OneLink, OneHead, AtHead, Behind, Pred, Waits, NoNext, InQueue
<1>3. Arrivals'
  BY <1>1 DEF IInv, Arrivals
<1>4. PICK pos \in [Cpus -> Nat] : Order(pos)
  BY DEF IInv
<1>5. Order(pos)'
  BY <1>1, <1>4 DEF Order, PlacesDiffer, PlaceAfterPred, TailLast, HeadFirst, ArrivalSorted, InQueue, Behind,
     Pred, AtHead
<1> QED BY <1>2, <1>3, <1>5 DEF IInv

(* The invariant always holds. *)
LEMMA Invariance == Spec => []IInv
<1>1. Init => IInv
  BY InitInv
<1>2. IInv /\ [Next]_vars => IInv'
  <2> SUFFICES ASSUME IInv, [Next]_vars PROVE IInv'
    OBVIOUS
  <2>1. CASE UNCHANGED vars
    BY <2>1, StutterInv
  <2>2. CASE Next
    <3>1. Links /\ Arrivals /\ QueueTypes
      BY DEF IInv, Links
    <3>2. PICK pos \in [Cpus -> Nat] : Order(pos)
      BY DEF IInv
    <3>3. PICK c \in Cpus : Move(c)
      BY <2>2, <3>1, NextMoves
    <3>4. Links' /\ Arrivals'
      BY <3>1, <3>3, MoveLinks, MoveArrivals
    <3>5. \E new \in [Cpus -> Nat] : Order(new)'
      BY <3>1, <3>2, <3>3, MoveOrder
    <3> QED BY <3>4, <3>5 DEF IInv
  <2> QED BY <2>1, <2>2
<1> QED BY <1>1, <1>2, PTL DEF Spec

----------------------------------------------------------------------------

(* osq_lock() and osq_unlock() keep every field in its type and never      *)
(* follow a null prev or next.                                             *)
THEOREM TypeCorrect == Spec => []TypeOK
<1>1. IInv => TypeOK
  <2> SUFFICES ASSUME IInv PROVE TypeOK
    OBVIOUS
  <2>1. QueueTypes /\ arrival \in Seq(Cpus)
    BY DEF IInv, Links, Arrivals
  <2>2. \A c \in Cpus : EntryAt(c) /\ PredAt(c) /\ TakenAt(c) /\ SkippedAt(c)
    BY DEF IInv, Links
  <2>3. \A c \in Cpus :
          pc[c] \in {"set_prev", "set_prev_next", "spin", "unqueue", "check_locked",
                     "reload_prev", "unqueue_tail", "unqueue_next",
                     "link_next_prev", "link_prev_next"} => myprev[c] \in Cpus
    BY <2>2 DEF EntryAt, PredAt, SkippedAt, Behind, Pred, SpinPC, LeavePC
  <2>4. \A c \in Cpus : pc[c] \in {"link_next_prev", "link_prev_next", "pass"} => mynext[c] \in Cpus
    BY <2>2 DEF TakenAt, SkippedAt
  <2> QED BY <2>1, <2>3, <2>4 DEF QueueTypes, TypeOK
<1> QED BY <1>1, Invariance, PTL

(* A CPU that has left osq_lock() or osq_unlock() can reuse its node:      *)
(* nobody is about to write into it.                                       *)
THEOREM IdleCorrect == Spec => []NoWriteToIdleNode
<1>1. IInv => NoWriteToIdleNode
  <2> SUFFICES ASSUME IInv, NEW c \in Cpus, pc[c] = "idle"
               PROVE  /\ tail # c
                      /\ \A d \in Cpus :
                           /\ pc[d] \in {"set_prev_next", "link_prev_next"} => myprev[d] # c
                           /\ pc[d] \in {"link_next_prev", "pass"} => mynext[d] # c
    BY DEF NoWriteToIdleNode
  <2>1. TailAt /\ \A d \in Cpus : PredAt(d) /\ TakenAt(d) /\ SkippedAt(d)
    BY DEF IInv, Links
  <2>2. tail # c
    BY <2>1 DEF TailAt, InQueue
  <2>3. \A d \in Cpus : pc[d] = "set_prev_next" => myprev[d] # c
    BY <2>1 DEF PredAt, Behind, Pred, SpinPC, InQueue
  <2>4. \A d \in Cpus : pc[d] = "link_prev_next" => myprev[d] # c
    <3> SUFFICES ASSUME NEW d \in Cpus, pc[d] = "link_prev_next" PROVE myprev[d] # c
      OBVIOUS
    <3>1. mynext[d] \in Cpus /\ Behind(mynext[d]) /\ Pred(mynext[d]) = myprev[d]
      BY <2>1 DEF SkippedAt, Waits, Behind, Pred
    <3> QED BY <2>1, <3>1 DEF PredAt, InQueue
  <2>5. \A d \in Cpus : pc[d] \in {"link_next_prev", "pass"} => mynext[d] # c
    BY <2>1 DEF TakenAt, Waits, SpinPC
  <2> QED BY <2>2, <2>3, <2>4, <2>5
<1> QED BY <1>1, Invariance, PTL

(* While a CPU leaves the queue, its predecessor and its successor stay    *)
(* where they are, as the comment at Step-C says.                          *)
THEOREM NeighboursCorrect == Spec => []NeighboursStable
<1>1. IInv => NeighboursStable
  <2> SUFFICES ASSUME IInv, NEW c \in Cpus
               PROVE  /\ pc[c] \in {"unqueue_tail", "unqueue_next", "link_next_prev", "link_prev_next"} =>
                           /\ next[myprev[c]] = NULL
                           /\ pc[myprev[c]] \notin {"idle", "xchg_tail", "pass"}
                      /\ pc[c] = "link_next_prev" =>
                           /\ prev[mynext[c]] = c
                           /\ pc[mynext[c]] \in {"spin", "unqueue", "check_locked", "reload_prev"}
    BY DEF NeighboursStable
  <2>1. PredAt(c) /\ TakenAt(c) /\ SkippedAt(c) /\ LeavesAt(c) /\ \A d \in Cpus : PredAt(d)
    BY DEF IInv, Links
  <2>2. pc[c] \in LeavePC => next[myprev[c]] = NULL /\ pc[myprev[c]] \notin {"idle", "xchg_tail", "pass"}
    BY <2>1 DEF LeavesAt, NoNext, PredAt, Behind, Pred, InQueue, LeavePC, SpinPC
  <2>3. pc[c] = "link_prev_next" => next[myprev[c]] = NULL /\ pc[myprev[c]] \notin {"idle", "xchg_tail", "pass"}
    BY <2>1 DEF SkippedAt, NoNext, Waits, PredAt, Behind, Pred, InQueue
  <2>4. pc[c] = "link_next_prev" => prev[mynext[c]] = c /\ pc[mynext[c]] \in SpinPC
    BY <2>1 DEF TakenAt, Waits
  <2> QED BY <2>2, <2>3, <2>4 DEF LeavePC, SpinPC
<1> QED BY <1>1, Invariance, PTL

----------------------------------------------------------------------------

(* Taking out the first entry leaves the rest. *)
LEMMA ListDelHead ==
  ASSUME NEW T, NEW q \in Seq(T), NoDuplicates(q), q # <<>>
  PROVE  list_del(q, Head(q)) = Tail(q)
<1> DEFINE e == Head(q)
           k == IndexOf(q, e)
           r == list_del(q, e)
<1>1. Len(q) \in Nat /\ Len(q) >= 1 /\ e = q[1]
  OBVIOUS
<1>2. e \in ToSet(q)
  BY <1>1 DEF ToSet
<1>3. k \in 1..Len(q) /\ q[k] = e
  BY <1>2, IndexOfFound
<1>4. /\ r \in Seq(T) /\ Len(r) = Len(q) - 1
      /\ \A j \in 1..(Len(q) - 1) : r[j] = IF j < k THEN q[j] ELSE q[j + 1]
  BY <1>2, ListDelEntries
<1>5. k = 1
  BY <1>1, <1>3 DEF NoDuplicates
<1> HIDE DEF r, k
<1>6. Tail(q) \in Seq(T) /\ Len(Tail(q)) = Len(q) - 1 /\ \A j \in 1..(Len(q) - 1) : Tail(q)[j] = q[j + 1]
  BY <1>1
<1>7. \A j \in 1..(Len(q) - 1) : r[j] = Tail(q)[j]
  BY <1>1, <1>4, <1>5, <1>6
<1>8. r = Tail(q)
  BY <1>1, <1>4, <1>6, <1>7
<1> QED BY <1>8 DEF r

(* The holder, when there is one and when there is none *)
LEMMA TheHolderIs ==
  /\ Holders = {} => TheHolder = NULL
  /\ \A c \in Cpus : Holders = {c} => TheHolder = c
<1>1. ASSUME NEW c \in Cpus, Holders = {c} PROVE TheHolder = c
  <2>1. Holders # {} /\ \A x : x \in Holders <=> x = c
    BY <1>1
  <2>2. (CHOOSE x \in Holders : TRUE) \in Holders
    BY <2>1
  <2> QED BY <2>1, <2>2 DEF TheHolder
<1> QED BY <1>1 DEF TheHolder

(* The same after a step *)
LEMMA TheHolderNext ==
  (/\ Holders = {} => TheHolder = NULL
   /\ \A c \in Cpus : Holders = {c} => TheHolder = c)'
BY TheHolderIs, PTL

(* A move that leaves the locked CPUs and the waiters alone *)
Unseen == UNCHANGED <<Holders, arrival>>

(* shows as no step of the abstract lock. *)
LEMMA UnseenStep == Unseen => [QL!Next]_(QL!qvars)
BY DEF Unseen, TheHolder, QL!qvars

(* Who is at the head is the first of those that want the lock. *)
LEMMA HeadIsFirst ==
  ASSUME IInv, NEW c \in Cpus, pc[c] \in SpinPC, locked[c]
  PROVE  arrival # <<>> /\ Head(arrival) = c
<1>1. /\ arrival \in Seq(Cpus) /\ Len(arrival) \in Nat
      /\ ToSet(arrival) = {d \in Cpus : pc[d] \in WantPC}
  BY DEF IInv, Arrivals
<1>2. PICK pos \in [Cpus -> Nat] : Order(pos)
  BY DEF IInv
<1>3. c \in ToSet(arrival)
  BY <1>1 DEF WantPC
<1>4. PICK i \in 1..Len(arrival) : arrival[i] = c
  BY <1>3 DEF ToSet
<1>5. arrival # <<>> /\ Head(arrival) = arrival[1] /\ 1 \in 1..Len(arrival)
  BY <1>1, <1>4
<1>6. arrival[1] \in Cpus /\ InQueue(arrival[1])
  <2>1. arrival[1] \in ToSet(arrival)
    BY <1>5 DEF ToSet
  <2> QED BY <1>1, <2>1 DEF InQueue, WantPC, SpinPC
<1>7. pos[c] <= pos[arrival[1]]
  BY <1>2, <1>6 DEF Order, HeadFirst, AtHead
<1>8. i = 1
  <2>1. 1 < i => pos[arrival[1]] < pos[arrival[i]]
    BY <1>2, <1>5 DEF Order, ArrivalSorted
  <2>2. pos[c] \in Nat /\ pos[arrival[1]] \in Nat
    BY <1>6
  <2> QED BY <1>4, <1>7, <2>1, <2>2
<1> QED BY <1>4, <1>5, <1>8

(* The lock is had, waited for and left in the steps of the abstract lock. *)
LEMMA MoveRefines ==
  ASSUME IInv, NEW c \in Cpus, Move(c)
  PROVE  [QL!Next]_(QL!qvars)
<1>t. /\ Links /\ QueueTypes /\ pc \in [Cpus -> PC] /\ Arrivals
      /\ arrival \in Seq(Cpus) /\ NoDuplicates(arrival)
      /\ ToSet(arrival) = {d \in Cpus : pc[d] \in WantPC}
      /\ \A d, e \in Cpus : OneHead(d, e)
  BY DEF IInv, Links, QueueTypes, Arrivals
<1>h. /\ Holders = {} => TheHolder = NULL
      /\ \A d \in Cpus : Holders = {d} => TheHolder = d
      /\ Holders' = {} => TheHolder' = NULL
      /\ \A d \in Cpus : Holders' = {d} => TheHolder' = d
  BY TheHolderIs, TheHolderNext
<1>m. \A d \in Cpus : Contains(arrival, d) <=> d \in ToSet(arrival)
  BY <1>t, ContainsToSet
<1>1. CASE TakesFree(c)
  <2>1. PICK pos \in [Cpus -> Nat] : Order(pos)
    BY DEF IInv
  <2>2. \A d \in Cpus : ~InQueue(d)
    BY <1>1, <2>1 DEF TakesFree, Order, TailLast
  <2>3. arrival = <<>>
    <3>1. ToSet(arrival) = {}
      BY <1>t, <2>2 DEF InQueue, WantPC, SpinPC
    <3> QED BY <1>t, <3>1, EmptyToSet
  <2>4. Holders = {} /\ Holders' = {c}
    BY <1>t, <1>1, <2>2 DEF Holders, InQueue, TakesFree, Moves
  <2>5. QL!LockFree(c)
    BY <1>h, <1>1, <2>3, <2>4 DEF QL!LockFree, TakesFree
  <2> QED BY <2>5 DEF QL!Next
<1>2. CASE Joins(c)
  <2>1. UNCHANGED Holders /\ c \notin Holders /\ c \notin ToSet(arrival)
    BY <1>t, <1>2 DEF Joins, Moves, Holders, WantPC, SpinPC
  <2>2. c # TheHolder
    <3>1. CASE Holders = {}
      BY <1>h, <3>1
    <3>2. CASE Holders # {}
      BY <2>1, <3>2 DEF TheHolder
    <3> QED BY <3>1, <3>2
  <2>3. QL!Enqueue(c)
    BY <1>m, <1>2, <2>1, <2>2 DEF QL!Enqueue, QL!Contains, Contains, Joins, TheHolder
  <2> QED BY <2>3 DEF QL!Next
<1>3. CASE Acquires(c)
  <2>1. arrival # <<>> /\ Head(arrival) = c
    BY <1>3, HeadIsFirst DEF Acquires
  <2>2. \A d \in Cpus : pc[d] # "locked"
    BY <1>t, <1>3 DEF Acquires, OneHead, AtHead, HeadPC, SpinPC
  <2>3. Holders = {} /\ Holders' = {c}
    BY <1>t, <1>3, <2>2 DEF Acquires, Moves, Holders
  <2>4. arrival' = Tail(arrival)
    BY <1>t, <1>3, <2>1, ListDelHead DEF Acquires
  <2>5. QL!Acquire(c)
    BY <1>h, <2>1, <2>3, <2>4 DEF QL!Acquire
  <2> QED BY <2>5 DEF QL!Next
<1>4. CASE Unlinks(c)
  <2>1. UNCHANGED Holders /\ c \in ToSet(arrival)
    BY <1>t, <1>4 DEF Unlinks, Moves, Holders, WantPC, SpinPC
  <2>2. QL!GiveUp(c)
    BY <1>m, <1>4, <2>1 DEF QL!GiveUp, QL!Contains, QL!list_del, QL!RemoveAt, QL!IndexOf, Contains, list_del,
       RemoveAt, IndexOf, Unlinks, TheHolder
  <2> QED BY <2>2 DEF QL!Next
<1>5. CASE pc[c] = "locked"
  <2>1. /\ UnlocksTail(c) \/ Turns(c)
        /\ arrival' = arrival /\ pc'[c] # "locked" /\ (\A d \in Cpus \ {c} : pc'[d] = pc[d])
    <3>1. UnlocksTail(c) \/ Turns(c)
      BY <1>5 DEF Move, Starts, TakesFree, Joins, SetsPrev, SetsNext, Acquires, Spins, Unlinks, LeavesTail,
         TakesNext, LinksPrev, LinksNext, Passes, SpinPC, HeadPC
    <3>2. CASE UnlocksTail(c)
      BY <1>t, <3>2 DEF UnlocksTail, Moves
    <3>3. CASE Turns(c)
      BY <1>t, <1>5, <3>3 DEF Turns, Moves
    <3> QED BY <3>1, <3>2, <3>3
  <2>2. \A d \in Cpus : pc[d] = "locked" => d = c
    BY <1>t, <1>5 DEF OneHead, AtHead, HeadPC
  <2>3. Holders = {c} /\ Holders' = {}
    BY <1>5, <2>1, <2>2 DEF Holders
  <2>4. QL!Release(c)
    BY <1>h, <2>1, <2>3 DEF QL!Release
  <2> QED BY <2>4 DEF QL!Next
<1>6. CASE pc[c] # "locked" /\ ~TakesFree(c) /\ ~Joins(c) /\ ~Acquires(c) /\ ~Unlinks(c)
  <2>1. arrival' = arrival
    BY <1>6 DEF Move, Starts, SetsPrev, SetsNext, Spins, Turns, LeavesTail, UnlocksTail, TakesNext, LinksPrev,
       LinksNext, Passes
  <2>2. pc'[c] # "locked" /\ \A d \in Cpus \ {c} : pc'[d] = pc[d]
    <3>1. CASE Turns(c)
      BY <1>t, <3>1 DEF Turns, Moves
    <3>2. CASE Spins(c)
      BY <1>t, <3>2 DEF Spins, SpinPC, Moves
    <3>3. CASE TakesNext(c)
      BY <1>t, <3>3 DEF TakesNext, Moves
    <3> QED BY <1>t, <1>6, <3>1, <3>2, <3>3 DEF Move, Starts, SetsPrev, SetsNext, LeavesTail, UnlocksTail,
         LinksPrev, LinksNext, Passes, Moves
  <2>3. UNCHANGED Holders
    BY <1>6, <2>2 DEF Holders
  <2> QED BY <2>1, <2>3, UnseenStep DEF Unseen
<1> QED BY <1>1, <1>2, <1>3, <1>4, <1>5, <1>6

(* osq_lock() and osq_unlock() are a lock with one holder, whose waiters   *)
(* get it in the order in which they exchanged lock->tail, however many of *)
(* them leave the queue at the same time, next to each other or while the  *)
(* lock is passed on.                                                      *)
THEOREM Refinement == Spec => ImplementsQueueLock
<1>1. Init => QL!Init
  <2> SUFFICES ASSUME Init PROVE QL!Init
    OBVIOUS
  <2>1. Holders = {}
    BY DEF Init, Holders
  <2> QED BY <2>1, TheHolderIs DEF Init, QL!Init
<1>2. ASSUME IInv, [Next]_vars PROVE [QL!Next]_(QL!qvars)
  <2>1. CASE UNCHANGED vars
    <3>1. Unseen
      BY <2>1 DEF vars, Unseen, Holders
    <3> QED BY <3>1, UnseenStep
  <2>2. CASE Next
    <3>1. PICK c \in Cpus : Move(c)
      BY <1>2, <2>2, NextMoves DEF IInv, Links
    <3> QED BY <1>2, <3>1, MoveRefines
  <2> QED BY <1>2, <2>1, <2>2
<1> QED BY <1>1, <1>2, Invariance, PTL DEF Spec, ImplementsQueueLock, QL!Spec

----------------------------------------------------------------------------
(* The semaphore.  Its safety properties are inductive together: that a    *)
(* permit is handed to a waiter that is there needs WaitListExact, and     *)
(* that counting the permits is right needs HandoffWakes and the types.    *)

USE TasksAssumption, InitCountAssumption, MaxTimeoutAssumption, MaxExtraAssumption

SemInv ==
  /\ SemTypeOK
  /\ WaitListExact
  /\ NoPermitPastWaiters
  /\ HandoffWakes
  /\ PermitsConserved

(* What a call or a turn of the loop of __down_common() by task t may be. *)
TaskStep(t) ==
  \/ FastDown(t)
  \/ \E st \in States, to \in 0..MAX_SCHEDULE_TIMEOUT : SlowDown(t, st, to)
  \/ Resume(t) \/ up(t)
  \/ SendSignal(t) \/ TakeSignal(t) \/ TimerExpires(t) \/ SpuriousWakeup(t)

(* The five down*() functions differ only in the state and the timeout     *)
(* they give to __down_common().                                           *)
LEMMA NextCases ==
  ASSUME SemNext
  PROVE  (\E t \in Tasks : TaskStep(t)) \/ up_extra \/ UNCHANGED sem_vars
<1>1. MAX_SCHEDULE_TIMEOUT \in 0..MAX_SCHEDULE_TIMEOUT /\ 0..MaxTimeout \subseteq 0..MAX_SCHEDULE_TIMEOUT
  BY DEF MAX_SCHEDULE_TIMEOUT
<1>2. ASSUME NEW t \in Tasks, NEW st \in States,
             FastDown(t) \/ SlowDown(t, st, MAX_SCHEDULE_TIMEOUT)
      PROVE  TaskStep(t)
  BY <1>1, <1>2 DEF TaskStep
<1>3. ASSUME NEW t \in Tasks, down_timeout(t)
      PROVE  TaskStep(t)
  BY <1>1, <1>3 DEF TaskStep, down_timeout, States
<1>4. {"UNINTERRUPTIBLE", "INTERRUPTIBLE", "KILLABLE"} \subseteq States
  BY DEF States
<1>5. ASSUME NEW t \in Tasks,
             down(t) \/ down_interruptible(t) \/ down_killable(t) \/ down_trylock(t)
      PROVE  TaskStep(t) \/ UNCHANGED sem_vars
  BY <1>2, <1>4, <1>5 DEF down, down_interruptible, down_killable, down_trylock, TaskStep
<1> QED BY <1>3, <1>5 DEF SemNext, TaskStep

(* The first waiter is one that waits and was not given a permit. *)
LEMMA FirstIsWaiting ==
  ASSUME SemTypeOK, WaitListExact, wait_list # <<>>
  PROVE  /\ FirstWaiter \in Tasks /\ FirstWaiter \in ToSet(wait_list)
         /\ Waiting(FirstWaiter) /\ ~waiter_up[FirstWaiter]
<1>1. FirstWaiter \in Tasks /\ FirstWaiter \in ToSet(wait_list)
  BY DEF SemTypeOK, FirstWaiter, ToSet
<1> QED BY <1>1 DEF WaitListExact

(* The wait list and the waiters without a permit change together. *)
LEMMA WaitListStep ==
  ASSUME SemTypeOK, WaitListExact, SemNext
  PROVE  WaitListExact' /\ wait_list' \in Seq(Tasks)
<1> USE DEF SemTypeOK, WaitListExact, Waiting, SemPC
<1>1. ASSUME NEW t \in Tasks, FastDown(t) PROVE WaitListExact' /\ wait_list' \in Seq(Tasks)
  BY <1>1 DEF FastDown
<1>2. ASSUME NEW t \in Tasks, NEW st \in States, NEW to \in 0..MAX_SCHEDULE_TIMEOUT,
             SlowDown(t, st, to) PROVE WaitListExact' /\ wait_list' \in Seq(Tasks)
  <2>1. CASE signal_pending_state(st, signal[t]) \/ to <= 0
    BY <1>2, <2>1 DEF SlowDown
  <2>2. CASE ~(signal_pending_state(st, signal[t]) \/ to <= 0)
    <3>1. t \notin ToSet(wait_list) /\ NoDuplicates(wait_list)
      BY <1>2 DEF SlowDown
    <3>2. /\ list_add_tail(wait_list, t) \in Seq(Tasks)
          /\ ToSet(list_add_tail(wait_list, t)) = ToSet(wait_list) \cup {t}
          /\ NoDuplicates(list_add_tail(wait_list, t))
      BY <3>1, ListAddTail
    <3> QED BY <1>2, <2>2, <3>2 DEF SlowDown
  <2> QED BY <2>1, <2>2
<1>3. ASSUME NEW t \in Tasks, Resume(t) PROVE WaitListExact' /\ wait_list' \in Seq(Tasks)
  <2>1. CASE ~waiter_up[t]
    <3>1. t \in ToSet(wait_list) /\ NoDuplicates(wait_list)
      BY <1>3, <2>1 DEF Resume
    <3>2. /\ list_del(wait_list, t) \in Seq(Tasks)
          /\ ToSet(list_del(wait_list, t)) = ToSet(wait_list) \ {t}
          /\ NoDuplicates(list_del(wait_list, t))
      BY <3>1, ListDel
    <3> QED BY <1>3, <2>1, <3>2 DEF Resume
  <2>2. CASE waiter_up[t]
    BY <1>3, <2>2 DEF Resume
  <2> QED BY <2>1, <2>2
<1>4. ASSUME NEW t \in Tasks, up(t) PROVE WaitListExact' /\ wait_list' \in Seq(Tasks)
  <2>1. CASE wait_list = <<>>
    BY <1>4, <2>1 DEF up, ReleasePermit, Woken
  <2>2. CASE wait_list # <<>>
    <3>1. /\ FirstWaiter \in Tasks /\ FirstWaiter \in ToSet(wait_list)
          /\ Waiting(FirstWaiter) /\ ~waiter_up[FirstWaiter]
      BY <2>2, FirstIsWaiting
    <3>2. /\ list_del(wait_list, FirstWaiter) \in Seq(Tasks)
          /\ ToSet(list_del(wait_list, FirstWaiter)) = ToSet(wait_list) \ {FirstWaiter}
          /\ NoDuplicates(list_del(wait_list, FirstWaiter))
      BY <3>1, ListDel
    <3> QED BY <1>4, <2>2, <3>1, <3>2 DEF up, ReleasePermit, Woken
  <2> QED BY <2>1, <2>2
<1>5. ASSUME NEW t \in Tasks, SendSignal(t) PROVE WaitListExact' /\ wait_list' \in Seq(Tasks)
  BY <1>5 DEF SendSignal
<1>6. ASSUME NEW t \in Tasks, TakeSignal(t) PROVE WaitListExact' /\ wait_list' \in Seq(Tasks)
  BY <1>6 DEF TakeSignal
<1>7. ASSUME NEW t \in Tasks, TimerExpires(t) PROVE WaitListExact' /\ wait_list' \in Seq(Tasks)
  BY <1>7 DEF TimerExpires
<1>8. ASSUME NEW t \in Tasks, SpuriousWakeup(t) PROVE WaitListExact' /\ wait_list' \in Seq(Tasks)
  BY <1>8 DEF SpuriousWakeup
<1>9. ASSUME up_extra PROVE WaitListExact' /\ wait_list' \in Seq(Tasks)
  <2>1. CASE wait_list = <<>>
    BY <1>9, <2>1 DEF up_extra, ReleasePermit, Woken
  <2>2. CASE wait_list # <<>>
    <3>1. /\ FirstWaiter \in Tasks /\ FirstWaiter \in ToSet(wait_list)
          /\ Waiting(FirstWaiter) /\ ~waiter_up[FirstWaiter]
      BY <2>2, FirstIsWaiting
    <3>2. /\ list_del(wait_list, FirstWaiter) \in Seq(Tasks)
          /\ ToSet(list_del(wait_list, FirstWaiter)) = ToSet(wait_list) \ {FirstWaiter}
          /\ NoDuplicates(list_del(wait_list, FirstWaiter))
      BY <3>1, ListDel
    <3> QED BY <1>9, <2>2, <3>1, <3>2 DEF up_extra, ReleasePermit, Woken
  <2> QED BY <2>1, <2>2
<1>10. ASSUME UNCHANGED sem_vars PROVE WaitListExact' /\ wait_list' \in Seq(Tasks)
  BY <1>10 DEF sem_vars
<1> QED
  BY <1>1, <1>2, <1>3, <1>4, <1>5, <1>6, <1>7, <1>8, <1>9, <1>10, NextCases DEF TaskStep

(* up() counts a permit only when the wait list is empty, and down*()      *)
(* queues only when there is none.                                         *)
LEMMA NoPermitStep ==
  ASSUME SemTypeOK, WaitListExact, NoPermitPastWaiters, SemNext
  PROVE  NoPermitPastWaiters'
<1> USE DEF SemTypeOK, NoPermitPastWaiters
<1>1. ASSUME NEW t \in Tasks, FastDown(t) PROVE NoPermitPastWaiters'
  BY <1>1 DEF FastDown
<1>2. ASSUME NEW t \in Tasks, NEW st \in States, NEW to \in 0..MAX_SCHEDULE_TIMEOUT,
             SlowDown(t, st, to) PROVE NoPermitPastWaiters'
  BY <1>2 DEF SlowDown
<1>3. ASSUME NEW t \in Tasks, Resume(t) PROVE NoPermitPastWaiters'
  <2>1. CASE wait_list = <<>>
    <3>1. t \notin ToSet(wait_list)
      BY <2>1 DEF ToSet
    <3>2. waiter_up[t]
      BY <1>3, <3>1 DEF Resume, WaitListExact, Waiting
    <3> QED BY <1>3, <3>2 DEF Resume
  <2>2. CASE wait_list # <<>>
    BY <1>3, <2>2 DEF Resume
  <2> QED BY <2>1, <2>2
<1>4. ASSUME NEW t \in Tasks, up(t) PROVE NoPermitPastWaiters'
  BY <1>4 DEF up, ReleasePermit
<1>5. ASSUME NEW t \in Tasks, SendSignal(t) PROVE NoPermitPastWaiters'
  BY <1>5 DEF SendSignal
<1>6. ASSUME NEW t \in Tasks, TakeSignal(t) PROVE NoPermitPastWaiters'
  BY <1>6 DEF TakeSignal
<1>7. ASSUME NEW t \in Tasks, TimerExpires(t) PROVE NoPermitPastWaiters'
  BY <1>7 DEF TimerExpires
<1>8. ASSUME NEW t \in Tasks, SpuriousWakeup(t) PROVE NoPermitPastWaiters'
  BY <1>8 DEF SpuriousWakeup
<1>9. ASSUME up_extra PROVE NoPermitPastWaiters'
  BY <1>9 DEF up_extra, ReleasePermit
<1>10. ASSUME UNCHANGED sem_vars PROVE NoPermitPastWaiters'
  BY <1>10 DEF sem_vars
<1> QED
  BY <1>1, <1>2, <1>3, <1>4, <1>5, <1>6, <1>7, <1>8, <1>9, <1>10, NextCases DEF TaskStep

(* Whoever is handed a permit is woken in the same step and does not sleep *)
(* again before it has looked.                                             *)
LEMMA HandoffStep ==
  ASSUME SemTypeOK, WaitListExact, HandoffWakes, SemNext
  PROVE  HandoffWakes'
<1> USE DEF SemTypeOK, HandoffWakes, HandedOff, Waiting, SemPC
<1>1. ASSUME NEW t \in Tasks, FastDown(t) PROVE HandoffWakes'
  BY <1>1 DEF FastDown
<1>2. ASSUME NEW t \in Tasks, NEW st \in States, NEW to \in 0..MAX_SCHEDULE_TIMEOUT,
             SlowDown(t, st, to) PROVE HandoffWakes'
  BY <1>2 DEF SlowDown
<1>3. ASSUME NEW t \in Tasks, Resume(t) PROVE HandoffWakes'
  BY <1>3 DEF Resume
<1>4. ASSUME NEW t \in Tasks, up(t) PROVE HandoffWakes'
  <2>1. CASE wait_list = <<>>
    BY <1>4, <2>1 DEF up, ReleasePermit, Woken
  <2>2. CASE wait_list # <<>>
    <3>1. FirstWaiter \in Tasks
      BY <2>2, FirstIsWaiting
    <3> QED BY <1>4, <2>2, <3>1 DEF up, ReleasePermit, Woken
  <2> QED BY <2>1, <2>2
<1>5. ASSUME NEW t \in Tasks, SendSignal(t) PROVE HandoffWakes'
  BY <1>5 DEF SendSignal
<1>6. ASSUME NEW t \in Tasks, TakeSignal(t) PROVE HandoffWakes'
  BY <1>6 DEF TakeSignal
<1>7. ASSUME NEW t \in Tasks, TimerExpires(t) PROVE HandoffWakes'
  BY <1>7 DEF TimerExpires
<1>8. ASSUME NEW t \in Tasks, SpuriousWakeup(t) PROVE HandoffWakes'
  BY <1>8 DEF SpuriousWakeup
<1>9. ASSUME up_extra PROVE HandoffWakes'
  <2>1. CASE wait_list = <<>>
    BY <1>9, <2>1 DEF up_extra, ReleasePermit, Woken
  <2>2. CASE wait_list # <<>>
    <3>1. FirstWaiter \in Tasks
      BY <2>2, FirstIsWaiting
    <3> QED BY <1>9, <2>2, <3>1 DEF up_extra, ReleasePermit, Woken
  <2> QED BY <2>1, <2>2
<1>10. ASSUME UNCHANGED sem_vars PROVE HandoffWakes'
  BY <1>10 DEF sem_vars
<1> QED
  BY <1>1, <1>2, <1>3, <1>4, <1>5, <1>6, <1>7, <1>8, <1>9, <1>10, NextCases DEF TaskStep

(* Every variable keeps its type. *)
LEMMA TypeStep ==
  ASSUME SemTypeOK, WaitListExact, wait_list' \in Seq(Tasks), SemNext
  PROVE  SemTypeOK'
<1> USE DEF SemTypeOK, SemPC, States, Signals, MAX_SCHEDULE_TIMEOUT, JiffiesLeft
<1>1. ASSUME NEW t \in Tasks, FastDown(t) PROVE SemTypeOK'
  BY <1>1 DEF FastDown
<1>2. ASSUME NEW t \in Tasks, NEW st \in States, NEW to \in 0..MAX_SCHEDULE_TIMEOUT,
             SlowDown(t, st, to) PROVE SemTypeOK'
  BY <1>2 DEF SlowDown
<1>3. ASSUME NEW t \in Tasks, Resume(t) PROVE SemTypeOK'
  BY <1>3 DEF Resume
<1>4. ASSUME NEW t \in Tasks, up(t) PROVE SemTypeOK'
  <2>1. CASE wait_list = <<>>
    BY <1>4, <2>1 DEF up, ReleasePermit, Woken
  <2>2. CASE wait_list # <<>>
    <3>1. FirstWaiter \in Tasks
      BY <2>2, FirstIsWaiting
    <3> QED BY <1>4, <2>2, <3>1 DEF up, ReleasePermit, Woken
  <2> QED BY <2>1, <2>2
<1>5. ASSUME NEW t \in Tasks, SendSignal(t) PROVE SemTypeOK'
  BY <1>5 DEF SendSignal
<1>6. ASSUME NEW t \in Tasks, TakeSignal(t) PROVE SemTypeOK'
  BY <1>6 DEF TakeSignal
<1>7. ASSUME NEW t \in Tasks, TimerExpires(t) PROVE SemTypeOK'
  BY <1>7 DEF TimerExpires
<1>8. ASSUME NEW t \in Tasks, SpuriousWakeup(t) PROVE SemTypeOK'
  BY <1>8 DEF SpuriousWakeup
<1>9. ASSUME up_extra PROVE SemTypeOK'
  <2>1. extra' \in 0..MaxExtra /\ UNCHANGED <<state, timeout, signal>>
    BY <1>9 DEF up_extra
  <2>2. count' \in Nat /\ waiter_up' \in [Tasks -> BOOLEAN]
    <3>1. ReleasePermit
      BY <1>9 DEF up_extra
    <3>2. count' \in Nat
      BY <3>1 DEF ReleasePermit
    <3>3. waiter_up' \in [Tasks -> BOOLEAN]
      BY <3>1 DEF ReleasePermit
    <3> QED BY <3>2, <3>3
  <2>3. sem_pc' \in [Tasks -> {"idle", "sleep", "woken", "held"}]
    BY <1>9 DEF up_extra, Woken
  <2> QED BY <2>1, <2>2, <2>3
<1>10. ASSUME UNCHANGED sem_vars PROVE SemTypeOK'
  BY <1>10 DEF sem_vars
<1> QED
  BY <1>1, <1>2, <1>3, <1>4, <1>5, <1>6, <1>7, <1>8, <1>9, <1>10, NextCases DEF TaskStep

(* The holders are finitely many. *)
LEMMA SemHoldersFinite == IsFiniteSet(SemHolders) /\ Cardinality(SemHolders) \in Nat
<1>1. SemHolders \subseteq Tasks
  BY DEF SemHolders
<1> QED BY <1>1, FS_Subset, FS_CardinalityType

(* A step that takes a permit makes one more holder, one that gives it     *)
(* back makes one less, and a handoff moves it.                            *)
LEMMA PermitsStep ==
  ASSUME SemTypeOK, WaitListExact, HandoffWakes, PermitsConserved, SemNext
  PROVE  PermitsConserved'
<1> USE DEF SemTypeOK, PermitsConserved, SemPC
<1>1. ASSUME NEW t \in Tasks, FastDown(t) PROVE PermitsConserved'
  <2>1. SemHolders' = SemHolders \cup {t} /\ t \notin SemHolders
    BY <1>1 DEF FastDown, SemHolders, HandedOff, Waiting
  <2>2. Cardinality(SemHolders') = Cardinality(SemHolders) + 1 /\ Cardinality(SemHolders) \in Nat
    BY <2>1, SemHoldersFinite, FS_AddElement
  <2> QED BY <1>1, <2>2 DEF FastDown
<1>2. ASSUME NEW t \in Tasks, NEW st \in States, NEW to \in 0..MAX_SCHEDULE_TIMEOUT,
             SlowDown(t, st, to) PROVE PermitsConserved'
  <2>1. SemHolders' = SemHolders
    BY <1>2 DEF SlowDown, SemHolders, HandedOff, Waiting
  <2> QED BY <1>2, <2>1 DEF SlowDown
<1>3. ASSUME NEW t \in Tasks, Resume(t) PROVE PermitsConserved'
  <2>1. SemHolders' = SemHolders
    BY <1>3 DEF Resume, SemHolders, HandedOff, Waiting
  <2> QED BY <1>3, <2>1 DEF Resume
<1>4. ASSUME NEW t \in Tasks, up(t) PROVE PermitsConserved'
  <2> DEFINE H == SemHolders \ {t}
  <2>0. Cardinality(H) = Cardinality(SemHolders) - 1 /\ Cardinality(SemHolders) \in Nat
    <3>1. t \in SemHolders
      BY <1>4 DEF up, SemHolders
    <3> QED BY <3>1, SemHoldersFinite, FS_RemoveElement
  <2>1. IsFiniteSet(H) /\ Cardinality(H) \in Nat
    BY SemHoldersFinite, FS_Subset, FS_CardinalityType
  <2>2. CASE wait_list = <<>>
    <3>1. SemHolders' = H /\ count' = count + 1
      BY <1>4, <2>2 DEF up, ReleasePermit, Woken, SemHolders, HandedOff, Waiting
    <3> QED BY <1>4, <2>0, <2>1, <3>1 DEF up
  <2>3. CASE wait_list # <<>>
    <3>1. /\ FirstWaiter \in Tasks
          /\ Waiting(FirstWaiter) /\ ~waiter_up[FirstWaiter]
      BY <2>3, FirstIsWaiting
    <3>2. SemHolders' = H \cup {FirstWaiter} /\ FirstWaiter \notin H /\ count' = count
      BY <1>4, <2>3, <3>1 DEF up, ReleasePermit, Woken, SemHolders, HandedOff, Waiting
    <3>3. Cardinality(SemHolders') = Cardinality(H) + 1
      BY <2>1, <3>2, FS_AddElement
    <3> QED BY <1>4, <2>0, <2>1, <3>2, <3>3 DEF up
  <2> QED BY <2>2, <2>3
<1>5. ASSUME NEW t \in Tasks, SendSignal(t) PROVE PermitsConserved'
  <2>1. SemHolders' = SemHolders
    BY <1>5 DEF SendSignal, SemHolders, HandedOff, Waiting
  <2> QED BY <1>5, <2>1 DEF SendSignal
<1>6. ASSUME NEW t \in Tasks, TakeSignal(t) PROVE PermitsConserved'
  <2>1. SemHolders' = SemHolders
    BY <1>6 DEF TakeSignal, SemHolders, HandedOff, Waiting
  <2> QED BY <1>6, <2>1 DEF TakeSignal
<1>7. ASSUME NEW t \in Tasks, TimerExpires(t) PROVE PermitsConserved'
  <2>1. SemHolders' = SemHolders
    BY <1>7 DEF TimerExpires, SemHolders, HandedOff, Waiting
  <2> QED BY <1>7, <2>1 DEF TimerExpires
<1>8. ASSUME NEW t \in Tasks, SpuriousWakeup(t) PROVE PermitsConserved'
  <2>1. SemHolders' = SemHolders
    BY <1>8 DEF SpuriousWakeup, SemHolders, HandedOff, Waiting
  <2> QED BY <1>8, <2>1 DEF SpuriousWakeup
<1>9. ASSUME up_extra PROVE PermitsConserved'
  <2> DEFINE H == SemHolders
  <2>0. extra' = extra + 1 /\ extra \in Nat /\ count \in Nat
    BY <1>9 DEF up_extra
  <2>1. IsFiniteSet(H) /\ Cardinality(H) \in Nat
    BY SemHoldersFinite, FS_Subset, FS_CardinalityType
  <2>2. CASE wait_list = <<>>
    <3>1. SemHolders' = H /\ count' = count + 1
      BY <1>9, <2>2 DEF up_extra, ReleasePermit, Woken, SemHolders, HandedOff, Waiting
    <3> QED BY <2>0, <2>1, <3>1
  <2>3. CASE wait_list # <<>>
    <3>1. /\ FirstWaiter \in Tasks
          /\ Waiting(FirstWaiter) /\ ~waiter_up[FirstWaiter]
      BY <2>3, FirstIsWaiting
    <3>2. SemHolders' = H \cup {FirstWaiter} /\ FirstWaiter \notin H /\ count' = count
      BY <1>9, <2>3, <3>1 DEF up_extra, ReleasePermit, Woken, SemHolders, HandedOff, Waiting
    <3>3. Cardinality(SemHolders') = Cardinality(H) + 1
      BY <2>1, <3>2, FS_AddElement
    <3>4. count' = count
      BY <3>2
    <3> QED BY <2>0, <2>1, <3>3, <3>4
  <2> QED BY <2>2, <2>3
<1>10. ASSUME UNCHANGED sem_vars PROVE PermitsConserved'
  <2>1. SemHolders' = SemHolders
    BY <1>10 DEF sem_vars, SemHolders, HandedOff, Waiting
  <2> QED BY <1>10, <2>1 DEF sem_vars
<1> QED
  BY <1>1, <1>2, <1>3, <1>4, <1>5, <1>6, <1>7, <1>8, <1>9, <1>10, NextCases DEF TaskStep

(* The invariant holds at first and every step keeps it. *)
LEMMA SemInductive ==
  /\ SemInit => SemInv
  /\ SemInv /\ [SemNext]_sem_vars => SemInv'
<1>1. SemInit => SemInv
  <2> SUFFICES ASSUME SemInit PROVE SemInv
    OBVIOUS
  <2>1. SemTypeOK /\ NoPermitPastWaiters /\ HandoffWakes
    BY DEF SemInit, SemTypeOK, NoPermitPastWaiters, HandoffWakes, HandedOff, Waiting,
           SemPC, States, Signals, MAX_SCHEDULE_TIMEOUT
  <2>2. WaitListExact
    BY DEF SemInit, WaitListExact, Waiting, ToSet, NoDuplicates
  <2>3. SemHolders = {}
    BY DEF SemInit, SemHolders, HandedOff, Waiting
  <2>4. PermitsConserved
    BY <2>3, FS_EmptySet DEF SemInit, PermitsConserved
  <2> QED BY <2>1, <2>2, <2>4 DEF SemInv
<1>2. SemInv /\ SemNext => SemInv'
  BY WaitListStep, NoPermitStep, HandoffStep, TypeStep, PermitsStep DEF SemInv
<1>3. SemInv /\ UNCHANGED sem_vars => SemInv'
  BY DEF SemInv, sem_vars, SemTypeOK, WaitListExact, NoPermitPastWaiters, HandoffWakes,
         PermitsConserved, SemHolders, HandedOff, Waiting
<1> QED BY <1>1, <1>2, <1>3

(* The inductive invariant holds in every behaviour of the semaphore. *)
LEMMA SemInvariance == SemSpec => []SemInv
<1> QED BY SemInductive, PTL DEF SemSpec

----------------------------------------------------------------------------

(* Every variable of a semaphore keeps its type; sem->count is never       *)
(* negative.                                                               *)
THEOREM SemTypeCorrect == SemSpec => []SemTypeOK
<1>1. SemInv => SemTypeOK
  BY DEF SemInv
<1> QED BY <1>1, SemInvariance, PTL

(* No sequence of down*(), up(), signals and timeouts loses or invents a   *)
(* permit.                                                                 *)
THEOREM PermitsCorrect == SemSpec => []PermitsConserved
<1>1. SemInv => PermitsConserved
  BY DEF SemInv
<1> QED BY <1>1, SemInvariance, PTL

(* No task waits while sem->count has a permit.                            *)
THEOREM NoPermitCorrect == SemSpec => []NoPermitPastWaiters
<1>1. SemInv => NoPermitPastWaiters
  BY DEF SemInv
<1> QED BY <1>1, SemInvariance, PTL

(* sem->wait_list links exactly the waiters that have no permit yet.       *)
THEOREM WaitListCorrect == SemSpec => []WaitListExact
<1>1. SemInv => WaitListExact
  BY DEF SemInv
<1> QED BY <1>1, SemInvariance, PTL

(* A waiter that was given a permit is awake.                              *)
THEOREM HandoffCorrect == SemSpec => []HandoffWakes
<1>1. SemInv => HandoffWakes
  BY DEF SemInv
<1> QED BY <1>1, SemInvariance, PTL

(* A task gets a permit when nobody waits, or as the oldest waiter. *)
LEMMA GainsStep ==
  ASSUME SemInv, SemNext, NEW u \in Tasks, u \notin SemHolders, u \in SemHolders'
  PROVE  wait_list = <<>> \/ u = Head(wait_list)
<1>0. SemTypeOK /\ WaitListExact /\ NoPermitPastWaiters
  BY DEF SemInv
<1> USE <1>0 DEF SemTypeOK, SemPC
<1>1. ASSUME NEW t \in Tasks, FastDown(t) PROVE wait_list = <<>>
  BY <1>1 DEF FastDown, NoPermitPastWaiters
<1>2. ASSUME NEW t \in Tasks, NEW st \in States, NEW to \in 0..MAX_SCHEDULE_TIMEOUT,
             SlowDown(t, st, to) PROVE FALSE
  BY <1>2 DEF SlowDown, SemHolders, HandedOff, Waiting
<1>3. ASSUME NEW t \in Tasks, Resume(t) PROVE FALSE
  BY <1>3 DEF Resume, SemHolders, HandedOff, Waiting
<1>4. ASSUME NEW t \in Tasks, up(t), wait_list # <<>> PROVE u = Head(wait_list)
  BY <1>4, FirstIsWaiting DEF up, ReleasePermit, Woken, SemHolders, HandedOff, Waiting, FirstWaiter
<1>5. ASSUME NEW t \in Tasks,
             SendSignal(t) \/ TakeSignal(t) \/ TimerExpires(t) \/ SpuriousWakeup(t)
      PROVE  FALSE
  BY <1>5 DEF SendSignal, TakeSignal, TimerExpires, SpuriousWakeup, SemHolders, HandedOff, Waiting
<1>6. ASSUME up_extra, wait_list # <<>> PROVE u = Head(wait_list)
  BY <1>6, FirstIsWaiting DEF up_extra, ReleasePermit, Woken, SemHolders, HandedOff, Waiting, FirstWaiter
<1>7. ASSUME UNCHANGED sem_vars PROVE FALSE
  BY <1>7 DEF sem_vars, SemHolders, HandedOff, Waiting
<1> QED
  BY <1>1, <1>2, <1>3, <1>4, <1>5, <1>6, <1>7, NextCases DEF TaskStep

(* __up() serves sem->wait_list in the order of arrival, and a down*() on  *)
(* the fast path finds the list empty: no step gives a task a permit past  *)
(* one that queued before it.                                              *)
THEOREM OrderCorrect == SemSpec => NoOvertaking
<1> DEFINE InOrder ==
      \A u \in Tasks : Gains(u) =>
        \A i \in DOMAIN wait_list :
          (\A j \in 1..i : wait_list[j] # u) => wait_list[i] \notin ToSet(wait_list')
<1>1. ASSUME SemInv, SemNext PROVE InOrder
  <2> SUFFICES ASSUME NEW u \in Tasks, Gains(u), NEW i \in DOMAIN wait_list,
                      \A j \in 1..i : wait_list[j] # u
               PROVE  FALSE
    BY DEF InOrder
  <2>1. wait_list \in Seq(Tasks)
    BY <1>1 DEF SemInv, SemTypeOK
  <2>2. wait_list # <<>> /\ i \in Nat /\ 1 \in 1..i /\ Head(wait_list) = wait_list[1]
    BY <2>1
  <2>3. u = Head(wait_list)
    BY <1>1, <2>2, GainsStep DEF Gains
  <2> QED BY <2>2, <2>3
<1>2. SemInv /\ [SemNext]_sem_vars => [InOrder]_sem_vars
  BY <1>1
<1> QED BY <1>2, SemInvariance, PTL DEF SemSpec, NoOvertaking

============================================================================
