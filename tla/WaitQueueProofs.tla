---------------------------- MODULE WaitQueueProofs ----------------------------
(***************************************************************************)
(* Proofs about WaitQueue, for any tasks and any number of waits.          *)
(*                                                                         *)
(* The invariant says which cells the queue consists of: a set R that the  *)
(* pointers arrange in one ring, with numbers that grow along it.  Only    *)
(* who holds q->lock changes R.  A task whose entry is not in R finds it   *)
(* pointing to itself, unless a waker is in the middle of list_del_init(). *)
(***************************************************************************)
EXTENDS WaitQueue, TLAPS

USE NodesAssumption

----------------------------------------------------------------------------
(* Memory and rings *)

Nodes == Tasks \cup {q}
Pointers == Nodes \cup {LIST_POISON1, LIST_POISON2}
Memory == [next : [Nodes -> Pointers], prev : [Nodes -> Pointers]]

(* next and prev are inverse to each other on R, *)
Inverse(m, R) ==
  \A n \in R : /\ m.next[n] \in R /\ m.prev[m.next[n]] = n
               /\ m.prev[n] \in R /\ m.next[m.prev[n]] = n

(* and the way from the head back to the head is the only one. *)
Ordered(m, R, pos) ==
  /\ pos[q] = 0
  /\ \A n \in R \ {q} : pos[n] > 0 /\ (m.next[n] # q => pos[n] < pos[m.next[n]])

IsRing(m, R) ==
  /\ q \in R /\ R \subseteq Nodes
  /\ Inverse(m, R)
  /\ \E pos \in [Nodes -> Nat] : Ordered(m, R, pos)

(* An entry that is in no list *)
Alone(m, n) == m.next[n] = n /\ m.prev[n] = n

----------------------------------------------------------------------------
(* The invariant *)

States == SUBSET {"INTERRUPTIBLE", "UNINTERRUPTIBLE", "WAKEKILL"}

Walks == [curr : Nodes \cup {NULL}, next : Nodes \cup {NULL}, mode : States, nr : Int]

Types ==
  /\ mem \in Memory
  /\ kind \in [Tasks -> Kinds]
  /\ pc \in [Tasks -> PC]
  /\ state \in [Tasks -> States]
  /\ walk \in [Tasks -> Walks]

(* Wakers in __wake_up_common() have the lock, and nobody else. *)
LockAt(t) == pc[t] \in WalkPC <=> lock = t

(* The steps of wait_woken() are for its own kind of wait. *)
WokenPC == {"woken_test", "set_state", "test_flag", "set_running", "clear_flag", "remove"}
OtherPC == {"prepare", "enqueue", "test", "retest", "finish", "read_next", "read_prev", "unlink_self",
            "abort", "abort_lock"}

KindAt(t) ==
  /\ pc[t] \in WokenPC => kind[t].how = "woken"
  /\ pc[t] \in OtherPC => kind[t].how # "woken"

(* Where a task may be about to sleep *)
SleepPC == {"enqueue", "test", "schedule", "retest", "finish", "abort", "test_flag", "set_running"}

StateAt(t) == pc[t] \notin SleepPC => state[t] = TASK_RUNNING

(* An entry is in the ring, in no list, or being unlinked by a waker. *)
EntryAt(t, R) ==
  t \in Live => \/ t \in R
                \/ Alone(mem, t)
                \/ lock \in Tasks /\ walk[lock].curr = t /\ pc[lock] \in {"init_next", "init_prev"}

(* A task about to sleep, and one in wait_woken(), is in the ring. *)
SleepAt(t, R) == t \in Live /\ (state[t] # TASK_RUNNING \/ kind[t].how = "woken") => t \in R

(* list_empty_careful() is half done. *)
ReadPrevAt(t) == pc[t] = "read_prev" => mem.next[t] = t

(* Where a waker is *)
WalkAt(t, R) ==
  pc[t] \in WalkPC =>
    LET curr == walk[t].curr
    IN  /\ walk[t].next \in R
        /\ pc[t] # "call" => curr \in Tasks
        /\ pc[t] \in {"call", "call_wake", "unlink"} => curr \in R /\ (curr # q => walk[t].next # curr)
        /\ pc[t] = "unlink" => state[curr] = TASK_RUNNING /\ kind[curr].how # "woken"
        /\ pc[t] \in {"init_next", "init_prev"} => curr \in Live \ R /\ mem.prev[curr] # curr
        /\ pc[t] = "init_next" => mem.next[curr] # curr
        /\ pc[t] = "init_prev" => mem.next[curr] = curr

Local(t) == LockAt(t) /\ KindAt(t) /\ StateAt(t) /\ ReadPrevAt(t)

Queue(R) ==
  /\ IsRing(mem, R) /\ R \subseteq Live \cup {q}
  /\ \A t \in Tasks : EntryAt(t, R) /\ SleepAt(t, R) /\ WalkAt(t, R)

IInv ==
  /\ Types
  /\ lock \in Tasks \cup {NULL}
  /\ \A t \in Tasks : Local(t)
  /\ \E R \in SUBSET Nodes : Queue(R)

----------------------------------------------------------------------------
(* What the functions of list.h do to rings *)

(* One assignment to next *)
LEMMA SetNextIs ==
  ASSUME NEW m \in Memory, NEW c \in Nodes, NEW v \in Pointers, NEW r, r = SetNext(m, c, v)
  PROVE  r \in Memory /\ r.next = [m.next EXCEPT ![c] = v] /\ r.prev = m.prev
BY DEF SetNext, Memory

(* One assignment to prev *)
LEMMA SetPrevIs ==
  ASSUME NEW m \in Memory, NEW c \in Nodes, NEW v \in Pointers, NEW r, r = SetPrev(m, c, v)
  PROVE  r \in Memory /\ r.prev = [m.prev EXCEPT ![c] = v] /\ r.next = m.next
BY DEF SetPrev, Memory

(* __list_add() puts t between pv and nx. *)
LEMMA AddBetween ==
  ASSUME NEW m \in Memory, NEW t \in Nodes, NEW pv \in Nodes, NEW nx \in Nodes,
         NEW r, r = list_add_between(m, t, pv, nx)
  PROVE  /\ r \in Memory
         /\ r.next = [m.next EXCEPT ![t] = nx, ![pv] = t]
         /\ r.prev = [m.prev EXCEPT ![nx] = t, ![t] = pv]
<1>0. t \in Pointers /\ pv \in Pointers /\ nx \in Pointers
  BY DEF Pointers
<1>1. PICK m1 : m1 = SetPrev(m, nx, t)
  OBVIOUS
<1>2. m1 \in Memory /\ m1.prev = [m.prev EXCEPT ![nx] = t] /\ m1.next = m.next
  BY <1>0, <1>1, SetPrevIs
<1>3. PICK m2 : m2 = SetNext(m1, t, nx)
  OBVIOUS
<1>4. m2 \in Memory /\ m2.next = [m1.next EXCEPT ![t] = nx] /\ m2.prev = m1.prev
  BY <1>0, <1>2, <1>3, SetNextIs
<1>5. PICK m3 : m3 = SetPrev(m2, t, pv)
  OBVIOUS
<1>6. m3 \in Memory /\ m3.prev = [m2.prev EXCEPT ![t] = pv] /\ m3.next = m2.next
  BY <1>0, <1>4, <1>5, SetPrevIs
<1>7. r = SetNext(m3, pv, t)
  BY <1>1, <1>3, <1>5 DEF list_add_between
<1>8. r \in Memory /\ r.next = [m3.next EXCEPT ![pv] = t] /\ r.prev = m3.prev
  BY <1>0, <1>6, <1>7, SetNextIs
<1> QED BY <1>2, <1>4, <1>6, <1>8

(* __list_del() makes the two neighbours point to each other. *)
LEMMA DelBetween ==
  ASSUME NEW m \in Memory, NEW pv \in Nodes, NEW nx \in Nodes, NEW r, r = list_del_between(m, pv, nx)
  PROVE  /\ r \in Memory
         /\ r.next = [m.next EXCEPT ![pv] = nx]
         /\ r.prev = [m.prev EXCEPT ![nx] = pv]
<1>0. pv \in Pointers /\ nx \in Pointers
  BY DEF Pointers
<1>1. PICK m1 : m1 = SetPrev(m, nx, pv)
  OBVIOUS
<1>2. m1 \in Memory /\ m1.prev = [m.prev EXCEPT ![nx] = pv] /\ m1.next = m.next
  BY <1>0, <1>1, SetPrevIs
<1>3. r = SetNext(m1, pv, nx)
  BY <1>1 DEF list_del_between
<1>4. r \in Memory /\ r.next = [m1.next EXCEPT ![pv] = nx] /\ r.prev = m1.prev
  BY <1>0, <1>2, <1>3, SetNextIs
<1> QED BY <1>2, <1>4

(* INIT_LIST_HEAD() leaves a cell that points to itself. *)
LEMMA InitHead ==
  ASSUME NEW m \in Memory, NEW t \in Nodes, NEW r, r = INIT_LIST_HEAD(m, t)
  PROVE  /\ r \in Memory
         /\ r.next = [m.next EXCEPT ![t] = t] /\ r.prev = [m.prev EXCEPT ![t] = t]
<1>0. t \in Pointers
  BY DEF Pointers
<1>1. PICK m1 : m1 = SetNext(m, t, t)
  OBVIOUS
<1>2. m1 \in Memory /\ m1.next = [m.next EXCEPT ![t] = t] /\ m1.prev = m.prev
  BY <1>0, <1>1, SetNextIs
<1>3. r = SetPrev(m1, t, t)
  BY <1>1 DEF INIT_LIST_HEAD
<1>4. r \in Memory /\ r.prev = [m1.prev EXCEPT ![t] = t] /\ r.next = m1.next
  BY <1>0, <1>2, <1>3, SetPrevIs
<1> QED BY <1>2, <1>4

(* An entry of the ring does not point to itself. *)
LEMMA NotAlone ==
  ASSUME NEW m, NEW R, IsRing(m, R), NEW t \in R, t # q
  PROVE  m.next[t] # t /\ m.prev[t] # t
<1>1. PICK pos \in [Nodes -> Nat] : Ordered(m, R, pos)
  BY DEF IsRing
<1>2. m.next[t] # t
  <2> SUFFICES ASSUME m.next[t] = t PROVE FALSE
    OBVIOUS
  <2>1. pos[t] < pos[t] /\ pos[t] \in Nat
    BY <1>1 DEF Ordered, IsRing
  <2> QED BY <2>1
<1>3. m.next[m.prev[t]] = t
  BY DEF IsRing, Inverse
<1> QED BY <1>2, <1>3

(* The ring is that of its own cells. *)
LEMMA SameRing ==
  ASSUME NEW m, NEW r, NEW R, IsRing(m, R), \A n \in R : r.next[n] = m.next[n] /\ r.prev[n] = m.prev[n]
  PROVE  IsRing(r, R)
<1>1. PICK pos \in [Nodes -> Nat] : Ordered(m, R, pos)
  BY DEF IsRing
<1>2. Ordered(r, R, pos)
  BY <1>1 DEF Ordered
<1>3. Inverse(r, R)
  BY DEF IsRing, Inverse
<1> QED BY <1>2, <1>3 DEF IsRing

(* A cell can be put in anywhere, *)
LEMMA AddToRing ==
  ASSUME NEW m \in Memory, NEW R, IsRing(m, R), NEW t \in Tasks, t \notin R, NEW pv \in R,
         NEW r, r = list_add_between(m, t, pv, m.next[pv])
  PROVE  /\ r \in Memory /\ IsRing(r, R \cup {t})
         /\ \A n \in Nodes \ (R \cup {t}) : r.next[n] = m.next[n] /\ r.prev[n] = m.prev[n]
<1> DEFINE nx == m.next[pv]
<1>1. /\ nx \in R /\ m.prev[nx] = pv /\ R \subseteq Nodes /\ t \in Nodes /\ pv # t /\ nx # t
      /\ m.next \in [Nodes -> Pointers] /\ m.prev \in [Nodes -> Pointers] /\ q \in R
  BY DEF IsRing, Inverse, Nodes, Memory
<1>0. r = list_add_between(m, t, pv, nx) /\ t \in Nodes /\ pv \in Nodes /\ nx \in Nodes
  BY <1>1
<1> HIDE DEF nx
<1>2. r \in Memory /\ r.next = [m.next EXCEPT ![t] = nx, ![pv] = t] /\ r.prev = [m.prev EXCEPT ![nx] = t, ![t] = pv]
  BY <1>0, AddBetween
<1>3. /\ r.next[t] = nx /\ r.next[pv] = t /\ r.prev[nx] = t /\ r.prev[t] = pv
      /\ \A n \in Nodes \ {t, pv} : r.next[n] = m.next[n]
      /\ \A n \in Nodes \ {t, nx} : r.prev[n] = m.prev[n]
  BY <1>1, <1>2
<1>4. Inverse(m, R)
  BY DEF IsRing
<1>5. PICK pos \in [Nodes -> Nat] : Ordered(m, R, pos)
  BY DEF IsRing
<1>6. Inverse(r, R \cup {t})
  <2> SUFFICES ASSUME NEW n \in R \cup {t}
               PROVE  /\ r.next[n] \in R \cup {t} /\ r.prev[r.next[n]] = n
                      /\ r.prev[n] \in R \cup {t} /\ r.next[r.prev[n]] = n
    BY DEF Inverse
  <2>1. nx = m.next[pv]
    BY DEF nx
  <2>2. CASE n = t
    BY <1>1, <1>3, <2>2
  <2>3. CASE n # t
    <3>1. m.next[n] \in R /\ m.prev[m.next[n]] = n /\ m.prev[n] \in R /\ m.next[m.prev[n]] = n
      BY <1>4, <2>3 DEF Inverse
    <3>2. r.next[n] \in R \cup {t} /\ r.prev[r.next[n]] = n
      <4>1. CASE n = pv
        BY <1>1, <1>3, <4>1
      <4>2. CASE n # pv
        <5>1. r.next[n] = m.next[n]
          BY <1>1, <1>3, <2>3, <4>2
        <5>2. m.next[n] # nx
          BY <1>1, <3>1, <4>2
        <5> QED BY <1>1, <1>3, <3>1, <5>1, <5>2
      <4> QED BY <4>1, <4>2
    <3>3. r.prev[n] \in R \cup {t} /\ r.next[r.prev[n]] = n
      <4>1. CASE n = nx
        BY <1>1, <1>3, <4>1
      <4>2. CASE n # nx
        <5>1. r.prev[n] = m.prev[n]
          BY <1>1, <1>3, <2>3, <4>2
        <5>2. m.prev[n] # pv
          BY <2>1, <3>1, <4>2
        <5> QED BY <1>1, <1>3, <3>1, <5>1, <5>2
      <4> QED BY <4>1, <4>2
    <3> QED BY <3>2, <3>3
  <2> QED BY <2>2, <2>3
<1>7. \E p \in [Nodes -> Nat] : Ordered(r, R \cup {t}, p)
  <2> DEFINE p == [n \in Nodes |-> IF n = t THEN pos[pv] + 1
                                   ELSE IF pos[n] > pos[pv] THEN pos[n] + 1 ELSE pos[n]]
  <2>1. p \in [Nodes -> Nat]
    BY <1>1
  <2>2. p[q] = 0
    BY <1>1, <1>5 DEF Ordered
  <2>3. ASSUME NEW n \in (R \cup {t}) \ {q}
        PROVE  p[n] > 0 /\ (r.next[n] # q => p[n] < p[r.next[n]])
    <3>1. p[n] > 0
      BY <1>1, <1>5 DEF Ordered
    <3>2. CASE n = t
      <4>1. r.next[n] = nx
        BY <1>3, <3>2
      <4>2. nx # q => pos[pv] < pos[nx]
        BY <1>1, <1>5 DEF Ordered, nx
      <4> QED BY <1>1, <3>1, <3>2, <4>1, <4>2
    <3>3. CASE n = pv
      <4>1. r.next[n] = t
        BY <1>3, <3>3
      <4> QED BY <1>1, <3>1, <3>3, <4>1
    <3>4. CASE n # t /\ n # pv
      <4>1. r.next[n] = m.next[n] /\ m.next[n] \in R
        BY <1>1, <1>3, <1>4, <3>4 DEF Inverse
      <4>2. m.next[n] # q => pos[n] < pos[m.next[n]]
        BY <1>5, <3>4 DEF Ordered
      <4>3. n \in Nodes /\ m.next[n] \in Nodes /\ m.next[n] # t
        BY <1>1, <4>1
      <4>4. p[n] = (IF pos[n] > pos[pv] THEN pos[n] + 1 ELSE pos[n])
        BY <3>4, <4>3
      <4>5. p[m.next[n]] = (IF pos[m.next[n]] > pos[pv] THEN pos[m.next[n]] + 1 ELSE pos[m.next[n]])
        BY <4>3
      <4>6. pos[n] \in Nat /\ pos[pv] \in Nat /\ pos[m.next[n]] \in Nat
        BY <1>1, <4>3
      <4> HIDE DEF p
      <4> QED BY <3>1, <4>1, <4>2, <4>4, <4>5, <4>6
    <3> QED BY <3>2, <3>3, <3>4
  <2>4. Ordered(r, R \cup {t}, p)
    BY <2>2, <2>3 DEF Ordered
  <2> QED BY <2>1, <2>4
<1>8. \A n \in Nodes \ (R \cup {t}) : r.next[n] = m.next[n] /\ r.prev[n] = m.prev[n]
  BY <1>1, <1>3
<1>9. IsRing(r, R \cup {t})
  BY <1>1, <1>6, <1>7 DEF IsRing
<1> QED BY <1>2, <1>8, <1>9

(* at the front *)
LEMMA AddFirst ==
  ASSUME NEW m \in Memory, NEW R, IsRing(m, R), NEW t \in Tasks, t \notin R, NEW r, r = list_add(m, t, q)
  PROVE  /\ r \in Memory /\ IsRing(r, R \cup {t})
         /\ \A n \in Nodes \ (R \cup {t}) : r.next[n] = m.next[n] /\ r.prev[n] = m.prev[n]
<1>1. q \in R
  BY DEF IsRing
<1> QED BY <1>1, AddToRing DEF list_add

(* and at the end, *)
LEMMA AddLast ==
  ASSUME NEW m \in Memory, NEW R, IsRing(m, R), NEW t \in Tasks, t \notin R, NEW r, r = list_add_tail(m, t, q)
  PROVE  /\ r \in Memory /\ IsRing(r, R \cup {t})
         /\ \A n \in Nodes \ (R \cup {t}) : r.next[n] = m.next[n] /\ r.prev[n] = m.prev[n]
<1>1. m.prev[q] \in R /\ m.next[m.prev[q]] = q
  BY DEF IsRing, Inverse
<1>2. PICK pv : pv = m.prev[q]
  OBVIOUS
<1>3. pv \in R /\ r = list_add_between(m, t, pv, m.next[pv])
  BY <1>1, <1>2 DEF list_add_tail
<1> QED BY <1>3, AddToRing

(* and taken out. *)
LEMMA DelFromRing ==
  ASSUME NEW m \in Memory, NEW R, IsRing(m, R), NEW t \in Tasks, t \in R,
         NEW r, r = list_del_entry(m, t)
  PROVE  /\ r \in Memory /\ IsRing(r, R \ {t})
         /\ \A n \in Nodes \ (R \ {t}) : r.next[n] = m.next[n] /\ r.prev[n] = m.prev[n]
<1> DEFINE pv == m.prev[t]
           nx == m.next[t]
<1>1. /\ pv \in R /\ nx \in R /\ m.next[pv] = t /\ m.prev[nx] = t /\ R \subseteq Nodes /\ q \in R /\ t # q
      /\ m.next \in [Nodes -> Pointers] /\ m.prev \in [Nodes -> Pointers]
  BY DEF IsRing, Inverse, Memory
<1>2. pv # t /\ nx # t
  BY <1>1, NotAlone
<1>3. r \in Memory /\ r.next = [m.next EXCEPT ![pv] = nx] /\ r.prev = [m.prev EXCEPT ![nx] = pv]
  BY <1>1, DelBetween DEF list_del_entry
<1>4. /\ r.next[pv] = nx /\ r.prev[nx] = pv
      /\ \A n \in Nodes \ {pv} : r.next[n] = m.next[n]
      /\ \A n \in Nodes \ {nx} : r.prev[n] = m.prev[n]
  BY <1>1, <1>3
<1>5. Inverse(m, R)
  BY DEF IsRing
<1>6. PICK pos \in [Nodes -> Nat] : Ordered(m, R, pos)
  BY DEF IsRing
<1>0. pv = m.prev[t] /\ nx = m.next[t]
  OBVIOUS
<1> HIDE DEF nx, pv
<1>7. Inverse(r, R \ {t})
  <2> SUFFICES ASSUME NEW n \in R \ {t}
               PROVE  /\ r.next[n] \in R \ {t} /\ r.prev[r.next[n]] = n
                      /\ r.prev[n] \in R \ {t} /\ r.next[r.prev[n]] = n
    BY DEF Inverse
  <2>1. m.next[n] \in R /\ m.prev[m.next[n]] = n /\ m.prev[n] \in R /\ m.next[m.prev[n]] = n
    BY <1>5 DEF Inverse
  <2>2. r.next[n] \in R \ {t} /\ r.prev[r.next[n]] = n
    <3>1. CASE n = pv
      BY <1>1, <1>2, <1>4, <3>1
    <3>2. CASE n # pv
      <4>1. m.next[n] # t /\ m.next[n] # nx
        BY <1>0, <1>1, <2>1, <3>2
      <4> QED BY <1>1, <1>4, <2>1, <3>2, <4>1
    <3> QED BY <3>1, <3>2
  <2>3. r.prev[n] \in R \ {t} /\ r.next[r.prev[n]] = n
    <3>1. CASE n = nx
      BY <1>1, <1>2, <1>4, <3>1
    <3>2. CASE n # nx
      <4>1. m.prev[n] # t /\ m.prev[n] # pv
        BY <1>0, <1>1, <2>1, <3>2
      <4> QED BY <1>1, <1>4, <2>1, <3>2, <4>1
    <3> QED BY <3>1, <3>2
  <2> QED BY <2>2, <2>3
<1>8. Ordered(r, R \ {t}, pos)
  <2>1. ASSUME NEW n \in (R \ {t}) \ {q}
        PROVE  pos[n] > 0 /\ (r.next[n] # q => pos[n] < pos[r.next[n]])
    <3>1. pos[n] > 0 /\ (m.next[n] # q => pos[n] < pos[m.next[n]])
      BY <1>6 DEF Ordered
    <3>2. CASE n = pv
      <4>1. pos[n] < pos[t]
        BY <1>1, <3>1, <3>2
      <4>2. nx # q => pos[t] < pos[nx]
        BY <1>0, <1>1, <1>6 DEF Ordered
      <4>3. pos[n] \in Nat /\ pos[t] \in Nat /\ pos[nx] \in Nat
        BY <1>1
      <4> QED BY <1>4, <3>1, <3>2, <4>1, <4>2, <4>3
    <3>3. CASE n # pv
      BY <1>1, <1>4, <3>1, <3>3
    <3> QED BY <3>2, <3>3
  <2> QED BY <1>6, <2>1 DEF Ordered
<1>9. \A n \in Nodes \ (R \ {t}) : r.next[n] = m.next[n] /\ r.prev[n] = m.prev[n]
  BY <1>1, <1>2, <1>4
<1>10. IsRing(r, R \ {t})
  BY <1>1, <1>7, <1>8 DEF IsRing
<1> QED BY <1>3, <1>9, <1>10

(* Deleting an entry that is in no list changes nothing. *)
LEMMA DelAlone ==
  ASSUME NEW m \in Memory, NEW t \in Tasks, Alone(m, t), NEW r, r = list_del_entry(m, t)
  PROVE  r \in Memory /\ r.next = m.next /\ r.prev = m.prev
<1>1. t \in Nodes /\ m.next \in [Nodes -> Pointers] /\ m.prev \in [Nodes -> Pointers] /\ m.next[t] = t /\ m.prev[t] = t
  BY DEF Nodes, Memory, Alone
<1>2. r \in Memory /\ r.next = [m.next EXCEPT ![t] = t] /\ r.prev = [m.prev EXCEPT ![t] = t]
  BY <1>1, DelBetween DEF list_del_entry
<1>3. [m.next EXCEPT ![t] = t] = m.next /\ [m.prev EXCEPT ![t] = t] = m.prev
  BY <1>1
<1> QED BY <1>2, <1>3

----------------------------------------------------------------------------
(* Steps of tasks that are not in __wake_up_common() *)

LivePC == PC \ ({"idle", "held", "active", "wake"} \cup WalkPC)

(* The same set, by the places of the program *)
LEMMA LiveIs ==
  ASSUME Types
  PROVE  \A t \in Tasks : t \in Live <=> pc[t] \in LivePC
BY DEF Types, Live, LivePC

(* LiveIs, of the state after a step *)
LEMMA LiveNext == Types' => (\A t \in Tasks : t \in Live <=> pc[t] \in LivePC)'
BY LiveIs, PTL

(* Without a holder of the lock nobody walks. *)
LEMMA NobodyWalks ==
  ASSUME IInv, lock = NULL
  PROVE  \A t \in Tasks : pc[t] \notin WalkPC
BY DEF IInv, Local, LockAt

(* A step of t that leaves the queue and the lock alone, and t in or out   *)
(* of the functions that keep an entry on the stack                        *)
QuietTo(t, to, s) ==
  /\ pc[t] \notin WalkPC /\ to \in PC \ WalkPC /\ s \in States
  /\ pc' = [pc EXCEPT ![t] = to] /\ state' = [state EXCEPT ![t] = s]
  /\ UNCHANGED <<mem, lock, walk, kind>>
  /\ pc[t] \in LivePC <=> to \in LivePC
  /\ to \in WokenPC => kind[t].how = "woken"
  /\ to \in OtherPC => kind[t].how # "woken"
  /\ to \notin SleepPC => s = TASK_RUNNING
  /\ to = "read_prev" => mem.next[t] = t
  /\ s \in {TASK_RUNNING, state[t]} \/ kind[t].how = "woken"

(* Such a step keeps the invariant, with the same ring. *)
LEMMA QuietStep ==
  ASSUME IInv, NEW t \in Tasks, NEW to, NEW s, QuietTo(t, to, s)
  PROVE  IInv'
<1>1. /\ Types /\ lock \in Tasks \cup {NULL} /\ (\A u \in Tasks : Local(u))
      /\ pc \in [Tasks -> PC] /\ state \in [Tasks -> States]
  BY DEF IInv, Types
<1>2. PICK R \in SUBSET Nodes : Queue(R)
  BY DEF IInv
<1>3. /\ pc[t] \notin WalkPC /\ to \in PC \ WalkPC /\ s \in States
      /\ pc' = [pc EXCEPT ![t] = to] /\ state' = [state EXCEPT ![t] = s]
      /\ mem' = mem /\ lock' = lock /\ walk' = walk /\ kind' = kind
      /\ pc[t] \in LivePC <=> to \in LivePC
  BY DEF QuietTo
<1>4. Types'
  BY <1>1, <1>3 DEF Types
<1>5. pc'[t] = to /\ state'[t] = s /\ \A u \in Tasks \ {t} : pc'[u] = pc[u] /\ state'[u] = state[u]
  BY <1>1, <1>3
<1>6. \A u \in Tasks : u \in Live' <=> u \in Live
  BY <1>1, <1>3, <1>4, <1>5, LiveIs, LiveNext
<1>7. \A u \in Tasks : Local(u)'
  <2> SUFFICES ASSUME NEW u \in Tasks PROVE Local(u)'
    OBVIOUS
  <2>1. Local(u)
    BY <1>1
  <2>2. CASE u = t
    <3>1. LockAt(u)'
      BY <1>3, <1>5, <2>1, <2>2 DEF Local, LockAt
    <3>2. KindAt(u)' /\ StateAt(u)' /\ ReadPrevAt(u)'
      BY <1>3, <1>5, <2>2 DEF KindAt, StateAt, ReadPrevAt, QuietTo
    <3> QED BY <3>1, <3>2 DEF Local
  <2>3. CASE u # t
    BY <1>3, <1>5, <2>1, <2>3 DEF Local, LockAt, KindAt, StateAt, ReadPrevAt
  <2> QED BY <2>2, <2>3
<1>8. Queue(R)'
  <2>1. IsRing(mem, R)' /\ (R \subseteq Live \cup {q})'
    BY <1>2, <1>3, <1>6 DEF Queue, Nodes
  <2>2. ASSUME NEW u \in Tasks PROVE EntryAt(u, R)'
    <3>1. EntryAt(u, R)
      BY <1>2 DEF Queue
    <3>2. lock \in Tasks /\ pc[lock] \in {"init_next", "init_prev"} => pc'[lock] = pc[lock]
      BY <1>3, <1>5 DEF WalkPC
    <3> QED BY <1>3, <1>6, <3>1, <3>2 DEF EntryAt
  <2>3. ASSUME NEW u \in Tasks PROVE SleepAt(u, R)'
    <3>1. SleepAt(u, R)
      BY <1>2 DEF Queue
    <3>2. state'[u] # TASK_RUNNING => state[u] # TASK_RUNNING \/ kind[u].how = "woken"
      BY <1>5 DEF QuietTo
    <3> QED BY <1>3, <1>6, <3>1, <3>2 DEF SleepAt
  <2>4. ASSUME NEW u \in Tasks PROVE WalkAt(u, R)'
    <3>1. WalkAt(u, R)
      BY <1>2 DEF Queue
    <3>2. CASE u = t
      BY <1>3, <1>5, <3>2 DEF WalkAt
    <3>3. CASE u # t
      <4> DEFINE curr == walk[u].curr
      <4>1. pc'[u] = pc[u]
        BY <1>5, <3>3
      <4>2. curr \in Tasks /\ state[curr] = TASK_RUNNING /\ kind[curr].how # "woken" => state'[curr] = TASK_RUNNING
        BY <1>5 DEF QuietTo
      <4>3. curr \in Live \ R /\ curr \in Tasks => curr \in Live' \ R
        BY <1>6
      <4> QED BY <1>3, <3>1, <4>1, <4>2, <4>3 DEF WalkAt, WalkPC
    <3> QED BY <3>2, <3>3
  <2> QED BY <2>1, <2>2, <2>3, <2>4 DEF Queue
<1> QED BY <1>1, <1>3, <1>4, <1>7, <1>8 DEF IInv

(* A step of t that changes only its own entry, which is in no list and    *)
(* which no waker is about to write                                        *)
OwnTo(t, to, k) ==
  /\ pc[t] \notin WalkPC /\ to \in PC \ WalkPC /\ k \in Kinds
  /\ pc' = [pc EXCEPT ![t] = to] /\ kind' = [kind EXCEPT ![t] = k]
  /\ mem' \in Memory
  /\ \A n \in Nodes \ {t} : mem'.next[n] = mem.next[n] /\ mem'.prev[n] = mem.prev[n]
  /\ UNCHANGED <<lock, walk, state>>
  /\ state[t] = TASK_RUNNING /\ (pc[t] \notin LivePC \/ Alone(mem, t))
  /\ to \in LivePC => Alone(mem', t) /\ k.how # "woken" /\ to \in OtherPC \ {"read_prev"}

(* A step that writes no cell but the task's own, which is in no list, keeps *)
(* the invariant.                                                          *)
LEMMA OwnStep ==
  ASSUME IInv, NEW t \in Tasks, NEW to, NEW k, OwnTo(t, to, k)
  PROVE  IInv'
<1>1. /\ Types /\ lock \in Tasks \cup {NULL} /\ (\A u \in Tasks : Local(u))
      /\ pc \in [Tasks -> PC] /\ kind \in [Tasks -> Kinds]
  BY DEF IInv, Types
<1>2. PICK R \in SUBSET Nodes : Queue(R)
  BY DEF IInv
<1>3. /\ pc[t] \notin WalkPC /\ to \in PC \ WalkPC /\ k \in Kinds
      /\ pc' = [pc EXCEPT ![t] = to] /\ kind' = [kind EXCEPT ![t] = k] /\ mem' \in Memory
      /\ state' = state /\ lock' = lock /\ walk' = walk /\ state[t] = TASK_RUNNING
      /\ to \in LivePC => Alone(mem', t) /\ k.how # "woken" /\ to \in OtherPC \ {"read_prev"}
  BY DEF OwnTo
<1>4. Types'
  BY <1>1, <1>3 DEF Types
<1>5. /\ pc'[t] = to /\ kind'[t] = k
      /\ \A u \in Tasks \ {t} : pc'[u] = pc[u] /\ kind'[u] = kind[u]
      /\ \A n \in Nodes \ {t} : mem'.next[n] = mem.next[n] /\ mem'.prev[n] = mem.prev[n]
  BY <1>1, <1>3 DEF OwnTo
<1>6. \A u \in Tasks \ {t} : u \in Live' <=> u \in Live
  BY <1>1, <1>4, <1>5, LiveIs, LiveNext
<1>7. t \in Live' <=> to \in LivePC
  BY <1>4, <1>5, LiveNext
<1>r. t \notin R
  <2>1. t \notin Live => t \notin R
    BY <1>2 DEF Queue
  <2>2. Alone(mem, t) => t \notin R
    BY <1>2, NotAlone DEF Queue, Alone
  <2> QED BY <1>1, <2>1, <2>2, LiveIs DEF OwnTo
<1>w. ASSUME NEW u \in Tasks, u # t, pc[u] \in WalkPC PROVE walk[u].curr # t
  <2>1. WalkAt(u, R)
    BY <1>2 DEF Queue
  <2>2. pc[u] \in {"call", "call_wake", "unlink"} => walk[u].curr # t
    BY <1>r, <1>w, <2>1 DEF WalkAt
  <2>3. pc[u] \in {"init_next", "init_prev"} => walk[u].curr \in Live /\ mem.prev[walk[u].curr] # walk[u].curr
    BY <1>w, <2>1 DEF WalkAt
  <2>4. t \notin Live \/ mem.prev[t] = t
    BY <1>1, LiveIs DEF OwnTo, Alone
  <2> QED BY <1>w, <2>2, <2>3, <2>4 DEF WalkPC
<1>8. \A u \in Tasks : Local(u)'
  <2> SUFFICES ASSUME NEW u \in Tasks PROVE Local(u)'
    OBVIOUS
  <2>1. Local(u)
    BY <1>1
  <2>2. CASE u = t
    <3>1. LockAt(u)'
      BY <1>3, <1>5, <2>1, <2>2 DEF Local, LockAt
    <3>2. KindAt(u)'
      BY <1>3, <1>5, <2>2 DEF KindAt, LivePC, WokenPC, OtherPC, PC, WalkPC
    <3>3. StateAt(u)' /\ ReadPrevAt(u)'
      BY <1>3, <1>5, <2>2 DEF StateAt, ReadPrevAt, LivePC, WalkPC, PC
    <3> QED BY <3>1, <3>2, <3>3 DEF Local
  <2>3. CASE u # t
    <3>1. u \in Nodes \ {t}
      BY <2>3 DEF Nodes
    <3> QED BY <1>3, <1>5, <2>1, <2>3, <3>1 DEF Local, LockAt, KindAt, StateAt, ReadPrevAt
  <2> QED BY <2>2, <2>3
<1>9. Queue(R)'
  <2>1. IsRing(mem, R)'
    <3>1. \A n \in R : mem'.next[n] = mem.next[n] /\ mem'.prev[n] = mem.prev[n]
      BY <1>5, <1>r
    <3> QED BY <1>2, <3>1, SameRing DEF Queue
  <2>2. (R \subseteq Live \cup {q})'
    BY <1>2, <1>6, <1>r DEF Queue, Nodes
  <2>3. ASSUME NEW u \in Tasks PROVE EntryAt(u, R)'
    <3>1. EntryAt(u, R)
      BY <1>2 DEF Queue
    <3>2. CASE u = t
      BY <1>3, <1>7, <3>2 DEF EntryAt
    <3>3. CASE u # t
      <4>1. lock \in Tasks /\ pc[lock] \in {"init_next", "init_prev"} => pc'[lock] = pc[lock]
        BY <1>3, <1>5 DEF WalkPC
      <4>2. Alone(mem, u) => Alone(mem, u)'
        BY <1>5, <3>3 DEF Alone, Nodes
      <4> QED BY <1>3, <1>6, <3>1, <3>3, <4>1, <4>2 DEF EntryAt
    <3> QED BY <3>2, <3>3
  <2>4. ASSUME NEW u \in Tasks PROVE SleepAt(u, R)'
    <3>1. SleepAt(u, R)
      BY <1>2 DEF Queue
    <3> QED BY <1>3, <1>5, <1>6, <1>7, <3>1 DEF SleepAt
  <2>5. ASSUME NEW u \in Tasks PROVE WalkAt(u, R)'
    <3>1. WalkAt(u, R)
      BY <1>2 DEF Queue
    <3>2. CASE u = t \/ pc[u] \notin WalkPC
      BY <1>3, <1>5, <3>2 DEF WalkAt
    <3>3. CASE u # t /\ pc[u] \in WalkPC
      <4> DEFINE curr == walk[u].curr
      <4>1. pc'[u] = pc[u] /\ curr # t
        BY <1>5, <1>w, <3>3
      <4>2. curr \in Tasks => kind'[curr] = kind[curr] /\ mem'.next[curr] = mem.next[curr] /\ mem'.prev[curr] = mem.prev[curr]
        BY <1>5, <4>1 DEF Nodes
      <4>3. curr \in Live \ R /\ curr \in Tasks => curr \in Live' \ R
        BY <1>6, <4>1
      <4> QED BY <1>3, <3>1, <4>1, <4>2, <4>3 DEF WalkAt, WalkPC
    <3> QED BY <3>2, <3>3
  <2> QED BY <2>1, <2>2, <2>3, <2>4, <2>5 DEF Queue
<1> QED BY <1>1, <1>3, <1>4, <1>8, <1>9 DEF IInv

(* A step of t that puts its entry into the queue or takes it out, while   *)
(* nobody has the lock: the ring is S after it                             *)
RingTo(t, to, s, k, R, S) ==
  /\ lock = NULL /\ to \in PC \ WalkPC /\ to # "read_prev" /\ s \in States /\ k \in Kinds
  /\ pc' = [pc EXCEPT ![t] = to] /\ state' = [state EXCEPT ![t] = s] /\ kind' = [kind EXCEPT ![t] = k]
  /\ UNCHANGED <<lock, walk>>
  /\ mem' \in Memory /\ IsRing(mem', S) /\ S \ {t} = R \ {t}
  /\ \A n \in Nodes \ (R \cup {t}) : mem'.next[n] = mem.next[n] /\ mem'.prev[n] = mem.prev[n]
  /\ IF to \in LivePC THEN t \in S ELSE t \notin S
  /\ to \in WokenPC => k.how = "woken"
  /\ to \in OtherPC => k.how # "woken"
  /\ to \notin SleepPC => s = TASK_RUNNING

(* A critical section of q->lock that queues or unlinks the task's own     *)
(* entry keeps the invariant, with the new ring S.                         *)
LEMMA RingStep ==
  ASSUME IInv, NEW t \in Tasks, NEW to, NEW s, NEW k, NEW R, Queue(R), NEW S, RingTo(t, to, s, k, R, S)
  PROVE  IInv'
<1>1. /\ Types /\ lock \in Tasks \cup {NULL} /\ (\A u \in Tasks : Local(u))
      /\ pc \in [Tasks -> PC] /\ state \in [Tasks -> States] /\ kind \in [Tasks -> Kinds]
  BY DEF IInv, Types
<1>2. /\ lock = NULL /\ to \in PC \ WalkPC /\ to # "read_prev" /\ s \in States /\ k \in Kinds
      /\ pc' = [pc EXCEPT ![t] = to] /\ state' = [state EXCEPT ![t] = s] /\ kind' = [kind EXCEPT ![t] = k]
      /\ lock' = lock /\ walk' = walk /\ mem' \in Memory /\ IsRing(mem', S) /\ S \ {t} = R \ {t}
      /\ \A n \in Nodes \ (R \cup {t}) : mem'.next[n] = mem.next[n] /\ mem'.prev[n] = mem.prev[n]
      /\ IF to \in LivePC THEN t \in S ELSE t \notin S
      /\ to \in WokenPC => k.how = "woken"
      /\ to \in OtherPC => k.how # "woken"
      /\ to \notin SleepPC => s = TASK_RUNNING
  BY DEF RingTo
<1>3. Types'
  BY <1>1, <1>2 DEF Types
<1>4. /\ pc'[t] = to /\ kind'[t] = k /\ state'[t] = s
      /\ \A u \in Tasks \ {t} : pc'[u] = pc[u] /\ kind'[u] = kind[u] /\ state'[u] = state[u]
  BY <1>1, <1>2
<1>5. \A u \in Tasks : u # t => (u \in Live' <=> u \in Live)
  BY <1>1, <1>3, <1>4, LiveIs, LiveNext
<1>6. t \in Live' <=> to \in LivePC
  BY <1>3, <1>4, LiveNext
<1>7. \A u \in Tasks : pc[u] \notin WalkPC /\ pc'[u] \notin WalkPC
  BY <1>2, <1>4, NobodyWalks
<1>8. IsRing(mem, R) /\ R \subseteq Live \cup {q} /\ R \subseteq Nodes
  BY DEF Queue, IsRing
<1>9. \A u \in Tasks : Local(u)'
  <2> SUFFICES ASSUME NEW u \in Tasks PROVE Local(u)'
    OBVIOUS
  <2>1. Local(u)
    BY <1>1
  <2>2. LockAt(u)'
    BY <1>2, <1>7 DEF LockAt
  <2>3. CASE u = t
    BY <1>2, <1>4, <2>2, <2>3 DEF Local, KindAt, StateAt, ReadPrevAt
  <2>4. CASE u # t
    <3>1. KindAt(u)' /\ StateAt(u)'
      BY <1>4, <2>1, <2>4 DEF Local, KindAt, StateAt
    <3>2. ReadPrevAt(u)'
      <4> SUFFICES ASSUME pc[u] = "read_prev" PROVE mem'.next[u] = u
        BY <1>4, <2>4 DEF ReadPrevAt
      <4>1. mem.next[u] = u
        BY <2>1 DEF Local, ReadPrevAt
      <4>2. u \notin R
        BY <1>8, <4>1, NotAlone
      <4> QED BY <1>2, <2>4, <4>1, <4>2 DEF Nodes
    <3> QED BY <2>2, <3>1, <3>2 DEF Local
  <2> QED BY <2>3, <2>4
<1>10. Queue(S)'
  <2>1. IsRing(mem, S)' /\ S \in SUBSET Nodes
    BY <1>2 DEF IsRing
  <2>2. (S \subseteq Live \cup {q})'
    BY <1>2, <1>5, <1>6, <1>8 DEF Nodes
  <2>3. ASSUME NEW u \in Tasks PROVE EntryAt(u, S)'
    <3>1. CASE u = t
      BY <1>2, <1>6, <3>1 DEF EntryAt
    <3>2. CASE u # t
      <4>1. u \in Live => u \in R \/ Alone(mem, u)
        BY <1>2 DEF Queue, EntryAt
      <4>2. u \notin R /\ Alone(mem, u) => Alone(mem, u)'
        BY <1>2, <3>2 DEF Alone, Nodes
      <4> QED BY <1>2, <1>5, <3>2, <4>1, <4>2 DEF EntryAt
    <3> QED BY <3>1, <3>2
  <2>4. ASSUME NEW u \in Tasks PROVE SleepAt(u, S)'
    <3>1. CASE u = t
      BY <1>2, <1>6, <3>1 DEF SleepAt
    <3>2. CASE u # t
      <4>1. SleepAt(u, R)
        BY DEF Queue
      <4> QED BY <1>2, <1>4, <1>5, <3>2, <4>1 DEF SleepAt
    <3> QED BY <3>1, <3>2
  <2>5. ASSUME NEW u \in Tasks PROVE WalkAt(u, S)'
    BY <1>7 DEF WalkAt
  <2> QED BY <2>1, <2>2, <2>3, <2>4, <2>5 DEF Queue
<1>11. S \in SUBSET Nodes
  BY <1>2 DEF IsRing
<1> QED BY <1>1, <1>2, <1>3, <1>9, <1>10, <1>11 DEF IInv

(* The mode in which a task sleeps is a state. *)
LEMMA ModeState ==
  /\ \A k \in Kinds : k.mode \in States /\ k.how \in {"event", "bit", "woken"}
  /\ TASK_RUNNING \in States
  /\ NoKind \in Kinds
<1>1. \A k \in AllKinds : k.mode \in States /\ k.how \in {"event", "bit", "woken"}
  BY DEF AllKinds, States, TASK_INTERRUPTIBLE, TASK_UNINTERRUPTIBLE, TASK_KILLABLE
<1>2. NoKind \in Kinds
  BY KindsAssumption DEF NoKind
<1> QED BY <1>1, <1>2, KindsAssumption DEF TASK_RUNNING, States

(* An entry is in the queue exactly if it is not empty, when nobody has the lock. *)
LEMMA QueuedOrAlone ==
  ASSUME IInv, lock = NULL, NEW R, Queue(R), NEW t \in Tasks, t \in Live
  PROVE  /\ t \in R <=> ~list_empty(mem, t)
         /\ t \notin R => Alone(mem, t)
<1>1. EntryAt(t, R) /\ IsRing(mem, R)
  BY DEF Queue
<1>2. t \in R \/ Alone(mem, t)
  BY <1>1 DEF EntryAt
<1>3. t \in R => mem.next[t] # t
  BY <1>1, NotAlone
<1> QED BY <1>2, <1>3 DEF Alone, list_empty

(* wait_event_*() and wait_on_bit*() up to the loop, add_wait_queue() *)
LEMMA WaitStep ==
  ASSUME IInv, NEW t \in Tasks, NEW k \in Kinds, Wait(t, k)
  PROVE  IInv'
<1>1. /\ Types /\ Local(t) /\ mem \in Memory /\ pc \in [Tasks -> PC] /\ state \in [Tasks -> States]
      /\ kind \in [Tasks -> Kinds] /\ pc[t] = "idle" /\ state' = state /\ lock' = lock /\ walk' = walk
  BY DEF IInv, Types, Wait
<1>2. state[t] = TASK_RUNNING /\ state = [state EXCEPT ![t] = TASK_RUNNING]
  BY <1>1 DEF Local, StateAt, SleepPC
<1>3. PICK R \in SUBSET Nodes : Queue(R)
  BY DEF IInv
<1>4. t \notin R
  <2>1. t \notin Live
    BY <1>1 DEF Live
  <2> QED BY <1>3, <2>1 DEF Queue
<1>5. CASE k.how = "woken"
  <2>1. /\ lock = NULL /\ mem' = list_add(mem, t, q) /\ kind' = [kind EXCEPT ![t] = k]
        /\ pc' = [pc EXCEPT ![t] = "woken_test"]
    BY <1>5 DEF Wait, Goto
  <2>2. /\ mem' \in Memory /\ IsRing(mem', R \cup {t})
        /\ \A n \in Nodes \ (R \cup {t}) : mem'.next[n] = mem.next[n] /\ mem'.prev[n] = mem.prev[n]
    <3>1. IsRing(mem, R)
      BY <1>3 DEF Queue
    <3> QED BY <1>1, <1>4, <2>1, <3>1, AddFirst
  <2>3. "woken_test" \in LivePC /\ "woken_test" \in PC \ WalkPC /\ "woken_test" \notin OtherPC
    BY DEF LivePC, PC, WalkPC, OtherPC
  <2>4. RingTo(t, "woken_test", TASK_RUNNING, k, R, R \cup {t})
    BY <1>1, <1>2, <1>5, <2>1, <2>2, <2>3, ModeState DEF RingTo
  <2> QED BY <1>3, <2>4, RingStep
<1>6. CASE k.how # "woken" /\ ~bit
  <2>1. /\ mem' = mem /\ kind' = kind
        /\ pc' = [pc EXCEPT ![t] = IF k.exclusive THEN "held" ELSE "idle"]
    BY <1>6 DEF Wait, Goto, Condition
  <2>2. QuietTo(t, IF k.exclusive THEN "held" ELSE "idle", TASK_RUNNING)
    BY <1>1, <1>2, <2>1, ModeState DEF QuietTo, LivePC, WalkPC, WokenPC, OtherPC, SleepPC, PC
  <2> QED BY <2>2, QuietStep
<1>7. CASE k.how # "woken" /\ bit
  <2> DEFINE to == IF k.how = "event" THEN "prepare" ELSE "enqueue"
  <2>1. /\ mem' = INIT_LIST_HEAD(mem, t) /\ kind' = [kind EXCEPT ![t] = k] /\ pc' = [pc EXCEPT ![t] = to]
    BY <1>7 DEF Wait, Goto, Condition
  <2>2. t \in Nodes
    BY DEF Nodes
  <2>3. mem' \in Memory /\ mem'.next = [mem.next EXCEPT ![t] = t] /\ mem'.prev = [mem.prev EXCEPT ![t] = t]
    BY <1>1, <2>1, <2>2, InitHead
  <2>4. /\ Alone(mem', t)
        /\ \A n \in Nodes \ {t} : mem'.next[n] = mem.next[n] /\ mem'.prev[n] = mem.prev[n]
    BY <1>1, <2>2, <2>3 DEF Memory, Alone
  <2>5. to \in OtherPC \ {"read_prev"} /\ to \in PC \ WalkPC /\ "idle" \notin WalkPC /\ "idle" \notin LivePC
    BY DEF OtherPC, PC, WalkPC, LivePC
  <2> HIDE DEF to
  <2>6. OwnTo(t, to, k)
    BY <1>1, <1>2, <1>7, <2>1, <2>3, <2>4, <2>5 DEF OwnTo
  <2> QED BY <2>6, OwnStep
<1> QED BY <1>5, <1>6, <1>7

(* prepare_to_wait_event() and prepare_to_wait*() under the lock *)
LEMMA EnqueueStep ==
  ASSUME IInv, NEW t \in Tasks, Enqueue(t)
  PROVE  IInv'
<1>1. /\ Types /\ Local(t) /\ mem \in Memory /\ pc \in [Tasks -> PC] /\ state \in [Tasks -> States]
      /\ kind \in [Tasks -> Kinds] /\ pc[t] = "enqueue" /\ pc' = [pc EXCEPT ![t] = "test"]
      /\ state' = [state EXCEPT ![t] = kind[t].mode] /\ lock = NULL /\ lock' = lock /\ walk' = walk
      /\ kind' = [kind EXCEPT ![t] = kind[t]]
  BY DEF IInv, Types, Enqueue, Goto, SetState
<1>2. PICK R \in SUBSET Nodes : Queue(R)
  BY DEF IInv
<1>3. t \in Live /\ kind[t].how # "woken" /\ kind[t].mode \in States
  BY <1>1, ModeState DEF Local, KindAt, OtherPC, Live, WalkPC
<1>4. /\ "test" \in LivePC /\ "test" \in PC \ WalkPC /\ "test" \notin WokenPC
      /\ "test" \in SleepPC
  BY DEF LivePC, PC, WalkPC, WokenPC, SleepPC
<1>5. /\ mem' \in Memory /\ IsRing(mem', R \cup {t})
      /\ \A n \in Nodes \ (R \cup {t}) : mem'.next[n] = mem.next[n] /\ mem'.prev[n] = mem.prev[n]
  <2>1. CASE list_empty(mem, t)
    <3>1. t \notin R
      BY <1>1, <1>2, <1>3, <2>1, QueuedOrAlone
    <3>2. mem' = list_add(mem, t, q) \/ mem' = list_add_tail(mem, t, q)
      BY <2>1 DEF Enqueue
    <3>3. IsRing(mem, R) /\ mem \in Memory
      BY <1>1, <1>2 DEF Queue
    <3>4. CASE mem' = list_add(mem, t, q)
      BY ONLY t \in Tasks, <3>1, <3>3, <3>4, AddFirst
    <3>5. CASE mem' = list_add_tail(mem, t, q)
      BY ONLY t \in Tasks, <3>1, <3>3, <3>5, AddLast
    <3> QED BY <3>2, <3>4, <3>5
  <2>2. CASE ~list_empty(mem, t)
    <3>1. t \in R /\ R \cup {t} = R
      BY <1>1, <1>2, <1>3, <2>2, QueuedOrAlone
    <3>2. mem' = mem
      BY <2>2 DEF Enqueue
    <3> QED BY <1>1, <1>2, <3>1, <3>2 DEF Queue
  <2> QED BY <2>1, <2>2
<1>6. RingTo(t, "test", kind[t].mode, kind[t], R, R \cup {t})
  BY <1>1, <1>3, <1>4, <1>5 DEF RingTo
<1> QED BY <1>2, <1>6, RingStep

(* Taking an entry out of the queue, if it is in *)
LEMMA DelAny ==
  ASSUME NEW m \in Memory, NEW R, IsRing(m, R), NEW t \in Tasks, t \in R \/ Alone(m, t),
         NEW r, r = list_del_entry(m, t)
  PROVE  /\ r \in Memory /\ IsRing(r, R \ {t})
         /\ \A n \in Nodes \ (R \cup {t}) : r.next[n] = m.next[n] /\ r.prev[n] = m.prev[n]
<1>1. CASE t \in R
  BY <1>1, DelFromRing
<1>2. CASE t \notin R
  <2>1. r \in Memory /\ r.next = m.next /\ r.prev = m.prev
    BY <1>2, DelAlone
  <2>2. IsRing(r, R) /\ R \ {t} = R
    BY <1>2, <2>1, SameRing
  <2> QED BY <2>1, <2>2
<1> QED BY <1>1, <1>2

(* with what list_del_init() and list_del() write to it afterwards *)
LEMMA DelOwn ==
  ASSUME NEW m \in Memory, NEW R, IsRing(m, R), NEW t \in Tasks, t \in R \/ Alone(m, t),
         NEW r, r = list_del_init(m, t) \/ r = list_del(m, t)
  PROVE  /\ r \in Memory /\ IsRing(r, R \ {t})
         /\ \A n \in Nodes \ (R \cup {t}) : r.next[n] = m.next[n] /\ r.prev[n] = m.prev[n]
<1>1. PICK d : d = list_del_entry(m, t)
  OBVIOUS
<1>2. /\ d \in Memory /\ IsRing(d, R \ {t})
      /\ \A n \in Nodes \ (R \cup {t}) : d.next[n] = m.next[n] /\ d.prev[n] = m.prev[n]
  BY <1>1, DelAny
<1>3. t \in Nodes /\ d.next \in [Nodes -> Pointers] /\ d.prev \in [Nodes -> Pointers] /\ R \subseteq Nodes
  BY <1>2 DEF Nodes, Memory, IsRing
<1>4. r \in Memory /\ \A n \in Nodes \ {t} : r.next[n] = d.next[n] /\ r.prev[n] = d.prev[n]
  <2>1. CASE r = list_del_init(m, t)
    <3>1. r = INIT_LIST_HEAD(d, t)
      BY <1>1, <2>1 DEF list_del_init
    <3>2. r \in Memory /\ r.next = [d.next EXCEPT ![t] = t] /\ r.prev = [d.prev EXCEPT ![t] = t]
      BY <1>2, <1>3, <3>1, InitHead
    <3> QED BY <1>3, <3>2
  <2>2. CASE r = list_del(m, t)
    <3>1. PICK m1 : m1 = SetNext(d, t, LIST_POISON1)
      OBVIOUS
    <3>2. LIST_POISON1 \in Pointers /\ LIST_POISON2 \in Pointers
      BY DEF Pointers
    <3>3. m1 \in Memory /\ m1.next = [d.next EXCEPT ![t] = LIST_POISON1] /\ m1.prev = d.prev
      BY <1>2, <1>3, <3>1, <3>2, SetNextIs
    <3>4. r = SetPrev(m1, t, LIST_POISON2)
      BY <1>1, <2>2, <3>1 DEF list_del
    <3>5. r \in Memory /\ r.prev = [m1.prev EXCEPT ![t] = LIST_POISON2] /\ r.next = m1.next
      BY <1>3, <3>2, <3>3, <3>4, SetPrevIs
    <3> QED BY <1>3, <3>3, <3>5
  <2> QED BY <2>1, <2>2
<1>5. IsRing(r, R \ {t})
  <2>1. \A n \in R \ {t} : r.next[n] = d.next[n] /\ r.prev[n] = d.prev[n]
    BY <1>3, <1>4
  <2> QED BY <1>2, <2>1, SameRing
<1> QED BY <1>2, <1>4, <1>5

(* The end of a wait under the lock: finish_wait(), abort_exclusive_wait() *)
(* without a wakeup to pass on, remove_wait_queue()                        *)
LEMMA LeaveStep ==
  ASSUME IInv, NEW t \in Tasks, NEW from \in {"unlink_self", "abort_lock", "remove"},
         Return(t, from), lock = NULL, UNCHANGED <<lock, walk, state>>,
         \/ mem' = list_del_init(mem, t) \/ mem' = list_del(mem, t)
         \/ mem' = mem /\ list_empty(mem, t)
  PROVE  IInv'
<1> DEFINE to == IF kind[t].exclusive /\ from \in {"read_next", "read_prev", "unlink_self"} THEN "held" ELSE "idle"
<1>1. /\ Types /\ Local(t) /\ mem \in Memory /\ pc \in [Tasks -> PC] /\ state \in [Tasks -> States]
      /\ kind \in [Tasks -> Kinds] /\ pc[t] = from /\ pc' = [pc EXCEPT ![t] = to]
      /\ kind' = [kind EXCEPT ![t] = NoKind]
  BY DEF IInv, Types, Return, Goto
<1>2. PICK R \in SUBSET Nodes : Queue(R)
  BY DEF IInv
<1>3. t \in Live /\ state[t] = TASK_RUNNING /\ state = [state EXCEPT ![t] = TASK_RUNNING]
  BY <1>1 DEF Local, StateAt, SleepPC, Live, WalkPC
<1>4. (t \in R \/ Alone(mem, t)) /\ (list_empty(mem, t) => t \notin R) /\ IsRing(mem, R)
  BY <1>2, <1>3, QueuedOrAlone DEF Queue
<1>5. /\ mem' \in Memory /\ IsRing(mem', R \ {t})
      /\ \A n \in Nodes \ (R \cup {t}) : mem'.next[n] = mem.next[n] /\ mem'.prev[n] = mem.prev[n]
  <2>1. CASE mem' = list_del_init(mem, t) \/ mem' = list_del(mem, t)
    BY <1>1, <1>4, <2>1, DelOwn
  <2>2. CASE mem' = mem /\ list_empty(mem, t)
    <3>1. R \ {t} = R
      BY <1>4, <2>2
    <3> QED BY <1>1, <1>4, <2>2, <3>1
  <2> QED BY <2>1, <2>2
<1>6. to \in PC \ WalkPC /\ to \notin LivePC /\ to \notin WokenPC /\ to \notin OtherPC /\ to # "read_prev"
  BY DEF PC, WalkPC, LivePC, WokenPC, OtherPC
<1> HIDE DEF to
<1>7. (R \ {t}) \ {t} = R \ {t} /\ t \notin R \ {t}
  OBVIOUS
<1>8. lock' = lock /\ walk' = walk /\ state' = [state EXCEPT ![t] = TASK_RUNNING]
  BY <1>3
<1>9. RingTo(t, to, TASK_RUNNING, NoKind, R, R \ {t})
  BY <1>1, <1>5, <1>6, <1>7, <1>8, ModeState DEF RingTo
<1> QED BY <1>2, <1>9, RingStep

(* Steps that only move on *)
LEMMA PlainSteps ==
  ASSUME IInv, NEW t \in Tasks,
         \/ Prepare(t) \/ Test(t) \/ Schedule(t) \/ Retest(t) \/ Finish(t) \/ ReadNext(t)
         \/ WokenTest(t) \/ WokenSetState(t) \/ TestFlag(t) \/ ClearFlag(t)
         \/ Release(t) \/ waitqueue_active(t) \/ SendSignal(t)
  PROVE  IInv'
<1>1. /\ Types /\ Local(t) /\ pc \in [Tasks -> PC] /\ state \in [Tasks -> States] /\ kind \in [Tasks -> Kinds]
      /\ kind[t] \in Kinds /\ state[t] \in States
  BY DEF IInv, Types
<1>2. state = [state EXCEPT ![t] = state[t]] /\ pc = [pc EXCEPT ![t] = pc[t]]
  BY <1>1
<1>3. KindAt(t) /\ StateAt(t)
  BY <1>1 DEF Local
<1>4. kind[t].mode \in States /\ kind[t].how \in {"event", "bit", "woken"} /\ TASK_RUNNING \in States
  BY <1>1, ModeState
<1>q. ASSUME NEW to, NEW s, QuietTo(t, to, s) PROVE IInv'
  BY <1>q, QuietStep
<1> USE DEF LivePC, WalkPC, WokenPC, OtherPC, SleepPC, PC
<1>5. CASE Prepare(t)
  <2>1. QuietTo(t, "test", state[t]) \/ QuietTo(t, "enqueue", state[t])
    BY <1>1, <1>2, <1>3, <1>4, <1>5 DEF Prepare, Goto, KindAt, QuietTo
  <2> QED BY <1>q, <2>1
<1>6. CASE Test(t)
  <2>1. \/ QuietTo(t, "finish", state[t]) \/ QuietTo(t, "abort", state[t])
        \/ QuietTo(t, "schedule", state[t]) \/ QuietTo(t, "retest", state[t])
    BY <1>1, <1>2, <1>3, <1>4, <1>6 DEF Test, Goto, GiveUp, Condition, KindAt, QuietTo
  <2> QED BY <1>q, <2>1
<1>7. CASE Schedule(t)
  <2>1. \/ QuietTo(t, "prepare", TASK_RUNNING) \/ QuietTo(t, "set_running", TASK_RUNNING)
        \/ QuietTo(t, "finish", TASK_RUNNING) \/ QuietTo(t, "abort", TASK_RUNNING)
        \/ QuietTo(t, "retest", TASK_RUNNING)
    <3>1. pc[t] = "schedule" /\ state' = [state EXCEPT ![t] = TASK_RUNNING] /\ UNCHANGED <<mem, lock, walk, kind>>
      BY <1>7 DEF Schedule, Goto, SetState
    <3>2. CASE kind[t].how = "event"
      BY <1>1, <1>4, <1>7, <3>1, <3>2 DEF Schedule, Goto, QuietTo
    <3>3. CASE kind[t].how = "woken"
      BY <1>1, <1>4, <1>7, <3>1, <3>3 DEF Schedule, Goto, QuietTo
    <3>4. CASE kind[t].how = "bit" /\ ~signal_pending_state(t)
      BY <1>1, <1>4, <1>7, <3>1, <3>4 DEF Schedule, Goto, QuietTo
    <3>5. CASE kind[t].how = "bit" /\ signal_pending_state(t)
      <4>1. pc' = [pc EXCEPT ![t] = GiveUp(t)]
        BY <1>7, <3>5 DEF Schedule, Goto
      <4> QED BY <1>1, <1>4, <3>1, <3>5, <4>1 DEF GiveUp, QuietTo
    <3> QED BY <1>4, <3>2, <3>3, <3>4, <3>5
  <2> QED BY <1>q, <2>1
<1>8. CASE Retest(t)
  <2>1. QuietTo(t, "finish", state[t]) \/ QuietTo(t, "enqueue", state[t])
    BY <1>1, <1>2, <1>3, <1>4, <1>8 DEF Retest, Goto, Condition, KindAt, QuietTo
  <2> QED BY <1>q, <2>1
<1>9. CASE Finish(t)
  <2>1. QuietTo(t, "read_next", TASK_RUNNING) \/ QuietTo(t, "abort_lock", TASK_RUNNING)
    BY <1>1, <1>2, <1>3, <1>4, <1>9 DEF Finish, Goto, SetState, KindAt, QuietTo
  <2> QED BY <1>q, <2>1
<1>10. CASE ReadNext(t)
  <2>1. state[t] = TASK_RUNNING
    BY <1>3, <1>10 DEF ReadNext, Goto, StateAt
  <2>2. QuietTo(t, "read_prev", state[t]) \/ QuietTo(t, "unlink_self", state[t])
    BY <1>1, <1>2, <1>3, <1>4, <1>10, <2>1 DEF ReadNext, Goto, KindAt, QuietTo
  <2> QED BY <1>q, <2>2
<1>11. CASE WokenTest(t)
  <2>1. state[t] = TASK_RUNNING
    BY <1>3, <1>11 DEF WokenTest, Goto, Condition, StateAt
  <2>2. QuietTo(t, "remove", state[t]) \/ QuietTo(t, "set_state", state[t])
    BY <1>1, <1>2, <1>3, <1>4, <1>11, <2>1 DEF WokenTest, Goto, Condition, KindAt, QuietTo
  <2> QED BY <1>q, <2>2
<1>12. CASE WokenSetState(t)
  <2>1. QuietTo(t, "test_flag", kind[t].mode) \/ QuietTo(t, "clear_flag", TASK_RUNNING)
    BY <1>1, <1>2, <1>3, <1>4, <1>12 DEF WokenSetState, Goto, SetState, KindAt, QuietTo
  <2> QED BY <1>q, <2>1
<1>13. CASE TestFlag(t)
  <2>1. QuietTo(t, "set_running", state[t]) \/ QuietTo(t, "schedule", state[t])
    BY <1>1, <1>2, <1>3, <1>4, <1>13 DEF TestFlag, Goto, KindAt, QuietTo
  <2> QED BY <1>q, <2>1
<1>14. CASE ClearFlag(t)
  <2>1. state[t] = TASK_RUNNING
    BY <1>3, <1>14 DEF ClearFlag, Goto, StateAt
  <2>2. QuietTo(t, "woken_test", state[t])
    BY <1>1, <1>2, <1>3, <1>4, <1>14, <2>1 DEF ClearFlag, Goto, KindAt, QuietTo
  <2> QED BY <1>q, <2>2
<1>15. CASE Release(t)
  <2>1. state[t] = TASK_RUNNING
    BY <1>3, <1>15 DEF Release, Goto, StateAt
  <2>2. QuietTo(t, "active", state[t]) \/ QuietTo(t, "wake", state[t])
    BY <1>1, <1>2, <1>4, <1>15, <2>1 DEF Release, Goto, QuietTo
  <2> QED BY <1>q, <2>2
<1>16. CASE waitqueue_active(t)
  <2>1. state[t] = TASK_RUNNING
    BY <1>3, <1>16 DEF waitqueue_active, Goto, StateAt
  <2>2. QuietTo(t, "idle", state[t]) \/ QuietTo(t, "wake", state[t])
    BY <1>1, <1>2, <1>4, <1>16, <2>1 DEF waitqueue_active, Goto, QuietTo
  <2> QED BY <1>q, <2>2
<1>17. CASE SendSignal(t)
  <2>1. QuietTo(t, pc[t], state[t]) \/ QuietTo(t, pc[t], TASK_RUNNING)
    BY <1>1, <1>2, <1>3, <1>4, <1>17 DEF SendSignal, SetState, WaitPC, KindAt, StateAt, QuietTo
  <2> QED BY <1>q, <2>1
<1> QED BY <1>5, <1>6, <1>7, <1>8, <1>9, <1>10, <1>11, <1>12, <1>13, <1>14, <1>15, <1>16, <1>17

(* list_empty_careful() is done. *)
LEMMA ReadPrevStep ==
  ASSUME IInv, NEW t \in Tasks, ReadPrev(t)
  PROVE  IInv'
<1>1. /\ Types /\ Local(t) /\ mem \in Memory /\ pc \in [Tasks -> PC] /\ state \in [Tasks -> States]
      /\ kind \in [Tasks -> Kinds] /\ state[t] \in States
  BY DEF IInv, Types
<1>2. pc[t] = "read_prev" /\ mem' = mem /\ lock' = lock /\ walk' = walk /\ state' = state
  BY DEF ReadPrev, Return, Goto
<1>3. mem.next[t] = t /\ state[t] = TASK_RUNNING /\ kind[t].how # "woken" /\ state = [state EXCEPT ![t] = state[t]]
  BY <1>1, <1>2 DEF Local, ReadPrevAt, StateAt, SleepPC, KindAt, OtherPC
<1>4. CASE mem.prev[t] = t
  <2> DEFINE to == IF kind[t].exclusive /\ "read_prev" \in {"read_next", "read_prev", "unlink_self"}
                   THEN "held" ELSE "idle"
  <2>1. pc' = [pc EXCEPT ![t] = to] /\ kind' = [kind EXCEPT ![t] = NoKind]
    BY <1>4 DEF ReadPrev, Return, Goto
  <2>2. to \in PC \ WalkPC /\ to \notin LivePC /\ "read_prev" \notin WalkPC
    BY DEF PC, WalkPC, LivePC
  <2> HIDE DEF to
  <2>3. OwnTo(t, to, NoKind)
    BY <1>1, <1>2, <1>3, <1>4, <2>1, <2>2, ModeState DEF OwnTo, Alone
  <2> QED BY <2>3, OwnStep
<1>5. CASE mem.prev[t] # t
  <2>1. pc' = [pc EXCEPT ![t] = "unlink_self"] /\ kind' = kind
    BY <1>5 DEF ReadPrev, Goto
  <2>2. QuietTo(t, "unlink_self", state[t])
    BY <1>1, <1>2, <1>3, <2>1 DEF QuietTo, PC, WalkPC, LivePC, WokenPC, SleepPC
  <2> QED BY <2>2, QuietStep
<1> QED BY <1>4, <1>5

----------------------------------------------------------------------------
(* Steps of a waker *)

(* The waker t goes on or, with `idle', is done; the ring is S after it.   *)
WalkTo(t, to, R, S) ==
  /\ lock = t /\ pc' = [pc EXCEPT ![t] = to]
  /\ \/ to \in WalkPC /\ lock' = t /\ kind' = kind
     \/ to = "idle" /\ lock' = NULL /\ kind' = [kind EXCEPT ![t] = NoKind]
  /\ walk' \in [Tasks -> Walks]
  /\ state' \in [Tasks -> States] /\ (\A u \in Tasks : state'[u] \in {state[u], TASK_RUNNING})
  /\ mem' \in Memory /\ IsRing(mem', S) /\ S \subseteq R
  /\ \A u \in Tasks : mem.next[u] = u => mem'.next[u] = u
  /\ \A u \in Live : \/ u \in S \/ Alone(mem', u)
                     \/ to \in {"init_next", "init_prev"} /\ walk'[t].curr = u
  /\ \A u \in R \ S : state[u] = TASK_RUNNING /\ kind[u].how # "woken"
  /\ WalkAt(t, S)'

(* A step of a waker in __wake_up_common() keeps the invariant: it may     *)
(* unlink entries and wake their tasks, but adds none.                     *)
LEMMA WalkStep ==
  ASSUME IInv, NEW t \in Tasks, NEW to, NEW R, Queue(R), NEW S, WalkTo(t, to, R, S)
  PROVE  IInv'
<1>1. /\ Types /\ (\A u \in Tasks : Local(u)) /\ pc \in [Tasks -> PC] /\ kind \in [Tasks -> Kinds]
      /\ R \subseteq Live \cup {q}
  BY DEF IInv, Types, Queue
<1>2. /\ lock = t /\ pc' = [pc EXCEPT ![t] = to] /\ to \in WalkPC \cup {"idle"}
      /\ \/ to \in WalkPC /\ lock' = t /\ kind' = kind
         \/ to = "idle" /\ lock' = NULL /\ kind' = [kind EXCEPT ![t] = NoKind]
      /\ walk' \in [Tasks -> Walks]
      /\ state' \in [Tasks -> States] /\ (\A u \in Tasks : state'[u] \in {state[u], TASK_RUNNING})
      /\ mem' \in Memory /\ IsRing(mem', S) /\ S \subseteq R
      /\ \A u \in Tasks : mem.next[u] = u => mem'.next[u] = u
  BY DEF WalkTo
<1>3. "idle" \notin WalkPC /\ WalkPC \cup {"idle"} \subseteq PC \ LivePC
  BY DEF WalkPC, PC, LivePC
<1>4. Types'
  BY <1>1, <1>2, <1>3, ModeState DEF Types
<1>5. /\ pc'[t] = to
      /\ \A u \in Tasks \ {t} : pc'[u] = pc[u] /\ kind'[u] = kind[u]
  BY <1>1, <1>2
<1>6. pc[t] \in WalkPC /\ \A u \in Tasks \ {t} : pc[u] \notin WalkPC
  BY <1>1, <1>2 DEF Local, LockAt
<1>7. \A u \in Tasks : u \in Live' <=> u \in Live
  BY <1>1, <1>2, <1>3, <1>4, <1>5, <1>6, LiveIs, LiveNext
<1>8. t \notin Live
  BY <1>6 DEF Live
<1>9. \A u \in Tasks : Local(u)'
  <2> SUFFICES ASSUME NEW u \in Tasks PROVE Local(u)'
    OBVIOUS
  <2>1. Local(u)
    BY <1>1
  <2>2. LockAt(u)'
    BY <1>2, <1>3, <1>5, <1>6 DEF LockAt
  <2>3. CASE u = t
    <3>1. KindAt(u)' /\ ReadPrevAt(u)'
      BY <1>2, <1>5, <2>3 DEF KindAt, ReadPrevAt, WalkPC, WokenPC, OtherPC
    <3>2. state[t] = TASK_RUNNING
      BY <1>6, <2>1, <2>3 DEF Local, StateAt, WalkPC, SleepPC
    <3>3. StateAt(u)'
      BY <1>2, <2>3, <3>2 DEF StateAt
    <3> QED BY <2>2, <3>1, <3>3 DEF Local
  <2>4. CASE u # t
    BY <1>2, <1>5, <2>1, <2>2, <2>4 DEF Local, KindAt, StateAt, ReadPrevAt
  <2> QED BY <2>3, <2>4
<1>10. Queue(S)'
  <2>1. IsRing(mem, S)'
    BY <1>2
  <2>2. (S \subseteq Live \cup {q})'
    BY <1>1, <1>2, <1>7 DEF Live
  <2>3. ASSUME NEW u \in Tasks PROVE EntryAt(u, S)'
    <3>1. u \in Live => \/ u \in S \/ Alone(mem', u)
                        \/ to \in {"init_next", "init_prev"} /\ walk'[t].curr = u
      BY DEF WalkTo
    <3>2. to \in {"init_next", "init_prev"} => lock' = t
      BY <1>2
    <3> QED BY <1>5, <1>7, <3>1, <3>2 DEF EntryAt
  <2>4. ASSUME NEW u \in Tasks PROVE SleepAt(u, S)'
    <3>1. SleepAt(u, R) /\ (u \in R \ S => state[u] = TASK_RUNNING /\ kind[u].how # "woken")
      BY DEF Queue, WalkTo
    <3>2. u \in Live => kind'[u] = kind[u]
      BY <1>5, <1>8
    <3>3. state'[u] # TASK_RUNNING => state[u] # TASK_RUNNING
      BY <1>2
    <3> QED BY <1>7, <3>1, <3>2, <3>3 DEF SleepAt
  <2>5. ASSUME NEW u \in Tasks PROVE WalkAt(u, S)'
    <3>1. CASE u = t
      BY <3>1 DEF WalkTo
    <3>2. CASE u # t
      BY <1>5, <1>6, <3>2 DEF WalkAt
    <3> QED BY <3>1, <3>2
  <2> QED BY <2>1, <2>2, <2>3, <2>4, <2>5 DEF Queue
<1>11. S \in SUBSET Nodes /\ lock' \in Tasks \cup {NULL}
  BY <1>2 DEF IsRing
<1> QED BY <1>4, <1>9, <1>10, <1>11 DEF IInv

(* A waker takes the lock and reads the first entry. *)
LEMMA BeginStep ==
  ASSUME IInv, NEW t \in Tasks, NEW m \in States, NEW n \in Int, BeginWalk(t, m, n), lock = NULL,
         pc[t] = "wake" \/ (pc[t] = "abort_lock" /\ list_empty(mem, t)),
         pc' = [pc EXCEPT ![t] = "call"], UNCHANGED <<mem, state, kind>>
  PROVE  IInv'
<1>1. /\ Types /\ (\A u \in Tasks : Local(u)) /\ pc \in [Tasks -> PC] /\ walk \in [Tasks -> Walks]
  BY DEF IInv, Types
<1>2. PICK R \in SUBSET Nodes : Queue(R)
  BY DEF IInv
<1>3. IsRing(mem, R) /\ R \subseteq Live \cup {q}
  BY <1>2 DEF Queue
<1> DEFINE first == mem.next[q]
           second == mem.next[first]
<1>4. q \in R /\ first \in R /\ second \in R /\ (first # q => second # first)
  <2>1. q \in R /\ first \in R /\ second \in R
    BY <1>3 DEF IsRing, Inverse
  <2> QED BY <1>3, <2>1, NotAlone
<1>5. /\ lock' = t
      /\ walk' = [walk EXCEPT ![t] = [curr |-> first, next |-> second, mode |-> m, nr |-> n]]
  BY DEF BeginWalk
<1> HIDE DEF first, second
<1>6. [curr |-> first, next |-> second, mode |-> m, nr |-> n] \in Walks
  BY <1>4 DEF Walks
<1>7. walk' \in [Tasks -> Walks] /\ walk'[t].curr = first /\ walk'[t].next = second
  BY <1>1, <1>5, <1>6
<1>8. pc'[t] = "call" /\ \A u \in Tasks \ {t} : pc'[u] = pc[u]
  BY <1>1
<1>9. "call" \in WalkPC /\ "call" \in PC /\ "call" \notin LivePC
  BY DEF WalkPC, PC, LivePC
<1>10. Types'
  BY <1>1, <1>7, <1>9 DEF Types
<1>11. t \notin Live' /\ \A u \in Tasks \ {t} : u \in Live' <=> u \in Live
  BY <1>1, <1>8, <1>9, <1>10, LiveIs, LiveNext
<1>12. t \notin R
  <2>1. CASE pc[t] = "wake"
    BY <1>3, <2>1 DEF Live
  <2>2. CASE list_empty(mem, t)
    BY <1>3, <2>2, NotAlone DEF list_empty
  <2> QED BY <2>1, <2>2
<1>13. \A u \in Tasks : pc[u] \notin WalkPC
  BY NobodyWalks
<1>14. \A u \in Tasks : Local(u)'
  <2> SUFFICES ASSUME NEW u \in Tasks PROVE Local(u)'
    OBVIOUS
  <2>1. Local(u)
    BY <1>1
  <2>2. LockAt(u)'
    BY <1>5, <1>8, <1>9, <1>13 DEF LockAt
  <2>3. CASE u = t
    <3>1. state[t] = TASK_RUNNING
      BY <2>1, <2>3 DEF Local, StateAt, SleepPC
    <3> QED BY <1>8, <2>2, <2>3, <3>1 DEF Local, KindAt, StateAt, ReadPrevAt, WokenPC, OtherPC
  <2>4. CASE u # t
    BY <1>8, <2>1, <2>2, <2>4 DEF Local, KindAt, StateAt, ReadPrevAt
  <2> QED BY <2>3, <2>4
<1>15. Queue(R)'
  <2>1. IsRing(mem, R)' /\ (R \subseteq Live \cup {q})'
    BY <1>3, <1>11, <1>12 DEF Live
  <2>2. ASSUME NEW u \in Tasks PROVE EntryAt(u, R)'
    <3>1. u \in Live => u \in R \/ Alone(mem, u)
      BY <1>2 DEF Queue, EntryAt
    <3> QED BY <1>11, <3>1 DEF EntryAt, Alone
  <2>3. ASSUME NEW u \in Tasks PROVE SleepAt(u, R)'
    <3>1. SleepAt(u, R)
      BY <1>2 DEF Queue
    <3> QED BY <1>11, <3>1 DEF SleepAt
  <2>4. ASSUME NEW u \in Tasks PROVE WalkAt(u, R)'
    <3>1. CASE u = t
      BY <1>4, <1>7, <1>8, <3>1 DEF WalkAt
    <3>2. CASE u # t
      BY <1>8, <1>13, <3>2 DEF WalkAt
    <3> QED BY <3>1, <3>2
  <2> QED BY <2>1, <2>2, <2>3, <2>4 DEF Queue
<1> QED BY <1>2, <1>5, <1>10, <1>14, <1>15 DEF IInv

(* What is known of a waker *)
LEMMA Waker ==
  ASSUME IInv, NEW t \in Tasks, pc[t] \in WalkPC, NEW R, Queue(R)
  PROVE  /\ lock = t /\ Types /\ mem \in Memory /\ walk \in [Tasks -> Walks] /\ kind \in [Tasks -> Kinds]
         /\ state \in [Tasks -> States] /\ walk[t] \in Walks
         /\ IsRing(mem, R) /\ R \subseteq Live \cup {q} /\ R \subseteq Nodes /\ WalkAt(t, R)
         /\ \A u \in Live : \/ u \in R \/ Alone(mem, u)
                            \/ pc[t] \in {"init_next", "init_prev"} /\ walk[t].curr = u
<1>1. lock = t
  BY DEF IInv, Local, LockAt
<1>2. \A u \in Tasks : EntryAt(u, R)
  BY DEF Queue
<1>3. \A u \in Live : \/ u \in R \/ Alone(mem, u)
                      \/ pc[t] \in {"init_next", "init_prev"} /\ walk[t].curr = u
  BY <1>1, <1>2 DEF EntryAt, Live
<1> QED BY <1>1, <1>3 DEF IInv, Types, Queue, IsRing

(* The step to the next entry, wherever it comes from *)
LEMMA NextEntryWalks ==
  ASSUME IInv, NEW t \in Tasks, pc[t] \in WalkPC, NEW R, Queue(R), NEW from, NEW n \in Int,
         NextEntry(t, from, n)
  PROVE  /\ lock' = t /\ kind' = kind /\ pc' = [pc EXCEPT ![t] = "call"] /\ "call" \in WalkPC
         /\ walk' \in [Tasks -> Walks]
         /\ WalkAt(t, R)'
<1>1. /\ lock = t /\ mem \in Memory /\ walk \in [Tasks -> Walks] /\ walk[t] \in Walks
      /\ IsRing(mem, R) /\ R \subseteq Nodes /\ walk[t].next \in R /\ pc \in [Tasks -> PC]
  BY Waker DEF WalkAt, Types
<1> DEFINE e == walk[t].next
           f == mem.next[e]
<1>2. f \in R /\ (e # q => f # e)
  <2>1. f \in R
    BY <1>1 DEF IsRing, Inverse
  <2> QED BY <1>1, <2>1, NotAlone
<1>3. /\ lock' = t /\ kind' = kind /\ pc' = [pc EXCEPT ![t] = "call"]
      /\ walk' = [walk EXCEPT ![t].curr = e, ![t].next = f, ![t].nr = n]
  BY <1>1 DEF NextEntry, Goto
<1>0. e \in R
  BY <1>1
<1> HIDE DEF e, f
<1>4. walk' = [walk EXCEPT ![t] = [curr |-> e, next |-> f, mode |-> walk[t].mode, nr |-> n]]
  <2>1. PICK w \in Walks : w = walk[t]
    BY <1>1
  <2>2. [w EXCEPT !.curr = e, !.next = f, !.nr = n] = [curr |-> e, next |-> f, mode |-> w.mode, nr |-> n]
    <3>1. PICK x : x = [w EXCEPT !.curr = e]
      OBVIOUS
    <3>2. PICK y : y = [x EXCEPT !.next = f]
      OBVIOUS
    <3>3. x = [curr |-> e, next |-> w.next, mode |-> w.mode, nr |-> w.nr]
      BY <3>1 DEF Walks
    <3>4. y = [curr |-> e, next |-> f, mode |-> w.mode, nr |-> w.nr]
      BY <3>2, <3>3
    <3>5. [y EXCEPT !.nr = n] = [curr |-> e, next |-> f, mode |-> w.mode, nr |-> n]
      BY <3>4
    <3> QED BY <3>1, <3>2, <3>5
  <2>3. walk' = [walk EXCEPT ![t] = [w EXCEPT !.curr = e, !.next = f, !.nr = n]]
    BY <1>1, <1>3, <2>1
  <2> QED BY <2>1, <2>2, <2>3
<1>5. [curr |-> e, next |-> f, mode |-> walk[t].mode, nr |-> n] \in Walks
  BY <1>0, <1>1, <1>2 DEF Walks
<1>6. walk' \in [Tasks -> Walks] /\ walk'[t].curr = e /\ walk'[t].next = f
  BY <1>1, <1>4, <1>5
<1>7. pc'[t] = "call" /\ "call" \in WalkPC
  BY <1>1, <1>3 DEF WalkPC
<1>8. WalkAt(t, R)'
  BY <1>0, <1>2, <1>6, <1>7 DEF WalkAt
<1> QED BY <1>3, <1>6, <1>7, <1>8

(* The end of the walk, wherever it comes from *)
LEMMA EndWalks ==
  ASSUME IInv, NEW t \in Tasks, NEW R, NEW from \in {"call", "init_prev"}, EndWalk(t, from)
  PROVE  /\ pc' = [pc EXCEPT ![t] = "idle"] /\ lock' = NULL /\ kind' = [kind EXCEPT ![t] = NoKind]
         /\ walk' \in [Tasks -> Walks]
         /\ WalkAt(t, R)'
<1>1. walk \in [Tasks -> Walks] /\ pc \in [Tasks -> PC]
  BY DEF IInv, Types
<1>2. NoWalk \in Walks
  BY DEF NoWalk, Walks, States
<1>3. /\ pc' = [pc EXCEPT ![t] = "idle"] /\ lock' = NULL /\ kind' = [kind EXCEPT ![t] = NoKind]
      /\ walk' = [walk EXCEPT ![t] = NoWalk]
  BY DEF EndWalk, Return, Goto
<1>4. pc'[t] = "idle" /\ "idle" \notin WalkPC
  BY <1>1, <1>3 DEF WalkPC
<1>5. WalkAt(t, R)'
  BY <1>4 DEF WalkAt
<1> QED BY <1>1, <1>2, <1>3, <1>5

(* The head of the loop of __wake_up_common() *)
LEMMA CallStep ==
  ASSUME IInv, NEW t \in Tasks, Call(t)
  PROVE  IInv'
<1>1. PICK R \in SUBSET Nodes : Queue(R)
  BY DEF IInv
<1>2. pc[t] = "call" /\ pc[t] \in WalkPC /\ mem' = mem /\ state' = state
  BY DEF Call, WalkPC
<1>3. /\ lock = t /\ Types /\ mem \in Memory /\ walk \in [Tasks -> Walks] /\ kind \in [Tasks -> Kinds]
      /\ state \in [Tasks -> States] /\ walk[t] \in Walks /\ pc \in [Tasks -> PC]
      /\ IsRing(mem, R) /\ R \subseteq Nodes /\ WalkAt(t, R)
      /\ \A u \in Live : u \in R \/ Alone(mem, u)
  BY <1>1, <1>2, Waker DEF Types
<1>4. ASSUME NEW to, pc' = [pc EXCEPT ![t] = to], walk' \in [Tasks -> Walks], WalkAt(t, R)',
             \/ to \in WalkPC /\ lock' = t /\ kind' = kind
             \/ to = "idle" /\ lock' = NULL /\ kind' = [kind EXCEPT ![t] = NoKind]
      PROVE  IInv'
  <2>1. WalkTo(t, to, R, R)
    BY <1>2, <1>3, <1>4 DEF WalkTo
  <2> QED BY <1>1, <2>1, WalkStep
<1>5. CASE EndWalk(t, "call")
  BY <1>4, <1>5, EndWalks
<1>6. CASE NextEntry(t, "call", walk[t].nr)
  <2>1. walk[t].nr \in Int
    BY <1>3 DEF Walks
  <2> QED BY <1>1, <1>2, <1>4, <1>6, <2>1, NextEntryWalks
<1>7. CASE walk[t].curr # q /\ Goto(t, "call", "call_wake") /\ UNCHANGED <<lock, walk, kind, int, signal>>
  <2>1. /\ pc' = [pc EXCEPT ![t] = "call_wake"] /\ pc'[t] = "call_wake" /\ "call_wake" \in WalkPC
        /\ lock' = t /\ kind' = kind /\ walk' = walk
    BY <1>3, <1>7 DEF Goto, WalkPC
  <2>2. walk[t].next \in R /\ walk[t].curr \in R /\ walk[t].curr \in Tasks /\ walk[t].next # walk[t].curr
    BY <1>2, <1>3, <1>7 DEF WalkAt, Nodes
  <2>3. WalkAt(t, R)'
    BY <2>1, <2>2 DEF WalkAt
  <2> QED BY <1>3, <1>4, <2>1, <2>3
<1>8. \/ EndWalk(t, "call") \/ NextEntry(t, "call", walk[t].nr)
      \/ walk[t].curr # q /\ Goto(t, "call", "call_wake") /\ UNCHANGED <<lock, walk, kind, int, signal>>
  <2>1. CASE walk[t].curr = q
    BY <2>1 DEF Call
  <2>2. CASE walk[t].curr # q /\ use = "bit" /\ bit
    BY <2>2 DEF Call
  <2>3. CASE walk[t].curr # q /\ ~(use = "bit" /\ bit)
    BY <2>3 DEF Call
  <2> QED BY <2>1, <2>2, <2>3
<1> QED BY <1>5, <1>6, <1>7, <1>8

(* default_wake_function() *)
LEMMA CallWakeStep ==
  ASSUME IInv, NEW t \in Tasks, CallWake(t)
  PROVE  IInv'
<1> DEFINE curr == walk[t].curr
           woken == state[curr] \cap walk[t].mode # {}
<1>1. PICK R \in SUBSET Nodes : Queue(R)
  BY DEF IInv
<1>2. /\ pc[t] = "call_wake" /\ pc[t] \in WalkPC /\ mem' = mem
      /\ state' = IF woken THEN [state EXCEPT ![curr] = TASK_RUNNING] ELSE state
  BY DEF CallWake, WalkPC
<1>3. /\ lock = t /\ Types /\ mem \in Memory /\ walk \in [Tasks -> Walks] /\ kind \in [Tasks -> Kinds]
      /\ state \in [Tasks -> States] /\ walk[t] \in Walks /\ pc \in [Tasks -> PC]
      /\ IsRing(mem, R) /\ R \subseteq Nodes /\ WalkAt(t, R)
      /\ \A u \in Live : u \in R \/ Alone(mem, u)
  BY <1>1, <1>2, Waker DEF Types
<1>4. curr \in Tasks /\ curr \in R /\ curr # q /\ walk[t].next # curr /\ walk[t].next \in R
  BY <1>2, <1>3 DEF WalkAt
<1>5. state' \in [Tasks -> States] /\ (\A u \in Tasks : state'[u] \in {state[u], TASK_RUNNING})
  BY <1>2, <1>3, <1>4, ModeState
<1>6. ASSUME NEW to \in WalkPC, pc' = [pc EXCEPT ![t] = to], walk' \in [Tasks -> Walks], WalkAt(t, R)',
             lock' = t, kind' = kind
      PROVE  IInv'
  <2>1. WalkTo(t, to, R, R)
    BY <1>2, <1>3, <1>5, <1>6 DEF WalkTo
  <2> QED BY <1>1, <2>1, WalkStep
<1>7. CASE woken /\ kind[curr].how # "woken"
  <2>1. /\ pc' = [pc EXCEPT ![t] = "unlink"] /\ pc'[t] = "unlink" /\ "unlink" \in WalkPC
        /\ lock' = t /\ kind' = kind /\ walk' = walk
    BY <1>3, <1>7 DEF CallWake, Goto, WalkPC
  <2>2. state'[curr] = TASK_RUNNING
    BY <1>2, <1>3, <1>4, <1>7
  <2>3. WalkAt(t, R)'
    BY <1>4, <1>7, <2>1, <2>2 DEF WalkAt
  <2> QED BY <1>3, <1>6, <2>1, <2>3
<1>8. CASE ~(woken /\ kind[curr].how # "woken")
  <2>1. NextEntry(t, "call_wake", walk[t].nr)
    BY <1>8 DEF CallWake
  <2>2. walk[t].nr \in Int
    BY <1>3 DEF Walks
  <2> QED BY <1>1, <1>2, <1>6, <2>1, <2>2, NextEntryWalks
<1> QED BY <1>7, <1>8

(* __list_del() of the entry's neighbours *)
LEMMA UnlinkStep ==
  ASSUME IInv, NEW t \in Tasks, Unlink(t)
  PROVE  IInv'
<1>0. PICK c : c = walk[t].curr
  OBVIOUS
<1>1. PICK R \in SUBSET Nodes : Queue(R)
  BY DEF IInv
<1>2. /\ pc[t] = "unlink" /\ pc[t] \in WalkPC /\ mem' = list_del_entry(mem, c)
      /\ state' = state /\ lock' = lock /\ walk' = walk /\ kind' = kind
  BY <1>0 DEF Unlink, Goto, WalkPC
<1>3. /\ lock = t /\ Types /\ mem \in Memory /\ walk \in [Tasks -> Walks] /\ kind \in [Tasks -> Kinds]
      /\ state \in [Tasks -> States] /\ walk[t] \in Walks /\ pc \in [Tasks -> PC]
      /\ IsRing(mem, R) /\ R \subseteq Nodes /\ R \subseteq Live \cup {q} /\ WalkAt(t, R)
      /\ \A u \in Live : u \in R \/ Alone(mem, u)
  BY <1>1, <1>2, Waker DEF Types
<1>4. /\ c \in Tasks /\ c \in R /\ c # q /\ walk[t].next # c /\ walk[t].next \in R
      /\ state[c] = TASK_RUNNING /\ kind[c].how # "woken"
  BY <1>0, <1>2, <1>3 DEF WalkAt
<1>5. pc' = [pc EXCEPT ![t] = "init_next"] /\ pc'[t] = "init_next" /\ "init_next" \in WalkPC
  BY <1>3 DEF Unlink, Goto, WalkPC
<1>6. /\ mem' \in Memory /\ IsRing(mem', R \ {c})
      /\ \A n \in Nodes \ (R \ {c}) : mem'.next[n] = mem.next[n] /\ mem'.prev[n] = mem.prev[n]
  BY <1>2, <1>3, <1>4, DelFromRing
<1>7. mem'.next[c] # c /\ mem'.prev[c] # c
  BY <1>3, <1>4, <1>6, NotAlone
<1>8. \A u \in Tasks : mem.next[u] = u => u \notin R
  BY <1>3, NotAlone
<1>9. \A u \in Tasks : mem.next[u] = u => mem'.next[u] = u /\ (mem.prev[u] = u => mem'.prev[u] = u)
  BY <1>6, <1>8 DEF Nodes
<1>10. \A u \in Live : u \in R \ {c} \/ Alone(mem', u) \/ walk'[t].curr = u
  <2> SUFFICES ASSUME NEW u \in Live, u # c, u \notin R PROVE Alone(mem', u)
    BY <1>0, <1>2
  <2>1. u \in Tasks /\ Alone(mem, u)
    BY <1>3 DEF Live
  <2> QED BY <1>9, <2>1 DEF Alone
<1>11. c \in Live'
  <2>1. c \in Live /\ c # t
    BY <1>2, <1>3, <1>4 DEF Live
  <2>2. pc'[c] = pc[c]
    BY <1>3, <1>4, <1>5, <2>1
  <2> QED BY <1>4, <2>1, <2>2 DEF Live
<1>12. WalkAt(t, R \ {c})'
  BY <1>0, <1>2, <1>4, <1>5, <1>7, <1>11 DEF WalkAt
<1>13. \A u \in R \ (R \ {c}) : state[u] = TASK_RUNNING /\ kind[u].how # "woken"
  BY <1>4
<1>14. WalkTo(t, "init_next", R, R \ {c})
  BY <1>2, <1>3, <1>5, <1>6, <1>9, <1>10, <1>12, <1>13 DEF WalkTo
<1> QED BY <1>1, <1>14, WalkStep

(* INIT_LIST_HEAD() of the entry: its next field, *)
LEMMA InitNextStep ==
  ASSUME IInv, NEW t \in Tasks, InitNext(t)
  PROVE  IInv'
<1> DEFINE c == walk[t].curr
<1>1. PICK R \in SUBSET Nodes : Queue(R)
  BY DEF IInv
<1>2. /\ pc[t] = "init_next" /\ pc[t] \in WalkPC /\ mem' = SetNext(mem, c, c)
      /\ state' = state /\ lock' = lock /\ walk' = walk /\ kind' = kind
  BY DEF InitNext, Goto, WalkPC
<1>3. /\ lock = t /\ Types /\ mem \in Memory /\ walk \in [Tasks -> Walks] /\ kind \in [Tasks -> Kinds]
      /\ state \in [Tasks -> States] /\ walk[t] \in Walks /\ pc \in [Tasks -> PC]
      /\ IsRing(mem, R) /\ R \subseteq Nodes /\ R \subseteq Live \cup {q} /\ WalkAt(t, R)
      /\ \A u \in Live : u \in R \/ Alone(mem, u) \/ c = u
  BY <1>1, <1>2, Waker DEF Types
<1>4. /\ c \in Tasks /\ c \in Live /\ c \notin R /\ walk[t].next \in R
      /\ mem.next[c] # c /\ mem.prev[c] # c
  BY <1>2, <1>3 DEF WalkAt
<1>5. pc' = [pc EXCEPT ![t] = "init_prev"] /\ pc'[t] = "init_prev" /\ "init_prev" \in WalkPC
  BY <1>3 DEF InitNext, Goto, WalkPC
<1>0. c = walk[t].curr /\ c \in Nodes /\ c \in Pointers
  BY <1>4 DEF Nodes, Pointers
<1> HIDE DEF c
<1>6. mem' \in Memory /\ mem'.next = [mem.next EXCEPT ![c] = c] /\ mem'.prev = mem.prev
  BY <1>0, <1>2, <1>3, SetNextIs
<1>7. mem'.next[c] = c /\ mem'.prev[c] # c /\ \A n \in Nodes \ {c} : mem'.next[n] = mem.next[n]
  BY <1>0, <1>3, <1>4, <1>6 DEF Memory
<1>8. IsRing(mem', R)
  <2>1. \A n \in R : mem'.next[n] = mem.next[n] /\ mem'.prev[n] = mem.prev[n]
    BY <1>3, <1>4, <1>6, <1>7
  <2> QED BY <1>3, <2>1, SameRing
<1>9. \A u \in Tasks : mem.next[u] = u => mem'.next[u] = u
  BY <1>7 DEF Nodes
<1>10. \A u \in Live : u \in R \/ Alone(mem', u) \/ walk'[t].curr = u
  <2> SUFFICES ASSUME NEW u \in Live, u # c, u \notin R PROVE Alone(mem', u)
    BY <1>0, <1>2
  <2>1. u \in Tasks /\ Alone(mem, u)
    BY <1>3 DEF Live
  <2> QED BY <1>6, <1>9, <2>1 DEF Alone
<1>11. c \in Live'
  <2>1. c # t
    BY <1>2, <1>4 DEF Live
  <2>2. pc'[c] = pc[c]
    BY <1>3, <1>4, <1>5, <2>1
  <2> QED BY <1>4, <2>2 DEF Live
<1>12. WalkAt(t, R)'
  BY <1>0, <1>2, <1>4, <1>5, <1>7, <1>11 DEF WalkAt
<1>13. WalkTo(t, "init_prev", R, R)
  BY <1>2, <1>3, <1>5, <1>6, <1>8, <1>9, <1>10, <1>12 DEF WalkTo
<1> QED BY <1>1, <1>13, WalkStep

(* and its prev field, with which the entry is its owner's *)
LEMMA InitPrevStep ==
  ASSUME IInv, NEW t \in Tasks, InitPrev(t)
  PROVE  IInv'
<1> DEFINE c == walk[t].curr
<1>1. PICK R \in SUBSET Nodes : Queue(R)
  BY DEF IInv
<1>2. pc[t] = "init_prev" /\ pc[t] \in WalkPC /\ mem' = SetPrev(mem, c, c) /\ state' = state
  BY DEF InitPrev, WalkPC
<1>3. /\ lock = t /\ Types /\ mem \in Memory /\ walk \in [Tasks -> Walks] /\ kind \in [Tasks -> Kinds]
      /\ state \in [Tasks -> States] /\ walk[t] \in Walks /\ pc \in [Tasks -> PC]
      /\ IsRing(mem, R) /\ R \subseteq Nodes /\ R \subseteq Live \cup {q} /\ WalkAt(t, R)
      /\ \A u \in Live : u \in R \/ Alone(mem, u) \/ c = u
  BY <1>1, <1>2, Waker DEF Types
<1>4. c \in Tasks /\ c \notin R /\ mem.next[c] = c
  BY <1>2, <1>3 DEF WalkAt
<1>5. c \in Nodes /\ c \in Pointers
  BY <1>4 DEF Nodes, Pointers
<1>6. mem' \in Memory /\ mem'.prev = [mem.prev EXCEPT ![c] = c] /\ mem'.next = mem.next
  <2> HIDE DEF c
  <2> QED BY <1>2, <1>3, <1>5, SetPrevIs
<1>7. mem'.prev[c] = c /\ \A n \in Nodes \ {c} : mem'.prev[n] = mem.prev[n]
  BY <1>3, <1>5, <1>6 DEF Memory
<1>8. IsRing(mem', R)
  <2>1. \A n \in R : mem'.next[n] = mem.next[n] /\ mem'.prev[n] = mem.prev[n]
    BY <1>3, <1>4, <1>6, <1>7
  <2> QED BY <1>3, <2>1, SameRing
<1>9. \A u \in Live : u \in R \/ Alone(mem', u)
  <2> SUFFICES ASSUME NEW u \in Live, u \notin R PROVE Alone(mem', u)
    OBVIOUS
  <2>1. u \in Nodes /\ (u = c \/ Alone(mem, u))
    BY <1>3 DEF Live, Nodes
  <2>2. CASE u = c
    BY <1>4, <1>6, <1>7, <2>2 DEF Alone
  <2>3. CASE u # c
    BY <1>6, <1>7, <2>1, <2>3 DEF Alone
  <2> QED BY <2>2, <2>3
<1>10. ASSUME NEW to, pc' = [pc EXCEPT ![t] = to], walk' \in [Tasks -> Walks], WalkAt(t, R)',
             \/ to \in WalkPC /\ lock' = t /\ kind' = kind
             \/ to = "idle" /\ lock' = NULL /\ kind' = [kind EXCEPT ![t] = NoKind]
      PROVE  IInv'
  <2>1. \A u \in Tasks : mem.next[u] = u => mem'.next[u] = u
    BY <1>6
  <2>2. WalkTo(t, to, R, R)
    BY <1>2, <1>3, <1>6, <1>8, <1>9, <1>10, <2>1 DEF WalkTo
  <2> QED BY <1>1, <2>2, WalkStep
<1>11. CASE EndWalk(t, "init_prev")
  BY <1>10, <1>11, EndWalks
<1>12. ASSUME NEW n \in Int, NextEntry(t, "init_prev", n) PROVE IInv'
  BY <1>1, <1>2, <1>10, <1>12, NextEntryWalks
<1>13. walk[t].nr \in Int /\ walk[t].nr - 1 \in Int
  BY <1>3 DEF Walks
<1>14. \/ EndWalk(t, "init_prev") \/ NextEntry(t, "init_prev", walk[t].nr)
       \/ NextEntry(t, "init_prev", walk[t].nr - 1)
  BY DEF InitPrev
<1> QED BY <1>11, <1>12, <1>13, <1>14

----------------------------------------------------------------------------
(* All steps together *)

(* Initially the queue is its head. *)
LEMMA InitInv ==
  ASSUME Init
  PROVE  IInv
<1>1. q \in Nodes /\ \A t \in Tasks : t \in Nodes
  BY DEF Nodes
<1>2. /\ mem \in Memory /\ mem.next[q] = q /\ mem.prev[q] = q
  BY <1>1 DEF Init, Nodes, Pointers, Memory
<1>3. Types
  <2>1. NoWalk \in Walks
    BY DEF NoWalk, Walks, States
  <2> QED BY <1>2, <2>1, ModeState DEF Init, Types, PC
<1>4. \A t \in Tasks : pc[t] = "idle" /\ t \notin Live
  BY DEF Init, Live
<1>5. \A t \in Tasks : Local(t)
  BY <1>4 DEF Init, Local, LockAt, KindAt, StateAt, ReadPrevAt, WalkPC, WokenPC, OtherPC
<1>6. IsRing(mem, {q})
  <2>1. [n \in Nodes |-> 0] \in [Nodes -> Nat] /\ Ordered(mem, {q}, [n \in Nodes |-> 0])
    BY <1>1 DEF Ordered
  <2>2. Inverse(mem, {q})
    BY <1>2 DEF Inverse
  <2> QED BY <1>1, <2>1, <2>2 DEF IsRing
<1>7. Queue({q})
  BY <1>4, <1>6 DEF Queue, EntryAt, SleepAt, WalkAt, WalkPC
<1> QED BY <1>1, <1>3, <1>5, <1>7 DEF IInv, Init

(* A step that changes nothing *)
LEMMA StutterInv ==
  ASSUME IInv, UNCHANGED vars
  PROVE  IInv'
<1>1. UNCHANGED <<mem, lock, kind, pc, state, walk>>
  BY DEF vars
<1>2. Live' = Live
  BY <1>1 DEF Live
<1>3. PICK R \in SUBSET Nodes : Queue(R)
  BY DEF IInv
<1>4. Queue(R)'
  BY <1>1, <1>2, <1>3 DEF Queue, EntryAt, SleepAt, WalkAt
<1>5. Types' /\ (lock \in Tasks \cup {NULL})' /\ \A t \in Tasks : Local(t)'
  BY <1>1 DEF IInv, Types, Local, LockAt, KindAt, StateAt, ReadPrevAt
<1> QED BY <1>4, <1>5 DEF IInv

(* Every step keeps the invariant. *)
LEMMA NextInv ==
  ASSUME IInv, Next
  PROVE  IInv'
<1>1. PICK t \in Tasks : (\E k \in Kinds : Wait(t, k)) \/ Step(t) \/ SendSignal(t)
  BY DEF Next
<1>2. CASE \E k \in Kinds : Wait(t, k)
  BY <1>2, WaitStep
<1>3. CASE \/ Prepare(t) \/ Test(t) \/ Schedule(t) \/ Retest(t) \/ Finish(t) \/ ReadNext(t)
           \/ WokenTest(t) \/ WokenSetState(t) \/ TestFlag(t) \/ ClearFlag(t)
           \/ Release(t) \/ waitqueue_active(t) \/ SendSignal(t)
  BY <1>3, PlainSteps
<1>4. CASE Enqueue(t)
  BY <1>4, EnqueueStep
<1>5. CASE ReadPrev(t)
  BY <1>5, ReadPrevStep
<1>6. CASE UnlinkSelf(t)
  <2>1. lock = NULL /\ Return(t, "unlink_self") /\ mem' = list_del_init(mem, t) /\ UNCHANGED <<lock, walk, state>>
    BY <1>6 DEF UnlinkSelf
  <2> QED BY <2>1, LeaveStep
<1>7. CASE remove_wait_queue(t)
  <2>1. lock = NULL /\ Return(t, "remove") /\ mem' = list_del(mem, t) /\ UNCHANGED <<lock, walk, state>>
    BY <1>7 DEF remove_wait_queue
  <2> QED BY <2>1, LeaveStep
<1>8. CASE AbortLock(t)
  <2>1. CASE list_empty(mem, t) /\ ~list_empty(mem, q)
    <3>1. /\ lock = NULL /\ pc[t] = "abort_lock" /\ pc' = [pc EXCEPT ![t] = "call"]
          /\ BeginWalk(t, kind[t].mode, 1) /\ UNCHANGED <<mem, state, kind>>
      BY <1>8, <2>1 DEF AbortLock, Goto
    <3>2. kind[t].mode \in States /\ 1 \in Int
      BY ModeState DEF IInv, Types
    <3> QED BY <2>1, <3>1, <3>2, BeginStep
  <2>2. CASE ~(list_empty(mem, t) /\ ~list_empty(mem, q))
    <3>1. /\ lock = NULL /\ Return(t, "abort_lock") /\ UNCHANGED <<lock, walk, state>>
          /\ mem' = list_del_init(mem, t) \/ (mem' = mem /\ list_empty(mem, t))
      BY <1>8, <2>2 DEF AbortLock
    <3> QED BY <3>1, LeaveStep
  <2> QED BY <2>1, <2>2
<1>9. CASE WakeUp(t)
  <2>1. TASK_NORMAL \in States /\ 0 \in Int /\ 1 \in Int
    BY DEF TASK_NORMAL, States
  <2>2. /\ lock = NULL /\ pc[t] = "wake" /\ pc' = [pc EXCEPT ![t] = "call"] /\ UNCHANGED <<mem, state, kind>>
        /\ BeginWalk(t, TASK_NORMAL, 1) \/ BeginWalk(t, TASK_NORMAL, 0)
    BY <1>9 DEF WakeUp, Goto
  <2> QED BY <2>1, <2>2, BeginStep
<1>10. CASE Call(t) \/ CallWake(t) \/ Unlink(t) \/ InitNext(t) \/ InitPrev(t)
  BY <1>10, CallStep, CallWakeStep, UnlinkStep, InitNextStep, InitPrevStep
<1> QED BY <1>1, <1>2, <1>3, <1>4, <1>5, <1>6, <1>7, <1>8, <1>9, <1>10 DEF Step

(* The inductive invariant, of every reachable state *)
LEMMA Invariance == Spec => []IInv
<1>1. IInv /\ [Next]_vars => IInv'
  BY NextInv, StutterInv
<1> QED BY <1>1, InitInv, PTL DEF Spec

(* __wake_up_common() touches only entries that exist: a task whose entry  *)
(* the waker is at, has read as the next one, or writes as a neighbour,    *)
(* has not returned from finish_wait(), abort_exclusive_wait() or          *)
(* remove_wait_queue().                                                    *)
THEOREM EntriesCorrect == Spec => []EntriesLive
<1>1. IInv => EntriesLive
  <2> SUFFICES ASSUME IInv, NEW t \in Tasks, pc[t] \in WalkPC
               PROVE  /\ walk[t].curr \in Live \cup {q} /\ walk[t].next \in Live \cup {q}
                      /\ pc[t] = "unlink" => /\ mem.next[walk[t].curr] \in Live \cup {q}
                                             /\ mem.prev[walk[t].curr] \in Live \cup {q}
    BY DEF EntriesLive
  <2>1. PICK R \in SUBSET Nodes : Queue(R)
    BY DEF IInv
  <2>2. IsRing(mem, R) /\ R \subseteq Live \cup {q} /\ WalkAt(t, R)
    BY <2>1 DEF Queue
  <2>3. walk[t].next \in R /\ (walk[t].curr \in R \/ walk[t].curr \in Live)
    BY <2>2 DEF WalkAt, WalkPC
  <2>4. pc[t] = "unlink" => mem.next[walk[t].curr] \in R /\ mem.prev[walk[t].curr] \in R
    <3>1. pc[t] = "unlink" => walk[t].curr \in R
      BY <2>2 DEF WalkAt
    <3> QED BY <2>2, <3>1 DEF IsRing, Inverse
  <2> QED BY <2>2, <2>3, <2>4
<1> QED BY <1>1, Invariance, PTL

(* Whenever q->lock is free, the queue is a ring through its head and      *)
(* existing entries in which every sleeping task is: no wakeup misses a    *)
(* sleeper, and no returned task has left its entry behind.                *)
THEOREM QueueCorrect == Spec => []QueueSound
<1>1. IInv => QueueSound
  <2> SUFFICES ASSUME IInv, lock = NULL PROVE QueueSound
    BY DEF QueueSound
  <2>1. PICK R \in SUBSET Nodes : Queue(R)
    BY DEF IInv
  <2>2. IsRing(mem, R) /\ R \subseteq Live \cup {q} /\ q \in R
    BY <2>1 DEF Queue, IsRing
  <2> DEFINE ring == {t \in Live : mem.next[t] # t} \cup {q}
  <2>3. \A t \in Live : t \in R <=> mem.next[t] # t
    BY <2>1, QueuedOrAlone DEF Live, list_empty
  <2>4. q \notin Live
    BY DEF Live
  <2>5. ring = R
    BY <2>2, <2>3, <2>4
  <2> HIDE DEF ring
  <2>6. \A n \in ring : /\ mem.next[n] \in ring /\ mem.prev[mem.next[n]] = n
                        /\ mem.prev[n] \in ring /\ mem.next[mem.prev[n]] = n
    BY <2>2, <2>5 DEF IsRing, Inverse
  <2>7. ASSUME NEW t \in Tasks, pc[t] = "schedule", state[t] # TASK_RUNNING PROVE t \in ring
    <3>1. SleepAt(t, R) /\ t \in Live
      BY <2>1, <2>7 DEF Queue, Live, WalkPC
    <3> QED BY <2>5, <2>7, <3>1 DEF SleepAt
  <2> QED BY <2>6, <2>7 DEF QueueSound, ring
<1> QED BY <1>1, Invariance, PTL

================================================================================
