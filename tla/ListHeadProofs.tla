--------------------------- MODULE ListHeadProofs ---------------------------
(***************************************************************************)
(* Proofs about ListHead, for any heads and entries, and any sequence of   *)
(* calls that respects the rules of list.h; and, at the end, about         *)
(* ArpTable, whose table is such a list, for any entries and addresses.    *)
(*                                                                         *)
(* A list is a head h and the sequence q of its entries; Spells says that  *)
(* the pointers of a memory lead through them and back, both ways.  There  *)
(* is a lemma for what each function does to the pointers, and one for     *)
(* what that does to the list.  The invariant IInv says that the lists of  *)
(* all heads are spelled out and have no cell in common (Rep), that an     *)
(* entry on no list points to itself only when it was initialised          *)
(* (Stale), and that what a loop has not seen yet is ahead of it on the    *)
(* list (LoopInv).                                                         *)
(***************************************************************************)
EXTENDS ListHead, ArpTable, TLAPS

LP == INSTANCE ListSeqProofs

----------------------------------------------------------------------------
(* Memories *)

(* Cells D with pointers to each other and to P *)
Mem(D, P) == [next : [D -> D \cup P], prev : [D -> D \cup P]]

(* What the functions do to the pointers: r is the memory m after          *)
(* INIT_LIST_HEAD(), __list_add(), __list_del(), list_replace(),           *)
(* __list_cut_position() and __list_splice().                              *)
Inited(D, m, r, e) ==
  \A c \in D : /\ r.next[c] = IF c = e THEN e ELSE m.next[c]
              /\ r.prev[c] = IF c = e THEN e ELSE m.prev[c]

Added(D, m, r, e, pv, nx) ==
  \A c \in D : /\ r.next[c] = IF c = pv THEN e ELSE IF c = e THEN nx ELSE m.next[c]
              /\ r.prev[c] = IF c = e THEN pv ELSE IF c = nx THEN e ELSE m.prev[c]

Deleted(D, m, r, pv, nx) ==
  \A c \in D : /\ r.next[c] = IF c = pv THEN nx ELSE m.next[c]
              /\ r.prev[c] = IF c = nx THEN pv ELSE m.prev[c]

CutOff(D, m, r, list, head, entry, first, new_first) ==
  \A c \in D :
    /\ r.next[c] = IF c = head THEN new_first ELSE IF c = entry THEN list
                   ELSE IF c = list THEN first ELSE m.next[c]
    /\ r.prev[c] = IF c = new_first THEN head ELSE IF c = list THEN entry
                   ELSE IF c = first THEN list ELSE m.prev[c]

Spliced(D, m, r, pv, nx, first, last) ==
  \A c \in D : /\ r.next[c] = IF c = last THEN nx ELSE IF c = pv THEN first ELSE m.next[c]
              /\ r.prev[c] = IF c = nx THEN last ELSE IF c = first THEN pv ELSE m.prev[c]

(* One assignment to next *)
LEMMA SetNextIs ==
  ASSUME NEW D, NEW P, NEW m \in Mem(D, P), NEW c \in D, NEW v \in D \cup P,
         NEW r, r = SetNext(m, c, v)
  PROVE  r \in Mem(D, P) /\ r.next = [m.next EXCEPT ![c] = v] /\ r.prev = m.prev
BY DEF SetNext, Mem

(* One assignment to prev *)
LEMMA SetPrevIs ==
  ASSUME NEW D, NEW P, NEW m \in Mem(D, P), NEW c \in D, NEW v \in D \cup P,
         NEW r, r = SetPrev(m, c, v)
  PROVE  r \in Mem(D, P) /\ r.prev = [m.prev EXCEPT ![c] = v] /\ r.next = m.next
BY DEF SetPrev, Mem

(* INIT_LIST_HEAD() leaves a cell that points to itself. *)
LEMMA InitIs ==
  ASSUME NEW D, NEW P, NEW m \in Mem(D, P), NEW c \in D,
         NEW r, r = INIT_LIST_HEAD(m, c)
  PROVE  /\ r \in Mem(D, P)
         /\ Inited(D, m, r, c)
<1>1. PICK m1 : m1 = SetNext(m, c, c)
  OBVIOUS
<1>2. m1 \in Mem(D, P) /\ m1.next = [m.next EXCEPT ![c] = c] /\ m1.prev = m.prev
  BY <1>1, SetNextIs
<1>3. r = SetPrev(m1, c, c)
  BY <1>1 DEF INIT_LIST_HEAD
<1>4. r \in Mem(D, P) /\ r.prev = [m1.prev EXCEPT ![c] = c] /\ r.next = m1.next
  BY <1>2, <1>3, SetPrevIs
<1> QED BY <1>2, <1>4 DEF Mem, Inited

(* __list_add() puts e between pv and nx. *)
LEMMA AddIs ==
  ASSUME NEW D, NEW P, NEW m \in Mem(D, P),
         NEW e \in D, NEW pv \in D, NEW nx \in D,
         NEW r, r = list_add_between(m, e, pv, nx)
  PROVE  /\ r \in Mem(D, P)
         /\ Added(D, m, r, e, pv, nx)
<1>1. PICK m1 : m1 = SetPrev(m, nx, e)
  OBVIOUS
<1>2. m1 \in Mem(D, P) /\ m1.prev = [m.prev EXCEPT ![nx] = e] /\ m1.next = m.next
  BY <1>1, SetPrevIs
<1>3. PICK m2 : m2 = SetNext(m1, e, nx)
  OBVIOUS
<1>4. m2 \in Mem(D, P) /\ m2.next = [m1.next EXCEPT ![e] = nx] /\ m2.prev = m1.prev
  BY <1>2, <1>3, SetNextIs
<1>5. PICK m3 : m3 = SetPrev(m2, e, pv)
  OBVIOUS
<1>6. m3 \in Mem(D, P) /\ m3.prev = [m2.prev EXCEPT ![e] = pv] /\ m3.next = m2.next
  BY <1>4, <1>5, SetPrevIs
<1>7. r = SetNext(m3, pv, e)
  BY <1>1, <1>3, <1>5 DEF list_add_between
<1>8. r \in Mem(D, P) /\ r.next = [m3.next EXCEPT ![pv] = e] /\ r.prev = m3.prev
  BY <1>6, <1>7, SetNextIs
<1> QED BY <1>2, <1>4, <1>6, <1>8 DEF Mem, Added

(* __list_del() makes the two neighbours point to each other. *)
LEMMA DelIs ==
  ASSUME NEW D, NEW P, NEW m \in Mem(D, P), NEW pv \in D, NEW nx \in D,
         NEW r, r = list_del_between(m, pv, nx)
  PROVE  /\ r \in Mem(D, P)
         /\ Deleted(D, m, r, pv, nx)
<1>1. PICK m1 : m1 = SetPrev(m, nx, pv)
  OBVIOUS
<1>2. m1 \in Mem(D, P) /\ m1.prev = [m.prev EXCEPT ![nx] = pv] /\ m1.next = m.next
  BY <1>1, SetPrevIs
<1>3. r = SetNext(m1, pv, nx)
  BY <1>1 DEF list_del_between
<1>4. r \in Mem(D, P) /\ r.next = [m1.next EXCEPT ![pv] = nx] /\ r.prev = m1.prev
  BY <1>2, <1>3, SetNextIs
<1> QED BY <1>2, <1>4 DEF Mem, Deleted

(* list_replace() reads old->prev when it has changed it already, if old   *)
(* is empty.                                                               *)
LEMMA ReplaceIs ==
  ASSUME NEW D, NEW P, NEW m \in Mem(D, P), NEW old \in D, NEW new \in D, old # new,
         NEW nx \in D, nx = m.next[old],
         NEW pv \in D, pv = IF nx = old THEN new ELSE m.prev[old],
         NEW r, r = list_replace(m, old, new)
  PROVE  /\ r \in Mem(D, P)
         /\ Added(D, m, r, new, pv, nx)
<1>1. PICK m1 : m1 = SetNext(m, new, m.next[old])
  OBVIOUS
<1>2. m1 \in Mem(D, P) /\ m1.next = [m.next EXCEPT ![new] = nx] /\ m1.prev = m.prev
  BY <1>1, SetNextIs
<1>3. PICK m2 : m2 = SetPrev(m1, m1.next[new], new)
  OBVIOUS
<1>4. m1.next[new] = nx
  BY <1>2 DEF Mem
<1>5. m2 \in Mem(D, P) /\ m2.prev = [m1.prev EXCEPT ![nx] = new] /\ m2.next = m1.next
  BY <1>2, <1>3, <1>4, SetPrevIs
<1>6. m2.prev[old] = pv
  BY <1>2, <1>5 DEF Mem
<1>7. PICK m3 : m3 = SetPrev(m2, new, m2.prev[old])
  OBVIOUS
<1>8. m3 \in Mem(D, P) /\ m3.prev = [m2.prev EXCEPT ![new] = pv] /\ m3.next = m2.next
  BY <1>5, <1>6, <1>7, SetPrevIs
<1>9. m3.prev[new] = pv
  BY <1>5, <1>8 DEF Mem
<1>10. r = SetNext(m3, m3.prev[new], new)
  BY <1>1, <1>3, <1>7 DEF list_replace
<1>11. r \in Mem(D, P) /\ r.next = [m3.next EXCEPT ![pv] = new] /\ r.prev = m3.prev
  BY <1>8, <1>9, <1>10, SetNextIs
<1> QED BY <1>2, <1>5, <1>8, <1>11 DEF Mem, Added

(* __list_cut_position() *)
LEMMA CutIs ==
  ASSUME NEW D, NEW P, NEW m \in Mem(D, P),
         NEW list \in D, NEW head \in D, NEW entry \in D,
         NEW first \in D, first = m.next[head],
         NEW new_first \in D, new_first = m.next[entry],
         NEW r, r = list_cut_at(m, list, head, entry)
  PROVE  /\ r \in Mem(D, P)
         /\ CutOff(D, m, r, list, head, entry, first, new_first)
<1>1. PICK m1 : m1 = SetNext(m, list, m.next[head])
  OBVIOUS
<1>2. m1 \in Mem(D, P) /\ m1.next = [m.next EXCEPT ![list] = first] /\ m1.prev = m.prev
  BY <1>1, SetNextIs
<1>3. m1.next[list] = first
  BY <1>2 DEF Mem
<1>4. PICK m2 : m2 = SetPrev(m1, m1.next[list], list)
  OBVIOUS
<1>5. m2 \in Mem(D, P) /\ m2.prev = [m1.prev EXCEPT ![first] = list] /\ m2.next = m1.next
  BY <1>2, <1>3, <1>4, SetPrevIs
<1>6. PICK m3 : m3 = SetPrev(m2, list, entry)
  OBVIOUS
<1>7. m3 \in Mem(D, P) /\ m3.prev = [m2.prev EXCEPT ![list] = entry] /\ m3.next = m2.next
  BY <1>5, <1>6, SetPrevIs, SMTT(60)
<1>8. PICK m4 : m4 = SetNext(m3, entry, list)
  OBVIOUS
<1>9. m4 \in Mem(D, P) /\ m4.next = [m3.next EXCEPT ![entry] = list] /\ m4.prev = m3.prev
  BY <1>7, <1>8, SetNextIs
<1>10. PICK m5 : m5 = SetNext(m4, head, new_first)
  OBVIOUS
<1>11. m5 \in Mem(D, P) /\ m5.next = [m4.next EXCEPT ![head] = new_first] /\ m5.prev = m4.prev
  BY <1>9, <1>10, SetNextIs
<1>12. r = SetPrev(m5, new_first, head)
  BY <1>1, <1>4, <1>6, <1>8, <1>10 DEF list_cut_at
<1>13. r \in Mem(D, P) /\ r.prev = [m5.prev EXCEPT ![new_first] = head] /\ r.next = m5.next
  BY <1>11, <1>12, SetPrevIs
<1> QED BY <1>2, <1>5, <1>7, <1>9, <1>11, <1>13 DEF Mem, CutOff

(* __list_splice() *)
LEMMA SpliceIs ==
  ASSUME NEW D, NEW P, NEW m \in Mem(D, P),
         NEW list \in D, NEW pv \in D, NEW nx \in D,
         NEW first \in D, first = m.next[list], NEW last \in D, last = m.prev[list],
         NEW r, r = list_splice_between(m, list, pv, nx)
  PROVE  /\ r \in Mem(D, P)
         /\ Spliced(D, m, r, pv, nx, first, last)
<1>1. PICK m1 : m1 = SetPrev(m, first, pv)
  OBVIOUS
<1>2. m1 \in Mem(D, P) /\ m1.prev = [m.prev EXCEPT ![first] = pv] /\ m1.next = m.next
  BY <1>1, SetPrevIs
<1>3. PICK m2 : m2 = SetNext(m1, pv, first)
  OBVIOUS
<1>4. m2 \in Mem(D, P) /\ m2.next = [m1.next EXCEPT ![pv] = first] /\ m2.prev = m1.prev
  BY <1>2, <1>3, SetNextIs
<1>5. PICK m3 : m3 = SetNext(m2, last, nx)
  OBVIOUS
<1>6. m3 \in Mem(D, P) /\ m3.next = [m2.next EXCEPT ![last] = nx] /\ m3.prev = m2.prev
  BY <1>4, <1>5, SetNextIs
<1>7. r = SetPrev(m3, nx, last)
  BY <1>1, <1>3, <1>5 DEF list_splice_between
<1>8. r \in Mem(D, P) /\ r.prev = [m3.prev EXCEPT ![nx] = last] /\ r.next = m3.next
  BY <1>6, <1>7, SetPrevIs
<1> QED BY <1>2, <1>4, <1>6, <1>8 DEF Mem, Spliced

----------------------------------------------------------------------------
(* Lists in a memory *)

(* The cells on the way from the head h through the entries q and back,    *)
(* numbered from 0                                                         *)
At(h, q, i) == IF 1 <= i /\ i <= Len(q) THEN q[i] ELSE h

Spells(m, h, q) ==
  \A i \in 0..Len(q) : /\ m.next[At(h, q, i)] = At(h, q, i + 1)
                       /\ m.prev[At(h, q, i + 1)] = At(h, q, i)

(* The cells of a list differ. *)
IsList(D, h, q) ==
  /\ h \in D /\ q \in Seq(D)
  /\ LS!NoDuplicates(q)
  /\ \A i \in 1..Len(q) : q[i] # h

(* c is not a cell of the list. *)
NotOf(c, h, q) == c # h /\ \A i \in 1..Len(q) : q[i] # c

(* The pointers of the cells that satisfy the condition are the same. *)
Same(m, r, c) == r.next[c] = m.next[c] /\ r.prev[c] = m.prev[c]

(* A list has its head at both ends and each cell once in between. *)
LEMMA AtIs ==
  ASSUME NEW D, NEW h, NEW q, IsList(D, h, q)
  PROVE  /\ Len(q) \in Nat
         /\ \A i \in Int : At(h, q, i) \in D
         /\ At(h, q, 0) = h /\ At(h, q, Len(q) + 1) = h
         /\ \A i \in 1..Len(q) : At(h, q, i) = q[i]
         /\ \A i, j \in 0..Len(q) : At(h, q, i) = At(h, q, j) => i = j
         /\ \A i, j \in 1..(Len(q) + 1) : At(h, q, i) = At(h, q, j) => i = j
<1>1. /\ h \in D /\ q \in Seq(D) /\ Len(q) \in Nat
      /\ \A i \in 1..Len(q) : q[i] \in D /\ q[i] # h
      /\ \A i, j \in 1..Len(q) : q[i] = q[j] => i = j
  BY DEF IsList, LS!NoDuplicates
<1> QED BY <1>1 DEF At

(* A cell of another list is none of this one. *)
LEMMA NotAt ==
  ASSUME NEW D, NEW h, NEW q, IsList(D, h, q), NEW c, NotOf(c, h, q)
  PROVE  \A i \in Int : At(h, q, i) # c
BY DEF At, NotOf, IsList

(* What happens to other cells does not concern a list. *)
LEMMA SpellsFrame ==
  ASSUME NEW D, NEW h, NEW q, IsList(D, h, q), NEW m, NEW r, Spells(m, h, q),
         \A i \in 0..Len(q) : Same(m, r, At(h, q, i))
  PROVE  Spells(r, h, q)
<1>1. /\ Len(q) \in Nat /\ At(h, q, 0) = At(h, q, Len(q) + 1)
  BY AtIs
<1>2. \A i \in 0..(Len(q) + 1) : Same(m, r, At(h, q, i))
  BY <1>1
<1> QED BY <1>1, <1>2 DEF Spells, Same

(* The pointers of an empty list, and of an initialised entry *)
LEMMA SpellsEmpty ==
  ASSUME NEW m, NEW h
  PROVE  Spells(m, h, <<>>) <=> m.next[h] = h /\ m.prev[h] = h
BY DEF Spells, At

(* s is q with e behind its k-th entry, without its k-th entry, with f in  *)
(* the place of its k-th entry, and with p put behind its k-th entry.      *)
WithEntry(D, s, q, k, e) ==
  /\ s \in Seq(D) /\ Len(s) = Len(q) + 1
  /\ \A i \in 1..Len(s) : s[i] = IF i <= k THEN q[i] ELSE IF i = k + 1 THEN e ELSE q[i - 1]

WithoutEntry(D, s, q, k) ==
  /\ s \in Seq(D) /\ Len(s) = Len(q) - 1
  /\ \A i \in 1..Len(s) : s[i] = IF i < k THEN q[i] ELSE q[i + 1]

WithOther(D, s, q, k, f) ==
  /\ s \in Seq(D) /\ Len(s) = Len(q)
  /\ \A i \in 1..Len(s) : s[i] = IF i = k THEN f ELSE q[i]

HasWithin(D, s, q, k, p) ==
  /\ s \in Seq(D) /\ Len(s) = Len(q) + Len(p)
  /\ \A i \in 1..Len(s) : s[i] = IF i <= k THEN q[i] ELSE IF i <= k + Len(p) THEN p[i - k]
                                  ELSE q[i - Len(p)]

(* a and b are the first k entries of q and the others. *)
IsCut(D, q, k, a, b) ==
  /\ a \in Seq(D) /\ Len(a) = k /\ \A i \in 1..k : a[i] = q[i]
  /\ b \in Seq(D) /\ Len(b) = Len(q) - k /\ \A i \in 1..(Len(q) - k) : b[i] = q[i + k]

(* The entries p are none of the list's cells. *)
Apart(p, h, q) == \A i \in 1..Len(p) : NotOf(p[i], h, q)

(* __list_add() behind the k-th cell *)
LEMMA SpellsInsert ==
  ASSUME NEW D, NEW m, NEW h, NEW q, IsList(D, h, q), Spells(m, h, q),
         NEW e \in D, NotOf(e, h, q), NEW k \in 0..Len(q),
         NEW s, WithEntry(D, s, q, k, e),
         NEW pv, pv = At(h, q, k), NEW nx, nx = At(h, q, k + 1),
         NEW r, Added(D, m, r, e, pv, nx)
  PROVE  /\ IsList(D, h, s)
         /\ Spells(r, h, s)
         /\ \A c \in D : c # e /\ NotOf(c, h, q) => Same(m, r, c)
<1>1. /\ Len(q) \in Nat
      /\ \A i \in Int : At(h, q, i) \in D /\ At(h, q, i) # e
      /\ At(h, q, 0) = h /\ At(h, q, Len(q) + 1) = h
      /\ \A i, j \in 0..Len(q) : At(h, q, i) = At(h, q, j) => i = j
      /\ \A i, j \in 1..(Len(q) + 1) : At(h, q, i) = At(h, q, j) => i = j
  BY AtIs, NotAt
<1>s. /\ s \in Seq(D) /\ Len(s) = Len(q) + 1
      /\ \A i \in 1..Len(s) : s[i] = IF i <= k THEN q[i] ELSE IF i = k + 1 THEN e ELSE q[i - 1]
  BY DEF WithEntry
<1>l. Len(s) = Len(q) + 1
  BY <1>s
<1>2. pv \in D /\ nx \in D /\ pv # e /\ nx # e
  BY <1>1
<1>3. \A i \in 0..(Len(s) + 1) :
        At(h, s, i) = IF i <= k THEN At(h, q, i) ELSE IF i = k + 1 THEN e ELSE At(h, q, i - 1)
  BY <1>1, <1>s DEF At
<1>4. \A c \in D :
        /\ r.next[c] = IF c = pv THEN e ELSE IF c = e THEN nx ELSE m.next[c]
        /\ r.prev[c] = IF c = e THEN pv ELSE IF c = nx THEN e ELSE m.prev[c]
  BY DEF Added
<1>5. IsList(D, h, s)
  <2>1. /\ \A i \in 1..Len(q) : q[i] # h /\ q[i] # e
        /\ \A i, j \in 1..Len(q) : q[i] = q[j] => i = j
        /\ e # h /\ h \in D
    BY DEF IsList, NotOf, LS!NoDuplicates
  <2>2. ASSUME NEW i \in 1..Len(s) PROVE s[i] # h
    <3>1. CASE i <= k
      BY <1>1, <1>s, <2>1, <3>1
    <3>2. CASE i = k + 1
      BY <1>1, <1>s, <2>1, <3>2
    <3>3. CASE i > k + 1
      <4>1. i - 1 \in 1..Len(q) /\ s[i] = q[i - 1]
        BY <1>1, <1>s, <3>3
      <4> QED BY <2>1, <4>1
    <3> QED BY <1>1, <1>l, <3>1, <3>2, <3>3
  <2>3. ASSUME NEW i \in 1..Len(s), NEW j \in 1..Len(s), s[i] = s[j] PROVE i = j
    <3> DEFINE old(n) == IF n <= k THEN n ELSE n - 1
    <3>1. CASE i = k + 1 \/ j = k + 1
      BY <1>1, <1>s, <2>1, <2>3, <3>1
    <3>2. CASE i # k + 1 /\ j # k + 1
      <4>1. old(i) \in 1..Len(q) /\ old(j) \in 1..Len(q) /\ q[old(i)] = q[old(j)]
        BY <1>1, <1>s, <2>3, <3>2
      <4>2. old(i) = old(j)
        BY <2>1, <4>1
      <4> QED BY <1>1, <1>s, <3>2, <4>2
    <3> QED BY <3>1, <3>2
  <2> QED BY <1>s, <2>1, <2>2, <2>3 DEF IsList, LS!NoDuplicates
<1>6. ASSUME NEW i \in 0..Len(s)
      PROVE  /\ r.next[At(h, s, i)] = At(h, s, i + 1)
             /\ r.prev[At(h, s, i + 1)] = At(h, s, i)
  <2>1. CASE i < k
    <3>1. At(h, s, i) = At(h, q, i) /\ At(h, s, i + 1) = At(h, q, i + 1)
      BY <1>1, <1>l, <1>3, <2>1
    <3>2. At(h, q, i) # At(h, q, k) /\ At(h, q, i + 1) # At(h, q, k + 1)
      BY <1>1, <1>l, <2>1
    <3>3. m.next[At(h, q, i)] = At(h, q, i + 1) /\ m.prev[At(h, q, i + 1)] = At(h, q, i)
      BY <1>1, <1>l, <2>1 DEF Spells
    <3> QED BY <1>1, <1>l, <1>4, <3>1, <3>2, <3>3
  <2>2. CASE i = k
    <3>1. At(h, s, i) = At(h, q, k) /\ At(h, s, i + 1) = e
      BY <1>1, <1>l, <1>3, <2>2
    <3>2. e # At(h, q, k + 1)
      BY <1>1, <1>l
    <3> QED BY <1>1, <1>l, <1>4, <3>1, <3>2
  <2>3. CASE i = k + 1
    <3>1. At(h, s, i) = e /\ At(h, s, i + 1) = At(h, q, k + 1)
      BY <1>1, <1>l, <1>3, <2>3
    <3>2. e # At(h, q, k)
      BY <1>1, <1>l
    <3> QED BY <1>1, <1>l, <1>4, <3>1, <3>2
  <2>4. CASE i > k + 1
    <3>1. At(h, s, i) = At(h, q, i - 1) /\ At(h, s, i + 1) = At(h, q, i)
      BY <1>1, <1>l, <1>3, <2>4
    <3>2. At(h, q, i - 1) # At(h, q, k) /\ At(h, q, i) # At(h, q, k + 1)
      BY <1>1, <1>l, <2>4
    <3>3. m.next[At(h, q, i - 1)] = At(h, q, i) /\ m.prev[At(h, q, i)] = At(h, q, i - 1)
      <4>1. i - 1 \in 0..Len(q) /\ (i - 1) + 1 = i
        BY <1>1, <1>l, <2>4
      <4> QED BY <4>1 DEF Spells
    <3> QED BY <1>1, <1>l, <1>4, <3>1, <3>2, <3>3
  <2> QED BY <1>1, <1>l, <2>1, <2>2, <2>3, <2>4
<1>7. Spells(r, h, s)
  BY <1>6, <1>l DEF Spells
<1>8. ASSUME NEW c \in D, c # e, NotOf(c, h, q) PROVE Same(m, r, c)
  BY <1>1, <1>l, <1>4, <1>8, NotAt DEF Same
<1> QED BY <1>5, <1>7, <1>8

(* __list_del() of the k-th entry *)
LEMMA SpellsRemove ==
  ASSUME NEW D, NEW m, NEW h, NEW q, IsList(D, h, q), Spells(m, h, q),
         NEW k \in 1..Len(q),
         NEW s, WithoutEntry(D, s, q, k),
         NEW pv, pv = At(h, q, k - 1), NEW nx, nx = At(h, q, k + 1),
         NEW r, Deleted(D, m, r, pv, nx)
  PROVE  /\ IsList(D, h, s)
         /\ Spells(r, h, s)
         /\ \A c \in D : NotOf(c, h, q) \/ c = q[k] => Same(m, r, c)
<1>1. /\ Len(q) \in Nat
      /\ \A i \in Int : At(h, q, i) \in D
      /\ At(h, q, 0) = h /\ At(h, q, Len(q) + 1) = h
      /\ \A i \in 1..Len(q) : At(h, q, i) = q[i]
      /\ \A i, j \in 0..Len(q) : At(h, q, i) = At(h, q, j) => i = j
      /\ \A i, j \in 1..(Len(q) + 1) : At(h, q, i) = At(h, q, j) => i = j
  BY AtIs
<1>s. /\ s \in Seq(D) /\ Len(s) = Len(q) - 1
      /\ \A i \in 1..Len(s) : s[i] = IF i < k THEN q[i] ELSE q[i + 1]
  BY DEF WithoutEntry
<1>l. Len(s) = Len(q) - 1
  BY <1>s
<1>2. pv \in D /\ nx \in D /\ pv # q[k] /\ nx # q[k]
  BY <1>1
<1>3. \A i \in 0..(Len(s) + 1) :
        At(h, s, i) = IF i < k THEN At(h, q, i) ELSE At(h, q, i + 1)
  BY <1>1, <1>s DEF At
<1>4. \A c \in D : /\ r.next[c] = IF c = pv THEN nx ELSE m.next[c]
                   /\ r.prev[c] = IF c = nx THEN pv ELSE m.prev[c]
  BY DEF Deleted
<1>5. IsList(D, h, s)
  <2>1. /\ \A i \in 1..Len(q) : q[i] # h
        /\ \A i, j \in 1..Len(q) : q[i] = q[j] => i = j
        /\ h \in D
    BY DEF IsList, LS!NoDuplicates
  <2>2. \A i \in 1..Len(s) : s[i] # h
    BY <1>1, <1>s, <2>1
  <2>3. ASSUME NEW i \in 1..Len(s), NEW j \in 1..Len(s), s[i] = s[j] PROVE i = j
    <3> DEFINE old(n) == IF n < k THEN n ELSE n + 1
    <3>1. old(i) \in 1..Len(q) /\ old(j) \in 1..Len(q) /\ q[old(i)] = q[old(j)]
      BY <1>1, <1>s, <2>3
    <3>2. old(i) = old(j)
      BY <2>1, <3>1
    <3> QED BY <1>1, <1>s, <3>2
  <2> QED BY <1>s, <2>1, <2>2, <2>3 DEF IsList, LS!NoDuplicates
<1>6. ASSUME NEW i \in 0..Len(s)
      PROVE  /\ r.next[At(h, s, i)] = At(h, s, i + 1)
             /\ r.prev[At(h, s, i + 1)] = At(h, s, i)
  <2>1. CASE i < k - 1
    <3>1. At(h, s, i) = At(h, q, i) /\ At(h, s, i + 1) = At(h, q, i + 1)
      BY <1>1, <1>l, <1>3, <2>1
    <3>2. At(h, q, i) # pv /\ At(h, q, i + 1) # nx
      BY <1>1, <1>l, <2>1
    <3>3. m.next[At(h, q, i)] = At(h, q, i + 1) /\ m.prev[At(h, q, i + 1)] = At(h, q, i)
      BY <1>1, <1>l, <2>1 DEF Spells
    <3> QED BY <1>1, <1>l, <1>4, <3>1, <3>2, <3>3
  <2>2. CASE i = k - 1
    <3>1. At(h, s, i) = pv /\ At(h, s, i + 1) = nx
      BY <1>1, <1>l, <1>3, <2>2
    <3> QED BY <1>2, <1>4, <3>1
  <2>3. CASE i > k - 1
    <3>1. At(h, s, i) = At(h, q, i + 1) /\ At(h, s, i + 1) = At(h, q, i + 2)
      BY <1>1, <1>l, <1>3, <2>3
    <3>2. At(h, q, i + 1) # pv /\ At(h, q, i + 2) # nx
      BY <1>1, <1>l, <2>3
    <3>3. m.next[At(h, q, i + 1)] = At(h, q, i + 2) /\ m.prev[At(h, q, i + 2)] = At(h, q, i + 1)
      <4>1. i + 1 \in 0..Len(q) /\ (i + 1) + 1 = i + 2
        BY <1>1, <1>l, <2>3
      <4> QED BY <4>1 DEF Spells
    <3> QED BY <1>1, <1>l, <1>4, <3>1, <3>2, <3>3
  <2> QED BY <1>1, <1>l, <2>1, <2>2, <2>3
<1>7. Spells(r, h, s)
  BY <1>6, <1>l DEF Spells
<1>8. ASSUME NEW c \in D, NotOf(c, h, q) \/ c = q[k] PROVE Same(m, r, c)
  <2>1. c # pv /\ c # nx
    BY <1>1, <1>l, <1>2, <1>8, NotAt
  <2> QED BY <1>4, <2>1 DEF Same
<1> QED BY <1>5, <1>7, <1>8

(* list_replace() of the k-th entry *)
LEMMA SpellsReplace ==
  ASSUME NEW D, NEW m, NEW h, NEW q, IsList(D, h, q), Spells(m, h, q),
         NEW k \in 1..Len(q), NEW f \in D, NotOf(f, h, q),
         NEW s, WithOther(D, s, q, k, f),
         NEW pv, pv = At(h, q, k - 1), NEW nx, nx = At(h, q, k + 1),
         NEW r, Added(D, m, r, f, pv, nx)
  PROVE  /\ IsList(D, h, s)
         /\ Spells(r, h, s)
         /\ \A c \in D : c # f /\ (NotOf(c, h, q) \/ c = q[k]) => Same(m, r, c)
<1>1. /\ Len(q) \in Nat
      /\ \A i \in Int : At(h, q, i) \in D /\ At(h, q, i) # f
      /\ At(h, q, 0) = h /\ At(h, q, Len(q) + 1) = h
      /\ \A i \in 1..Len(q) : At(h, q, i) = q[i]
      /\ \A i, j \in 0..Len(q) : At(h, q, i) = At(h, q, j) => i = j
      /\ \A i, j \in 1..(Len(q) + 1) : At(h, q, i) = At(h, q, j) => i = j
  BY AtIs, NotAt
<1>s. /\ s \in Seq(D) /\ Len(s) = Len(q)
      /\ \A i \in 1..Len(s) : s[i] = IF i = k THEN f ELSE q[i]
  BY DEF WithOther
<1>l. Len(s) = Len(q)
  BY <1>s
<1>2. pv \in D /\ nx \in D /\ pv # q[k] /\ nx # q[k] /\ pv # f /\ nx # f
  BY <1>1
<1>3. \A i \in 0..(Len(s) + 1) : At(h, s, i) = IF i = k THEN f ELSE At(h, q, i)
  BY <1>1, <1>s DEF At
<1>4. \A c \in D :
        /\ r.next[c] = IF c = pv THEN f ELSE IF c = f THEN nx ELSE m.next[c]
        /\ r.prev[c] = IF c = f THEN pv ELSE IF c = nx THEN f ELSE m.prev[c]
  BY DEF Added
<1>5. IsList(D, h, s)
  <2>1. /\ \A i \in 1..Len(q) : q[i] # h /\ q[i] # f
        /\ \A i, j \in 1..Len(q) : q[i] = q[j] => i = j
        /\ h \in D /\ f # h
    BY DEF IsList, NotOf, LS!NoDuplicates
  <2>2. \A i \in 1..Len(s) : s[i] # h
    BY <1>1, <1>s, <2>1
  <2>3. \A i, j \in 1..Len(s) : s[i] = s[j] => i = j
    BY <1>1, <1>s, <2>1
  <2> QED BY <1>s, <2>1, <2>2, <2>3 DEF IsList, LS!NoDuplicates
<1>6. ASSUME NEW i \in 0..Len(s)
      PROVE  /\ r.next[At(h, s, i)] = At(h, s, i + 1)
             /\ r.prev[At(h, s, i + 1)] = At(h, s, i)
  <2>1. CASE i = k - 1
    <3>1. At(h, s, i) = pv /\ At(h, s, i + 1) = f
      BY <1>1, <1>l, <1>3, <2>1
    <3> QED BY <1>2, <1>4, <3>1
  <2>2. CASE i = k
    <3>1. At(h, s, i) = f /\ At(h, s, i + 1) = nx
      BY <1>1, <1>l, <1>3, <2>2
    <3> QED BY <1>2, <1>4, <3>1
  <2>3. CASE i # k - 1 /\ i # k
    <3>1. At(h, s, i) = At(h, q, i) /\ At(h, s, i + 1) = At(h, q, i + 1)
      BY <1>1, <1>l, <1>3, <2>3
    <3>2. At(h, q, i) # pv /\ At(h, q, i + 1) # nx
      BY <1>1, <1>l, <2>3
    <3>3. m.next[At(h, q, i)] = At(h, q, i + 1) /\ m.prev[At(h, q, i + 1)] = At(h, q, i)
      BY <1>1, <1>l, <2>3 DEF Spells
    <3> QED BY <1>1, <1>l, <1>4, <3>1, <3>2, <3>3
  <2> QED BY <1>1, <1>l, <2>1, <2>2, <2>3
<1>7. Spells(r, h, s)
  BY <1>6, <1>l DEF Spells
<1>8. ASSUME NEW c \in D, c # f, NotOf(c, h, q) \/ c = q[k] PROVE Same(m, r, c)
  <2>1. c # pv /\ c # nx
    BY <1>1, <1>l, <1>2, <1>8, NotAt
  <2> QED BY <1>4, <1>8, <2>1 DEF Same
<1> QED BY <1>5, <1>7, <1>8

(* list_replace() was called for the head of q. *)
HeadReplaced(D, m, r, h, q, g) ==
  Added(D, m, r, g, IF At(h, q, 1) = h THEN g ELSE At(h, q, Len(q)), At(h, q, 1))

(* list_replace() of the head by g, the list being empty or not *)
LEMMA SpellsNewHead ==
  ASSUME NEW D, NEW m, NEW h, NEW q, IsList(D, h, q), Spells(m, h, q),
         NEW g \in D, NotOf(g, h, q),
         NEW r, HeadReplaced(D, m, r, h, q, g)
  PROVE  /\ IsList(D, g, q)
         /\ Spells(r, g, q)
         /\ \A c \in D : c # g /\ NotOf(c, h, q) => Same(m, r, c)
<1> PICK nx, pv : nx = At(h, q, 1) /\ pv = IF nx = h THEN g ELSE At(h, q, Len(q))
  OBVIOUS
<1> Added(D, m, r, g, pv, nx)
  BY DEF HeadReplaced
<1>1. /\ Len(q) \in Nat
      /\ \A i \in Int : At(h, q, i) \in D /\ At(h, q, i) # g
      /\ At(h, q, 0) = h /\ At(h, q, Len(q) + 1) = h
      /\ \A i, j \in 0..Len(q) : At(h, q, i) = At(h, q, j) => i = j
      /\ \A i, j \in 1..(Len(q) + 1) : At(h, q, i) = At(h, q, j) => i = j
  BY AtIs, NotAt
<1>2. IsList(D, g, q)
  BY DEF IsList, NotOf
<1>3. \A i \in 0..(Len(q) + 1) :
        At(g, q, i) = IF i = 0 \/ i = Len(q) + 1 THEN g ELSE At(h, q, i)
  BY <1>1 DEF At
<1>4. \A c \in D :
        /\ r.next[c] = IF c = pv THEN g ELSE IF c = g THEN nx ELSE m.next[c]
        /\ r.prev[c] = IF c = g THEN pv ELSE IF c = nx THEN g ELSE m.prev[c]
  BY DEF Added
<1>5. Spells(r, g, q)
  <2>1. CASE Len(q) = 0
    <3>1. At(g, q, 0) = g /\ At(g, q, 1) = g /\ pv = g /\ nx = h
      BY <1>1, <1>3, <2>1
    <3>2. r.next[g] = g /\ r.prev[g] = g
      BY <1>4, <3>1
    <3>3. \A i \in 0..Len(q) : i = 0 /\ i + 1 = 1
      BY <2>1
    <3> QED BY <3>1, <3>2, <3>3 DEF Spells
  <2>2. CASE Len(q) > 0
    <3>0. nx # h /\ pv = At(h, q, Len(q)) /\ pv # g /\ nx # g
      BY <1>1, <2>2
    <3> SUFFICES ASSUME NEW i \in 0..Len(q)
                 PROVE  /\ r.next[At(g, q, i)] = At(g, q, i + 1)
                        /\ r.prev[At(g, q, i + 1)] = At(g, q, i)
      BY DEF Spells
    <3>s. m.next[At(h, q, i)] = At(h, q, i + 1) /\ m.prev[At(h, q, i + 1)] = At(h, q, i)
      BY DEF Spells
    <3>1. r.next[At(g, q, i)] = At(g, q, i + 1)
      <4>1. CASE i = 0
        BY <1>1, <1>3, <1>4, <2>2, <3>0, <4>1
      <4>2. CASE i = Len(q)
        BY <1>1, <1>3, <1>4, <2>2, <3>0, <4>2
      <4>3. CASE i # 0 /\ i # Len(q)
        <5>1. At(g, q, i) = At(h, q, i) /\ At(g, q, i + 1) = At(h, q, i + 1)
          BY <1>1, <1>3, <4>3
        <5>2. At(h, q, i) # pv
          BY <1>1, <3>0, <4>3
        <5> QED BY <1>1, <1>4, <3>s, <5>1, <5>2
      <4> QED BY <4>1, <4>2, <4>3
    <3>2. r.prev[At(g, q, i + 1)] = At(g, q, i)
      <4>1. CASE i = 0
        BY <1>1, <1>3, <1>4, <2>2, <3>0, <4>1
      <4>2. CASE i = Len(q)
        BY <1>1, <1>3, <1>4, <2>2, <3>0, <4>2
      <4>3. CASE i # 0 /\ i # Len(q)
        <5>1. At(g, q, i) = At(h, q, i) /\ At(g, q, i + 1) = At(h, q, i + 1)
          BY <1>1, <1>3, <4>3
        <5>2. At(h, q, i + 1) # nx
          BY <1>1, <3>0, <4>3
        <5> QED BY <1>1, <1>4, <3>s, <5>1, <5>2
      <4> QED BY <4>1, <4>2, <4>3
    <3> QED BY <3>1, <3>2
  <2> QED BY <1>1, <2>1, <2>2
<1>6. ASSUME NEW c \in D, c # g, NotOf(c, h, q) PROVE Same(m, r, c)
  <2>1. c # nx /\ c # pv
    BY <1>1, <1>6, NotAt
  <2> QED BY <1>4, <1>6, <2>1 DEF Same
<1> QED BY <1>2, <1>5, <1>6

(* __list_splice() of the entries p behind the k-th cell of q *)
LEMMA SpellsSplice ==
  ASSUME NEW D, NEW m, NEW h, NEW q, IsList(D, h, q), Spells(m, h, q),
         NEW g, NEW p, IsList(D, g, p), Spells(m, g, p), p # <<>>,
         Apart(p, h, q), NEW k \in 0..Len(q),
         NEW s, HasWithin(D, s, q, k, p),
         NEW pv, pv = At(h, q, k), NEW nx, nx = At(h, q, k + 1),
         NEW first, first = p[1], NEW last, last = p[Len(p)],
         NEW r, Spliced(D, m, r, pv, nx, first, last)
  PROVE  /\ IsList(D, h, s)
         /\ Spells(r, h, s)
         /\ \A c \in D : NotOf(c, h, q) /\ NotOf(c, g, p) => Same(m, r, c)
<1>1. /\ Len(q) \in Nat
      /\ \A i \in Int : At(h, q, i) \in D
      /\ At(h, q, 0) = h /\ At(h, q, Len(q) + 1) = h
      /\ \A i, j \in 0..Len(q) : At(h, q, i) = At(h, q, j) => i = j
      /\ \A i, j \in 1..(Len(q) + 1) : At(h, q, i) = At(h, q, j) => i = j
  BY AtIs
<1>2. /\ Len(p) \in Nat /\ Len(p) > 0
      /\ \A i \in 1..Len(p) : p[i] \in D
      /\ \A i, j \in 1..Len(p) : p[i] = p[j] => i = j
      /\ \A i \in 1..(Len(p) - 1) : m.next[p[i]] = p[i + 1] /\ m.prev[p[i + 1]] = p[i]
  <2>1. /\ p \in Seq(D) /\ Len(p) \in Nat /\ Len(p) > 0
    BY DEF IsList
  <2>2. \A i \in 1..Len(p) : p[i] \in D /\ At(g, p, i) = p[i]
    BY <2>1 DEF At
  <2>3. \A i, j \in 1..Len(p) : p[i] = p[j] => i = j
    BY DEF IsList, LS!NoDuplicates
  <2>4. ASSUME NEW i \in 1..(Len(p) - 1) PROVE m.next[p[i]] = p[i + 1] /\ m.prev[p[i + 1]] = p[i]
    <3>1. i \in 0..Len(p) /\ i \in 1..Len(p) /\ i + 1 \in 1..Len(p)
      BY <2>1
    <3>2. m.next[At(g, p, i)] = At(g, p, i + 1) /\ m.prev[At(g, p, i + 1)] = At(g, p, i)
      BY <3>1 DEF Spells
    <3> QED BY <2>2, <3>1, <3>2
  <2> QED BY <2>1, <2>2, <2>3, <2>4
<1>3. \A i \in 1..Len(p), j \in Int : At(h, q, j) # p[i]
  BY NotAt DEF Apart
<1>s. /\ s \in Seq(D) /\ Len(s) = Len(q) + Len(p)
      /\ \A i \in 1..Len(s) : s[i] = IF i <= k THEN q[i] ELSE IF i <= k + Len(p) THEN p[i - k]
                                      ELSE q[i - Len(p)]
  BY DEF HasWithin
<1>4. /\ pv \in D /\ nx \in D /\ first \in D /\ last \in D
      /\ pv # first /\ pv # last /\ nx # first /\ nx # last
  BY <1>1, <1>2, <1>3
<1>5. \A i \in 0..(Len(s) + 1) :
        At(h, s, i) = IF i <= k THEN At(h, q, i) ELSE IF i <= k + Len(p) THEN p[i - k]
                      ELSE At(h, q, i - Len(p))
  BY <1>1, <1>2, <1>s DEF At
<1>6. \A c \in D :
        /\ r.next[c] = IF c = last THEN nx ELSE IF c = pv THEN first ELSE m.next[c]
        /\ r.prev[c] = IF c = nx THEN last ELSE IF c = first THEN pv ELSE m.prev[c]
  BY DEF Spliced
<1>7. IsList(D, h, s)
  <2>1. /\ \A i \in 1..Len(q) : q[i] # h
        /\ \A i, j \in 1..Len(q) : q[i] = q[j] => i = j
        /\ h \in D
        /\ \A i \in 1..Len(p) : p[i] # h /\ \A j \in 1..Len(q) : q[j] # p[i]
    BY DEF IsList, NotOf, Apart, LS!NoDuplicates
  <2>2. ASSUME NEW i \in 1..Len(s) PROVE s[i] # h
    <3>1. CASE i <= k
      <4>1. i \in 1..Len(q) /\ s[i] = q[i]
        BY <1>1, <1>2, <1>s, <3>1
      <4> QED BY <2>1, <4>1
    <3>2. CASE k < i /\ i <= k + Len(p)
      <4>1. i - k \in 1..Len(p) /\ s[i] = p[i - k]
        BY <1>1, <1>2, <1>s, <3>2
      <4> QED BY <2>1, <4>1
    <3>3. CASE i > k + Len(p)
      <4>1. i - Len(p) \in 1..Len(q) /\ s[i] = q[i - Len(p)]
        BY <1>1, <1>2, <1>s, <3>3
      <4> QED BY <2>1, <4>1
    <3> QED BY <1>1, <1>2, <3>1, <3>2, <3>3
  <2>3. ASSUME NEW i \in 1..Len(s), NEW j \in 1..Len(s), s[i] = s[j] PROVE i = j
    <3> DEFINE In(n) == k < n /\ n <= k + Len(p)
               old(n) == IF n <= k THEN n ELSE n - Len(p)
    <3>1. CASE In(i) /\ In(j)
      <4>1. i - k \in 1..Len(p) /\ j - k \in 1..Len(p) /\ p[i - k] = p[j - k]
        BY <1>1, <1>2, <1>s, <2>3, <3>1
      <4>2. i - k = j - k
        BY <1>2, <4>1
      <4> QED BY <4>2
    <3>2. CASE In(i) /\ ~In(j)
      <4>1. i - k \in 1..Len(p) /\ old(j) \in 1..Len(q) /\ p[i - k] = q[old(j)]
        BY <1>1, <1>2, <1>s, <2>3, <3>2
      <4> QED BY <2>1, <4>1
    <3>3. CASE ~In(i) /\ In(j)
      <4>1. j - k \in 1..Len(p) /\ old(i) \in 1..Len(q) /\ p[j - k] = q[old(i)]
        BY <1>1, <1>2, <1>s, <2>3, <3>3
      <4> QED BY <2>1, <4>1
    <3>4. CASE ~In(i) /\ ~In(j)
      <4>1. old(i) \in 1..Len(q) /\ old(j) \in 1..Len(q) /\ q[old(i)] = q[old(j)]
        BY <1>1, <1>2, <1>s, <2>3, <3>4, SMTT(60)
      <4>2. old(i) = old(j)
        BY <2>1, <4>1
      <4> QED BY <1>1, <1>2, <3>4, <4>2
    <3> QED BY <3>1, <3>2, <3>3, <3>4
  <2> QED BY <1>s, <2>1, <2>2, <2>3 DEF IsList, LS!NoDuplicates
<1>l. Len(s) = Len(q) + Len(p)
  BY <1>s
<1>8. ASSUME NEW i \in 0..Len(s)
      PROVE  /\ r.next[At(h, s, i)] = At(h, s, i + 1)
             /\ r.prev[At(h, s, i + 1)] = At(h, s, i)
  <2>1. CASE i < k
    <3>1. At(h, s, i) = At(h, q, i) /\ At(h, s, i + 1) = At(h, q, i + 1)
      BY <1>1, <1>2, <1>l, <1>5, <2>1
    <3>2. /\ At(h, q, i) # pv /\ At(h, q, i + 1) # nx
          /\ At(h, q, i) # last /\ At(h, q, i + 1) # first
      BY <1>1, <1>2, <1>3, <2>1
    <3>3. m.next[At(h, q, i)] = At(h, q, i + 1) /\ m.prev[At(h, q, i + 1)] = At(h, q, i)
      BY <1>1, <2>1 DEF Spells
    <3> QED BY <1>1, <1>6, <3>1, <3>2, <3>3
  <2>2. CASE i = k
    <3>1. At(h, s, i) = pv /\ At(h, s, i + 1) = first
      BY <1>1, <1>2, <1>l, <1>5, <2>2
    <3> QED BY <1>4, <1>6, <3>1
  <2>3. CASE k < i /\ i < k + Len(p)
    <3>1. At(h, s, i) = p[i - k] /\ At(h, s, i + 1) = p[(i - k) + 1]
      <4>1. /\ i \in 0..(Len(s) + 1) /\ i + 1 \in 0..(Len(s) + 1)
            /\ ~(i <= k) /\ i <= k + Len(p) /\ ~(i + 1 <= k) /\ i + 1 <= k + Len(p)
            /\ (i + 1) - k = (i - k) + 1
        BY <1>1, <1>2, <1>l, <2>3
      <4>2. At(h, s, i) = p[i - k] /\ At(h, s, i + 1) = p[(i + 1) - k]
        BY <1>5, <4>1
      <4> QED BY <4>1, <4>2
    <3>2. i - k \in 1..(Len(p) - 1) /\ i - k \in 1..Len(p) /\ (i - k) + 1 \in 1..Len(p)
      BY <1>1, <1>2, <2>3
    <3>3. m.next[p[i - k]] = p[(i - k) + 1] /\ m.prev[p[(i - k) + 1]] = p[i - k]
      BY <1>2, <3>2
    <3>4. p[i - k] # pv /\ p[(i - k) + 1] # nx /\ p[i - k] # last /\ p[(i - k) + 1] # first
      <4>1. i - k # Len(p) /\ (i - k) + 1 # 1
        BY <1>1, <1>2, <2>3
      <4>2. p[i - k] # last /\ p[(i - k) + 1] # first
        BY <1>2, <3>2, <4>1
      <4>3. k \in Int /\ k + 1 \in Int
        BY <1>1
      <4>4. p[i - k] # pv /\ p[(i - k) + 1] # nx
        BY <1>3, <3>2, <4>3
      <4> QED BY <4>2, <4>4
    <3> QED BY <1>2, <1>6, <3>1, <3>2, <3>3, <3>4, SMTT(60)
  <2>4. CASE i = k + Len(p)
    <3>1. At(h, s, i) = last /\ At(h, s, i + 1) = nx
      BY <1>1, <1>2, <1>l, <1>5, <2>4
    <3> QED BY <1>4, <1>6, <3>1
  <2>5. CASE i > k + Len(p)
    <3> DEFINE j == i - Len(p)
    <3>0. j \in 0..Len(q) /\ j > k
      BY <1>1, <1>2, <1>l, <2>5
    <3>1. At(h, s, i) = At(h, q, j) /\ At(h, s, i + 1) = At(h, q, j + 1)
      <4>1. /\ i \in 0..(Len(s) + 1) /\ i + 1 \in 0..(Len(s) + 1)
            /\ ~(i <= k) /\ ~(i <= k + Len(p)) /\ ~(i + 1 <= k) /\ ~(i + 1 <= k + Len(p))
            /\ (i + 1) - Len(p) = j + 1
        BY <1>1, <1>2, <1>l, <2>5
      <4>2. At(h, s, i) = At(h, q, i - Len(p)) /\ At(h, s, i + 1) = At(h, q, (i + 1) - Len(p))
        BY <1>5, <4>1
      <4> QED BY <4>1, <4>2
    <3> HIDE DEF j
    <3>2. /\ At(h, q, j) # pv /\ At(h, q, j + 1) # nx
          /\ At(h, q, j) # last /\ At(h, q, j + 1) # first
      BY <1>1, <1>2, <1>3, <3>0, SMTT(60)
    <3>3. m.next[At(h, q, j)] = At(h, q, j + 1) /\ m.prev[At(h, q, j + 1)] = At(h, q, j)
      BY <3>0 DEF Spells
    <3> QED BY <1>1, <1>6, <3>0, <3>1, <3>2, <3>3
  <2>6. i < k \/ i = k \/ (k < i /\ i < k + Len(p)) \/ i = k + Len(p) \/ i > k + Len(p)
    <3>1. i \in Int /\ k \in Int /\ Len(p) \in Int
      BY <1>1, <1>2, <1>l
    <3> QED BY <3>1
  <2> QED BY <2>1, <2>2, <2>3, <2>4, <2>5, <2>6
<1>9. Spells(r, h, s)
  BY <1>8 DEF Spells
<1>10. ASSUME NEW c \in D, NotOf(c, h, q), NotOf(c, g, p) PROVE Same(m, r, c)
  <2>1. c # nx /\ c # pv
    BY <1>1, <1>10, NotAt
  <2>2. c # first /\ c # last
    BY <1>2, <1>10 DEF NotOf
  <2> QED BY <1>6, <2>1, <2>2 DEF Same
<1> QED BY <1>7, <1>9, <1>10

(* __list_cut_position() was called for the k-th entry of q. *)
CutBehind(D, m, r, g, h, q, k) ==
  CutOff(D, m, r, g, h, q[k], At(h, q, 1), At(h, q, k + 1))

(* __list_cut_position() behind the k-th entry *)
LEMMA SpellsCut ==
  ASSUME NEW D, NEW m, NEW h, NEW q, IsList(D, h, q), Spells(m, h, q),
         NEW g \in D, NotOf(g, h, q), NEW k \in 1..Len(q),
         NEW a, NEW b, IsCut(D, q, k, a, b),
         NEW r, CutBehind(D, m, r, g, h, q, k)
  PROVE  /\ IsList(D, g, a) /\ IsList(D, h, b)
         /\ Spells(r, g, a) /\ Spells(r, h, b)
         /\ \A c \in D : c # g /\ NotOf(c, h, q) => Same(m, r, c)
<1> PICK entry, first, new_first :
      entry = q[k] /\ first = At(h, q, 1) /\ new_first = At(h, q, k + 1)
  OBVIOUS
<1> CutOff(D, m, r, g, h, entry, first, new_first)
  BY DEF CutBehind
<1>1. /\ Len(q) \in Nat
      /\ \A i \in Int : At(h, q, i) \in D /\ At(h, q, i) # g
      /\ At(h, q, 0) = h /\ At(h, q, Len(q) + 1) = h
      /\ \A i \in 1..Len(q) : At(h, q, i) = q[i]
      /\ \A i, j \in 0..Len(q) : At(h, q, i) = At(h, q, j) => i = j
      /\ \A i, j \in 1..(Len(q) + 1) : At(h, q, i) = At(h, q, j) => i = j
  BY AtIs, NotAt
<1>c. /\ a \in Seq(D) /\ Len(a) = k /\ \A i \in 1..k : a[i] = q[i]
      /\ b \in Seq(D) /\ Len(b) = Len(q) - k /\ \A i \in 1..(Len(q) - k) : b[i] = q[i + k]
  BY DEF IsCut
<1>l. Len(a) = k /\ Len(b) = Len(q) - k
  BY <1>c
<1>2. /\ entry = At(h, q, k)
      /\ h \in D /\ entry \in D /\ first \in D /\ new_first \in D
      /\ h # g /\ entry # g /\ first # g /\ new_first # g
      /\ entry # h /\ first # h /\ first # new_first
  BY <1>1
<1>3. /\ \A i \in 0..(k + 1) : At(g, a, i) = IF i = 0 \/ i = k + 1 THEN g ELSE At(h, q, i)
      /\ \A i \in 0..(Len(b) + 1) : At(h, b, i) = IF i = 0 THEN h ELSE At(h, q, i + k)
  BY <1>1, <1>c DEF At
<1>4. \A c \in D :
        /\ r.next[c] = IF c = h THEN new_first ELSE IF c = entry THEN g
                       ELSE IF c = g THEN first ELSE m.next[c]
        /\ r.prev[c] = IF c = new_first THEN h ELSE IF c = g THEN entry
                       ELSE IF c = first THEN g ELSE m.prev[c]
  BY DEF CutOff
<1>5. IsList(D, g, a) /\ IsList(D, h, b)
  <2>1. /\ \A i \in 1..Len(q) : q[i] # h /\ q[i] # g
        /\ \A i, j \in 1..Len(q) : q[i] = q[j] => i = j
        /\ h \in D
    BY DEF IsList, NotOf, LS!NoDuplicates
  <2>2. IsList(D, g, a)
    <3>1. \A i \in 1..Len(a) : i \in 1..Len(q) /\ a[i] = q[i]
      BY <1>1, <1>c
    <3>2. /\ \A i \in 1..Len(a) : a[i] # g
          /\ \A i, j \in 1..Len(a) : a[i] = a[j] => i = j
      BY <2>1, <3>1
    <3> QED BY <1>c, <3>2 DEF IsList, LS!NoDuplicates
  <2>3. /\ \A i \in 1..Len(b) : b[i] # h
        /\ \A i, j \in 1..Len(b) : b[i] = b[j] => i = j
    <3>1. \A i \in 1..Len(b) : i + k \in 1..Len(q) /\ b[i] = q[i + k]
      BY <1>1, <1>c
    <3>2. ASSUME NEW i \in 1..Len(b), NEW j \in 1..Len(b), b[i] = b[j] PROVE i = j
      <4>1. i + k = j + k
        BY <2>1, <3>1, <3>2
      <4> QED BY <4>1
    <3> QED BY <2>1, <3>1, <3>2
  <2> QED BY <1>c, <2>1, <2>2, <2>3 DEF IsList, LS!NoDuplicates
<1>6. ASSUME NEW i \in 0..k
      PROVE  r.next[At(g, a, i)] = At(g, a, i + 1) /\ r.prev[At(g, a, i + 1)] = At(g, a, i)
  <2>s. m.next[At(h, q, i)] = At(h, q, i + 1) /\ m.prev[At(h, q, i + 1)] = At(h, q, i)
    BY <1>1 DEF Spells
  <2>1. r.next[At(g, a, i)] = At(g, a, i + 1)
    <3>1. CASE i = 0
      <4>1. At(g, a, i) = g /\ At(g, a, i + 1) = first
        BY <1>1, <1>3, <3>1
      <4> QED BY <1>2, <1>4, <4>1
    <3>2. CASE i = k
      <4>1. At(g, a, i) = entry /\ At(g, a, i + 1) = g
        BY <1>1, <1>2, <1>3, <3>2
      <4> QED BY <1>2, <1>4, <4>1
    <3>3. CASE i # 0 /\ i # k
      <4>1. At(g, a, i) = At(h, q, i) /\ At(g, a, i + 1) = At(h, q, i + 1)
        BY <1>1, <1>3, <3>3
      <4>2. At(h, q, i) # h /\ At(h, q, i) # entry
        BY <1>1, <1>2, <3>3
      <4> QED BY <1>1, <1>4, <2>s, <4>1, <4>2
    <3> QED BY <3>1, <3>2, <3>3
  <2>2. r.prev[At(g, a, i + 1)] = At(g, a, i)
    <3>1. CASE i = 0
      <4>1. At(g, a, i) = g /\ At(g, a, i + 1) = first
        BY <1>1, <1>3, <3>1
      <4> QED BY <1>2, <1>4, <4>1
    <3>2. CASE i = k
      <4>1. At(g, a, i) = entry /\ At(g, a, i + 1) = g
        BY <1>1, <1>2, <1>3, <3>2
      <4> QED BY <1>2, <1>4, <4>1
    <3>3. CASE i # 0 /\ i # k
      <4>1. At(g, a, i) = At(h, q, i) /\ At(g, a, i + 1) = At(h, q, i + 1)
        BY <1>1, <1>3, <3>3
      <4>2. At(h, q, i + 1) # first /\ At(h, q, i + 1) # new_first
        BY <1>1, <1>2, <3>3
      <4> QED BY <1>1, <1>4, <2>s, <4>1, <4>2
    <3> QED BY <3>1, <3>2, <3>3
  <2> QED BY <2>1, <2>2
<1>7. ASSUME NEW i \in 0..Len(b)
      PROVE  r.next[At(h, b, i)] = At(h, b, i + 1) /\ r.prev[At(h, b, i + 1)] = At(h, b, i)
  <2>1. CASE i = 0
    <3>1. At(h, b, i) = h /\ At(h, b, i + 1) = new_first
      BY <1>1, <1>3, <1>l, <2>1
    <3> QED BY <1>2, <1>4, <3>1
  <2>2. CASE i # 0
    <3> DEFINE j == i + k
    <3>0. j \in 0..Len(q) /\ j > k
      BY <1>1, <1>l, <2>2
    <3>1. At(h, b, i) = At(h, q, j) /\ At(h, b, i + 1) = At(h, q, j + 1)
      BY <1>1, <1>3, <1>l, <2>2
    <3> HIDE DEF j
    <3>2. /\ At(h, q, j) # h /\ At(h, q, j) # entry
          /\ At(h, q, j + 1) # first /\ At(h, q, j + 1) # new_first
      BY <1>1, <1>2, <3>0
    <3>3. m.next[At(h, q, j)] = At(h, q, j + 1) /\ m.prev[At(h, q, j + 1)] = At(h, q, j)
      BY <3>0 DEF Spells
    <3> QED BY <1>1, <1>4, <3>0, <3>1, <3>2, <3>3
  <2> QED BY <2>1, <2>2
<1>8. Spells(r, g, a) /\ Spells(r, h, b)
  BY <1>6, <1>7, <1>l DEF Spells
<1>9. ASSUME NEW c \in D, c # g, NotOf(c, h, q) PROVE Same(m, r, c)
  <2>1. c # h /\ c # entry /\ c # first /\ c # new_first
    BY <1>1, <1>2, <1>9, NotAt DEF NotOf
  <2> QED BY <1>4, <1>9, <2>1 DEF Same
<1> QED BY <1>5, <1>8, <1>9

----------------------------------------------------------------------------
(* The sequences that the functions of ListSeq return *)

(* A list of entries is a list of cells. *)
LEMMA SeqOfCells ==
  ASSUME NEW q \in Seq(Entries)
  PROVE  q \in Seq(Cells) /\ \A i \in 1..Len(q) : q[i] \in Entries
BY DEF Cells

(* list_add() and list_add_tail() put an entry in front and at the end. *)
LEMMA AddSeq ==
  ASSUME NEW T, NEW q \in Seq(T), NEW e \in T
  PROVE  /\ WithEntry(T, LS!list_add(q, e), q, 0, e)
         /\ WithEntry(T, LS!list_add_tail(q, e), q, Len(q), e)
<1>1. WithEntry(T, LS!list_add(q, e), q, 0, e)
  <2> DEFINE s == <<e>> \o q
  <2>1. s \in Seq(T) /\ Len(s) = Len(q) + 1 /\ Len(q) \in Nat
    OBVIOUS
  <2>2. ASSUME NEW i \in 1..Len(s) PROVE s[i] = IF i = 1 THEN e ELSE q[i - 1]
    BY <2>1
  <2> HIDE DEF s
  <2>3. \A i \in 1..Len(s) : s[i] = IF i <= 0 THEN q[i] ELSE IF i = 0 + 1 THEN e ELSE q[i - 1]
    BY <2>1, <2>2
  <2>4. LS!list_add(q, e) = s
    BY DEF s, LS!list_add, LS!Cons
  <2> QED BY <2>1, <2>3, <2>4 DEF WithEntry
<1>2. WithEntry(T, LS!list_add_tail(q, e), q, Len(q), e)
  <2> DEFINE s == Append(q, e)
  <2>1. /\ s \in Seq(T) /\ Len(s) = Len(q) + 1 /\ Len(q) \in Nat
        /\ \A i \in 1..Len(q) : s[i] = q[i]
        /\ s[Len(q) + 1] = e
    OBVIOUS
  <2> HIDE DEF s
  <2>2. \A i \in 1..Len(s) :
          s[i] = IF i <= Len(q) THEN q[i] ELSE IF i = Len(q) + 1 THEN e ELSE q[i - 1]
    BY <2>1
  <2>3. LS!list_add_tail(q, e) = s
    BY DEF s, LS!list_add_tail
  <2> QED BY <2>1, <2>2, <2>3 DEF WithEntry
<1> QED BY <1>1, <1>2

(* IndexOf() finds an entry that is there. *)
LEMMA IndexIs ==
  ASSUME NEW q, NEW e, \E i \in 1..Len(q) : q[i] = e
  PROVE  LS!IndexOf(q, e) \in 1..Len(q) /\ q[LS!IndexOf(q, e)] = e
BY DEF LS!IndexOf

(* list_del() takes an entry out. *)
LEMMA DelSeq ==
  ASSUME NEW T, NEW q \in Seq(T), NEW e, \E i \in 1..Len(q) : q[i] = e
  PROVE  WithoutEntry(T, LS!list_del(q, e), q, LS!IndexOf(q, e))
<1>1. e \in LP!ToSet(q)
  BY DEF LP!ToSet
<1>2. LS!list_del(q, e) = LP!list_del(q, e) /\ LS!IndexOf(q, e) = LP!IndexOf(q, e)
  BY DEF LS!list_del, LP!list_del, LS!RemoveAt, LP!RemoveAt, LS!IndexOf, LP!IndexOf
<1> DEFINE k == LP!IndexOf(q, e)
           s == LP!list_del(q, e)
<1>3. /\ s \in Seq(T) /\ Len(s) = Len(q) - 1
      /\ \A i \in 1..(Len(q) - 1) : s[i] = IF i < k THEN q[i] ELSE q[i + 1]
  BY <1>1, LP!ListDelEntries
<1> HIDE DEF s, k
<1>4. WithoutEntry(T, s, q, k)
  BY <1>3 DEF WithoutEntry
<1> QED BY <1>2, <1>4 DEF s, k

(* list_splice() and list_splice_tail() put a list in front of or behind   *)
(* another.                                                                *)
LEMMA JoinSeq ==
  ASSUME NEW T, NEW p \in Seq(T), NEW q \in Seq(T)
  PROVE  HasWithin(T, p \o q, q, 0, p) /\ HasWithin(T, q \o p, q, Len(q), p)
<1>1. HasWithin(T, p \o q, q, 0, p)
  <2> DEFINE s == p \o q
  <2>1. s \in Seq(T) /\ Len(s) = Len(q) + Len(p) /\ Len(q) \in Nat /\ Len(p) \in Nat
    OBVIOUS
  <2>2. ASSUME NEW i \in 1..Len(s) PROVE s[i] = IF i <= Len(p) THEN p[i] ELSE q[i - Len(p)]
    BY <2>1
  <2> HIDE DEF s
  <2>3. ASSUME NEW i \in 1..Len(s)
        PROVE  s[i] = IF i <= 0 THEN q[i] ELSE IF i <= 0 + Len(p) THEN p[i - 0] ELSE q[i - Len(p)]
    <3>1. ~(i <= 0) /\ 0 + Len(p) = Len(p) /\ i - 0 = i
      BY <2>1
    <3> QED BY <2>2, <3>1
  <2> QED BY <2>1, <2>3 DEF HasWithin, s
<1>2. HasWithin(T, q \o p, q, Len(q), p)
  <2> DEFINE s == q \o p
  <2>1. s \in Seq(T) /\ Len(s) = Len(q) + Len(p) /\ Len(q) \in Nat /\ Len(p) \in Nat
    OBVIOUS
  <2>2. ASSUME NEW i \in 1..Len(s) PROVE s[i] = IF i <= Len(q) THEN q[i] ELSE p[i - Len(q)]
    BY <2>1
  <2> HIDE DEF s
  <2>3. ASSUME NEW i \in 1..Len(s)
        PROVE  s[i] = IF i <= Len(q) THEN q[i] ELSE IF i <= Len(q) + Len(p) THEN p[i - Len(q)]
                      ELSE q[i - Len(p)]
    <3>1. i <= Len(q) + Len(p)
      BY <2>1
    <3> QED BY <2>2, <3>1
  <2> QED BY <2>1, <2>3 DEF HasWithin, s
<1> QED BY <1>1, <1>2

(* list_cut_position() splits a list in two. *)
LEMMA CutSeq ==
  ASSUME NEW T, NEW q \in Seq(T), NEW k \in 0..Len(q)
  PROVE  IsCut(T, q, k, SubSeq(q, 1, k), SubSeq(q, k + 1, Len(q)))
<1> DEFINE a == SubSeq(q, 1, k)
           b == SubSeq(q, k + 1, Len(q))
<1>0. Len(q) \in Nat
  OBVIOUS
<1>1. a \in Seq(T) /\ Len(a) = k /\ \A i \in 1..k : a[i] = q[i]
  BY <1>0
<1>2. /\ b \in Seq(T) /\ Len(b) = Len(q) - k
      /\ \A i \in 1..(Len(q) - k) : b[i] = q[k + i]
  BY <1>0
<1> HIDE DEF a, b
<1>3. \A i \in 1..(Len(q) - k) : b[i] = q[i + k]
  <2>1. \A i \in 1..(Len(q) - k) : i + k = k + i
    BY <1>0
  <2> QED BY <1>2, <2>1
<1>4. IsCut(T, q, k, a, b)
  BY <1>1, <1>2, <1>3 DEF IsCut
<1> QED BY <1>4 DEF a, b

(* list_replace() puts another entry in the place of one. *)
LEMMA OtherSeq ==
  ASSUME NEW T, NEW q \in Seq(T), NEW k \in 1..Len(q), NEW f \in T
  PROVE  WithOther(T, [q EXCEPT ![k] = f], q, k, f)
<1> DEFINE s == [q EXCEPT ![k] = f]
<1>1. s \in Seq(T) /\ Len(s) = Len(q) /\ \A i \in 1..Len(q) : s[i] = IF i = k THEN f ELSE q[i]
  OBVIOUS
<1> HIDE DEF s
<1>2. WithOther(T, s, q, k, f)
  BY <1>1 DEF WithOther
<1> QED BY <1>2 DEF s

----------------------------------------------------------------------------
(* All lists together: m is the memory, L the lists, S the entries that    *)
(* point to themselves and V the heads in use.                             *)

USE CellsAssumption

Alone(m, e) == m.next[e] = e /\ m.prev[e] = e

(* c is a cell of no list. *)
OffLists(c, L, V) == \A h \in V : NotOf(c, h, L[h])

Rep(m, L, S, V) ==
  /\ m \in Mem(Cells, Poison)
  /\ L \in [Heads -> Seq(Entries)]
  /\ S \subseteq Entries /\ V \subseteq Heads
  /\ \A h \in V : IsList(Cells, h, L[h]) /\ Spells(m, h, L[h])
  /\ \A g, h \in V : g # h => Apart(L[g], h, L[h])
  /\ \A e \in S : Alone(m, e) /\ OffLists(e, L, V)

(* An entry that was removed does not look like one that was initialised. *)
Stale(m, L, S, V) == \A e \in Entries \ S : OffLists(e, L, V) => m.next[e] # e

(* The parts of what a function does to m, L, S and V, if it works on the  *)
(* lists of the heads H and on the entries E.                              *)
OthersKept(H, L, V, L2, V2) ==
  /\ L2 \in [Heads -> Seq(Entries)] /\ V2 \subseteq Heads
  /\ \A k \in Heads \ H : (k \in V2 <=> k \in V) /\ L2[k] = L[k]

Respelled(H, r, L2, V2) ==
  /\ r \in Mem(Cells, Poison)
  /\ \A k \in V2 \cap H : /\ IsList(Cells, k, L2[k]) /\ Spells(r, k, L2[k])
                          /\ \A j \in V2 \cap H : j # k => Apart(L2[j], k, L2[k])

OldEntry(x, H, E, L, V) == x \in E \/ \E j \in H \cap V : ~NotOf(x, j, L[j])

FromOld(H, E, L, V, L2, V2) ==
  \A k \in V2 \cap H : \A i \in 1..Len(L2[k]) : OldEntry(L2[k][i], H, E, L, V)

Elsewhere(H, E, m, r, L, V) ==
  \A c \in Cells : c \notin H /\ ~OldEntry(c, H, E, L, V) => Same(m, r, c)

SoloKept(H, E, r, L, S, V, L2, S2, V2) ==
  /\ S2 \subseteq Entries
  /\ \A c \in S2 : \/ c \in S \ E
                   \/ /\ Alone(r, c) /\ OldEntry(c, H, E, L, V)
                      /\ \A k \in V2 \cap H : NotOf(c, k, L2[k])

(* An entry that one of the heads H has is none of another's. *)
LEMMA OldElsewhere ==
  ASSUME NEW m, NEW L, NEW S, NEW V, Rep(m, L, S, V), NEW H, NEW E \in SUBSET Entries,
         \A e \in E : OffLists(e, L, V \ H),
         NEW x \in Entries, OldEntry(x, H, E, L, V), NEW h \in V \ H
  PROVE  NotOf(x, h, L[h])
<1>1. CASE x \in E
  BY <1>1 DEF OffLists
<1>2. CASE x \notin E
  <2>1. PICK j \in H \cap V : ~NotOf(x, j, L[j])
    BY <1>2 DEF OldEntry
  <2>2. x # j
    BY <2>1 DEF Rep
  <2>3. PICK i \in 1..Len(L[j]) : L[j][i] = x
    BY <2>1, <2>2 DEF NotOf
  <2>4. Apart(L[j], h, L[h])
    BY <2>1 DEF Rep
  <2> QED BY <2>3, <2>4 DEF Apart
<1> QED BY <1>1, <1>2

(* Such a function keeps Rep. *)
LEMMA RepStep ==
  ASSUME NEW m, NEW L, NEW S, NEW V, Rep(m, L, S, V),
         NEW r, NEW L2, NEW S2, NEW V2,
         NEW H \in SUBSET Heads, NEW E \in SUBSET Entries, \A e \in E : OffLists(e, L, V \ H),
         OthersKept(H, L, V, L2, V2), Respelled(H, r, L2, V2), FromOld(H, E, L, V, L2, V2),
         Elsewhere(H, E, m, r, L, V), SoloKept(H, E, r, L, S, V, L2, S2, V2)
  PROVE  Rep(r, L2, S2, V2)
<1>1. /\ L \in [Heads -> Seq(Entries)] /\ S \subseteq Entries /\ V \subseteq Heads
      /\ \A h \in V : IsList(Cells, h, L[h]) /\ Spells(m, h, L[h])
      /\ \A g, h \in V : g # h => Apart(L[g], h, L[h])
      /\ \A e \in S : Alone(m, e) /\ OffLists(e, L, V)
  BY DEF Rep
<1>2. /\ L2 \in [Heads -> Seq(Entries)] /\ V2 \subseteq Heads
      /\ \A k \in Heads \ H : (k \in V2 <=> k \in V) /\ L2[k] = L[k]
  BY DEF OthersKept
<1>3. /\ r \in Mem(Cells, Poison)
      /\ \A k \in V2 \cap H : IsList(Cells, k, L2[k]) /\ Spells(r, k, L2[k])
      /\ \A j, k \in V2 \cap H : j # k => Apart(L2[j], k, L2[k])
  BY DEF Respelled
<1>4. \A k \in V2 \ H : k \in V \ H /\ L2[k] = L[k]
  BY <1>2
<1>5. ASSUME NEW h \in V2 PROVE IsList(Cells, h, L2[h]) /\ Spells(r, h, L2[h])
  <2>1. CASE h \in H
    BY <1>3, <1>5, <2>1
  <2>2. CASE h \notin H
    <3>1. h \in V \ H /\ L2[h] = L[h] /\ IsList(Cells, h, L[h]) /\ Spells(m, h, L[h])
      BY <1>1, <1>4, <1>5, <2>2
    <3>2. ASSUME NEW i \in 0..Len(L[h]) PROVE Same(m, r, At(h, L[h], i))
      <4> DEFINE c == At(h, L[h], i)
      <4>1. c \in Cells
        BY <3>1, AtIs
      <4>2. c = h \/ \E n \in 1..Len(L[h]) : c = L[h][n]
        BY DEF At
      <4> HIDE DEF c
      <4>3. ~NotOf(c, h, L[h])
        BY <4>2 DEF NotOf
      <4>4. c \notin H /\ ~OldEntry(c, H, E, L, V)
        <5>1. CASE c = h
          <6>1. c \in Heads /\ c \notin Entries
            BY <1>1, <3>1, <5>1
          <6>2. ASSUME NEW j \in H \cap V, ~NotOf(c, j, L[j]) PROVE FALSE
            <7>1. c # j
              BY <2>2, <5>1, <6>2
            <7>2. \A n \in 1..Len(L[j]) : L[j][n] \in Entries
              BY <1>1, <6>2, SeqOfCells
            <7> QED BY <6>1, <6>2, <7>1, <7>2 DEF NotOf
          <6> QED BY <2>2, <5>1, <6>1, <6>2 DEF OldEntry
        <5>2. CASE c # h
          <6>1. c \in Entries
            BY <1>1, <3>1, <4>2, <5>2, SeqOfCells
          <6>2. c \notin H
            BY <6>1
          <6> QED BY <3>1, <4>3, <6>1, <6>2, OldElsewhere
        <5> QED BY <5>1, <5>2
      <4>5. Same(m, r, c)
        BY <4>1, <4>4 DEF Elsewhere
      <4> QED BY <4>5 DEF c
    <3> QED BY <3>1, <3>2, SpellsFrame
  <2> QED BY <2>1, <2>2
<1>6. ASSUME NEW g \in V2, NEW h \in V2, g # h PROVE Apart(L2[g], h, L2[h])
  <2>0. \A i \in 1..Len(L2[g]) : L2[g][i] \in Entries
    BY <1>2, <1>6, SeqOfCells
  <2>1. CASE g \in H /\ h \in H
    BY <1>3, <1>6, <2>1
  <2>2. CASE g \notin H /\ h \notin H
    BY <1>1, <1>4, <1>6, <2>2
  <2>3. CASE g \in H /\ h \notin H
    <3>1. h \in V \ H /\ L2[h] = L[h]
      BY <1>4, <1>6, <2>3
    <3>2. ASSUME NEW i \in 1..Len(L2[g]) PROVE NotOf(L2[g][i], h, L[h])
      <4>1. OldEntry(L2[g][i], H, E, L, V)
        BY <1>6, <2>3 DEF FromOld
      <4> QED BY <2>0, <3>1, <4>1, OldElsewhere
    <3> QED BY <3>1, <3>2 DEF Apart
  <2>4. CASE g \notin H /\ h \in H
    <3>1. g \in V \ H /\ L2[g] = L[g]
      BY <1>4, <1>6, <2>4
    <3>2. ASSUME NEW i \in 1..Len(L2[g]), ~NotOf(L2[g][i], h, L2[h]) PROVE FALSE
      <4> DEFINE x == L2[g][i]
      <4>1. x \in Entries /\ x # h
        BY <1>2, <2>0
      <4>2. PICK n \in 1..Len(L2[h]) : L2[h][n] = x
        BY <3>2, <4>1 DEF NotOf
      <4>3. OldEntry(x, H, E, L, V)
        BY <1>6, <2>4, <4>2 DEF FromOld
      <4> HIDE DEF x
      <4>4. NotOf(x, g, L[g])
        BY <3>1, <4>1, <4>3, OldElsewhere
      <4> QED BY <3>1, <4>4 DEF NotOf, x
    <3> QED BY <3>2 DEF Apart
  <2> QED BY <2>1, <2>2, <2>3, <2>4
<1>7. S2 \subseteq Entries
  BY DEF SoloKept
<1>8. ASSUME NEW e \in S2 PROVE Alone(r, e) /\ OffLists(e, L2, V2)
  <2>0. e \in Entries /\ e \in Cells /\ e \notin Heads
    BY <1>7 DEF Cells
  <2>1. CASE e \in S \ E
    <3>1. Alone(m, e) /\ OffLists(e, L, V)
      BY <1>1, <2>1
    <3>2. ~OldEntry(e, H, E, L, V)
      BY <2>1, <3>1 DEF OldEntry, OffLists
    <3>3. Same(m, r, e)
      BY <2>0, <3>2 DEF Elsewhere
    <3>4. ASSUME NEW h \in V2 PROVE NotOf(e, h, L2[h])
      <4>1. CASE h \in H
        <5>1. ASSUME NEW n \in 1..Len(L2[h]), L2[h][n] = e PROVE FALSE
          BY <3>2, <3>4, <4>1, <5>1 DEF FromOld
        <5> QED BY <1>2, <2>0, <5>1 DEF NotOf
      <4>2. CASE h \notin H
        BY <1>4, <3>1, <3>4, <4>2 DEF OffLists
      <4> QED BY <4>1, <4>2
    <3> QED BY <3>1, <3>3, <3>4 DEF Alone, Same, OffLists
  <2>2. CASE /\ Alone(r, e) /\ OldEntry(e, H, E, L, V)
             /\ \A k \in V2 \cap H : NotOf(e, k, L2[k])
    <3>1. ASSUME NEW h \in V2 \ H PROVE NotOf(e, h, L2[h])
      BY <1>4, <2>0, <2>2, <3>1, OldElsewhere
    <3> QED BY <2>2, <3>1 DEF OffLists
  <2> QED BY <2>1, <2>2 DEF SoloKept
<1> QED BY <1>2, <1>3, <1>5, <1>6, <1>7, <1>8 DEF Rep

(* Those of the entries it worked on that end up on no list, and are not   *)
(* in T2, do not point to themselves.                                      *)
TakenOff(H, E, r, L, V, L2, T2, V2) ==
  \A x \in Entries \ T2 :
    OldEntry(x, H, E, L, V) /\ (\A k \in V2 \cap H : NotOf(x, k, L2[k])) => r.next[x] # x

(* Such a function keeps Stale, of the entries outside T, if those it      *)
(* takes off a list do not point to themselves.                            *)
LEMMA StaleStep ==
  ASSUME NEW m, NEW L, NEW T, NEW V, Stale(m, L, T, V),
         NEW r, NEW L2, NEW T2, NEW V2,
         NEW H \in SUBSET Heads, NEW E \in SUBSET Entries, V \subseteq Heads,
         OthersKept(H, L, V, L2, V2), Elsewhere(H, E, m, r, L, V),
         T \subseteq T2 \cup E, TakenOff(H, E, r, L, V, L2, T2, V2)
  PROVE  Stale(r, L2, T2, V2)
<1>1. SUFFICES ASSUME NEW x \in Entries \ T2, OffLists(x, L2, V2) PROVE r.next[x] # x
  BY DEF Stale
<1>2. CASE OldEntry(x, H, E, L, V)
  BY <1>1, <1>2 DEF OffLists, TakenOff
<1>3. CASE ~OldEntry(x, H, E, L, V)
  <2>1. x \notin T /\ x \in Cells /\ x \notin H
    BY <1>3 DEF OldEntry, Cells
  <2>2. Same(m, r, x)
    BY <1>3, <2>1 DEF Elsewhere
  <2>3. ASSUME NEW h \in V PROVE NotOf(x, h, L[h])
    <3>1. CASE h \in H
      BY <1>3, <3>1 DEF OldEntry
    <3>2. CASE h \notin H
      BY <1>1, <3>2 DEF OthersKept, OffLists
    <3> QED BY <3>1, <3>2
  <2> QED BY <2>1, <2>2, <2>3 DEF Stale, OffLists, Same
<1> QED BY <1>2, <1>3

(* The pointers of a head in use *)
LEMMA Ends ==
  ASSUME NEW m, NEW h, NEW q, IsList(Cells, h, q), Spells(m, h, q)
  PROVE  /\ Len(q) \in Nat
         /\ m.next[h] = At(h, q, 1) /\ m.prev[h] = At(h, q, Len(q))
         /\ At(h, q, 0) = h /\ At(h, q, Len(q) + 1) = h
         /\ \A i \in 1..Len(q) : m.next[q[i]] = At(h, q, i + 1) /\ m.prev[q[i]] = At(h, q, i - 1)
         /\ \A i \in Int : At(h, q, i) \in Cells
<1>1. /\ Len(q) \in Nat
      /\ At(h, q, 0) = h /\ At(h, q, Len(q) + 1) = h
      /\ \A i \in 1..Len(q) : At(h, q, i) = q[i]
      /\ \A i \in Int : At(h, q, i) \in Cells
  BY AtIs
<1>2. \A i \in 0..Len(q) : /\ m.next[At(h, q, i)] = At(h, q, i + 1)
                           /\ m.prev[At(h, q, i + 1)] = At(h, q, i)
  BY DEF Spells
<1>3. m.next[At(h, q, 0)] = At(h, q, 1) /\ m.prev[At(h, q, Len(q) + 1)] = At(h, q, Len(q))
  BY <1>1, <1>2
<1>4. ASSUME NEW i \in 1..Len(q)
      PROVE  m.next[q[i]] = At(h, q, i + 1) /\ m.prev[q[i]] = At(h, q, i - 1)
  <2>1. i \in 0..Len(q) /\ i - 1 \in 0..Len(q) /\ (i - 1) + 1 = i
    BY <1>1
  <2>2. m.prev[At(h, q, (i - 1) + 1)] = At(h, q, i - 1)
    BY <1>2, <2>1
  <2> QED BY <1>1, <1>2, <2>1, <2>2
<1> QED BY <1>1, <1>3, <1>4

(* The lists with that of h replaced *)
LEMMA OneList ==
  ASSUME NEW L \in [Heads -> Seq(Entries)], NEW V \in SUBSET Heads, NEW h \in Heads,
         NEW s \in Seq(Entries), NEW L2, L2 = [L EXCEPT ![h] = s]
  PROVE  OthersKept({h}, L, V, L2, V) /\ L2[h] = s
BY DEF OthersKept

(* __list_add() of an entry that is on no list *)
LEMMA RepInsert ==
  ASSUME NEW m, NEW L, NEW S, NEW T, NEW V, Rep(m, L, S, V), Stale(m, L, T, V),
         NEW e \in Entries, OffLists(e, L, V), NEW h \in V, NEW k \in 0..Len(L[h]),
         NEW s \in Seq(Entries), WithEntry(Cells, s, L[h], k, e),
         NEW r, r = list_add_between(m, e, At(h, L[h], k), At(h, L[h], k + 1))
  PROVE  /\ Rep(r, [L EXCEPT ![h] = s], S \ {e}, V)
         /\ Stale(r, [L EXCEPT ![h] = s], T \ {e}, V)
<1> DEFINE q == L[h]
           L2 == [L EXCEPT ![h] = s]
<1>1. /\ m \in Mem(Cells, Poison)
      /\ L \in [Heads -> Seq(Entries)] /\ S \subseteq Entries /\ V \subseteq Heads
      /\ IsList(Cells, h, q) /\ Spells(m, h, q) /\ NotOf(e, h, q)
      /\ e \in Cells /\ h \in Heads
  BY DEF Rep, OffLists, Cells
<1>2. OthersKept({h}, L, V, L2, V) /\ L2[h] = s
  BY <1>1, OneList
<1>3. \A i \in Int : At(h, q, i) \in Cells
  BY <1>1, AtIs
<1>4. r \in Mem(Cells, Poison) /\ Added(Cells, m, r, e, At(h, q, k), At(h, q, k + 1))
  <2>1. At(h, q, k) \in Cells /\ At(h, q, k + 1) \in Cells
    BY <1>1, <1>3, AtIs
  <2> HIDE DEF q
  <2> QED BY <1>1, <2>1, AddIs DEF q
<1> HIDE DEF q, L2
<1>5. /\ IsList(Cells, h, s) /\ Spells(r, h, s)
      /\ \A c \in Cells : c # e /\ NotOf(c, h, q) => Same(m, r, c)
  <2>1. k \in 0..Len(q) /\ WithEntry(Cells, s, q, k, e)
    BY DEF q
  <2> DEFINE pv == At(h, q, k)
             nx == At(h, q, k + 1)
  <2>2. Added(Cells, m, r, e, pv, nx)
    BY <1>4
  <2> QED BY <1>1, <2>1, <2>2, SpellsInsert, SMTT(60)
<1>6. Respelled({h}, r, L2, V)
  BY <1>2, <1>4, <1>5 DEF Respelled
<1>7. \A x : OldEntry(x, {h}, {e}, L, V) <=> x = e \/ ~NotOf(x, h, q)
  BY DEF OldEntry, q
<1>8. Elsewhere({h}, {e}, m, r, L, V)
  BY <1>5, <1>7 DEF Elsewhere
<1>w. /\ Len(s) = Len(q) + 1 /\ Len(q) \in Nat
      /\ \A i \in 1..Len(s) : s[i] = IF i <= k THEN q[i] ELSE IF i = k + 1 THEN e ELSE q[i - 1]
  BY <1>1, AtIs DEF WithEntry, q
<1>9. FromOld({h}, {e}, L, V, L2, V)
  <2>1. ASSUME NEW i \in 1..Len(s) PROVE OldEntry(s[i], {h}, {e}, L, V)
    <3>1. s[i] = e \/ \E j \in 1..Len(q) : s[i] = q[j]
      BY <1>w DEF q
    <3> QED BY <1>7, <3>1 DEF NotOf
  <2> QED BY <1>2, <2>1 DEF FromOld
<1>10. SoloKept({h}, {e}, r, L, S, V, L2, S \ {e}, V)
  BY <1>1 DEF SoloKept
<1>11. \A x \in {e} : OffLists(x, L, V \ {h})
  BY DEF OffLists
<1>12. Rep(r, L2, S \ {e}, V)
  <2> DEFINE H == {h}
             E == {e}
  <2>1. H \in SUBSET Heads /\ E \in SUBSET Entries
    BY <1>1
  <2> QED BY <1>2, <1>6, <1>8, <1>9, <1>10, <1>11, <2>1, RepStep
<1>13. Stale(r, L2, T \ {e}, V)
  <2>1. ASSUME NEW x \in Entries \ (T \ {e}), OldEntry(x, {h}, {e}, L, V), NotOf(x, h, s) PROVE FALSE
    <3>1. s[k + 1] = e /\ k + 1 \in 1..Len(s)
      BY <1>w DEF q
    <3>2. x # e
      BY <2>1, <3>1 DEF NotOf
    <3>3. PICK j \in 1..Len(q) : q[j] = x
      BY <1>1, <1>7, <2>1, <3>2 DEF NotOf, Rep
    <3>4. \E i \in 1..Len(s) : s[i] = x
      <4>1. CASE j <= k
        <5>1. j \in 1..Len(s) /\ s[j] = x
          BY <1>w, <3>3, <4>1
        <5> QED BY <5>1
      <4>2. CASE ~(j <= k)
        <5>1. j + 1 \in 1..Len(s) /\ ~(j + 1 <= k) /\ j + 1 # k + 1 /\ (j + 1) - 1 = j
          BY <1>w, <3>3, <4>2 DEF q
        <5>2. s[j + 1] = x
          BY <1>w, <3>3, <5>1
        <5> QED BY <5>1, <5>2
      <4> QED BY <4>1, <4>2
    <3> QED BY <2>1, <3>4 DEF NotOf
  <2> DEFINE H == {h}
             E == {e}
             T2 == T \ {e}
  <2>2. T \subseteq T2 \cup E /\ E \in SUBSET Entries /\ H \in SUBSET Heads
    BY <1>1
  <2>3. TakenOff(H, E, r, L, V, L2, T2, V)
    BY <1>2, <2>1 DEF TakenOff
  <2>4. OthersKept(H, L, V, L2, V) /\ Elsewhere(H, E, m, r, L, V)
    BY <1>2, <1>8
  <2> HIDE DEF H, E, T2
  <2>5. Stale(r, L2, T2, V)
    BY <1>1, <2>2, <2>3, <2>4, StaleStep
  <2> QED BY <2>5 DEF T2
<1> QED BY <1>12, <1>13 DEF L2

(* Fewer entries may be known to point to themselves. *)
LEMMA RepFewer ==
  ASSUME NEW m, NEW L, NEW S, NEW V, Rep(m, L, S, V), NEW S2, S2 \subseteq S
  PROVE  Rep(m, L, S2, V)
BY DEF Rep

(* Nothing but the cell e was written. *)
OnlyCell(m, r, e) == \A c \in Cells : c # e => Same(m, r, c)

(* The pointers of an entry that is on no list are written. *)
LEMMA RepOwn ==
  ASSUME NEW m, NEW L, NEW S, NEW T, NEW V, Rep(m, L, S, V), Stale(m, L, T, V),
         NEW e \in Entries, OffLists(e, L, V),
         NEW r \in Mem(Cells, Poison), OnlyCell(m, r, e)
  PROVE  /\ Rep(r, L, S \ {e}, V)
         /\ Alone(r, e) => Rep(r, L, S \cup {e}, V)
         /\ Stale(r, L, T \cup {e}, V)
         /\ r.next[e] # e => Stale(r, L, T \ {e}, V)
<1>1. /\ L \in [Heads -> Seq(Entries)] /\ S \subseteq Entries /\ V \subseteq Heads
  BY DEF Rep
<1> DEFINE H == {}
           E == {e}
<1>2. H \in SUBSET Heads /\ E \in SUBSET Entries /\ V \cap H = {} /\ \A x \in E : OffLists(x, L, V \ H)
  BY DEF OffLists
<1>3. /\ OthersKept(H, L, V, L, V) /\ Respelled(H, r, L, V) /\ FromOld(H, E, L, V, L, V)
      /\ Elsewhere(H, E, m, r, L, V)
  BY <1>1 DEF OthersKept, Respelled, FromOld, Elsewhere, OnlyCell, OldEntry
<1>4. Rep(r, L, S \ {e}, V)
  <2>1. SoloKept(H, E, r, L, S, V, L, S \ {e}, V)
    BY <1>1 DEF SoloKept
  <2> HIDE DEF H, E
  <2> QED BY <1>2, <1>3, <2>1, RepStep
<1>5. ASSUME Alone(r, e) PROVE Rep(r, L, S \cup {e}, V)
  <2>1. SoloKept(H, E, r, L, S, V, L, S \cup {e}, V)
    BY <1>1, <1>5 DEF SoloKept, OldEntry
  <2> HIDE DEF H, E
  <2> QED BY <1>2, <1>3, <2>1, RepStep
<1>6. Stale(r, L, T \cup {e}, V)
  <2> DEFINE T2 == T \cup {e}
  <2>1. TakenOff(H, E, r, L, V, L, T2, V) /\ T \subseteq T2 \cup E
    BY DEF TakenOff, OldEntry
  <2> HIDE DEF H, E, T2
  <2>2. Stale(r, L, T2, V)
    BY <1>1, <1>2, <1>3, <2>1, StaleStep
  <2> QED BY <2>2 DEF T2
<1>7. ASSUME r.next[e] # e PROVE Stale(r, L, T \ {e}, V)
  <2> DEFINE T2 == T \ {e}
  <2>1. TakenOff(H, E, r, L, V, L, T2, V) /\ T \subseteq T2 \cup E
    BY <1>7 DEF TakenOff, OldEntry
  <2> HIDE DEF H, E, T2
  <2>2. Stale(r, L, T2, V)
    BY <1>1, <1>2, <1>3, <2>1, StaleStep
  <2> QED BY <2>2 DEF T2
<1> QED BY <1>4, <1>5, <1>6, <1>7

(* __list_del_entry() of the k-th entry of h *)
LEMMA RepRemove ==
  ASSUME NEW m, NEW L, NEW S, NEW T, NEW V, Rep(m, L, S, V), Stale(m, L, T, V),
         NEW h \in V, NEW k \in 1..Len(L[h]), NEW e, e = L[h][k],
         NEW s \in Seq(Entries), WithoutEntry(Cells, s, L[h], k),
         NEW r, r = list_del_entry(m, e)
  PROVE  /\ Rep(r, [L EXCEPT ![h] = s], S \ {e}, V)
         /\ Stale(r, [L EXCEPT ![h] = s], T \cup {e}, V)
         /\ OffLists(e, [L EXCEPT ![h] = s], V)
<1> DEFINE q == L[h]
           L2 == [L EXCEPT ![h] = s]
           pv == At(h, q, k - 1)
           nx == At(h, q, k + 1)
<1>1. /\ m \in Mem(Cells, Poison)
      /\ L \in [Heads -> Seq(Entries)] /\ S \subseteq Entries /\ V \subseteq Heads
      /\ IsList(Cells, h, q) /\ Spells(m, h, q)
      /\ h \in Heads
      /\ \A g \in V : g # h => Apart(q, g, L[g])
  BY DEF Rep
<1>2. OthersKept({h}, L, V, L2, V) /\ L2[h] = s
  BY <1>1, OneList
<1>3. q \in Seq(Entries)
  BY <1>1
<1> HIDE DEF q, L2
<1>k. k \in 1..Len(q) /\ WithoutEntry(Cells, s, q, k) /\ e = q[k]
  BY DEF q
<1>4. /\ Len(q) \in Nat
      /\ \A i \in Int : At(h, q, i) \in Cells
      /\ m.next[e] = nx /\ m.prev[e] = pv
  BY <1>1, <1>k, Ends
<1>5. pv \in Cells /\ nx \in Cells /\ e \in Entries /\ e \in Cells /\ e # nx
  <2>1. k - 1 \in Int /\ k + 1 \in Int /\ k \in 1..(Len(q) + 1) /\ k + 1 \in 1..(Len(q) + 1) /\ k # k + 1
    BY <1>4, <1>k
  <2>2. At(h, q, k) = q[k] /\ At(h, q, k) # At(h, q, k + 1)
    BY <1>1, <1>k, <2>1, AtIs
  <2> QED BY <1>3, <1>4, <1>k, <2>1, <2>2 DEF Cells
<1>6. r \in Mem(Cells, Poison) /\ Deleted(Cells, m, r, pv, nx)
  <2>1. r = list_del_between(m, pv, nx)
    BY <1>4 DEF list_del_entry
  <2> HIDE DEF pv, nx
  <2> QED BY <1>1, <1>5, <2>1, DelIs
<1>7. /\ IsList(Cells, h, s) /\ Spells(r, h, s)
      /\ \A c \in Cells : NotOf(c, h, q) \/ c = q[k] => Same(m, r, c)
  BY <1>1, <1>k, <1>6, SpellsRemove
<1>w. /\ Len(s) = Len(q) - 1
      /\ \A i \in 1..Len(s) : s[i] = IF i < k THEN q[i] ELSE q[i + 1]
  BY <1>k DEF WithoutEntry
<1>8. \A x : OldEntry(x, {h}, {e}, L, V) <=> x = e \/ ~NotOf(x, h, q)
  BY DEF OldEntry, q
<1>9. Respelled({h}, r, L2, V)
  BY <1>2, <1>6, <1>7 DEF Respelled
<1>10. Elsewhere({h}, {e}, m, r, L, V)
  BY <1>7, <1>8 DEF Elsewhere
<1>11. FromOld({h}, {e}, L, V, L2, V)
  <2>1. ASSUME NEW i \in 1..Len(s) PROVE OldEntry(s[i], {h}, {e}, L, V)
    <3>1. \E j \in 1..Len(q) : s[i] = q[j]
      BY <1>4, <1>w, <1>k
    <3> QED BY <1>8, <3>1 DEF NotOf
  <2> QED BY <1>2, <2>1 DEF FromOld
<1>12. \A x \in {e} : OffLists(x, L, V \ {h})
  <2>1. ASSUME NEW g \in V \ {h} PROVE NotOf(e, g, L[g])
    BY <1>1, <1>k, <2>1 DEF Apart
  <2> QED BY <2>1 DEF OffLists
<1>13. NotOf(e, h, s)
  <2>1. e # h
    BY <1>1, <1>5
  <2>2. ASSUME NEW i \in 1..Len(s), s[i] = e PROVE FALSE
    <3>1. \A a, b \in 1..Len(q) : q[a] = q[b] => a = b
      BY <1>1 DEF IsList, LS!NoDuplicates
    <3>2. CASE i < k
      BY <1>4, <1>w, <1>k, <2>2, <3>1, <3>2
    <3>3. CASE ~(i < k)
      <4>1. i + 1 \in 1..Len(q) /\ i + 1 # k
        BY <1>4, <1>w, <1>k, <3>3
      <4> QED BY <1>w, <1>k, <2>2, <3>1, <3>3, <4>1
    <3> QED BY <3>2, <3>3
  <2> QED BY <2>1, <2>2 DEF NotOf
<1>14. OffLists(e, L2, V)
  <2>1. ASSUME NEW g \in V PROVE NotOf(e, g, L2[g])
    <3>1. CASE g = h
      BY <1>2, <1>13, <3>1
    <3>2. CASE g # h
      BY <1>1, <1>2, <1>12, <2>1, <3>2 DEF OffLists, OthersKept
    <3> QED BY <3>1, <3>2
  <2> QED BY <2>1 DEF OffLists
<1>16. Rep(r, L2, S \ {e}, V)
  <2> DEFINE H == {h}
             E == {e}
  <2>1. H \in SUBSET Heads /\ E \in SUBSET Entries
    BY <1>1, <1>5
  <2>2. SoloKept(H, E, r, L, S, V, L2, S \ {e}, V)
    BY <1>1 DEF SoloKept
  <2> QED BY <1>2, <1>9, <1>10, <1>11, <1>12, <2>1, <2>2, RepStep
<1>17. Stale(r, L2, T \cup {e}, V)
  <2> DEFINE H == {h}
             E == {e}
             T2 == T \cup {e}
  <2>1. ASSUME NEW x \in Entries, x # e, OldEntry(x, H, E, L, V), NotOf(x, h, s) PROVE FALSE
    <3>1. PICK j \in 1..Len(q) : q[j] = x
      BY <1>1, <1>8, <2>1 DEF NotOf
    <3>2. CASE j < k
      <4>1. j \in 1..Len(s) /\ s[j] = x
        BY <1>4, <1>w, <1>k, <3>1, <3>2
      <4> QED BY <2>1, <4>1 DEF NotOf
    <3>3. CASE ~(j < k)
      <4>0. j # k
        BY <1>k, <2>1, <3>1
      <4>1. j - 1 \in 1..Len(s) /\ ~(j - 1 < k) /\ (j - 1) + 1 = j
        BY <1>4, <1>w, <1>k, <3>1, <3>3, <4>0
      <4>2. s[j - 1] = x
        BY <1>w, <3>1, <4>1
      <4> QED BY <2>1, <4>1, <4>2 DEF NotOf
    <3> QED BY <3>2, <3>3
  <2>2. T \subseteq T2 \cup E /\ E \in SUBSET Entries /\ H \in SUBSET Heads
    BY <1>1, <1>5
  <2>3. TakenOff(H, E, r, L, V, L2, T2, V)
    BY <1>2, <2>1 DEF TakenOff
  <2>4. OthersKept(H, L, V, L2, V) /\ Elsewhere(H, E, m, r, L, V)
    BY <1>2, <1>10
  <2> HIDE DEF H, E, T2
  <2>5. Stale(r, L2, T2, V)
    BY <1>1, <2>2, <2>3, <2>4, StaleStep
  <2> QED BY <2>5 DEF T2
<1> QED BY <1>14, <1>16, <1>17 DEF L2

----------------------------------------------------------------------------
(* The functions on entries *)

(* list_add() and list_add_tail() of an entry that is on no list *)
LEMMA RepAdd ==
  ASSUME NEW m, NEW L, NEW S, NEW T, NEW V, Rep(m, L, S, V), Stale(m, L, T, V),
         NEW e \in Entries, OffLists(e, L, V), NEW h \in V
  PROVE  /\ Rep(list_add(m, e, h), [L EXCEPT ![h] = LS!list_add(@, e)], S \ {e}, V)
         /\ Stale(list_add(m, e, h), [L EXCEPT ![h] = LS!list_add(@, e)], T \ {e}, V)
         /\ Rep(list_add_tail(m, e, h), [L EXCEPT ![h] = LS!list_add_tail(@, e)], S \ {e}, V)
         /\ Stale(list_add_tail(m, e, h), [L EXCEPT ![h] = LS!list_add_tail(@, e)], T \ {e}, V)
<1> DEFINE q == L[h]
           f == LS!list_add(q, e)
           t == LS!list_add_tail(q, e)
<1>1. q \in Seq(Entries) /\ q \in Seq(Cells) /\ IsList(Cells, h, q) /\ Spells(m, h, q) /\ e \in Cells
  BY SeqOfCells DEF Rep, Cells
<1>2. /\ WithEntry(Entries, f, q, 0, e) /\ WithEntry(Cells, f, q, 0, e)
      /\ WithEntry(Entries, t, q, Len(q), e) /\ WithEntry(Cells, t, q, Len(q), e)
  <2> HIDE DEF q
  <2> QED BY <1>1, AddSeq
<1>3. /\ Len(q) \in Nat /\ 0 \in 0..Len(q) /\ Len(q) \in 0..Len(q)
      /\ m.next[h] = At(h, q, 0 + 1) /\ m.prev[h] = At(h, q, Len(q))
      /\ h = At(h, q, 0) /\ h = At(h, q, Len(q) + 1)
  <2> HIDE DEF q
  <2> QED BY <1>1, Ends
<1>4. /\ list_add(m, e, h) = list_add_between(m, e, At(h, q, 0), At(h, q, 0 + 1))
      /\ list_add_tail(m, e, h) = list_add_between(m, e, At(h, q, Len(q)), At(h, q, Len(q) + 1))
  BY <1>3 DEF list_add, list_add_tail
<1>5. f \in Seq(Entries) /\ t \in Seq(Entries)
  BY <1>2 DEF WithEntry
<1> HIDE DEF f, t
<1>6. /\ Rep(list_add(m, e, h), [L EXCEPT ![h] = f], S \ {e}, V)
      /\ Stale(list_add(m, e, h), [L EXCEPT ![h] = f], T \ {e}, V)
  BY <1>2, <1>3, <1>4, <1>5, RepInsert
<1>7. /\ Rep(list_add_tail(m, e, h), [L EXCEPT ![h] = t], S \ {e}, V)
      /\ Stale(list_add_tail(m, e, h), [L EXCEPT ![h] = t], T \ {e}, V)
  BY <1>2, <1>3, <1>4, <1>5, RepInsert
<1> QED BY <1>6, <1>7 DEF f, t

(* Without(e), for any lists *)
WithoutIn(L, V, e) ==
  [h \in Heads |-> IF h \in V /\ LS!Contains(L[h], e) THEN LS!list_del(L[h], e) ELSE L[h]]

(* An entry is on no list unless it is contained in one. *)
LEMMA FreeIs ==
  ASSUME NEW L, NEW V, NEW e, V \subseteq Heads, e \in Entries
  PROVE  OffLists(e, L, V) <=> ~\E h \in V : LS!Contains(L[h], e)
BY DEF OffLists, NotOf, LS!Contains

(* The list an entry is on is the only one it is on. *)
LEMMA WithoutIs ==
  ASSUME NEW m, NEW L, NEW S, NEW V, Rep(m, L, S, V), NEW e \in Entries,
         NEW h \in V, LS!Contains(L[h], e)
  PROVE  WithoutIn(L, V, e) = [L EXCEPT ![h] = LS!list_del(@, e)]
<1>1. ASSUME NEW g \in V, g # h PROVE ~LS!Contains(L[g], e)
  <2>1. Apart(L[h], g, L[g])
    BY <1>1 DEF Rep
  <2> QED BY <2>1 DEF Apart, NotOf, LS!Contains
<1>2. h \in Heads /\ L \in [Heads -> Seq(Entries)]
  BY DEF Rep
<1> QED BY <1>1, <1>2 DEF WithoutIn

(* __list_del_entry() of an entry that is on a list or initialised *)
LEMMA RepDelEntry ==
  ASSUME NEW m, NEW L, NEW S, NEW V, Rep(m, L, S, V), Stale(m, L, S, V),
         NEW e \in Entries, ~OffLists(e, L, V) \/ e \in S,
         NEW r, r = list_del_entry(m, e), NEW L2, L2 = WithoutIn(L, V, e)
  PROVE  /\ Rep(r, L2, S \ {e}, V)
         /\ Stale(r, L2, S \cup {e}, V)
         /\ OffLists(e, L2, V)
<1>0. /\ m \in Mem(Cells, Poison) /\ e \in Cells
      /\ L \in [Heads -> Seq(Entries)] /\ S \subseteq Entries /\ V \subseteq Heads
  BY DEF Rep, Cells
<1>1. CASE e \in S
  <2>1. Alone(m, e) /\ OffLists(e, L, V)
    BY <1>1 DEF Rep
  <2>2. \A h \in V : ~LS!Contains(L[h], e)
    BY <1>0, <2>1, FreeIs
  <2>3. L2 = L
    BY <1>0, <2>2 DEF WithoutIn
  <2>4. r = list_del_between(m, e, e)
    BY <2>1 DEF list_del_entry, Alone
  <2>5. r \in Mem(Cells, Poison) /\ Deleted(Cells, m, r, e, e)
    BY <1>0, <2>4, DelIs
  <2>6. OnlyCell(m, r, e)
    BY <2>5 DEF Deleted, OnlyCell, Same
  <2> QED BY <2>1, <2>3, <2>5, <2>6, RepOwn, ZenonT(60)
<1>2. CASE ~OffLists(e, L, V)
  <2>1. PICK h \in V : LS!Contains(L[h], e)
    BY <1>0, <1>2, FreeIs
  <2> DEFINE q == L[h]
             k == LS!IndexOf(q, e)
             s == LS!list_del(q, e)
  <2>2. L2 = [L EXCEPT ![h] = s]
    BY <2>1, WithoutIs
  <2>3. q \in Seq(Entries) /\ q \in Seq(Cells) /\ \E i \in 1..Len(q) : q[i] = e
    BY <1>0, <2>1, SeqOfCells DEF LS!Contains
  <2>4. k \in 1..Len(q) /\ e = q[k]
    <3> HIDE DEF q
    <3> QED BY <2>3, IndexIs
  <2>5. WithoutEntry(Entries, s, q, k) /\ WithoutEntry(Cells, s, q, k)
    <3> HIDE DEF q
    <3> QED BY <2>3, DelSeq
  <2>6. s \in Seq(Entries)
    BY <2>5 DEF WithoutEntry
  <2>7. k \in 1..Len(L[h]) /\ e = L[h][k] /\ WithoutEntry(Cells, s, L[h], k)
    BY <2>4, <2>5
  <2> HIDE DEF k, s, q
  <2>8. /\ Rep(r, [L EXCEPT ![h] = s], S \ {e}, V)
        /\ Stale(r, [L EXCEPT ![h] = s], S \cup {e}, V)
        /\ OffLists(e, [L EXCEPT ![h] = s], V)
    BY <2>6, <2>7, RepRemove
  <2> QED BY <2>2, <2>8
<1> QED BY <1>1, <1>2

(* list_del() *)
LEMMA RepDel ==
  ASSUME NEW m, NEW L, NEW S, NEW V, Rep(m, L, S, V), Stale(m, L, S, V),
         NEW e \in Entries, ~OffLists(e, L, V) \/ e \in S,
         NEW r, r = list_del(m, e), NEW L2, L2 = WithoutIn(L, V, e)
  PROVE  Rep(r, L2, S \ {e}, V) /\ Stale(r, L2, S \ {e}, V)
<1> DEFINE r1 == list_del_entry(m, e)
           r2 == SetNext(r1, e, LIST_POISON1)
<1>1. Rep(r1, L2, S \ {e}, V) /\ Stale(r1, L2, S \cup {e}, V) /\ OffLists(e, L2, V)
  BY RepDelEntry
<1>2. r = SetPrev(r2, e, LIST_POISON2)
  BY DEF list_del
<1> HIDE DEF r1
<1>3. r1 \in Mem(Cells, Poison) /\ e \in Cells /\ LIST_POISON1 \in Cells \cup Poison
      /\ LIST_POISON2 \in Cells \cup Poison /\ LIST_POISON1 # e
  BY <1>1 DEF Rep, Cells, Poison
<1>4. r2 \in Mem(Cells, Poison) /\ r2.next = [r1.next EXCEPT ![e] = LIST_POISON1] /\ r2.prev = r1.prev
  BY <1>3, SetNextIs
<1> HIDE DEF r2
<1>5. r \in Mem(Cells, Poison) /\ r.prev = [r2.prev EXCEPT ![e] = LIST_POISON2] /\ r.next = r2.next
  BY <1>2, <1>3, <1>4, SetPrevIs
<1>6. OnlyCell(r1, r, e) /\ r.next[e] # e
  BY <1>3, <1>4, <1>5 DEF OnlyCell, Same, Mem
<1>7. (S \ {e}) \ {e} = S \ {e} /\ (S \cup {e}) \ {e} = S \ {e}
  OBVIOUS
<1> QED BY <1>1, <1>5, <1>6, <1>7, RepOwn

(* INIT_LIST_HEAD() of an entry that is on no list *)
LEMMA RepInitEntry ==
  ASSUME NEW m, NEW L, NEW S, NEW T, NEW V, Rep(m, L, S, V), Stale(m, L, T, V),
         NEW e \in Entries, OffLists(e, L, V), NEW r, r = INIT_LIST_HEAD(m, e)
  PROVE  Rep(r, L, S \cup {e}, V) /\ Stale(r, L, T \cup {e}, V)
<1>1. m \in Mem(Cells, Poison) /\ e \in Cells
  BY DEF Rep, Cells
<1>2. r \in Mem(Cells, Poison) /\ Inited(Cells, m, r, e)
  BY <1>1, InitIs
<1>3. OnlyCell(m, r, e) /\ Alone(r, e)
  BY <1>1, <1>2 DEF Inited, OnlyCell, Same, Alone
<1> QED BY <1>2, <1>3, RepOwn

(* list_del_init() *)
LEMMA RepDelInit ==
  ASSUME NEW m, NEW L, NEW S, NEW V, Rep(m, L, S, V), Stale(m, L, S, V),
         NEW e \in Entries, ~OffLists(e, L, V) \/ e \in S,
         NEW r, r = list_del_init(m, e), NEW L2, L2 = WithoutIn(L, V, e)
  PROVE  Rep(r, L2, S \cup {e}, V) /\ Stale(r, L2, S \cup {e}, V)
<1> DEFINE r1 == list_del_entry(m, e)
           S1 == S \ {e}
           T1 == S \cup {e}
<1>1. Rep(r1, L2, S1, V) /\ Stale(r1, L2, T1, V) /\ OffLists(e, L2, V)
  BY RepDelEntry
<1>2. r = INIT_LIST_HEAD(r1, e) /\ S1 \cup {e} = S \cup {e} /\ T1 \cup {e} = S \cup {e}
  BY DEF list_del_init
<1> HIDE DEF r1, S1, T1
<1>3. Rep(r, L2, S1 \cup {e}, V) /\ Stale(r, L2, T1 \cup {e}, V)
  BY <1>1, <1>2, RepInitEntry
<1> QED BY <1>2, <1>3

(* list_move() and list_move_tail(), to any list *)
LEMMA RepMove ==
  ASSUME NEW m, NEW L, NEW S, NEW V, Rep(m, L, S, V), Stale(m, L, S, V),
         NEW e \in Entries, ~OffLists(e, L, V) \/ e \in S, NEW h \in V,
         NEW L2, L2 = WithoutIn(L, V, e)
  PROVE  /\ Rep(list_move(m, e, h), [L2 EXCEPT ![h] = LS!list_add(@, e)], S \ {e}, V)
         /\ Stale(list_move(m, e, h), [L2 EXCEPT ![h] = LS!list_add(@, e)], S \ {e}, V)
         /\ Rep(list_move_tail(m, e, h), [L2 EXCEPT ![h] = LS!list_add_tail(@, e)], S \ {e}, V)
         /\ Stale(list_move_tail(m, e, h), [L2 EXCEPT ![h] = LS!list_add_tail(@, e)], S \ {e}, V)
<1> DEFINE r1 == list_del_entry(m, e)
           S1 == S \ {e}
           T1 == S \cup {e}
<1>1. Rep(r1, L2, S1, V) /\ Stale(r1, L2, T1, V) /\ OffLists(e, L2, V)
  BY RepDelEntry
<1>2. /\ list_move(m, e, h) = list_add(r1, e, h) /\ list_move_tail(m, e, h) = list_add_tail(r1, e, h)
      /\ S1 \ {e} = S \ {e} /\ T1 \ {e} = S \ {e}
  BY DEF list_move, list_move_tail
<1> HIDE DEF r1, S1, T1
<1>3. /\ Rep(list_add(r1, e, h), [L2 EXCEPT ![h] = LS!list_add(@, e)], S1 \ {e}, V)
      /\ Stale(list_add(r1, e, h), [L2 EXCEPT ![h] = LS!list_add(@, e)], T1 \ {e}, V)
      /\ Rep(list_add_tail(r1, e, h), [L2 EXCEPT ![h] = LS!list_add_tail(@, e)], S1 \ {e}, V)
      /\ Stale(list_add_tail(r1, e, h), [L2 EXCEPT ![h] = LS!list_add_tail(@, e)], T1 \ {e}, V)
  BY <1>1, RepAdd
<1> QED BY <1>2, <1>3

----------------------------------------------------------------------------
(* The functions on whole lists *)

(* RepStep and StaleStep together *)
LEMMA BothStep ==
  ASSUME NEW m, NEW L, NEW S, NEW V, Rep(m, L, S, V), Stale(m, L, S, V),
         NEW r, NEW L2, NEW S2, NEW V2,
         NEW H \in SUBSET Heads, NEW E \in SUBSET Entries, \A e \in E : OffLists(e, L, V \ H),
         OthersKept(H, L, V, L2, V2), Respelled(H, r, L2, V2), FromOld(H, E, L, V, L2, V2),
         Elsewhere(H, E, m, r, L, V), SoloKept(H, E, r, L, S, V, L2, S2, V2),
         S \subseteq S2 \cup E, TakenOff(H, E, r, L, V, L2, S2, V2)
  PROVE  Rep(r, L2, S2, V2) /\ Stale(r, L2, S2, V2)
<1>1. Rep(r, L2, S2, V2)
  BY RepStep
<1>2. V \subseteq Heads
  BY DEF Rep
<1>3. Stale(r, L2, S2, V2)
  BY <1>2, StaleStep
<1> QED BY <1>1, <1>3

(* For an entry, not being a cell of a list is not being contained in it. *)
LEMMA NotOfIs ==
  ASSUME NEW x \in Entries, NEW h \in Heads, NEW q
  PROVE  NotOf(x, h, q) <=> ~LS!Contains(q, x)
BY DEF NotOf, LS!Contains

(* INIT_LIST_HEAD() of a head without entries *)
LEMMA RepInitHead ==
  ASSUME NEW m, NEW L, NEW S, NEW V, Rep(m, L, S, V), Stale(m, L, S, V),
         NEW h \in Heads, h \in V => L[h] = <<>>,
         NEW r, r = INIT_LIST_HEAD(m, h),
         NEW L2, L2 = [L EXCEPT ![h] = <<>>], NEW V2, V2 = V \cup {h}
  PROVE  Rep(r, L2, S, V2) /\ Stale(r, L2, S, V2)
<1>1. /\ m \in Mem(Cells, Poison) /\ h \in Cells
      /\ L \in [Heads -> Seq(Entries)] /\ S \subseteq Entries /\ V \subseteq Heads
  BY DEF Rep, Cells
<1>2. r \in Mem(Cells, Poison) /\ Inited(Cells, m, r, h)
  BY <1>1, InitIs
<1>3. /\ L2 \in [Heads -> Seq(Entries)] /\ V2 \subseteq Heads /\ L2[h] = <<>>
      /\ \A k \in Heads \ {h} : (k \in V2 <=> k \in V) /\ L2[k] = L[k]
  BY <1>1
<1> DEFINE H == {h}
           E == {}
<1>4. ASSUME NEW x \in Entries PROVE ~OldEntry(x, H, E, L, V)
  BY <1>1 DEF OldEntry, NotOf
<1>5. OthersKept(H, L, V, L2, V2) /\ FromOld(H, E, L, V, L2, V2)
  BY <1>3 DEF OthersKept, FromOld
<1>6. Elsewhere(H, E, m, r, L, V)
  BY <1>2 DEF Elsewhere, Inited, Same
<1>7. Respelled(H, r, L2, V2)
  <2>1. r.next[h] = h /\ r.prev[h] = h
    BY <1>1, <1>2 DEF Inited
  <2>2. Spells(r, h, <<>>)
    BY <2>1, SpellsEmpty
  <2>3. IsList(Cells, h, <<>>)
    BY <1>1 DEF IsList, LS!NoDuplicates
  <2> QED BY <1>2, <1>3, <2>2, <2>3 DEF Respelled
<1>8. SoloKept(H, E, r, L, S, V, L2, S, V2) /\ TakenOff(H, E, r, L, V, L2, S, V2)
  BY <1>1, <1>4 DEF SoloKept, TakenOff
<1>9. H \in SUBSET Heads /\ E \in SUBSET Entries /\ S \subseteq S \cup E /\ \A e \in E : OffLists(e, L, V \ H)
  OBVIOUS
<1> HIDE DEF H, E
<1> QED BY <1>5, <1>6, <1>7, <1>8, <1>9, BothStep

(* list_replace() of an entry *)
LEMMA RepReplace ==
  ASSUME NEW m, NEW L, NEW S, NEW V, Rep(m, L, S, V), Stale(m, L, S, V),
         NEW h \in V, NEW k \in 1..Len(L[h]), NEW e, e = L[h][k],
         NEW f \in Entries, OffLists(f, L, V),
         NEW s \in Seq(Entries), WithOther(Cells, s, L[h], k, f),
         NEW r, r = list_replace(m, e, f)
  PROVE  /\ Rep(r, [L EXCEPT ![h] = s], S \ {f}, V)
         /\ Stale(r, [L EXCEPT ![h] = s], S \ {f}, V)
         /\ OffLists(e, [L EXCEPT ![h] = s], V)
<1> DEFINE q == L[h]
           L2 == [L EXCEPT ![h] = s]
           pv == At(h, q, k - 1)
           nx == At(h, q, k + 1)
<1>1. /\ m \in Mem(Cells, Poison)
      /\ L \in [Heads -> Seq(Entries)] /\ S \subseteq Entries /\ V \subseteq Heads
      /\ IsList(Cells, h, q) /\ Spells(m, h, q)
      /\ h \in Heads
      /\ \A g \in V : g # h => Apart(q, g, L[g])
      /\ \A x \in S : OffLists(x, L, V)
  BY DEF Rep
<1>2. OthersKept({h}, L, V, L2, V) /\ L2[h] = s
  BY <1>1, OneList
<1>3. q \in Seq(Entries) /\ NotOf(f, h, q) /\ f \in Cells
  BY <1>1 DEF OffLists, Cells
<1> HIDE DEF q, L2
<1>k. k \in 1..Len(q) /\ WithOther(Cells, s, q, k, f) /\ e = q[k]
  BY DEF q
<1>4. /\ Len(q) \in Nat
      /\ \A i \in Int : At(h, q, i) \in Cells
      /\ m.next[e] = nx /\ m.prev[e] = pv
  BY <1>1, <1>k, Ends
<1>5. pv \in Cells /\ nx \in Cells /\ e \in Entries /\ e \in Cells /\ e # nx /\ e # f
  <2>1. k - 1 \in Int /\ k + 1 \in Int /\ k \in 1..(Len(q) + 1) /\ k + 1 \in 1..(Len(q) + 1) /\ k # k + 1
    BY <1>4, <1>k
  <2>2. At(h, q, k) = q[k] /\ At(h, q, k) # At(h, q, k + 1)
    BY <1>1, <1>k, <2>1, AtIs
  <2>3. e # f
    BY <1>3, <1>k DEF NotOf
  <2> QED BY <1>3, <1>4, <1>k, <2>1, <2>2, <2>3 DEF Cells
<1>6. r \in Mem(Cells, Poison) /\ Added(Cells, m, r, f, pv, nx)
  <2>1. nx = m.next[e] /\ pv = IF nx = e THEN f ELSE m.prev[e]
    BY <1>4, <1>5
  <2> HIDE DEF pv, nx
  <2> QED BY <1>1, <1>3, <1>5, <2>1, ReplaceIs
<1>7. /\ IsList(Cells, h, s) /\ Spells(r, h, s)
      /\ \A c \in Cells : c # f /\ (NotOf(c, h, q) \/ c = q[k]) => Same(m, r, c)
  BY <1>1, <1>3, <1>k, <1>6, SpellsReplace
<1>w. Len(s) = Len(q) /\ \A i \in 1..Len(s) : s[i] = IF i = k THEN f ELSE q[i]
  BY <1>k DEF WithOther
<1> DEFINE H == {h}
           E == {e, f}
<1>8. \A x : OldEntry(x, H, E, L, V) <=> x = e \/ x = f \/ ~NotOf(x, h, q)
  BY DEF OldEntry, q
<1>9. Respelled(H, r, L2, V)
  BY <1>2, <1>6, <1>7 DEF Respelled
<1>10. Elsewhere(H, E, m, r, L, V)
  BY <1>7, <1>8 DEF Elsewhere
<1>11. FromOld(H, E, L, V, L2, V)
  <2>1. ASSUME NEW i \in 1..Len(s) PROVE OldEntry(s[i], H, E, L, V)
    <3>1. s[i] = f \/ \E j \in 1..Len(q) : s[i] = q[j]
      BY <1>w
    <3> QED BY <1>8, <3>1 DEF NotOf
  <2> QED BY <1>2, <2>1 DEF FromOld
<1>e. \A g \in V \ {h} : NotOf(e, g, L[g])
  BY <1>1, <1>k DEF Apart
<1>12. \A x \in E : OffLists(x, L, V \ H)
  BY <1>e DEF OffLists
<1>13. NotOf(e, h, s)
  <2>1. e # h
    BY <1>1, <1>5
  <2>2. \A a, b \in 1..Len(q) : q[a] = q[b] => a = b
    BY <1>1 DEF IsList, LS!NoDuplicates
  <2> QED BY <1>5, <1>w, <1>k, <2>1, <2>2 DEF NotOf
<1>14. OffLists(e, L2, V)
  <2>1. ASSUME NEW g \in V PROVE NotOf(e, g, L2[g])
    <3>1. CASE g = h
      BY <1>2, <1>13, <3>1
    <3>2. CASE g # h
      BY <1>1, <1>2, <1>e, <2>1, <3>2 DEF OthersKept
    <3> QED BY <3>1, <3>2
  <2> QED BY <2>1 DEF OffLists
<1>15. e \notin S
  <2>1. ~NotOf(e, h, q)
    BY <1>k DEF NotOf
  <2> QED BY <1>1, <2>1 DEF OffLists, q
<1>16. SoloKept(H, E, r, L, S, V, L2, S \ {f}, V)
  BY <1>1, <1>15 DEF SoloKept
<1>17. TakenOff(H, E, r, L, V, L2, S \ {f}, V)
  <2>1. ASSUME NEW x \in Entries, OldEntry(x, H, E, L, V), NotOf(x, h, s) PROVE x = e
    <3>1. s[k] = f
      BY <1>w, <1>k
    <3>2. x # f
      BY <1>w, <1>k, <2>1, <3>1 DEF NotOf
    <3>3. CASE x # e
      <4>1. PICK j \in 1..Len(q) : q[j] = x
        BY <1>1, <1>8, <2>1, <3>2, <3>3 DEF NotOf
      <4>2. s[j] = x
        BY <1>w, <1>k, <3>3, <4>1
      <4> QED BY <1>w, <2>1, <4>1, <4>2 DEF NotOf
    <3> QED BY <3>3
  <2>2. r.next[e] # e
    BY <1>4, <1>5, <1>7, <1>k DEF Same
  <2> QED BY <1>2, <2>1, <2>2 DEF TakenOff
<1>18. H \in SUBSET Heads /\ E \in SUBSET Entries /\ S \subseteq (S \ {f}) \cup E
  BY <1>1, <1>5
<1>19. OthersKept(H, L, V, L2, V)
  BY <1>2
<1> HIDE DEF H, E
<1>20. Rep(r, L2, S \ {f}, V) /\ Stale(r, L2, S \ {f}, V)
  BY <1>9, <1>10, <1>11, <1>12, <1>16, <1>17, <1>18, <1>19, BothStep
<1> QED BY <1>14, <1>20 DEF L2

(* list_replace() of a head, by one without entries *)
LEMMA RepReplaceHead ==
  ASSUME NEW m, NEW L, NEW S, NEW V, Rep(m, L, S, V), Stale(m, L, S, V),
         NEW h \in V, NEW g \in Heads, g # h, g \in V => L[g] = <<>>,
         NEW r, r = list_replace(m, h, g),
         NEW L2, L2 = [L EXCEPT ![g] = L[h], ![h] = <<>>], NEW V2, V2 = (V \ {h}) \cup {g}
  PROVE  Rep(r, L2, S, V2) /\ Stale(r, L2, S, V2)
<1> DEFINE q == L[h]
           nx == At(h, q, 1)
           pv == IF nx = h THEN g ELSE At(h, q, Len(q))
<1>1. /\ m \in Mem(Cells, Poison)
      /\ L \in [Heads -> Seq(Entries)] /\ S \subseteq Entries /\ V \subseteq Heads
      /\ IsList(Cells, h, q) /\ Spells(m, h, q)
      /\ h \in Heads /\ h \in Cells /\ g \in Cells
      /\ q \in Seq(Entries)
  BY DEF Rep, Cells
<1>2. /\ L2 \in [Heads -> Seq(Entries)] /\ V2 \subseteq Heads /\ L2[g] = q
      /\ \A k \in Heads \ {g, h} : (k \in V2 <=> k \in V) /\ L2[k] = L[k]
      /\ V2 \cap {g, h} = {g}
  <2>1. L2 \in [Heads -> Seq(Entries)]
    BY <1>1
  <2>2. L2[g] = q /\ \A k \in Heads \ {g, h} : L2[k] = L[k]
    BY <1>1
  <2> QED BY <1>1, <2>1, <2>2
<1>3. NotOf(g, h, q)
  BY <1>1, SeqOfCells DEF NotOf
<1> HIDE DEF q
<1>4. /\ Len(q) \in Nat
      /\ m.next[h] = nx /\ m.prev[h] = At(h, q, Len(q))
      /\ \A i \in Int : At(h, q, i) \in Cells
  BY <1>1, Ends
<1>5. r \in Mem(Cells, Poison) /\ Added(Cells, m, r, g, pv, nx)
  <2>1. nx \in Cells /\ pv \in Cells
    BY <1>1, <1>4
  <2>2. nx = m.next[h] /\ pv = IF nx = h THEN g ELSE m.prev[h]
    BY <1>4
  <2> HIDE DEF pv, nx
  <2> QED BY <1>1, <2>1, <2>2, ReplaceIs
<1>6. /\ IsList(Cells, g, q) /\ Spells(r, g, q)
      /\ \A c \in Cells : c # g /\ NotOf(c, h, q) => Same(m, r, c)
  <2>1. HeadReplaced(Cells, m, r, h, q, g)
    BY <1>5 DEF HeadReplaced
  <2> QED BY <1>1, <1>3, <2>1, SpellsNewHead
<1> DEFINE H == {g, h}
           E == {}
<1>7. ASSUME NEW x \in Entries PROVE OldEntry(x, H, E, L, V) <=> ~NotOf(x, h, q)
  <2>1. g \in V => NotOf(x, g, L[g])
    BY DEF NotOf
  <2> QED BY <2>1 DEF OldEntry, q
<1>8. OthersKept(H, L, V, L2, V2) /\ Respelled(H, r, L2, V2)
  BY <1>2, <1>5, <1>6 DEF OthersKept, Respelled
<1>9. FromOld(H, E, L, V, L2, V2)
  <2>1. ASSUME NEW i \in 1..Len(q) PROVE OldEntry(q[i], H, E, L, V)
    <3>1. q[i] \in Entries /\ ~NotOf(q[i], h, q)
      BY <1>1 DEF NotOf
    <3> QED BY <1>7, <3>1
  <2> QED BY <1>2, <2>1 DEF FromOld
<1>10. Elsewhere(H, E, m, r, L, V)
  <2>1. ASSUME NEW c \in Cells, c \notin H, ~OldEntry(c, H, E, L, V) PROVE Same(m, r, c)
    <3>1. NotOf(c, h, q)
      BY <2>1 DEF OldEntry, q
    <3> QED BY <1>6, <2>1, <3>1
  <2> QED BY <2>1 DEF Elsewhere
<1>11. SoloKept(H, E, r, L, S, V, L2, S, V2)
  BY <1>1 DEF SoloKept
<1>12. TakenOff(H, E, r, L, V, L2, S, V2)
  <2>1. ASSUME NEW x \in Entries, OldEntry(x, H, E, L, V), NotOf(x, g, q) PROVE FALSE
    BY <1>1, <1>7, <2>1, NotOfIs
  <2> QED BY <1>2, <2>1 DEF TakenOff
<1>13. H \in SUBSET Heads /\ E \in SUBSET Entries /\ S \subseteq S \cup E /\ \A e \in E : OffLists(e, L, V \ H)
  BY <1>1
<1> HIDE DEF H, E
<1> QED BY <1>8, <1>9, <1>10, <1>11, <1>12, <1>13, BothStep

(* What the joined list contains *)
LEMMA WithinHas ==
  ASSUME NEW D, NEW s, NEW q \in Seq(D), NEW p \in Seq(D), NEW k \in 0..Len(q), HasWithin(D, s, q, k, p), NEW x
  PROVE  LS!Contains(s, x) <=> LS!Contains(q, x) \/ LS!Contains(p, x)
<1>1. /\ Len(q) \in Nat /\ Len(p) \in Nat /\ Len(s) = Len(q) + Len(p)
      /\ \A i \in 1..Len(s) : s[i] = IF i <= k THEN q[i] ELSE IF i <= k + Len(p) THEN p[i - k]
                                     ELSE q[i - Len(p)]
  BY DEF HasWithin
<1>2. ASSUME NEW i \in 1..Len(s), s[i] = x PROVE LS!Contains(q, x) \/ LS!Contains(p, x)
  <2>1. CASE i <= k
    BY <1>1, <1>2, <2>1 DEF LS!Contains
  <2>2. CASE ~(i <= k) /\ i <= k + Len(p)
    <3>1. i - k \in 1..Len(p) /\ p[i - k] = x
      BY <1>1, <1>2, <2>2
    <3> QED BY <3>1 DEF LS!Contains
  <2>3. CASE ~(i <= k) /\ ~(i <= k + Len(p))
    <3>1. i - Len(p) \in 1..Len(q) /\ q[i - Len(p)] = x
      BY <1>1, <1>2, <2>3
    <3> QED BY <3>1 DEF LS!Contains
  <2> QED BY <2>1, <2>2, <2>3
<1>3. ASSUME NEW j \in 1..Len(q), q[j] = x PROVE LS!Contains(s, x)
  <2>1. CASE j <= k
    <3>1. j \in 1..Len(s) /\ s[j] = x
      BY <1>1, <1>3, <2>1
    <3> QED BY <3>1 DEF LS!Contains
  <2>2. CASE ~(j <= k)
    <3>1. /\ j + Len(p) \in 1..Len(s) /\ ~(j + Len(p) <= k) /\ ~(j + Len(p) <= k + Len(p))
          /\ (j + Len(p)) - Len(p) = j
      BY <1>1, <1>3, <2>2
    <3>2. s[j + Len(p)] = x
      BY <1>1, <1>3, <3>1
    <3> QED BY <3>1, <3>2 DEF LS!Contains
  <2> QED BY <2>1, <2>2
<1>4. ASSUME NEW j \in 1..Len(p), p[j] = x PROVE LS!Contains(s, x)
  <2>1. j + k \in 1..Len(s) /\ ~(j + k <= k) /\ j + k <= k + Len(p) /\ (j + k) - k = j
    BY <1>1
  <2>2. s[j + k] = x
    BY <1>1, <1>4, <2>1
  <2> QED BY <2>1, <2>2 DEF LS!Contains
<1> QED BY <1>2, <1>3, <1>4 DEF LS!Contains

(* __list_splice() was called for the list g and the k-th cell of h. *)
JoinedAt(m, r, L, L2, h, g, k, s) ==
  /\ s \in Seq(Entries) /\ L2 = [L EXCEPT ![h] = s, ![g] = <<>>]
  /\ k \in 0..Len(L[h]) /\ HasWithin(Cells, s, L[h], k, L[g])
  /\ r = list_splice_between(m, g, At(h, L[h], k), At(h, L[h], k + 1))

(* __list_splice() of the list g into the list h *)
LEMMA RepSplice ==
  ASSUME NEW m, NEW L, NEW S, NEW V, Rep(m, L, S, V), Stale(m, L, S, V),
         NEW h \in V, NEW g \in V, g # h, L[g] # <<>>,
         NEW k, NEW s, NEW r, NEW L2, JoinedAt(m, r, L, L2, h, g, k, s), NEW V2, V2 = V \ {g}
  PROVE  Rep(r, L2, S, V2) /\ Stale(r, L2, S, V2)
<1> DEFINE q == L[h]
           p == L[g]
           pv == At(h, q, k)
           nx == At(h, q, k + 1)
           first == p[1]
           last == p[Len(p)]
<1>1. /\ m \in Mem(Cells, Poison)
      /\ L \in [Heads -> Seq(Entries)] /\ S \subseteq Entries /\ V \subseteq Heads
      /\ IsList(Cells, h, q) /\ Spells(m, h, q)
      /\ IsList(Cells, g, p) /\ Spells(m, g, p)
      /\ h \in Heads /\ g \in Heads /\ h \in Cells /\ g \in Cells
      /\ q \in Seq(Entries) /\ p \in Seq(Entries) /\ Apart(p, h, q)
      /\ q \in Seq(Cells) /\ p \in Seq(Cells)
  BY SeqOfCells DEF Rep, Cells
<1>2. /\ L2 \in [Heads -> Seq(Entries)] /\ V2 \subseteq Heads /\ L2[h] = s
      /\ \A j \in Heads \ {g, h} : (j \in V2 <=> j \in V) /\ L2[j] = L[j]
      /\ V2 \cap {g, h} = {h}
  BY <1>1 DEF JoinedAt
<1>k. /\ k \in 0..Len(q) /\ HasWithin(Cells, s, q, k, p) /\ p # <<>>
      /\ r = list_splice_between(m, g, pv, nx)
  BY DEF JoinedAt
<1> HIDE DEF q, p
<1>3. Len(q) \in Nat /\ \A i \in Int : At(h, q, i) \in Cells
  BY <1>1, AtIs
<1>4. /\ Len(p) \in Nat /\ Len(p) # 0 /\ first \in Cells /\ last \in Cells
      /\ m.next[g] = first /\ m.prev[g] = last
  <2>1. Len(p) \in Nat /\ Len(p) # 0 /\ first \in Cells /\ last \in Cells
    BY <1>1, <1>k
  <2>2. m.next[g] = At(g, p, 1) /\ m.prev[g] = At(g, p, Len(p))
    BY <1>1, Ends
  <2> QED BY <2>1, <2>2 DEF At
<1>5. r \in Mem(Cells, Poison) /\ Spliced(Cells, m, r, pv, nx, first, last)
  <2>1. nx \in Cells /\ pv \in Cells
    BY <1>3, <1>k
  <2>2. first = m.next[g] /\ last = m.prev[g]
    BY <1>4
  <2> HIDE DEF pv, nx, first, last
  <2> QED BY <1>1, <1>k, <1>4, <2>1, <2>2, SpliceIs
<1>6. /\ IsList(Cells, h, s) /\ Spells(r, h, s)
      /\ \A c \in Cells : NotOf(c, h, q) /\ NotOf(c, g, p) => Same(m, r, c)
  BY <1>1, <1>k, <1>5, SpellsSplice
<1> DEFINE H == {g, h}
           E == {}
<1>7. \A x : OldEntry(x, H, E, L, V) <=> ~NotOf(x, h, q) \/ ~NotOf(x, g, p)
  BY DEF OldEntry, q, p
<1>8. OthersKept(H, L, V, L2, V2) /\ Respelled(H, r, L2, V2)
  BY <1>2, <1>5, <1>6 DEF OthersKept, Respelled
<1>c. \A x : LS!Contains(s, x) <=> LS!Contains(q, x) \/ LS!Contains(p, x)
  BY <1>1, <1>k, WithinHas
<1>9. FromOld(H, E, L, V, L2, V2)
  <2>1. ASSUME NEW i \in 1..Len(s) PROVE OldEntry(s[i], H, E, L, V)
    <3>1. LS!Contains(s, s[i])
      BY DEF LS!Contains
    <3>2. s[i] \in Entries
      BY DEF JoinedAt
    <3> QED BY <1>1, <1>7, <1>c, <3>1, <3>2, NotOfIs
  <2> QED BY <1>2, <2>1 DEF FromOld
<1>10. Elsewhere(H, E, m, r, L, V)
  BY <1>6, <1>7 DEF Elsewhere
<1>11. SoloKept(H, E, r, L, S, V, L2, S, V2)
  BY <1>1 DEF SoloKept
<1>12. TakenOff(H, E, r, L, V, L2, S, V2)
  <2>1. ASSUME NEW x \in Entries, OldEntry(x, H, E, L, V), NotOf(x, h, s) PROVE FALSE
    BY <1>1, <1>7, <1>c, <2>1, NotOfIs
  <2> QED BY <1>2, <2>1 DEF TakenOff
<1>13. H \in SUBSET Heads /\ E \in SUBSET Entries /\ S \subseteq S \cup E /\ \A e \in E : OffLists(e, L, V \ H)
  BY <1>1
<1> HIDE DEF H, E
<1> QED BY <1>8, <1>9, <1>10, <1>11, <1>12, <1>13, BothStep

(* What the parts of a list contain *)
LEMMA CutHas ==
  ASSUME NEW D, NEW q \in Seq(D), LS!NoDuplicates(q), NEW k \in 0..Len(q), NEW a, NEW b, IsCut(D, q, k, a, b), NEW x
  PROVE  /\ LS!Contains(q, x) <=> LS!Contains(a, x) \/ LS!Contains(b, x)
         /\ ~(LS!Contains(a, x) /\ LS!Contains(b, x))
<1>1. /\ Len(q) \in Nat /\ Len(a) = k /\ Len(b) = Len(q) - k
      /\ \A i \in 1..k : a[i] = q[i]
      /\ \A i \in 1..(Len(q) - k) : b[i] = q[i + k]
      /\ \A i, j \in 1..Len(q) : q[i] = q[j] => i = j
  BY DEF IsCut, LS!NoDuplicates
<1>2. ASSUME NEW i \in 1..Len(q), q[i] = x PROVE LS!Contains(a, x) \/ LS!Contains(b, x)
  <2>1. CASE i <= k
    BY <1>1, <1>2, <2>1 DEF LS!Contains
  <2>2. CASE ~(i <= k)
    <3>1. i - k \in 1..(Len(q) - k) /\ (i - k) + k = i
      BY <1>1, <2>2
    <3>2. b[i - k] = x
      BY <1>1, <1>2, <3>1
    <3> QED BY <1>1, <3>1, <3>2 DEF LS!Contains
  <2> QED BY <2>1, <2>2
<1>3. ASSUME NEW i \in 1..Len(a), a[i] = x PROVE i \in 1..Len(q) /\ q[i] = x /\ i <= k
  BY <1>1, <1>3
<1>4. ASSUME NEW i \in 1..Len(b), b[i] = x PROVE i + k \in 1..Len(q) /\ q[i + k] = x /\ ~(i + k <= k)
  BY <1>1, <1>4
<1>5. LS!Contains(a, x) => \E i \in 1..Len(q) : q[i] = x /\ i <= k
  BY <1>3 DEF LS!Contains
<1>6. LS!Contains(b, x) => \E i \in 1..Len(q) : q[i] = x /\ ~(i <= k)
  BY <1>4 DEF LS!Contains
<1>7. ~(LS!Contains(a, x) /\ LS!Contains(b, x))
  BY <1>1, <1>5, <1>6
<1> QED BY <1>2, <1>5, <1>6, <1>7 DEF LS!Contains

(* __list_cut_position(): the first k entries of h go to g, which has none. *)
LEMMA RepCut ==
  ASSUME NEW m, NEW L, NEW S, NEW V, Rep(m, L, S, V), Stale(m, L, S, V),
         NEW h \in V, NEW g \in Heads, g # h, g \in V => L[g] = <<>>,
         NEW k \in 1..Len(L[h]), NEW entry, entry = L[h][k],
         NEW a \in Seq(Entries), NEW b \in Seq(Entries), IsCut(Cells, L[h], k, a, b),
         NEW r, r = list_cut_at(m, g, h, entry),
         NEW L2, L2 = [L EXCEPT ![g] = a, ![h] = b], NEW V2, V2 = V \cup {g}
  PROVE  Rep(r, L2, S, V2) /\ Stale(r, L2, S, V2)
<1> DEFINE q == L[h]
           first == At(h, q, 1)
           new_first == At(h, q, k + 1)
<1>1. /\ m \in Mem(Cells, Poison)
      /\ L \in [Heads -> Seq(Entries)] /\ S \subseteq Entries /\ V \subseteq Heads
      /\ IsList(Cells, h, q) /\ Spells(m, h, q)
      /\ h \in Heads /\ h \in Cells /\ g \in Cells
      /\ q \in Seq(Entries) /\ q \in Seq(Cells)
  BY SeqOfCells DEF Rep, Cells
<1>2. /\ L2 \in [Heads -> Seq(Entries)] /\ V2 \subseteq Heads /\ L2[g] = a /\ L2[h] = b
      /\ \A j \in Heads \ {g, h} : (j \in V2 <=> j \in V) /\ L2[j] = L[j]
      /\ V2 \cap {g, h} = {g, h}
  BY <1>1
<1>3. NotOf(g, h, q)
  BY <1>1, SeqOfCells DEF NotOf
<1>k. k \in 1..Len(q) /\ entry = q[k] /\ IsCut(Cells, q, k, a, b)
  OBVIOUS
<1> HIDE DEF q
<1>4. /\ Len(q) \in Nat
      /\ m.next[h] = first /\ m.next[entry] = new_first
      /\ \A i \in Int : At(h, q, i) \in Cells
  BY <1>1, <1>k, Ends
<1>5. r \in Mem(Cells, Poison) /\ CutOff(Cells, m, r, g, h, entry, first, new_first)
  <2>1. first \in Cells /\ new_first \in Cells /\ entry \in Cells
    BY <1>1, <1>4, <1>k
  <2>2. first = m.next[h] /\ new_first = m.next[entry]
    BY <1>4
  <2> HIDE DEF first, new_first
  <2> QED BY <1>1, <2>1, <2>2, CutIs
<1>6. /\ IsList(Cells, g, a) /\ IsList(Cells, h, b)
      /\ Spells(r, g, a) /\ Spells(r, h, b)
      /\ \A c \in Cells : c # g /\ NotOf(c, h, q) => Same(m, r, c)
  <2>1. CutBehind(Cells, m, r, g, h, q, k)
    BY <1>5, <1>k DEF CutBehind
  <2> QED BY <1>1, <1>3, <1>k, <2>1, SpellsCut
<1> DEFINE H == {g, h}
           E == {}
<1>7. ASSUME NEW x \in Entries PROVE OldEntry(x, H, E, L, V) <=> ~NotOf(x, h, q)
  <2>1. g \in V => NotOf(x, g, L[g])
    BY DEF NotOf
  <2> QED BY <2>1 DEF OldEntry, q
<1>c. \A x : /\ LS!Contains(q, x) <=> LS!Contains(a, x) \/ LS!Contains(b, x)
             /\ ~(LS!Contains(a, x) /\ LS!Contains(b, x))
  <2>1. LS!NoDuplicates(q) /\ k \in 0..Len(q)
    BY <1>1, <1>4, <1>k DEF IsList
  <2> QED BY <1>1, <1>k, <2>1, CutHas
<1>a. Apart(a, h, b) /\ Apart(b, g, a)
  <2>1. \A i \in 1..Len(a) : a[i] \in Entries /\ LS!Contains(a, a[i])
    BY DEF LS!Contains
  <2>2. \A i \in 1..Len(b) : b[i] \in Entries /\ LS!Contains(b, b[i])
    BY DEF LS!Contains
  <2> QED BY <1>1, <1>c, <2>1, <2>2, NotOfIs DEF Apart
<1>8. OthersKept(H, L, V, L2, V2) /\ Respelled(H, r, L2, V2)
  <2>1. OthersKept(H, L, V, L2, V2)
    BY <1>2 DEF OthersKept
  <2>2. ASSUME NEW j \in {g, h}
        PROVE  /\ IsList(Cells, j, L2[j]) /\ Spells(r, j, L2[j])
               /\ \A i \in {g, h} : i # j => Apart(L2[i], j, L2[j])
    <3>1. CASE j = g
      BY <1>2, <1>6, <1>a, <3>1
    <3>2. CASE j = h
      BY <1>2, <1>6, <1>a, <3>2
    <3> QED BY <2>2, <3>1, <3>2
  <2> QED BY <1>2, <1>5, <2>1, <2>2 DEF Respelled
<1>9. FromOld(H, E, L, V, L2, V2)
  <2>1. ASSUME NEW x \in Entries, LS!Contains(a, x) \/ LS!Contains(b, x) PROVE OldEntry(x, H, E, L, V)
    BY <1>1, <1>7, <1>c, <2>1, NotOfIs
  <2>2. \A i \in 1..Len(a) : a[i] \in Entries /\ LS!Contains(a, a[i])
    BY DEF LS!Contains
  <2>3. \A i \in 1..Len(b) : b[i] \in Entries /\ LS!Contains(b, b[i])
    BY DEF LS!Contains
  <2> QED BY <1>2, <2>1, <2>2, <2>3 DEF FromOld
<1>10. Elsewhere(H, E, m, r, L, V)
  <2>1. ASSUME NEW c \in Cells, c \notin H, ~OldEntry(c, H, E, L, V) PROVE Same(m, r, c)
    <3>1. NotOf(c, h, q)
      BY <2>1 DEF OldEntry, q
    <3> QED BY <1>6, <2>1, <3>1
  <2> QED BY <2>1 DEF Elsewhere
<1>11. SoloKept(H, E, r, L, S, V, L2, S, V2)
  BY <1>1 DEF SoloKept
<1>12. TakenOff(H, E, r, L, V, L2, S, V2)
  <2>1. ASSUME NEW x \in Entries, OldEntry(x, H, E, L, V), NotOf(x, g, a), NotOf(x, h, b) PROVE FALSE
    BY <1>1, <1>7, <1>c, <2>1, NotOfIs
  <2> QED BY <1>2, <2>1 DEF TakenOff
<1>13. H \in SUBSET Heads /\ E \in SUBSET Entries /\ S \subseteq S \cup E /\ \A e \in E : OffLists(e, L, V \ H)
  BY <1>1
<1> HIDE DEF H, E
<1> QED BY <1>8, <1>9, <1>10, <1>11, <1>12, <1>13, BothStep

----------------------------------------------------------------------------
(* The loop *)

(* x is among the entries of q from the i-th to the j-th. *)
Within(q, i, j, x) == \E k \in i..j : q[k] = x

(* A loop at n that has visited pos last: n is the cell after pos, or      *)
(* the one before it, if pos is still there, and the entries to visit are  *)
(* at n or beyond.                                                         *)
Ahead(h, q, n, pos, todo) ==
  \E i \in 1..(Len(q) + 1) : /\ n = At(h, q, i)
                             /\ LS!Contains(q, pos) => At(h, q, i - 1) = pos
                             /\ \A x \in todo : Within(q, i, Len(q), x)

Behind(h, q, n, pos, todo) ==
  \E i \in 0..Len(q) : /\ n = At(h, q, i)
                       /\ LS!Contains(q, pos) => At(h, q, i + 1) = pos
                       /\ \A x \in todo : Within(q, 1, i, x)

(* A loop whose lock is dropped: pos is there and what is to be visited    *)
(* comes after it.                                                         *)
Waits(q, pos, todo) ==
  /\ LS!Contains(q, pos)
  /\ \A x \in todo : \E i, j \in 1..Len(q) : i < j /\ q[i] = pos /\ q[j] = x

LoopType(V, it) ==
  /\ it \in [phase : {"body", "unlocked"}, dir : {"next", "prev"}, head : Heads,
             pos : Entries, n : Cells, todo : SUBSET Entries]
  /\ it.head \in V

LoopRight(it, q) ==
  \/ it.phase = "body" /\ it.dir = "next" /\ Ahead(it.head, q, it.n, it.pos, it.todo)
  \/ it.phase = "body" /\ it.dir = "prev" /\ Behind(it.head, q, it.n, it.pos, it.todo)
  \/ it.phase = "unlocked" /\ it.dir = "next" /\ Waits(q, it.pos, it.todo)

LoopInv(L, V, it) == it = NoLoop \/ (LoopType(V, it) /\ LoopRight(it, L[it.head]))

IInv == /\ Rep(mem, lists, solo, valid)
        /\ Stale(mem, lists, solo, valid)
        /\ LoopInv(lists, valid, iter)

(* The loop takes its cursor off the list. *)
LEMMA AheadRemove ==
  ASSUME NEW D, NEW h, NEW q, IsList(D, h, q), NEW k \in 1..Len(q), NEW s, WithoutEntry(D, s, q, k),
         NEW n, NEW pos, pos = q[k], NEW todo, Ahead(h, q, n, pos, todo)
  PROVE  Ahead(h, s, n, pos, todo \ {pos})
<1>1. /\ h \in D /\ q \in Seq(D) /\ Len(q) \in Nat
      /\ \A i, j \in 1..Len(q) : q[i] = q[j] => i = j
      /\ \A i \in 1..Len(q) : q[i] # h
  BY DEF IsList, LS!NoDuplicates
<1>2. /\ Len(s) = Len(q) - 1
      /\ \A i \in 1..Len(s) : s[i] = IF i < k THEN q[i] ELSE q[i + 1]
  BY DEF WithoutEntry
<1>3. PICK i \in 1..(Len(q) + 1) : /\ n = At(h, q, i)
                                   /\ LS!Contains(q, pos) => At(h, q, i - 1) = pos
                                   /\ \A x \in todo : Within(q, i, Len(q), x)
  BY DEF Ahead
<1>4. LS!Contains(q, pos)
  BY DEF LS!Contains
<1>5. i - 1 = k
  BY <1>1, <1>3, <1>4 DEF At
<1>6. n = At(h, s, k)
  BY <1>1, <1>2, <1>3, <1>5 DEF At
<1>7. ~LS!Contains(s, pos)
  <2>1. ASSUME NEW j \in 1..Len(s), s[j] = pos PROVE FALSE
    <3>1. CASE j < k
      BY <1>1, <1>2, <2>1, <3>1
    <3>2. CASE ~(j < k)
      <4>1. j + 1 \in 1..Len(q) /\ j + 1 # k
        BY <1>1, <1>2, <3>2
      <4> QED BY <1>1, <1>2, <2>1, <3>2, <4>1
    <3> QED BY <3>1, <3>2
  <2> QED BY <2>1 DEF LS!Contains
<1>8. ASSUME NEW x \in todo \ {pos} PROVE Within(s, k, Len(s), x)
  <2>1. PICK j \in i..Len(q) : q[j] = x
    BY <1>3 DEF Within
  <2>2. j - 1 \in k..Len(s) /\ j - 1 \in 1..Len(s) /\ ~(j - 1 < k) /\ (j - 1) + 1 = j
    BY <1>1, <1>2, <1>5, <2>1
  <2>3. s[j - 1] = x
    BY <1>2, <2>1, <2>2
  <2> QED BY <2>2, <2>3 DEF Within
<1>9. k \in 1..(Len(s) + 1)
  BY <1>1, <1>2
<1> QED BY <1>6, <1>7, <1>8, <1>9 DEF Ahead

(* The same backwards *)
LEMMA BehindRemove ==
  ASSUME NEW D, NEW h, NEW q, IsList(D, h, q), NEW k \in 1..Len(q), NEW s, WithoutEntry(D, s, q, k),
         NEW n, NEW pos, pos = q[k], NEW todo, Behind(h, q, n, pos, todo)
  PROVE  Behind(h, s, n, pos, todo \ {pos})
<1>1. /\ h \in D /\ q \in Seq(D) /\ Len(q) \in Nat
      /\ \A i, j \in 1..Len(q) : q[i] = q[j] => i = j
      /\ \A i \in 1..Len(q) : q[i] # h
  BY DEF IsList, LS!NoDuplicates
<1>2. /\ Len(s) = Len(q) - 1
      /\ \A i \in 1..Len(s) : s[i] = IF i < k THEN q[i] ELSE q[i + 1]
  BY DEF WithoutEntry
<1>3. PICK i \in 0..Len(q) : /\ n = At(h, q, i)
                             /\ LS!Contains(q, pos) => At(h, q, i + 1) = pos
                             /\ \A x \in todo : Within(q, 1, i, x)
  BY DEF Behind
<1>4. LS!Contains(q, pos)
  BY DEF LS!Contains
<1>5. i + 1 = k
  BY <1>1, <1>3, <1>4 DEF At
<1>6. n = At(h, s, i)
  BY <1>1, <1>2, <1>3, <1>5 DEF At
<1>7. ~LS!Contains(s, pos)
  <2>1. ASSUME NEW j \in 1..Len(s), s[j] = pos PROVE FALSE
    <3>1. CASE j < k
      BY <1>1, <1>2, <2>1, <3>1
    <3>2. CASE ~(j < k)
      <4>1. j + 1 \in 1..Len(q) /\ j + 1 # k
        BY <1>1, <1>2, <3>2
      <4> QED BY <1>1, <1>2, <2>1, <3>2, <4>1
    <3> QED BY <3>1, <3>2
  <2> QED BY <2>1 DEF LS!Contains
<1>8. ASSUME NEW x \in todo \ {pos} PROVE Within(s, 1, i, x)
  <2>1. PICK j \in 1..i : q[j] = x
    BY <1>3 DEF Within
  <2>2. j \in 1..Len(s) /\ j < k
    BY <1>1, <1>2, <1>5, <2>1
  <2>3. s[j] = x
    BY <1>2, <2>1, <2>2
  <2> QED BY <2>1, <2>3 DEF Within
<1>9. i \in 0..Len(s)
  BY <1>1, <1>2, <1>5
<1> QED BY <1>6, <1>7, <1>8, <1>9 DEF Behind

(* Less is to be visited. *)
LEMMA LessToDo ==
  ASSUME NEW h, NEW q, NEW n, NEW pos, NEW todo, NEW e
  PROVE  /\ Ahead(h, q, n, pos, todo) => Ahead(h, q, n, pos, todo \ {e})
         /\ Behind(h, q, n, pos, todo) => Behind(h, q, n, pos, todo \ {e})
         /\ Waits(q, pos, todo) => Waits(q, pos, todo \ {e})
BY DEF Ahead, Behind, Waits

(* While the lock is dropped, an entry is added. *)
LEMMA WaitsInsert ==
  ASSUME NEW D, NEW q \in Seq(D), NEW k \in 0..Len(q), NEW e, NEW s, WithEntry(D, s, q, k, e),
         NEW pos, NEW todo, Waits(q, pos, todo)
  PROVE  Waits(s, pos, todo)
<1>1. /\ Len(q) \in Nat /\ Len(s) = Len(q) + 1
      /\ \A i \in 1..Len(s) : s[i] = IF i <= k THEN q[i] ELSE IF i = k + 1 THEN e ELSE q[i - 1]
  BY DEF WithEntry
<1> DEFINE to(i) == IF i <= k THEN i ELSE i + 1
<1>2. ASSUME NEW i \in 1..Len(q) PROVE to(i) \in 1..Len(s) /\ s[to(i)] = q[i]
  <2>1. CASE i <= k
    BY <1>1, <2>1
  <2>2. CASE ~(i <= k)
    <3>1. i + 1 \in 1..Len(s) /\ ~(i + 1 <= k) /\ i + 1 # k + 1 /\ (i + 1) - 1 = i
      BY <1>1, <2>2
    <3>2. s[i + 1] = q[i]
      BY <1>1, <3>1
    <3> QED BY <2>2, <3>1, <3>2
  <2> QED BY <2>1, <2>2
<1>3. \A i, j \in 1..Len(q) : i < j => to(i) < to(j)
  BY <1>1
<1> HIDE DEF to
<1>4. LS!Contains(s, pos)
  BY <1>2 DEF Waits, LS!Contains
<1>5. ASSUME NEW x \in todo PROVE \E i, j \in 1..Len(s) : i < j /\ s[i] = pos /\ s[j] = x
  <2>1. PICK i, j \in 1..Len(q) : i < j /\ q[i] = pos /\ q[j] = x
    BY DEF Waits
  <2>2. to(i) \in 1..Len(s) /\ to(j) \in 1..Len(s) /\ to(i) < to(j) /\ s[to(i)] = pos /\ s[to(j)] = x
    BY <1>2, <1>3, <2>1
  <2> QED BY <2>2
<1> QED BY <1>4, <1>5 DEF Waits

(* While the lock is dropped, an entry other than the cursor is removed. *)
LEMMA WaitsRemove ==
  ASSUME NEW D, NEW q \in Seq(D), NEW k \in 1..Len(q), NEW s, WithoutEntry(D, s, q, k),
         NEW e, e = q[k], NEW pos, pos # e, NEW todo, Waits(q, pos, todo)
  PROVE  Waits(s, pos, todo \ {e})
<1>1. /\ Len(q) \in Nat /\ Len(s) = Len(q) - 1
      /\ \A i \in 1..Len(s) : s[i] = IF i < k THEN q[i] ELSE q[i + 1]
  BY DEF WithoutEntry
<1> DEFINE to(i) == IF i < k THEN i ELSE i - 1
<1>2. ASSUME NEW i \in 1..Len(q), i # k PROVE to(i) \in 1..Len(s) /\ s[to(i)] = q[i]
  <2>1. CASE i < k
    BY <1>1, <2>1
  <2>2. CASE ~(i < k)
    <3>1. i - 1 \in 1..Len(s) /\ ~(i - 1 < k) /\ (i - 1) + 1 = i
      BY <1>1, <1>2, <2>2
    <3>2. s[i - 1] = q[i]
      BY <1>1, <3>1
    <3> QED BY <2>2, <3>1, <3>2
  <2> QED BY <2>1, <2>2
<1>3. \A i, j \in 1..Len(q) : i # k /\ j # k /\ i < j => to(i) < to(j)
  BY <1>1
<1> HIDE DEF to
<1>4. LS!Contains(s, pos)
  <2>1. PICK i \in 1..Len(q) : q[i] = pos
    BY DEF Waits, LS!Contains
  <2>2. i # k
    BY <2>1
  <2> QED BY <1>2, <2>1, <2>2 DEF LS!Contains
<1>5. ASSUME NEW x \in todo \ {e} PROVE \E i, j \in 1..Len(s) : i < j /\ s[i] = pos /\ s[j] = x
  <2>1. PICK i, j \in 1..Len(q) : i < j /\ q[i] = pos /\ q[j] = x
    BY DEF Waits
  <2>2. i # k /\ j # k
    BY <1>5, <2>1
  <2>3. to(i) \in 1..Len(s) /\ to(j) \in 1..Len(s) /\ to(i) < to(j) /\ s[to(i)] = pos /\ s[to(j)] = x
    BY <1>2, <1>3, <2>1, <2>2
  <2> QED BY <2>3
<1> QED BY <1>4, <1>5 DEF Waits

(* The list of the loop is left alone. *)
LEMMA LoopSame ==
  ASSUME NEW L, NEW V, NEW it, LoopInv(L, V, it), NEW L2, NEW V2,
         it # NoLoop => L2[it.head] = L[it.head] /\ (it.head \in V => it.head \in V2)
  PROVE  LoopInv(L2, V2, it)
BY DEF LoopInv, LoopType

(* The loop after e was taken off its list, see Forget *)
Forgets(it, e) == IF it = NoLoop THEN it ELSE [it EXCEPT !.todo = @ \ {e}]

(* e is taken off the list it is on. *)
LEMMA LoopRemove ==
  ASSUME NEW m, NEW L, NEW S, NEW V, Rep(m, L, S, V), NEW it, LoopInv(L, V, it),
         NEW e \in Entries,
         it.phase = "body" => e = it.pos, it.phase = "unlocked" => e # it.pos,
         NEW L2, L2 = WithoutIn(L, V, e)
  PROVE  LoopInv(L2, V, Forgets(it, e))
<1>1. CASE it = NoLoop
  BY <1>1 DEF LoopInv, Forgets
<1>2. CASE it # NoLoop
  <2> DEFINE f == [it EXCEPT !.todo = @ \ {e}]
             h == it.head
             q == L[h]
  <2>1. LoopType(V, it) /\ LoopRight(it, q)
    BY <1>2 DEF LoopInv
  <2>2. /\ LoopType(V, f) /\ f.phase = it.phase /\ f.dir = it.dir /\ f.head = h /\ f.pos = it.pos
        /\ f.n = it.n /\ f.todo = it.todo \ {e}
    BY <2>1 DEF LoopType
  <2>3. Forgets(it, e) = f
    BY <1>2 DEF Forgets
  <2>4. /\ h \in V /\ h \in Heads /\ q \in Seq(Entries) /\ q \in Seq(Cells) /\ IsList(Cells, h, q)
    BY <2>1, SeqOfCells DEF LoopType, Rep
  <2> HIDE DEF f, q, h
  <2>5. CASE ~LS!Contains(q, e)
    <3>1. L2[h] = q
      BY <2>4, <2>5 DEF WithoutIn, q
    <3>2. LoopRight(f, q)
      <4>0. it.head = h
        BY DEF h
      <4>1. CASE it.phase = "body" /\ it.dir = "next"
        <5>1. Ahead(h, q, it.n, it.pos, it.todo)
          BY <2>1, <4>0, <4>1 DEF LoopRight
        <5>2. Ahead(h, q, it.n, it.pos, it.todo \ {e})
          BY <5>1, LessToDo
        <5> QED BY <2>2, <4>1, <5>2 DEF LoopRight
      <4>2. CASE it.phase = "body" /\ it.dir = "prev"
        <5>1. Behind(h, q, it.n, it.pos, it.todo)
          BY <2>1, <4>0, <4>2 DEF LoopRight
        <5>2. Behind(h, q, it.n, it.pos, it.todo \ {e})
          BY <5>1, LessToDo
        <5> QED BY <2>2, <4>2, <5>2 DEF LoopRight
      <4>3. CASE it.phase = "unlocked"
        <5>1. it.dir = "next" /\ Waits(q, it.pos, it.todo)
          BY <2>1, <4>3 DEF LoopRight
        <5>2. Waits(q, it.pos, it.todo \ {e})
          BY <5>1, LessToDo
        <5> QED BY <2>2, <4>3, <5>1, <5>2 DEF LoopRight
      <4> QED BY <2>1, <4>1, <4>2, <4>3 DEF LoopRight
    <3> QED BY <2>2, <2>3, <3>1, <3>2 DEF LoopInv
  <2>6. CASE LS!Contains(q, e)
    <3> DEFINE s == LS!list_del(q, e)
               k == LS!IndexOf(q, e)
    <3>1. L2[h] = s
      BY <2>4, <2>6 DEF WithoutIn, q
    <3>2. \E i \in 1..Len(q) : q[i] = e
      BY <2>6 DEF LS!Contains
    <3>3. k \in 1..Len(q) /\ e = q[k] /\ WithoutEntry(Cells, s, q, k)
      BY <2>4, <3>2, IndexIs, DelSeq
    <3> HIDE DEF s, k
    <3>4. CASE it.phase = "body"
      <4>1. e = it.pos
        BY <3>4
      <4>2. CASE it.dir = "next"
        <5>1. Ahead(h, q, it.n, e, it.todo)
          BY <2>1, <3>4, <4>1, <4>2 DEF LoopRight, h
        <5>2. Ahead(h, s, it.n, e, it.todo \ {e})
          BY <2>4, <3>3, <5>1, AheadRemove
        <5>3. LoopRight(f, s)
          BY <2>2, <3>4, <4>1, <4>2, <5>2 DEF LoopRight
        <5> QED BY <2>2, <2>3, <3>1, <5>3 DEF LoopInv
      <4>3. CASE it.dir = "prev"
        <5>1. Behind(h, q, it.n, e, it.todo)
          BY <2>1, <3>4, <4>1, <4>3 DEF LoopRight, h
        <5>2. Behind(h, s, it.n, e, it.todo \ {e})
          BY <2>4, <3>3, <5>1, BehindRemove
        <5>3. LoopRight(f, s)
          BY <2>2, <3>4, <4>1, <4>3, <5>2 DEF LoopRight
        <5> QED BY <2>2, <2>3, <3>1, <5>3 DEF LoopInv
      <4> QED BY <2>1, <4>2, <4>3 DEF LoopRight
    <3>5. CASE it.phase = "unlocked"
      <4>1. Waits(q, it.pos, it.todo) /\ e # it.pos /\ it.dir = "next"
        BY <2>1, <3>5 DEF LoopRight
      <4>2. Waits(s, it.pos, it.todo \ {e})
        BY <2>4, <3>3, <4>1, WaitsRemove
      <4>3. LoopRight(f, s)
        BY <2>2, <3>5, <4>1, <4>2 DEF LoopRight
      <4> QED BY <2>2, <2>3, <3>1, <4>3 DEF LoopInv
    <3> QED BY <2>1, <3>4, <3>5 DEF LoopRight
  <2> QED BY <2>5, <2>6
<1> QED BY <1>1, <1>2

(* e is added to a list that is not the one of a loop's body. *)
LEMMA LoopInsert ==
  ASSUME NEW L \in [Heads -> Seq(Entries)], NEW V, NEW it, LoopInv(L, V, it), NEW h \in Heads,
         it.phase = "body" => h # it.head,
         NEW e, NEW k \in 0..Len(L[h]), NEW s, WithEntry(Entries, s, L[h], k, e),
         NEW L2, L2 = [L EXCEPT ![h] = s]
  PROVE  LoopInv(L2, V, it)
<1>1. CASE it # NoLoop /\ it.head = h
  <2>1. LoopType(V, it) /\ LoopRight(it, L[h])
    BY <1>1 DEF LoopInv
  <2>2. it.phase = "unlocked" /\ it.dir = "next" /\ Waits(L[h], it.pos, it.todo)
    BY <1>1, <2>1 DEF LoopRight
  <2>3. L[h] \in Seq(Entries) /\ L2[h] = s
    OBVIOUS
  <2>4. Waits(s, it.pos, it.todo)
    BY <2>2, <2>3, WaitsInsert
  <2> QED BY <1>1, <2>1, <2>2, <2>3, <2>4 DEF LoopInv, LoopRight
<1>2. CASE it # NoLoop /\ it.head # h
  <2>1. it.head \in Heads
    BY <1>2 DEF LoopInv, LoopType
  <2> QED BY <1>2, <2>1, LoopSame
<1> QED BY <1>1, <1>2 DEF LoopInv

----------------------------------------------------------------------------
(* The steps *)

(* What callers know, in the terms of Rep *)
LEMMA Known ==
  ASSUME IInv, NEW e \in Entries
  PROVE  /\ Linked(e) <=> ~OffLists(e, lists, valid)
         /\ Without(e) = WithoutIn(lists, valid, e)
         /\ lists \in [Heads -> Seq(Entries)] /\ solo \subseteq Entries /\ valid \subseteq Heads
<1>1. lists \in [Heads -> Seq(Entries)] /\ solo \subseteq Entries /\ valid \subseteq Heads
  BY DEF IInv, Rep
<1>2. Linked(e) <=> ~OffLists(e, lists, valid)
  BY <1>1, FreeIs DEF Linked, On
<1>3. Without(e) = WithoutIn(lists, valid, e)
  BY DEF Without, WithoutIn, On
<1> QED BY <1>1, <1>2, <1>3

(* InitEntry keeps IInv. *)
LEMMA InitEntryStep == ASSUME IInv, NEW e \in Entries, InitEntry(e) PROVE IInv'
<1>1. /\ OffLists(e, lists, valid) /\ mem' = INIT_LIST_HEAD(mem, e) /\ solo' = solo \cup {e}
      /\ lists' = lists /\ valid' = valid /\ iter' = iter
  BY Known DEF InitEntry, Loose
<1>2. Rep(mem, lists, solo, valid) /\ Stale(mem, lists, solo, valid) /\ LoopInv(lists, valid, iter)
  BY DEF IInv
<1>3. Rep(mem', lists, solo \cup {e}, valid) /\ Stale(mem', lists, solo \cup {e}, valid)
  BY <1>1, <1>2, RepInitEntry
<1> QED BY <1>1, <1>2, <1>3 DEF IInv

(* Add keeps IInv. *)
LEMMA AddStep == ASSUME IInv, NEW e \in Entries, NEW h \in Heads, Add(e, h) PROVE IInv'
<1>1. /\ OffLists(e, lists, valid) /\ h \in valid /\ (iter.phase = "body" => h # iter.head)
      /\ solo' = solo \ {e} /\ valid' = valid /\ iter' = iter
      /\ lists \in [Heads -> Seq(Entries)]
  BY Known DEF Add, Loose, MayLink
<1>2. Rep(mem, lists, solo, valid) /\ Stale(mem, lists, solo, valid) /\ LoopInv(lists, valid, iter)
  BY DEF IInv
<1>3. lists[h] \in Seq(Entries) /\ Len(lists[h]) \in 0..Len(lists[h]) /\ 0 \in 0..Len(lists[h])
  BY <1>1
<1>4. /\ WithEntry(Entries, LS!list_add(lists[h], e), lists[h], 0, e)
      /\ WithEntry(Entries, LS!list_add_tail(lists[h], e), lists[h], Len(lists[h]), e)
  BY <1>3, AddSeq
<1>5. CASE mem' = list_add(mem, e, h) /\ lists' = [lists EXCEPT ![h] = LS!list_add(@, e)]
  <2>1. Rep(mem', lists', solo \ {e}, valid) /\ Stale(mem', lists', solo \ {e}, valid)
    BY <1>1, <1>2, <1>5, RepAdd
  <2>2. LoopInv(lists', valid, iter)
    BY <1>1, <1>2, <1>3, <1>4, <1>5, LoopInsert
  <2> QED BY <1>1, <2>1, <2>2 DEF IInv
<1>6. CASE mem' = list_add_tail(mem, e, h) /\ lists' = [lists EXCEPT ![h] = LS!list_add_tail(@, e)]
  <2>1. Rep(mem', lists', solo \ {e}, valid) /\ Stale(mem', lists', solo \ {e}, valid)
    BY <1>1, <1>2, <1>6, RepAdd
  <2>2. LoopInv(lists', valid, iter)
    BY <1>1, <1>2, <1>3, <1>4, <1>6, LoopInsert
  <2> QED BY <1>1, <2>1, <2>2 DEF IInv
<1> QED BY <1>5, <1>6 DEF Add

(* Del keeps IInv. *)
LEMMA DelStep == ASSUME IInv, NEW e \in Entries, Del(e) PROVE IInv'
<1>1. /\ ~OffLists(e, lists, valid) \/ e \in solo
      /\ iter.phase = "body" => e = iter.pos
      /\ iter.phase = "unlocked" => e # iter.pos
      /\ lists' = WithoutIn(lists, valid, e) /\ iter' = Forgets(iter, e) /\ valid' = valid
  BY Known DEF Del, Deletable, MayUnlink, Forget, Forgets, NotIterating
<1>2. Rep(mem, lists, solo, valid) /\ Stale(mem, lists, solo, valid) /\ LoopInv(lists, valid, iter)
  BY DEF IInv
<1>3. LoopInv(lists', valid, iter')
  BY <1>1, <1>2, LoopRemove
<1>4. CASE mem' = list_del(mem, e) /\ solo' = solo \ {e}
  <2>1. Rep(mem', lists', solo', valid) /\ Stale(mem', lists', solo', valid)
    BY <1>1, <1>2, <1>4, RepDel
  <2> QED BY <1>1, <1>3, <2>1 DEF IInv
<1>5. CASE mem' = list_del_init(mem, e) /\ solo' = solo \cup {e}
  <2>1. Rep(mem', lists', solo', valid) /\ Stale(mem', lists', solo', valid)
    BY <1>1, <1>2, <1>5, RepDelInit
  <2> QED BY <1>1, <1>3, <2>1 DEF IInv
<1> QED BY <1>4, <1>5 DEF Del

(* Move keeps IInv. *)
LEMMA MoveStep == ASSUME IInv, NEW e \in Entries, NEW h \in Heads, Move(e, h) PROVE IInv'
<1> DEFINE W == WithoutIn(lists, valid, e)
           f == Forgets(iter, e)
<1>1. /\ ~OffLists(e, lists, valid) \/ e \in solo
      /\ iter.phase = "body" => e = iter.pos
      /\ iter.phase = "unlocked" => e # iter.pos
      /\ h \in valid /\ (iter.phase = "body" => h # iter.head)
      /\ solo' = solo \ {e} /\ iter' = f /\ valid' = valid
  BY Known DEF Move, Deletable, MayUnlink, MayLink, Forget, Forgets, NotIterating
<1>2. Rep(mem, lists, solo, valid) /\ Stale(mem, lists, solo, valid) /\ LoopInv(lists, valid, iter)
  BY DEF IInv
<1>3. LoopInv(W, valid, f)
  BY <1>1, <1>2, LoopRemove
<1>4. W \in [Heads -> Seq(Entries)]
  <2>1. Rep(list_del_entry(mem, e), W, solo \ {e}, valid)
    BY <1>1, <1>2, RepDelEntry
  <2> QED BY <2>1 DEF Rep
<1>5. f.phase = "body" => h # f.head
  <2>1. CASE iter = NoLoop
    BY <2>1 DEF Forgets, NoLoop
  <2>2. CASE iter # NoLoop
    <3>1. LoopType(valid, iter)
      BY <1>2, <2>2 DEF LoopInv
    <3>2. f.phase = iter.phase /\ f.head = iter.head
      BY <2>2, <3>1 DEF LoopType, Forgets
    <3> QED BY <1>1, <3>2
  <2> QED BY <2>1, <2>2
<1>6. /\ Rep(list_move(mem, e, h), [W EXCEPT ![h] = LS!list_add(@, e)], solo \ {e}, valid)
      /\ Stale(list_move(mem, e, h), [W EXCEPT ![h] = LS!list_add(@, e)], solo \ {e}, valid)
      /\ Rep(list_move_tail(mem, e, h), [W EXCEPT ![h] = LS!list_add_tail(@, e)], solo \ {e}, valid)
      /\ Stale(list_move_tail(mem, e, h), [W EXCEPT ![h] = LS!list_add_tail(@, e)], solo \ {e}, valid)
  <2>1. W = WithoutIn(lists, valid, e)
    OBVIOUS
  <2> HIDE DEF W
  <2> QED BY <1>1, <1>2, <2>1, RepMove
<1>7. W = Without(e)
  BY Known
<1> HIDE DEF W, f
<1>8. W[h] \in Seq(Entries) /\ Len(W[h]) \in 0..Len(W[h]) /\ 0 \in 0..Len(W[h])
  BY <1>4
<1>9. /\ WithEntry(Entries, LS!list_add(W[h], e), W[h], 0, e)
      /\ WithEntry(Entries, LS!list_add_tail(W[h], e), W[h], Len(W[h]), e)
  BY <1>8, AddSeq
<1>10. CASE mem' = list_move(mem, e, h) /\ lists' = [W EXCEPT ![h] = LS!list_add(@, e)]
  <2>1. LoopInv(lists', valid, f)
    BY <1>3, <1>4, <1>5, <1>8, <1>9, <1>10, LoopInsert
  <2> QED BY <1>1, <1>6, <1>10, <2>1 DEF IInv
<1>11. CASE mem' = list_move_tail(mem, e, h) /\ lists' = [W EXCEPT ![h] = LS!list_add_tail(@, e)]
  <2>1. LoopInv(lists', valid, f)
    BY <1>3, <1>4, <1>5, <1>8, <1>9, <1>11, LoopInsert
  <2> QED BY <1>1, <1>6, <1>11, <2>1 DEF IInv
<1> QED BY <1>7, <1>10, <1>11 DEF Move

(* list_empty() of a head in use *)
LEMMA EmptyIs ==
  ASSUME NEW m, NEW L, NEW S, NEW V, Rep(m, L, S, V), NEW h \in V
  PROVE  list_empty(m, h) <=> L[h] = <<>>
<1> DEFINE q == L[h]
<1>1. q \in Seq(Entries) /\ IsList(Cells, h, q) /\ Spells(m, h, q)
  BY DEF Rep
<1> HIDE DEF q
<1>2. Len(q) \in Nat /\ m.next[h] = At(h, q, 1)
  BY <1>1, Ends
<1>3. CASE q = <<>>
  BY <1>2, <1>3 DEF list_empty, At, q
<1>4. CASE q # <<>>
  <2>1. Len(q) # 0
    BY <1>1, <1>4
  <2>2. q[1] # h
    BY <1>1, <1>2, <2>1 DEF IsList
  <2> QED BY <1>2, <1>4, <2>1, <2>2 DEF list_empty, At, q
<1> QED BY <1>3, <1>4

(* Replace keeps IInv. *)
LEMMA ReplaceStep == ASSUME IInv, NEW e \in Entries, NEW f \in Entries, Replace(e, f) PROVE IInv'
<1>1. /\ ~OffLists(e, lists, valid) /\ OffLists(f, lists, valid)
      /\ iter = NoLoop /\ iter' = iter /\ valid' = valid
      /\ lists \in [Heads -> Seq(Entries)] /\ valid \subseteq Heads
  BY Known DEF Replace, NotIterating, Loose
<1>2. Rep(mem, lists, solo, valid) /\ Stale(mem, lists, solo, valid)
  BY DEF IInv
<1>3. PICK h \in valid : LS!Contains(lists[h], e)
  BY <1>1, FreeIs
<1> DEFINE q == lists[h]
           k == LS!IndexOf(q, e)
           s == [q EXCEPT ![k] = f]
<1>4. q \in Seq(Entries) /\ q \in Seq(Cells) /\ h \in Heads /\ \E i \in 1..Len(q) : q[i] = e
  BY <1>1, <1>3, SeqOfCells DEF LS!Contains
<1>5. k \in 1..Len(q) /\ e = q[k]
  <2> HIDE DEF q
  <2> QED BY <1>4, IndexIs
<1>6. WithOther(Entries, s, q, k, f) /\ WithOther(Cells, s, q, k, f)
  <2>1. f \in Cells
    BY DEF Cells
  <2> HIDE DEF q, k
  <2> QED BY <1>4, <1>5, <2>1, OtherSeq
<1>7. s \in Seq(Entries)
  BY <1>6 DEF WithOther
<1>8. lists' = [lists EXCEPT ![h] = s]
  <2>1. ASSUME NEW g \in valid, g # h PROVE ~LS!Contains(lists[g], e)
    <3>1. Apart(lists[h], g, lists[g])
      BY <1>2, <2>1 DEF Rep
    <3> QED BY <1>3, <3>1 DEF Apart, NotOf, LS!Contains
  <2>2. \A g \in Heads : On(g, e) <=> g = h
    BY <1>3, <2>1 DEF On
  <2> QED BY <1>1, <2>2 DEF Replace
<1>9. k \in 1..Len(lists[h]) /\ e = lists[h][k] /\ WithOther(Cells, s, lists[h], k, f)
  BY <1>5, <1>6
<1> HIDE DEF q, k, s
<1>10. /\ Rep(list_replace(mem, e, f), [lists EXCEPT ![h] = s], solo \ {f}, valid)
       /\ Stale(list_replace(mem, e, f), [lists EXCEPT ![h] = s], solo \ {f}, valid)
       /\ OffLists(e, [lists EXCEPT ![h] = s], valid)
  BY <1>1, <1>2, <1>7, <1>9, RepReplace
<1>11. LoopInv(lists', valid', iter')
  BY <1>1 DEF LoopInv
<1>12. CASE mem' = list_replace(mem, e, f) /\ solo' = solo \ {f}
  BY <1>1, <1>8, <1>10, <1>11, <1>12 DEF IInv
<1>13. CASE mem' = list_replace_init(mem, e, f) /\ solo' = (solo \ {f}) \cup {e}
  <2>1. mem' = INIT_LIST_HEAD(list_replace(mem, e, f), e)
    BY <1>13 DEF list_replace_init
  <2>2. Rep(mem', lists', solo', valid) /\ Stale(mem', lists', solo', valid)
    BY <1>8, <1>10, <1>13, <2>1, RepInitEntry
  <2> QED BY <1>1, <1>11, <2>2 DEF IInv
<1> QED BY <1>12, <1>13 DEF Replace

(* InitHead keeps IInv. *)
LEMMA InitHeadStep == ASSUME IInv, NEW h \in Heads, InitHead(h) PROVE IInv'
<1>1. /\ h \notin valid /\ mem' = INIT_LIST_HEAD(mem, h) /\ lists' = [lists EXCEPT ![h] = <<>>]
      /\ valid' = valid \cup {h} /\ solo' = solo /\ iter' = iter
  BY DEF InitHead
<1>2. Rep(mem, lists, solo, valid) /\ Stale(mem, lists, solo, valid) /\ LoopInv(lists, valid, iter)
  BY DEF IInv
<1>3. Rep(mem', lists', solo, valid') /\ Stale(mem', lists', solo, valid')
  BY <1>1, <1>2, RepInitHead
<1>4. LoopInv(lists', valid', iter)
  <2>1. CASE iter # NoLoop
    <3>1. iter.head \in valid /\ iter.head \in Heads
      BY <1>2, <2>1 DEF LoopInv, LoopType
    <3>2. lists'[iter.head] = lists[iter.head] /\ iter.head \in valid'
      BY <1>1, <1>2, <3>1 DEF Rep
    <3> QED BY <1>2, <3>2, LoopSame
  <2>2. CASE iter = NoLoop
    BY <2>2 DEF LoopInv
  <2> QED BY <2>1, <2>2
<1> QED BY <1>1, <1>3, <1>4 DEF IInv

(* ReplaceHead keeps IInv. *)
LEMMA ReplaceHeadStep == ASSUME IInv, NEW h \in Heads, NEW g \in Heads, ReplaceHead(h, g) PROVE IInv'
<1>1. /\ g # h /\ h \in valid /\ (g \in valid => lists[g] = <<>>)
      /\ iter = NoLoop /\ iter' = iter /\ solo' = solo
      /\ lists' = [lists EXCEPT ![g] = lists[h], ![h] = <<>>]
  BY DEF ReplaceHead, NotIterating, Disposable
<1>2. Rep(mem, lists, solo, valid) /\ Stale(mem, lists, solo, valid) /\ lists \in [Heads -> Seq(Entries)]
  BY DEF IInv, Rep
<1> DEFINE r == list_replace(mem, h, g)
           V == (valid \ {h}) \cup {g}
<1>3. Rep(r, lists', solo, V) /\ Stale(r, lists', solo, V)
  <2>1. r = list_replace(mem, h, g) /\ V = (valid \ {h}) \cup {g}
    OBVIOUS
  <2> HIDE DEF r, V
  <2> QED BY <1>1, <1>2, <2>1, RepReplaceHead
<1>4. LoopInv(lists', valid', iter')
  BY <1>1 DEF LoopInv
<1>5. CASE mem' = r /\ valid' = V
  BY <1>1, <1>3, <1>4, <1>5 DEF IInv
<1>6. CASE mem' = list_replace_init(mem, h, g) /\ valid' = valid \cup {g}
  <2>1. mem' = INIT_LIST_HEAD(r, h) /\ valid' = V \cup {h} /\ h \notin V
    BY <1>1, <1>6 DEF list_replace_init
  <2>2. lists' \in [Heads -> Seq(Entries)] /\ lists'[h] = <<>>
    BY <1>1, <1>2, <1>3 DEF Rep
  <2>3. lists' = [lists' EXCEPT ![h] = <<>>]
    BY <2>2
  <2> HIDE DEF r, V
  <2>4. Rep(mem', lists', solo, valid') /\ Stale(mem', lists', solo, valid')
    BY <1>3, <2>1, <2>3, RepInitHead
  <2> QED BY <1>1, <1>4, <2>4 DEF IInv
<1> QED BY <1>5, <1>6 DEF ReplaceHead

(* Deleting the first entry leaves the tail. *)
LEMMA DelFirst ==
  ASSUME NEW T, NEW q \in Seq(T), LS!NoDuplicates(q), q # <<>>
  PROVE  LS!list_del(q, q[1]) = Tail(q)
<1> DEFINE s == LS!list_del(q, q[1])
           k == LS!IndexOf(q, q[1])
<1>1. Len(q) \in Nat /\ Len(q) # 0 /\ 1 \in 1..Len(q)
  OBVIOUS
<1>2. \E i \in 1..Len(q) : q[i] = q[1]
  BY <1>1
<1>3. k \in 1..Len(q) /\ q[k] = q[1] /\ WithoutEntry(T, s, q, k)
  BY <1>2, IndexIs, DelSeq
<1>4. k = 1
  BY <1>1, <1>3 DEF LS!NoDuplicates
<1> HIDE DEF s, k
<1>5. s \in Seq(T) /\ Len(s) = Len(q) - 1 /\ \A i \in 1..Len(s) : s[i] = q[i + 1]
  BY <1>1, <1>3, <1>4 DEF WithoutEntry
<1>6. Tail(q) \in Seq(T) /\ Len(Tail(q)) = Len(q) - 1 /\ \A i \in 1..(Len(q) - 1) : Tail(q)[i] = q[i + 1]
  BY <1>1
<1>7. s = Tail(q)
  BY <1>1, <1>5, <1>6
<1> QED BY <1>7 DEF s

(* RotateLeft keeps IInv. *)
LEMMA RotateStep == ASSUME IInv, NEW h \in Heads, RotateLeft(h) PROVE IInv'
<1> DEFINE q == lists[h]
<1>1. /\ h \in valid /\ mem' = list_rotate_left(mem, h)
      /\ iter = NoLoop /\ iter' = iter /\ solo' = solo /\ valid' = valid
      /\ lists' = [lists EXCEPT ![h] = IF q = <<>> THEN q ELSE Append(Tail(q), Head(q))]
  BY DEF RotateLeft, NotIterating
<1>2. /\ Rep(mem, lists, solo, valid) /\ Stale(mem, lists, solo, valid)
      /\ lists \in [Heads -> Seq(Entries)] /\ q \in Seq(Entries)
      /\ IsList(Cells, h, q) /\ Spells(mem, h, q)
      /\ \A e \in solo : OffLists(e, lists, valid)
  BY <1>1 DEF IInv, Rep
<1>3. LoopInv(lists', valid', iter')
  BY <1>1 DEF LoopInv
<1>4. CASE q = <<>>
  <2>1. mem' = mem
    BY <1>1, <1>2, <1>4, EmptyIs DEF list_rotate_left
  <2>2. lists' = lists
    BY <1>1, <1>2, <1>4
  <2> QED BY <1>1, <1>2, <1>3, <2>1, <2>2 DEF IInv
<1>5. CASE q # <<>>
  <2> DEFINE e == q[1]
             W == WithoutIn(lists, valid, e)
  <2>1. Len(q) \in Nat /\ Len(q) # 0 /\ e \in Entries /\ LS!Contains(q, e)
    BY <1>2, <1>5 DEF LS!Contains
  <2>2. mem.next[h] = e
    <3>1. mem.next[h] = At(h, q, 1)
      BY <1>2, Ends
    <3> QED BY <2>1, <3>1 DEF At
  <2>3. mem' = list_move_tail(mem, e, h)
    BY <1>1, <1>2, <1>5, <2>2, EmptyIs DEF list_rotate_left
  <2>4. W = [lists EXCEPT ![h] = LS!list_del(@, e)]
    <3>1. e \in Entries /\ LS!Contains(lists[h], e)
      BY <2>1
    <3> HIDE DEF e, q
    <3> QED BY <1>1, <1>2, <3>1, WithoutIs
  <2>5. LS!list_del(q, e) = Tail(q)
    BY <1>2, <1>5, DelFirst DEF IsList
  <2>6. lists' = [W EXCEPT ![h] = LS!list_add_tail(@, e)]
    <3>1. W[h] = Tail(q) /\ Head(q) = e
      BY <1>2, <1>5, <2>4, <2>5
    <3>2. LS!list_add_tail(W[h], e) = Append(Tail(q), Head(q))
      BY <3>1 DEF LS!list_add_tail
    <3>3. lists' = [lists EXCEPT ![h] = LS!list_add_tail(W[h], e)]
      BY <1>1, <1>5, <3>2
    <3> HIDE DEF e
    <3> QED BY <1>2, <2>4, <3>3
  <2>7. ~OffLists(e, lists, valid)
    BY <1>1, <2>1 DEF OffLists, NotOf, LS!Contains
  <2>8. solo \ {e} = solo
    BY <1>2, <2>7
  <2>9. Rep(mem', lists', solo \ {e}, valid) /\ Stale(mem', lists', solo \ {e}, valid)
    <3>1. W = WithoutIn(lists, valid, e)
      OBVIOUS
    <3> HIDE DEF W, e
    <3>2. /\ Rep(list_move_tail(mem, e, h), [W EXCEPT ![h] = LS!list_add_tail(@, e)], solo \ {e}, valid)
          /\ Stale(list_move_tail(mem, e, h), [W EXCEPT ![h] = LS!list_add_tail(@, e)], solo \ {e}, valid)
      BY <1>1, <1>2, <2>1, <2>7, <3>1, RepMove
    <3> QED BY <2>3, <2>6, <3>2
  <2> QED BY <1>1, <1>3, <2>8, <2>9 DEF IInv
<1> QED BY <1>4, <1>5

(* The list of a head that is not in use does not matter. *)
LEMMA RepUnused ==
  ASSUME NEW m, NEW L, NEW S, NEW V, Rep(m, L, S, V), Stale(m, L, S, V),
         NEW L2 \in [Heads -> Seq(Entries)], \A h \in V : L2[h] = L[h]
  PROVE  Rep(m, L2, S, V) /\ Stale(m, L2, S, V)
<1>1. \A e : OffLists(e, L2, V) <=> OffLists(e, L, V)
  BY DEF OffLists
<1>2. Rep(m, L2, S, V)
  BY <1>1 DEF Rep
<1> QED BY <1>1, <1>2 DEF Stale

(* Cut keeps IInv. *)
LEMMA CutStep == ASSUME IInv, NEW g \in Heads, NEW h \in Heads, Cut(g, h) PROVE IInv'
<1> DEFINE q == lists[h]
<1>1. PICK c \in {h} \cup LS!ToSet(q) : CutPosition(g, h, c)
  BY DEF Cut
<1> DEFINE cut == IF c = h THEN 0 ELSE LS!IndexOf(q, c)
           a == SubSeq(q, 1, cut)
           b == SubSeq(q, cut + 1, Len(q))
<1>2. /\ g # h /\ h \in valid /\ (g \in valid => lists[g] = <<>>)
      /\ iter = NoLoop /\ iter' = iter /\ solo' = solo
      /\ mem' = list_cut_position(mem, g, h, c)
      /\ lists' = [lists EXCEPT ![g] = a, ![h] = b]
      /\ valid' = IF q = <<>> THEN valid ELSE valid \cup {g}
  BY <1>1 DEF Cut, CutPosition, NotIterating, Disposable
<1>3. /\ Rep(mem, lists, solo, valid) /\ Stale(mem, lists, solo, valid)
      /\ lists \in [Heads -> Seq(Entries)] /\ q \in Seq(Entries) /\ q \in Seq(Cells)
      /\ IsList(Cells, h, q) /\ Spells(mem, h, q) /\ Len(q) \in Nat
      /\ \A i \in 1..Len(q) : q[i] \in Entries
  BY <1>2, SeqOfCells DEF IInv, Rep
<1>4. LoopInv(lists', valid', iter')
  BY <1>2 DEF LoopInv
<1>5. list_empty(mem, h) <=> q = <<>>
  BY <1>2, <1>3, EmptyIs
<1>6. CASE q = <<>>
  <2>1. c = h /\ Len(q) = 0 /\ cut = 0
    BY <1>6 DEF LS!ToSet
  <2>2. a = <<>> /\ b = <<>>
    BY <1>6, <2>1
  <2>3. mem' = mem /\ valid' = valid
    BY <1>2, <1>5, <1>6 DEF list_cut_position
  <2> HIDE DEF a, b
  <2>4. lists' \in [Heads -> Seq(Entries)] /\ \A k \in valid : lists'[k] = lists[k]
    BY <1>2, <1>3, <1>6, <2>2 DEF Rep
  <2>5. Rep(mem, lists', solo, valid) /\ Stale(mem, lists', solo, valid)
    BY <1>3, <2>4, RepUnused
  <2> QED BY <1>2, <1>4, <2>3, <2>5 DEF IInv
<1>7. CASE q # <<>> /\ c = h
  <2>1. cut = 0
    BY <1>7
  <2>2. a = <<>> /\ b = q
    BY <1>3, <2>1
  <2>3. mem' = INIT_LIST_HEAD(mem, g) /\ valid' = valid \cup {g}
    BY <1>2, <1>5, <1>7 DEF list_cut_position
  <2> HIDE DEF a, b
  <2>4. lists' = [lists EXCEPT ![g] = <<>>]
    BY <1>2, <1>3, <2>2
  <2>5. /\ Rep(mem, lists, solo, valid) /\ Stale(mem, lists, solo, valid)
        /\ g \in valid => lists[g] = <<>>
    BY <1>2, <1>3
  <2> HIDE DEF q, cut
  <2>6. Rep(mem', lists', solo, valid') /\ Stale(mem', lists', solo, valid')
    BY <2>3, <2>4, <2>5, RepInitHead
  <2> QED BY <1>2, <1>4, <2>6 DEF IInv
<1>8. CASE q # <<>> /\ c # h
  <2>0. \E i \in 1..Len(q) : q[i] = c
    BY <1>8 DEF LS!ToSet
  <2>1. cut \in 1..Len(q) /\ c = q[cut]
    <3>1. cut = LS!IndexOf(q, c)
      BY <1>8
    <3> HIDE DEF q, cut
    <3> QED BY <2>0, <3>1, IndexIs
  <2>2. mem' = list_cut_at(mem, g, h, c)
    <3>1. list_is_singular(mem, h) => mem.next[h] = c
      <4>1. mem.next[h] = At(h, q, 1) /\ mem.prev[h] = At(h, q, Len(q))
        BY <1>3, Ends
      <4>2. At(h, q, 1) = q[1] /\ At(h, q, Len(q)) = q[Len(q)] /\ 1 \in 1..Len(q) /\ Len(q) \in 1..Len(q)
        BY <1>3, <2>1 DEF At
      <4>3. q[1] = q[Len(q)] => Len(q) = 1
        BY <1>3, <4>2 DEF IsList, LS!NoDuplicates
      <4> HIDE DEF cut
      <4>4. Len(q) = 1 => cut = 1
        BY <1>3, <2>1
      <4> QED BY <2>1, <4>1, <4>2, <4>3, <4>4 DEF list_is_singular
    <3> QED BY <1>2, <1>5, <1>8, <3>1 DEF list_cut_position
  <2>3. IsCut(Entries, q, cut, a, b) /\ IsCut(Cells, q, cut, a, b)
    <3>1. cut \in 0..Len(q)
      BY <1>3, <2>1
    <3> HIDE DEF q, cut
    <3> QED BY <1>3, <3>1, CutSeq
  <2>4. a \in Seq(Entries) /\ b \in Seq(Entries)
    BY <2>3 DEF IsCut
  <2>5. valid' = valid \cup {g}
    BY <1>2, <1>8
  <2>6. cut \in 1..Len(lists[h]) /\ c = lists[h][cut] /\ IsCut(Cells, lists[h], cut, a, b)
    BY <2>1, <2>3
  <2> HIDE DEF q, cut, a, b
  <2>7. Rep(mem', lists', solo, valid') /\ Stale(mem', lists', solo, valid')
    BY <1>2, <1>3, <2>2, <2>4, <2>5, <2>6, RepCut
  <2> QED BY <1>2, <1>4, <2>7 DEF IInv
<1> QED BY <1>6, <1>7, <1>8

(* __list_splice() at either end of h, and what a call with _init adds *)
LEMMA SpliceEnds ==
  ASSUME NEW m, NEW L, NEW S, NEW V, Rep(m, L, S, V), Stale(m, L, S, V),
         NEW h \in V, NEW g \in V, g # h, L[g] # <<>>,
         NEW r, NEW s,
         \/ r = list_splice_between(m, g, h, m.next[h]) /\ s = L[g] \o L[h]
         \/ r = list_splice_between(m, g, m.prev[h], h) /\ s = L[h] \o L[g],
         NEW L2, L2 = [L EXCEPT ![h] = s, ![g] = <<>>]
  PROVE  /\ Rep(r, L2, S, V \ {g}) /\ Stale(r, L2, S, V \ {g})
         /\ Rep(INIT_LIST_HEAD(r, g), L2, S, V) /\ Stale(INIT_LIST_HEAD(r, g), L2, S, V)
<1> DEFINE q == L[h]
           p == L[g]
           V1 == V \ {g}
<1>1. /\ L \in [Heads -> Seq(Entries)] /\ V \subseteq Heads /\ g \in Heads /\ h \in Heads
      /\ IsList(Cells, h, q) /\ Spells(m, h, q)
      /\ q \in Seq(Entries) /\ p \in Seq(Entries) /\ q \in Seq(Cells) /\ p \in Seq(Cells)
  BY SeqOfCells DEF Rep
<1>2. /\ Len(q) \in Nat /\ 0 \in 0..Len(q) /\ Len(q) \in 0..Len(q)
      /\ m.next[h] = At(h, q, 0 + 1) /\ m.prev[h] = At(h, q, Len(q))
      /\ h = At(h, q, 0) /\ h = At(h, q, Len(q) + 1)
  <2> HIDE DEF q
  <2> QED BY <1>1, Ends
<1>3. Rep(r, L2, S, V1) /\ Stale(r, L2, S, V1)
  <2>0. V1 = V \ {g}
    OBVIOUS
  <2>1. CASE r = list_splice_between(m, g, h, m.next[h]) /\ s = p \o q
    <3>1. HasWithin(Entries, s, q, 0, p) /\ HasWithin(Cells, s, q, 0, p)
      <4> HIDE DEF q, p
      <4> QED BY <1>1, <2>1, JoinSeq
    <3>2. s \in Seq(Entries)
      BY <3>1 DEF HasWithin
    <3>3. r = list_splice_between(m, g, At(h, q, 0), At(h, q, 0 + 1))
      BY <1>2, <2>1
    <3>4. JoinedAt(m, r, L, L2, h, g, 0, s)
      BY <1>2, <3>1, <3>2, <3>3 DEF JoinedAt
    <3> HIDE DEF V1, q, p
    <3> QED BY <2>0, <3>4, RepSplice
  <2>2. CASE r = list_splice_between(m, g, m.prev[h], h) /\ s = q \o p
    <3> DEFINE k == Len(q)
    <3>1. HasWithin(Entries, s, q, k, p) /\ HasWithin(Cells, s, q, k, p)
      <4> HIDE DEF q, p
      <4> QED BY <1>1, <2>2, JoinSeq
    <3>2. s \in Seq(Entries)
      BY <3>1 DEF HasWithin
    <3>3. r = list_splice_between(m, g, At(h, q, k), At(h, q, k + 1))
      BY <1>2, <2>2
    <3>4. JoinedAt(m, r, L, L2, h, g, k, s)
      BY <1>2, <3>1, <3>2, <3>3 DEF JoinedAt
    <3> HIDE DEF V1, q, p, k
    <3> QED BY <2>0, <3>4, RepSplice
  <2> QED BY <2>1, <2>2
<1>4. L2 \in [Heads -> Seq(Entries)]
  BY <1>3 DEF Rep
<1>5. L2 = [L2 EXCEPT ![g] = <<>>] /\ V = V1 \cup {g} /\ g \notin V1
  BY <1>1, <1>4
<1>6. PICK i : i = INIT_LIST_HEAD(r, g)
  OBVIOUS
<1> HIDE DEF V1, q, p
<1>7. Rep(i, L2, S, V) /\ Stale(i, L2, S, V)
  BY <1>1, <1>3, <1>5, <1>6, RepInitHead
<1> QED BY <1>3, <1>6, <1>7 DEF V1

(* Splice keeps IInv. *)
LEMMA SpliceStep == ASSUME IInv, NEW g \in Heads, NEW h \in Heads, Splice(g, h) PROVE IInv'
<1> DEFINE q == lists[h]
           p == lists[g]
           front == list_splice_between(mem, g, h, mem.next[h])
           end == list_splice_between(mem, g, mem.prev[h], h)
<1>1. g # h /\ g \in valid /\ h \in valid /\ iter = NoLoop /\ iter' = iter /\ solo' = solo
  BY DEF Splice, NotIterating
<1>2. /\ Rep(mem, lists, solo, valid) /\ Stale(mem, lists, solo, valid)
      /\ lists \in [Heads -> Seq(Entries)] /\ q \in Seq(Entries) /\ p \in Seq(Entries)
  BY DEF IInv, Rep
<1>3. LoopInv(lists', valid', iter')
  BY <1>1 DEF LoopInv
<1>4. list_empty(mem, g) <=> p = <<>>
  BY <1>1, <1>2, EmptyIs
<1>5. \/ lists' = [lists EXCEPT ![h] = p \o q, ![g] = <<>>]
      \/ lists' = [lists EXCEPT ![h] = q \o p, ![g] = <<>>]
  BY DEF Splice, SpliceFront, SpliceEnd
<1>6. CASE p = <<>>
  <2>1. p \o q = q /\ q \o p = q
    BY <1>2, <1>6
  <2>2. lists' = lists
    BY <1>2, <1>5, <1>6, <2>1
  <2>3. mem' = mem /\ valid' = valid
    BY <1>4, <1>6 DEF Splice, Unusable, list_splice, list_splice_tail, list_splice_init, list_splice_tail_init
  <2> QED BY <1>1, <1>2, <1>3, <2>2, <2>3 DEF IInv
<1>7. CASE p # <<>>
  <2>1. \/ /\ mem' = front /\ lists' = [lists EXCEPT ![h] = p \o q, ![g] = <<>>] /\ valid' = valid \ {g}
        \/ /\ mem' = end /\ lists' = [lists EXCEPT ![h] = q \o p, ![g] = <<>>] /\ valid' = valid \ {g}
        \/ /\ mem' = INIT_LIST_HEAD(front, g) /\ lists' = [lists EXCEPT ![h] = p \o q, ![g] = <<>>]
           /\ valid' = valid
        \/ /\ mem' = INIT_LIST_HEAD(end, g) /\ lists' = [lists EXCEPT ![h] = q \o p, ![g] = <<>>]
           /\ valid' = valid
    BY <1>4, <1>7 DEF Splice, SpliceFront, SpliceEnd, Unusable,
       list_splice, list_splice_tail, list_splice_init, list_splice_tail_init
  <2>2. PICK r, s : /\ \/ r = front /\ s = p \o q
                       \/ r = end /\ s = q \o p
                    /\ lists' = [lists EXCEPT ![h] = s, ![g] = <<>>]
                    /\ \/ mem' = r /\ valid' = valid \ {g}
                       \/ mem' = INIT_LIST_HEAD(r, g) /\ valid' = valid
    <3> HIDE DEF front, end, p, q
    <3> QED BY <2>1
  <2>3. PICK L2 : L2 = lists'
    OBVIOUS
  <2>4. /\ Rep(r, L2, solo, valid \ {g}) /\ Stale(r, L2, solo, valid \ {g})
        /\ Rep(INIT_LIST_HEAD(r, g), L2, solo, valid) /\ Stale(INIT_LIST_HEAD(r, g), L2, solo, valid)
    BY <1>1, <1>2, <1>7, <2>2, <2>3, SpliceEnds
  <2>5. Rep(mem', lists', solo, valid') /\ Stale(mem', lists', solo, valid')
    BY <2>2, <2>3, <2>4
  <2> QED BY <1>1, <1>3, <2>5 DEF IInv
<1> QED BY <1>6, <1>7

(* What a loop that goes on looks like, for any q *)
LEMMA LoopOf ==
  ASSUME IInv, iter # NoLoop
  PROVE  /\ LoopType(valid, iter) /\ LoopRight(iter, lists[iter.head])
         /\ iter.head \in valid /\ iter.head \in Heads /\ iter.head \notin Entries
         /\ iter.pos \in Entries
         /\ lists[iter.head] \in Seq(Entries)
         /\ IsList(Cells, iter.head, lists[iter.head]) /\ Spells(mem, iter.head, lists[iter.head])
<1>1. LoopType(valid, iter) /\ LoopRight(iter, lists[iter.head])
  BY DEF IInv, LoopInv
<1>2. iter.head \in valid /\ iter.head \in Heads /\ iter.pos \in Entries
  BY <1>1 DEF LoopType
<1>3. iter.head \notin Entries
  BY <1>2
<1> QED BY <1>1, <1>2, <1>3 DEF IInv, Rep

(* BeginLoop keeps IInv. *)
LEMMA BeginStep == ASSUME IInv, NEW h \in Heads, NEW dir \in {"next", "prev"}, BeginLoop(h, dir) PROVE IInv'
<1> DEFINE q == lists[h]
           first == mem[dir][h]
           it == [phase |-> "body", dir |-> dir, head |-> h, pos |-> first, n |-> mem[dir][first],
                  todo |-> LS!ToSet(q) \ {first}]
<1>1. /\ h \in valid /\ mem' = mem /\ lists' = lists /\ solo' = solo /\ valid' = valid
      /\ iter' = IF first = h THEN NoLoop ELSE it
  BY DEF BeginLoop
<1>2. /\ Rep(mem, lists, solo, valid) /\ Stale(mem, lists, solo, valid)
      /\ q \in Seq(Entries) /\ IsList(Cells, h, q) /\ Spells(mem, h, q)
  BY <1>1 DEF IInv, Rep
<1>3. ASSUME first # h PROVE LoopInv(lists, valid, it)
  <2>1. /\ Len(q) \in Nat
        /\ mem.next[h] = At(h, q, 1) /\ mem.prev[h] = At(h, q, Len(q))
        /\ \A i \in 1..Len(q) : mem.next[q[i]] = At(h, q, i + 1) /\ mem.prev[q[i]] = At(h, q, i - 1)
        /\ \A i \in Int : At(h, q, i) \in Cells
    BY <1>2, Ends
  <2>2. Len(q) # 0
    BY <1>3, <2>1 DEF At
  <2>3. \A i, j \in 1..Len(q) : q[i] = q[j] => i = j
    BY <1>2 DEF IsList, LS!NoDuplicates
  <2>4. LS!ToSet(q) \subseteq Entries /\ \A x \in LS!ToSet(q) : \E i \in 1..Len(q) : q[i] = x
    BY <1>2 DEF LS!ToSet
  <2>5. CASE dir = "next"
    <3>1. first = q[1] /\ mem[dir][first] = At(h, q, 2) /\ 1 \in 1..Len(q)
      BY <2>1, <2>2, <2>5 DEF At
    <3>2. it.phase = "body" /\ it.dir = "next" /\ it.head = h /\ it.pos = q[1] /\ it.n = At(h, q, 2)
          /\ it.todo = LS!ToSet(q) \ {q[1]}
      BY <2>5, <3>1
    <3>3. LoopType(valid, it)
      BY <1>1, <1>2, <2>1, <2>4, <2>5, <3>1 DEF LoopType
    <3>4. ASSUME NEW x \in LS!ToSet(q) \ {q[1]} PROVE Within(q, 2, Len(q), x)
      <4>1. PICK i \in 1..Len(q) : q[i] = x
        BY <2>4
      <4>2. i \in 2..Len(q)
        BY <2>1, <3>4, <4>1
      <4> QED BY <4>1, <4>2 DEF Within
    <3>5. Ahead(h, q, At(h, q, 2), q[1], LS!ToSet(q) \ {q[1]})
      <4>1. 2 \in 1..(Len(q) + 1) /\ At(h, q, 2 - 1) = q[1]
        BY <2>1, <2>2 DEF At
      <4> QED BY <3>4, <4>1 DEF Ahead
    <3> HIDE DEF it, q, first
    <3>6. LoopRight(it, q)
      BY <3>2, <3>5 DEF LoopRight
    <3> QED BY <3>2, <3>3, <3>6 DEF LoopInv, q
  <2>6. CASE dir = "prev"
    <3> DEFINE l == Len(q)
    <3>1. first = q[l] /\ mem[dir][first] = At(h, q, l - 1) /\ l \in 1..Len(q)
      BY <2>1, <2>2, <2>6 DEF At
    <3>2. it.phase = "body" /\ it.dir = "prev" /\ it.head = h /\ it.pos = q[l] /\ it.n = At(h, q, l - 1)
          /\ it.todo = LS!ToSet(q) \ {q[l]}
      BY <2>6, <3>1
    <3>3. LoopType(valid, it)
      BY <1>1, <1>2, <2>1, <2>4, <2>6, <3>1 DEF LoopType
    <3>4. ASSUME NEW x \in LS!ToSet(q) \ {q[l]} PROVE Within(q, 1, l - 1, x)
      <4>1. PICK i \in 1..Len(q) : q[i] = x
        BY <2>4
      <4>2. i \in 1..(l - 1)
        BY <2>1, <3>4, <4>1
      <4> QED BY <4>1, <4>2 DEF Within
    <3>5. Behind(h, q, At(h, q, l - 1), q[l], LS!ToSet(q) \ {q[l]})
      <4>1. l - 1 \in 0..Len(q) /\ At(h, q, (l - 1) + 1) = q[l]
        BY <2>1, <2>2 DEF At
      <4> QED BY <3>4, <4>1 DEF Behind
    <3> HIDE DEF it, q, l, first
    <3>6. LoopRight(it, q)
      BY <3>2, <3>5 DEF LoopRight
    <3> QED BY <3>2, <3>3, <3>6 DEF LoopInv, q
  <2> QED BY <2>5, <2>6
<1>4. LoopInv(lists, valid, NoLoop)
  BY DEF LoopInv
<1> HIDE DEF it, first
<1> QED BY <1>1, <1>2, <1>3, <1>4 DEF IInv

(* AdvanceLoop keeps IInv. *)
LEMMA AdvanceStep == ASSUME IInv, AdvanceLoop PROVE IInv'
<1> DEFINE h == iter.head
           q == lists[h]
           p == iter.n
           it == [iter EXCEPT !.pos = p, !.n = mem[iter.dir][p], !.todo = @ \ {p}]
<1>1. /\ iter.phase = "body" /\ mem' = mem /\ lists' = lists /\ solo' = solo /\ valid' = valid
      /\ iter' = IF p = h THEN NoLoop ELSE it
      /\ Rep(mem, lists, solo, valid) /\ Stale(mem, lists, solo, valid)
  BY DEF AdvanceLoop, NextTurn, IInv
<1>2. /\ iter # NoLoop /\ LoopType(valid, iter) /\ LoopRight(iter, q)
      /\ q \in Seq(Entries) /\ IsList(Cells, h, q) /\ Spells(mem, h, q)
  <2>1. iter # NoLoop
    BY <1>1 DEF NoLoop
  <2> QED BY <2>1, LoopOf
<1>3. ASSUME p # h PROVE LoopInv(lists, valid, it)
  <2>1. /\ Len(q) \in Nat
        /\ \A i \in 1..Len(q) : mem.next[q[i]] = At(h, q, i + 1) /\ mem.prev[q[i]] = At(h, q, i - 1)
        /\ \A i \in Int : At(h, q, i) \in Cells
    BY <1>2, Ends
  <2>5. CASE iter.dir = "next"
    <3>1. Ahead(h, q, p, iter.pos, iter.todo)
      BY <1>1, <1>2, <2>5 DEF LoopRight
    <3>2. PICK i \in 1..(Len(q) + 1) : p = At(h, q, i) /\ \A x \in iter.todo : Within(q, i, Len(q), x)
      BY <3>1 DEF Ahead
    <3>3. i \in 1..Len(q) /\ p = q[i] /\ p \in Entries /\ At(h, q, i) = q[i]
      BY <1>2, <1>3, <2>1, <3>2 DEF At
    <3>4. mem[iter.dir][p] = At(h, q, i + 1) /\ At(h, q, i + 1) \in Cells
      BY <2>1, <2>5, <3>3
    <3>5. /\ LoopType(valid, it) /\ it.phase = "body" /\ it.dir = "next" /\ it.head = h
          /\ it.pos = p /\ it.n = At(h, q, i + 1) /\ it.todo = iter.todo \ {p}
      BY <1>1, <1>2, <2>5, <3>3, <3>4 DEF LoopType
    <3>6. ASSUME NEW x \in iter.todo \ {p} PROVE Within(q, i + 1, Len(q), x)
      <4>1. PICK j \in i..Len(q) : q[j] = x
        BY <3>2 DEF Within
      <4>2. j \in (i + 1)..Len(q)
        BY <2>1, <3>3, <3>6, <4>1
      <4> QED BY <4>1, <4>2 DEF Within
    <3>7. Ahead(h, q, At(h, q, i + 1), p, iter.todo \ {p})
      <4>1. i + 1 \in 1..(Len(q) + 1) /\ (i + 1) - 1 = i
        BY <2>1, <3>3
      <4> QED BY <3>3, <3>6, <4>1 DEF Ahead
    <3> HIDE DEF it, q, h, p
    <3>8. LoopRight(it, q)
      BY <3>5, <3>7 DEF LoopRight
    <3> QED BY <3>5, <3>8 DEF LoopInv, q
  <2>6. CASE iter.dir = "prev"
    <3>1. Behind(h, q, p, iter.pos, iter.todo)
      BY <1>1, <1>2, <2>6 DEF LoopRight
    <3>2. PICK i \in 0..Len(q) : p = At(h, q, i) /\ \A x \in iter.todo : Within(q, 1, i, x)
      BY <3>1 DEF Behind
    <3>3. i \in 1..Len(q) /\ p = q[i] /\ p \in Entries /\ At(h, q, i) = q[i]
      BY <1>2, <1>3, <2>1, <3>2 DEF At
    <3>4. mem[iter.dir][p] = At(h, q, i - 1) /\ At(h, q, i - 1) \in Cells
      BY <2>1, <2>6, <3>3
    <3>5. /\ LoopType(valid, it) /\ it.phase = "body" /\ it.dir = "prev" /\ it.head = h
          /\ it.pos = p /\ it.n = At(h, q, i - 1) /\ it.todo = iter.todo \ {p}
      BY <1>1, <1>2, <2>6, <3>3, <3>4 DEF LoopType
    <3>6. ASSUME NEW x \in iter.todo \ {p} PROVE Within(q, 1, i - 1, x)
      <4>1. PICK j \in 1..i : q[j] = x
        BY <3>2 DEF Within
      <4>2. j \in 1..(i - 1)
        BY <2>1, <3>3, <3>6, <4>1
      <4> QED BY <4>1, <4>2 DEF Within
    <3>7. Behind(h, q, At(h, q, i - 1), p, iter.todo \ {p})
      <4>1. i - 1 \in 0..Len(q) /\ (i - 1) + 1 = i
        BY <2>1, <3>3
      <4> QED BY <3>3, <3>6, <4>1 DEF Behind
    <3> HIDE DEF it, q, h, p
    <3>8. LoopRight(it, q)
      BY <3>5, <3>7 DEF LoopRight
    <3> QED BY <3>5, <3>8 DEF LoopInv, q
  <2> QED BY <1>2, <2>5, <2>6 DEF LoopRight
<1>4. LoopInv(lists, valid, NoLoop)
  BY DEF LoopInv
<1> HIDE DEF it, h, p
<1> QED BY <1>1, <1>3, <1>4 DEF IInv

(* DropLock keeps IInv. *)
LEMMA DropStep == ASSUME IInv, DropLock PROVE IInv'
<1> DEFINE h == iter.head
           q == lists[h]
           it == [iter EXCEPT !.phase = "unlocked"]
<1>1. /\ iter.phase = "body" /\ iter.dir = "next" /\ LS!Contains(q, iter.pos)
      /\ mem' = mem /\ lists' = lists /\ solo' = solo /\ valid' = valid /\ iter' = it
      /\ Rep(mem, lists, solo, valid) /\ Stale(mem, lists, solo, valid)
  BY DEF DropLock, On, IInv
<1>2. /\ iter # NoLoop /\ LoopType(valid, iter) /\ LoopRight(iter, q)
      /\ h \notin Entries /\ iter.pos \in Entries /\ q \in Seq(Entries)
  <2>1. iter # NoLoop
    BY <1>1 DEF NoLoop
  <2> QED BY <2>1, LoopOf
<1>3. PICK i \in 1..(Len(q) + 1) : /\ At(h, q, i - 1) = iter.pos
                                   /\ \A x \in iter.todo : Within(q, i, Len(q), x)
  BY <1>1, <1>2 DEF LoopRight, Ahead
<1>4. Len(q) \in Nat /\ i - 1 \in 1..Len(q) /\ q[i - 1] = iter.pos
  BY <1>2, <1>3 DEF At
<1>5. ASSUME NEW x \in iter.todo PROVE \E a, b \in 1..Len(q) : a < b /\ q[a] = iter.pos /\ q[b] = x
  <2>1. PICK j \in i..Len(q) : q[j] = x
    BY <1>3 DEF Within
  <2>2. j \in 1..Len(q) /\ i - 1 < j
    BY <1>4, <2>1
  <2> QED BY <1>4, <2>1, <2>2
<1>6. Waits(q, iter.pos, iter.todo)
  BY <1>1, <1>5 DEF Waits
<1>7. /\ LoopType(valid, it) /\ it.phase = "unlocked" /\ it.dir = "next" /\ it.head = h
      /\ it.pos = iter.pos /\ it.todo = iter.todo
  BY <1>1, <1>2 DEF LoopType
<1> HIDE DEF it, h, q
<1>8. LoopRight(it, q)
  BY <1>6, <1>7 DEF LoopRight
<1>9. LoopInv(lists, valid, it)
  BY <1>7, <1>8 DEF LoopInv, q
<1> QED BY <1>1, <1>9 DEF IInv

(* RetakeLock keeps IInv. *)
LEMMA RetakeStep == ASSUME IInv, RetakeLock PROVE IInv'
<1> DEFINE h == iter.head
           q == lists[h]
           pos == iter.pos
           it == [iter EXCEPT !.phase = "body", !.n = mem.next[pos]]
<1>1. /\ iter.phase = "unlocked"
      /\ mem' = mem /\ lists' = lists /\ solo' = solo /\ valid' = valid /\ iter' = it
      /\ Rep(mem, lists, solo, valid) /\ Stale(mem, lists, solo, valid)
  BY DEF RetakeLock, list_safe_reset_next, IInv
<1>2. /\ iter # NoLoop /\ LoopType(valid, iter) /\ LoopRight(iter, q)
      /\ IsList(Cells, h, q) /\ Spells(mem, h, q)
  <2>1. iter # NoLoop
    BY <1>1 DEF NoLoop
  <2> QED BY <2>1, LoopOf
<1>3. iter.dir = "next" /\ Waits(q, pos, iter.todo)
  BY <1>1, <1>2 DEF LoopRight
<1>4. PICK k \in 1..Len(q) : q[k] = pos
  BY <1>3 DEF Waits, LS!Contains
<1>5. /\ Len(q) \in Nat /\ mem.next[pos] = At(h, q, k + 1) /\ At(h, q, k + 1) \in Cells
  BY <1>2, <1>4, Ends
<1>6. ASSUME NEW x \in iter.todo PROVE Within(q, k + 1, Len(q), x)
  <2>1. PICK a, b \in 1..Len(q) : a < b /\ q[a] = pos /\ q[b] = x
    BY <1>3 DEF Waits
  <2>2. a = k
    BY <1>2, <1>4, <2>1 DEF IsList, LS!NoDuplicates
  <2>3. b \in (k + 1)..Len(q)
    BY <1>5, <2>1, <2>2
  <2> QED BY <2>1, <2>3 DEF Within
<1>7. Ahead(h, q, mem.next[pos], pos, iter.todo)
  <2>1. k + 1 \in 1..(Len(q) + 1) /\ At(h, q, (k + 1) - 1) = pos
    BY <1>4, <1>5 DEF At
  <2> QED BY <1>5, <1>6, <2>1 DEF Ahead
<1>8. /\ LoopType(valid, it) /\ it.phase = "body" /\ it.dir = "next" /\ it.head = h
      /\ it.pos = pos /\ it.n = mem.next[pos] /\ it.todo = iter.todo
  BY <1>2, <1>3, <1>5 DEF LoopType
<1> HIDE DEF it, h, q, pos
<1>9. LoopRight(it, q)
  BY <1>7, <1>8 DEF LoopRight
<1>10. LoopInv(lists, valid, it)
  BY <1>8, <1>9 DEF LoopInv, q
<1> QED BY <1>1, <1>10 DEF IInv

(* All lists are empty and no entry is initialised. *)
LEMMA InitRight == Init => IInv
<1> SUFFICES ASSUME Init PROVE IInv
  OBVIOUS
<1>1. /\ lists = [h \in Heads |-> <<>>] /\ solo = {} /\ valid = Heads /\ iter = NoLoop
      /\ \A c \in Cells : /\ mem.next[c] = IF c \in Heads THEN c ELSE LIST_POISON1
                          /\ mem.prev[c] = IF c \in Heads THEN c ELSE LIST_POISON2
  BY DEF Init
<1>2. mem \in Mem(Cells, Poison)
  BY DEF Init, Mem, Cells, Poison
<1>3. lists \in [Heads -> Seq(Entries)]
  BY <1>1
<1>4. ASSUME NEW h \in Heads
      PROVE  /\ lists[h] = <<>> /\ IsList(Cells, h, lists[h]) /\ Spells(mem, h, lists[h])
             /\ Apart(lists[h], h, lists[h])
  <2>1. lists[h] = <<>> /\ h \in Cells
    BY <1>1 DEF Cells
  <2>2. IsList(Cells, h, <<>>)
    BY <2>1 DEF IsList, LS!NoDuplicates
  <2>3. Spells(mem, h, <<>>)
    BY <1>1, <2>1, SpellsEmpty
  <2> QED BY <2>1, <2>2, <2>3 DEF Apart
<1>5. ASSUME NEW g \in Heads, NEW h \in Heads PROVE Apart(lists[g], h, lists[h])
  BY <1>4 DEF Apart
<1>6. Rep(mem, lists, solo, valid)
  BY <1>1, <1>2, <1>3, <1>4, <1>5 DEF Rep
<1>7. \A e \in Entries : mem.next[e] # e
  BY <1>1 DEF Cells, Poison
<1> QED BY <1>1, <1>6, <1>7 DEF IInv, Stale, LoopInv

(* Every call, and every step of a loop, keeps the invariant. *)
LEMMA NextKeeps == IInv /\ [Next]_vars => IInv'
<1> SUFFICES ASSUME IInv, [Next]_vars PROVE IInv'
  OBVIOUS
<1>1. ASSUME NEW e \in Entries, InitEntry(e) PROVE IInv'
  BY <1>1, InitEntryStep
<1>2. ASSUME NEW e \in Entries, Del(e) PROVE IInv'
  BY <1>2, DelStep
<1>3. ASSUME NEW e \in Entries, NEW h \in Heads, Add(e, h) PROVE IInv'
  BY <1>3, AddStep
<1>4. ASSUME NEW e \in Entries, NEW h \in Heads, Move(e, h) PROVE IInv'
  BY <1>4, MoveStep
<1>5. ASSUME NEW e \in Entries, NEW f \in Entries, Replace(e, f) PROVE IInv'
  BY <1>5, ReplaceStep
<1>6. ASSUME NEW h \in Heads, InitHead(h) PROVE IInv'
  BY <1>6, InitHeadStep
<1>7. ASSUME NEW h \in Heads, RotateLeft(h) PROVE IInv'
  BY <1>7, RotateStep
<1>8. ASSUME NEW h \in Heads, NEW dir \in {"next", "prev"}, BeginLoop(h, dir) PROVE IInv'
  BY <1>8, BeginStep
<1>9. ASSUME NEW h \in Heads, NEW g \in Heads, ReplaceHead(h, g) PROVE IInv'
  BY <1>9, ReplaceHeadStep
<1>10. ASSUME NEW h \in Heads, NEW g \in Heads, Cut(g, h) PROVE IInv'
  BY <1>10, CutStep
<1>11. ASSUME NEW h \in Heads, NEW g \in Heads, Splice(g, h) PROVE IInv'
  BY <1>11, SpliceStep
<1>12. CASE AdvanceLoop
  BY <1>12, AdvanceStep
<1>13. CASE DropLock
  BY <1>13, DropStep
<1>14. CASE RetakeLock
  BY <1>14, RetakeStep
<1>15. CASE UNCHANGED vars
  BY <1>15 DEF vars, IInv
<1> QED BY <1>1, <1>2, <1>3, <1>4, <1>5, <1>6, <1>7, <1>8, <1>9, <1>10, <1>11, <1>12, <1>13,
           <1>14, <1>15 DEF Next

(* So the invariant always holds. *)
THEOREM AlwaysRep == Spec => []IInv
BY InitRight, NextKeeps, PTL DEF Spec

(* The cells of a list, as a sequence *)
LEMMA RingIs ==
  ASSUME NEW h \in Heads, lists[h] \in Seq(Entries)
  PROVE  /\ Len(Ring(h)) = Len(lists[h]) + 2
         /\ \A i \in 1..(Len(lists[h]) + 2) : Ring(h)[i] = At(h, lists[h], i - 1)
<1> DEFINE q == lists[h]
           a == <<h>> \o q
           r == a \o <<h>>
<1>1. q \in Seq(Heads \cup Entries) /\ Len(q) \in Nat
  OBVIOUS
<1>2. a \in Seq(Heads \cup Entries) /\ Len(a) = Len(q) + 1
  BY <1>1
<1>3. ASSUME NEW i \in 1..Len(a) PROVE a[i] = IF i = 1 THEN h ELSE q[i - 1]
  BY <1>1
<1>4. Ring(h) = r
  BY DEF Ring
<1> HIDE DEF a
<1>5. Len(r) = Len(q) + 2
  BY <1>1, <1>2
<1>6. ASSUME NEW i \in 1..Len(r) PROVE r[i] = IF i <= Len(a) THEN a[i] ELSE h
  <2>1. CASE i <= Len(a)
    BY <1>2, <2>1
  <2>2. CASE ~(i <= Len(a))
    <3>1. i = Len(a) + 1
      BY <1>1, <1>2, <1>5, <2>2
    <3> QED BY <1>2, <3>1
  <2> QED BY <2>1, <2>2
<1> HIDE DEF r, q
<1>7. ASSUME NEW i \in 1..Len(r) PROVE r[i] = At(h, q, i - 1)
  <2>1. CASE i = 1
    BY <1>1, <1>2, <1>3, <1>5, <1>6, <2>1 DEF At
  <2>2. CASE i # 1 /\ i <= Len(a)
    <3>1. r[i] = q[i - 1] /\ 1 <= i - 1 /\ i - 1 <= Len(q)
      BY <1>1, <1>2, <1>3, <1>5, <1>6, <2>2
    <3> QED BY <3>1 DEF At
  <2>3. CASE ~(i <= Len(a))
    <3>1. r[i] = h /\ ~(i - 1 <= Len(q))
      BY <1>1, <1>2, <1>5, <1>6, <2>3
    <3> QED BY <3>1 DEF At
  <2> QED BY <2>1, <2>2, <2>3
<1> QED BY <1>4, <1>5, <1>7 DEF q

(* The pointers spell out the lists. *)
LEMMA RepresentsFromInv == IInv => Represents
<1> SUFFICES ASSUME IInv PROVE Represents
  OBVIOUS
<1>1. /\ \A e \in solo : Alone(mem, e)
      /\ \A h \in valid : h \in Heads /\ lists[h] \in Seq(Entries) /\ Spells(mem, h, lists[h])
  BY DEF IInv, Rep
<1>2. ASSUME NEW h \in valid, NEW i \in 1..(Len(lists[h]) + 1)
      PROVE  /\ mem.next[Ring(h)[i]] = Ring(h)[i + 1]
             /\ mem.prev[Ring(h)[i + 1]] = Ring(h)[i]
  <2> DEFINE q == lists[h]
  <2>1. h \in Heads /\ q \in Seq(Entries) /\ Spells(mem, h, q) /\ Len(q) \in Nat
    BY <1>1
  <2>2. \A j \in 1..(Len(q) + 2) : Ring(h)[j] = At(h, q, j - 1)
    BY <2>1, RingIs
  <2> HIDE DEF q
  <2>3. i \in 1..(Len(q) + 2) /\ i + 1 \in 1..(Len(q) + 2) /\ (i + 1) - 1 = (i - 1) + 1 /\ i - 1 \in 0..Len(q)
    BY <2>1 DEF q
  <2>4. Ring(h)[i] = At(h, q, i - 1) /\ Ring(h)[i + 1] = At(h, q, (i - 1) + 1)
    BY <2>2, <2>3
  <2> QED BY <2>1, <2>3, <2>4 DEF Spells
<1> QED BY <1>1, <1>2 DEF Represents, Alone

(* The pointers always spell out the lists the callers expect, whatever    *)
(* functions of list.h were called before, on any number of heads and      *)
(* entries: Represents.                                                    *)
THEOREM ListsCorrect == Spec => []Represents
<1>1. IInv => Represents
  BY RepresentsFromInv
<1> QED BY <1>1, AlwaysRep, PTL

(* The tests look at one or two pointers. *)
LEMMA TestsFromInv == IInv => TestsRight
<1> SUFFICES ASSUME IInv PROVE TestsRight
  OBVIOUS
<1>0. Rep(mem, lists, solo, valid) /\ Stale(mem, lists, solo, valid)
  BY DEF IInv
<1>1. ASSUME NEW h \in valid
      PROVE  /\ list_empty(mem, h) <=> lists[h] = <<>>
             /\ list_empty_careful(mem, h) <=> lists[h] = <<>>
             /\ list_is_singular(mem, h) <=> Len(lists[h]) = 1
             /\ \A e \in LS!ToSet(lists[h]) :
                  list_is_last(mem, e, h) <=> e = LS!Last(lists[h])
  <2> DEFINE q == lists[h]
  <2>1. q \in Seq(Entries) /\ IsList(Cells, h, q) /\ Spells(mem, h, q)
    BY <1>0 DEF Rep
  <2>2. list_empty(mem, h) <=> q = <<>>
    BY <1>0, EmptyIs
  <2> HIDE DEF q
  <2>3. /\ Len(q) \in Nat
        /\ mem.next[h] = At(h, q, 1) /\ mem.prev[h] = At(h, q, Len(q))
        /\ \A i \in 1..Len(q) : mem.next[q[i]] = At(h, q, i + 1)
    BY <2>1, Ends
  <2>4. /\ \A i, j \in 1..Len(q) : q[i] = q[j] => i = j
        /\ \A i \in 1..Len(q) : q[i] # h
    BY <2>1 DEF IsList, LS!NoDuplicates
  <2>5. q = <<>> <=> Len(q) = 0
    BY <2>1
  <2>6. list_empty_careful(mem, h) <=> q = <<>>
    BY <2>2, <2>3, <2>5 DEF list_empty_careful, list_empty, At
  <2>7. list_is_singular(mem, h) <=> Len(q) = 1
    <3>1. CASE Len(q) = 0
      BY <2>2, <2>5, <3>1 DEF list_is_singular
    <3>2. CASE Len(q) # 0
      <4>1. mem.next[h] = q[1] /\ mem.prev[h] = q[Len(q)] /\ 1 \in 1..Len(q) /\ Len(q) \in 1..Len(q)
        BY <2>3, <3>2 DEF At
      <4> QED BY <2>2, <2>4, <2>5, <3>2, <4>1 DEF list_is_singular
    <3> QED BY <3>1, <3>2
  <2>8. ASSUME NEW e \in LS!ToSet(q) PROVE list_is_last(mem, e, h) <=> e = LS!Last(q)
    <3>1. PICK i \in 1..Len(q) : q[i] = e
      BY DEF LS!ToSet
    <3>2. mem.next[e] = h <=> i = Len(q)
      <4>1. CASE i = Len(q)
        BY <2>3, <3>1, <4>1 DEF At
      <4>2. CASE i # Len(q)
        <5>1. i + 1 \in 1..Len(q) /\ mem.next[e] = q[i + 1]
          BY <2>3, <3>1, <4>2 DEF At
        <5> QED BY <2>4, <4>2, <5>1
      <4> QED BY <4>1, <4>2
    <3>3. LS!Last(q) = q[Len(q)] /\ Len(q) \in 1..Len(q)
      BY <2>3, <3>1 DEF LS!Last
    <3> QED BY <2>4, <3>1, <3>2, <3>3 DEF list_is_last
  <2> QED BY <2>2, <2>6, <2>7, <2>8 DEF q
<1>2. ASSUME NEW e \in Entries PROVE list_empty(mem, e) <=> e \in solo
  <2>1. CASE e \in solo
    BY <1>0, <2>1 DEF Rep, Alone, list_empty
  <2>2. CASE e \notin solo /\ OffLists(e, lists, valid)
    BY <1>0, <2>2 DEF Stale, list_empty
  <2>3. CASE e \notin solo /\ ~OffLists(e, lists, valid)
    <3>1. PICK h \in valid : ~NotOf(e, h, lists[h])
      BY <2>3 DEF OffLists
    <3> DEFINE q == lists[h]
    <3>2. IsList(Cells, h, q) /\ Spells(mem, h, q) /\ h \in Heads
      BY <1>0 DEF Rep
    <3>3. PICK k \in 1..Len(q) : q[k] = e
      BY <3>1, <3>2 DEF NotOf
    <3> HIDE DEF q
    <3>4. Len(q) \in Nat /\ mem.next[e] = At(h, q, k + 1)
      BY <3>2, <3>3, Ends
    <3>5. k \in 1..(Len(q) + 1) /\ k + 1 \in 1..(Len(q) + 1) /\ k # k + 1
      BY <3>3, <3>4
    <3>6. At(h, q, k) = e /\ At(h, q, k) # At(h, q, k + 1)
      BY <3>2, <3>3, <3>5, AtIs
    <3> QED BY <2>3, <3>4, <3>6 DEF list_empty
  <2> QED BY <2>1, <2>2, <2>3
<1> QED BY <1>1, <1>2 DEF TestsRight

(* The tests of list.h always answer what they claim: TestsRight. *)
THEOREM TestsCorrect == Spec => []TestsRight
<1>1. IInv => TestsRight
  BY TestsFromInv
<1> QED BY <1>1, AlwaysRep, PTL

(* A loop's n is on the list, and what it owes a visit comes later. *)
LEMMA LoopFromInv == IInv => LoopSound
<1> SUFFICES ASSUME IInv, iter.phase = "body"
             PROVE  LET ring == IF iter.dir = "next" THEN Ring(iter.head)
                                ELSE LS!Reverse(Ring(iter.head))
                    IN  \E i \in 2..Len(ring) :
                          /\ iter.n = ring[i]
                          /\ On(iter.head, iter.pos) => ring[i - 1] = iter.pos
                          /\ iter.todo \subseteq {ring[j] : j \in i..Len(ring)}
  BY DEF LoopSound
<1> DEFINE h == iter.head
           q == lists[h]
           ring == IF iter.dir = "next" THEN Ring(h) ELSE LS!Reverse(Ring(h))
<1>1. LoopRight(iter, q) /\ h \in Heads /\ h \notin Entries /\ q \in Seq(Entries)
  <2>1. iter # NoLoop
    BY DEF NoLoop
  <2> QED BY <2>1, LoopOf
<1>2. Len(Ring(h)) = Len(q) + 2 /\ \A i \in 1..(Len(q) + 2) : Ring(h)[i] = At(h, q, i - 1)
  BY <1>1, RingIs
<1>3. Len(q) \in Nat /\ \A i \in 1..Len(q) : At(h, q, i) = q[i]
  BY <1>1 DEF At
<1>4. On(h, iter.pos) => LS!Contains(q, iter.pos)
  BY DEF On
<1>5. CASE iter.dir = "next"
  <2>1. Ahead(h, q, iter.n, iter.pos, iter.todo)
    BY <1>1, <1>5 DEF LoopRight
  <2>2. ring = Ring(h)
    BY <1>5
  <2> HIDE DEF ring, q, h
  <2>3. PICK i \in 1..(Len(q) + 1) : /\ iter.n = At(h, q, i)
                                     /\ LS!Contains(q, iter.pos) => At(h, q, i - 1) = iter.pos
                                     /\ \A x \in iter.todo : Within(q, i, Len(q), x)
    BY <2>1 DEF Ahead
  <2>4. i + 1 \in 2..Len(ring) /\ (i + 1) - 1 = i /\ i \in 1..(Len(q) + 2) /\ i + 1 \in 1..(Len(q) + 2)
    BY <1>2, <1>3, <2>2, <2>3
  <2>5. iter.n = ring[i + 1]
    BY <1>2, <2>2, <2>3, <2>4
  <2>6. On(h, iter.pos) => ring[(i + 1) - 1] = iter.pos
    BY <1>2, <1>4, <2>2, <2>3, <2>4
  <2>7. ASSUME NEW x \in iter.todo PROVE \E j \in (i + 1)..Len(ring) : ring[j] = x
    <3>1. PICK k \in i..Len(q) : q[k] = x
      BY <2>3 DEF Within
    <3>2. k + 1 \in (i + 1)..Len(ring) /\ k + 1 \in 1..(Len(q) + 2) /\ (k + 1) - 1 = k /\ k \in 1..Len(q)
      BY <1>2, <1>3, <2>2, <3>1
    <3>3. ring[k + 1] = x
      BY <1>2, <1>3, <2>2, <3>1, <3>2
    <3> QED BY <3>2, <3>3
  <2>8. iter.todo \subseteq {ring[j] : j \in (i + 1)..Len(ring)}
    BY <2>7
  <2> QED BY <2>4, <2>5, <2>6, <2>8 DEF ring, h
<1>6. CASE iter.dir = "prev"
  <2>1. Behind(h, q, iter.n, iter.pos, iter.todo)
    BY <1>1, <1>6 DEF LoopRight
  <2>2. ring = LS!Reverse(Ring(h))
    BY <1>6
  <2> DEFINE l == Len(q) + 2
  <2>3. Len(ring) = l /\ \A i \in 1..l : ring[i] = At(h, q, l - i)
    <3>1. LS!Reverse(Ring(h)) = [i \in 1..l |-> Ring(h)[(l - i) + 1]]
      BY <1>2 DEF LS!Reverse
    <3>2. ASSUME NEW i \in 1..l PROVE (l - i) + 1 \in 1..l /\ ((l - i) + 1) - 1 = l - i
      BY <1>3
    <3>3. \A i \in 1..l : Ring(h)[(l - i) + 1] = At(h, q, l - i)
      BY <1>2, <3>2
    <3> HIDE DEF ring, q, h
    <3>4. Len(ring) = l
      BY <1>3, <2>2, <3>1
    <3> QED BY <2>2, <3>1, <3>3, <3>4
  <2> HIDE DEF ring, q, h
  <2>4. PICK i \in 0..Len(q) : /\ iter.n = At(h, q, i)
                               /\ LS!Contains(q, iter.pos) => At(h, q, i + 1) = iter.pos
                               /\ \A x \in iter.todo : Within(q, 1, i, x)
    BY <2>1 DEF Behind
  <2> DEFINE a == l - i
  <2>5. a \in 2..Len(ring) /\ a \in 1..l /\ a - 1 \in 1..l /\ l - a = i /\ l - (a - 1) = i + 1
    BY <1>3, <2>3, <2>4
  <2>6. iter.n = ring[a]
    BY <2>3, <2>4, <2>5
  <2>7. On(h, iter.pos) => ring[a - 1] = iter.pos
    BY <1>4, <2>3, <2>4, <2>5
  <2>8. ASSUME NEW x \in iter.todo PROVE \E j \in a..Len(ring) : ring[j] = x
    <3>1. PICK k \in 1..i : q[k] = x
      BY <2>4 DEF Within
    <3>2. l - k \in a..Len(ring) /\ l - k \in 1..l /\ l - (l - k) = k /\ k \in 1..Len(q)
      BY <1>3, <2>3, <2>4, <3>1
    <3>3. ring[l - k] = x
      BY <1>3, <2>3, <3>1, <3>2
    <3> QED BY <3>2, <3>3
  <2>9. iter.todo \subseteq {ring[j] : j \in a..Len(ring)}
    BY <2>8
  <2> HIDE DEF a
  <2> QED BY <2>5, <2>6, <2>7, <2>9 DEF ring, h
<1> QED BY <1>1, <1>5, <1>6 DEF LoopRight

(* A loop that removes its cursor, or drops its lock and resets n, stays   *)
(* on its list and visits every entry that stays there: LoopSound.         *)
THEOREM LoopCorrect == Spec => []LoopSound
<1>1. IInv => LoopSound
  BY LoopFromInv
<1> QED BY <1>1, AlwaysRep, PTL

----------------------------------------------------------------------------
(* The ARP table of ArpTable *)

ArpCells == ArpEntries \cup {arp_table}

(* The loops are at the k-th cell; the addresses of the first k entries    *)
(* are printed; none of them is the one looked up.                         *)
AtCell(k) == cursor = At(arp_table, added, k)

Shown(k) == /\ printed \in Seq(Ips) /\ Len(printed) = k
            /\ \A i \in 1..k : printed[i] = ip[added[i]]

Missed(k) == \A j \in 1..k : ip[added[j]] # dip

(* The memory spells out the entries in the order they were added. *)
TableRep ==
  /\ arp_mem \in Mem(ArpCells, {NULL})
  /\ ip \in [ArpEntries -> Ips]
  /\ added \in Seq(ArpEntries)
  /\ IsList(ArpCells, arp_table, added)
  /\ Spells(arp_mem, arp_table, added)

AllAdded == \A e \in ArpEntries : \E i \in 1..Len(added) : added[i] = e

TableInv ==
  /\ TableRep
  /\ arp_pc = "add" => Shown(0)
  /\ arp_pc # "add" => AllAdded
  /\ arp_pc = "print" => \E k \in 0..Len(added) : AtCell(k + 1) /\ Shown(k)
  /\ arp_pc \notin {"add", "print"} => Shown(Len(added))
  /\ arp_pc = "lookup" => \E k \in 0..Len(added) : AtCell(k + 1) /\ Missed(k)
  /\ LookupRight

(* The way from a cell of the table to the next *)
LEMMA TableWay ==
  ASSUME TableRep
  PROVE  /\ Len(added) \in Nat
         /\ At(arp_table, added, 0) = arp_table
         /\ At(arp_table, added, Len(added) + 1) = arp_table
         /\ \A i \in 1..Len(added) : /\ At(arp_table, added, i) = added[i]
                                     /\ added[i] \in ArpEntries /\ added[i] # arp_table
         /\ \A i \in 0..Len(added) :
              /\ arp_mem.next[At(arp_table, added, i)] = At(arp_table, added, i + 1)
              /\ arp_mem.prev[At(arp_table, added, i + 1)] = At(arp_table, added, i)
<1>1. IsList(ArpCells, arp_table, added) /\ added \in Seq(ArpEntries)
  BY DEF TableRep
<1>2. \A i \in 1..Len(added) : added[i] \in ArpEntries /\ added[i] # arp_table
  BY <1>1 DEF IsList
<1>3. \A i \in 0..Len(added) :
              /\ arp_mem.next[At(arp_table, added, i)] = At(arp_table, added, i + 1)
              /\ arp_mem.prev[At(arp_table, added, i + 1)] = At(arp_table, added, i)
  BY DEF TableRep, Spells
<1> QED BY <1>1, <1>2, <1>3, AtIs

(* An empty table *)
LEMMA TableInit == ArpInit => TableInv
<1> SUFFICES ASSUME ArpInit PROVE TableInv
  OBVIOUS
<1>1. /\ arp_mem = [next |-> [c \in ArpCells |-> IF c = arp_table THEN c ELSE NULL],
                    prev |-> [c \in ArpCells |-> IF c = arp_table THEN c ELSE NULL]]
      /\ ip \in [ArpEntries -> Ips] /\ added = <<>> /\ arp_pc = "add" /\ printed = <<>>
  BY DEF ArpInit, ArpCells
<1>2. /\ arp_mem \in Mem(ArpCells, {NULL})
      /\ arp_mem.next[arp_table] = arp_table /\ arp_mem.prev[arp_table] = arp_table
  BY <1>1, TableAssumption DEF Mem, ArpCells
<1>3. added \in Seq(ArpEntries) /\ IsList(ArpCells, arp_table, added)
  BY <1>1, TableAssumption DEF IsList, ArpCells, LS!NoDuplicates
<1>4. Spells(arp_mem, arp_table, added)
  BY <1>1, <1>2, SpellsEmpty
<1>5. TableRep
  BY <1>1, <1>2, <1>3, <1>4 DEF TableRep
<1>6. Shown(0)
  BY <1>1 DEF Shown
<1> QED BY <1>1, <1>5, <1>6 DEF TableInv, LookupRight

(* main() adds an entry at the end. *)
LEMMA TableAdd ==
  ASSUME TableInv, NEW e \in ArpEntries, AddEntry(e)
  PROVE  TableInv'
<1>1. /\ TableRep /\ arp_pc = "add" /\ Shown(0)
      /\ arp_mem' = list_add_between(arp_mem, e, arp_mem.prev[arp_table], arp_table)
      /\ added' = Append(added, e)
      /\ ip' = ip /\ printed' = printed
      /\ \A i \in 1..Len(added) : added[i] # e
  <2>1. \A i \in 1..Len(added) : added[i] # e
    BY DEF AddEntry, Contains
  <2> QED BY <2>1 DEF AddEntry, list_add_tail, TableInv
<1>2. /\ Len(added) \in Nat
      /\ At(arp_table, added, 0) = arp_table
      /\ At(arp_table, added, Len(added) + 1) = arp_table
      /\ arp_mem.prev[arp_table] = At(arp_table, added, Len(added))
  BY <1>1, TableWay
<1>3. /\ IsList(ArpCells, arp_table, added) /\ Spells(arp_mem, arp_table, added)
      /\ arp_mem \in Mem(ArpCells, {NULL}) /\ added \in Seq(ArpEntries)
      /\ e \in ArpCells /\ arp_table \in ArpCells /\ ip \in [ArpEntries -> Ips]
  BY <1>1 DEF TableRep, ArpCells
<1>4. PICK pv : pv = arp_mem.prev[arp_table]
  OBVIOUS
<1>5. pv \in ArpCells
  BY <1>2, <1>3, <1>4, AtIs
<1>6. arp_mem' \in Mem(ArpCells, {NULL}) /\ Added(ArpCells, arp_mem, arp_mem', e, pv, arp_table)
  BY <1>1, <1>3, <1>4, <1>5, AddIs
<1>7. WithEntry(ArpCells, added', added, Len(added), e)
  <2>1. added \in Seq(ArpCells)
    BY <1>3 DEF IsList
  <2>2. WithEntry(ArpCells, LS!list_add_tail(added, e), added, Len(added), e)
    BY <1>3, <2>1, AddSeq
  <2>3. LS!list_add_tail(added, e) = added'
    BY <1>1 DEF LS!list_add_tail
  <2> QED BY <2>2, <2>3
<1>8. NotOf(e, arp_table, added)
  BY <1>1, TableAssumption DEF NotOf
<1>9. IsList(ArpCells, arp_table, added') /\ Spells(arp_mem', arp_table, added')
  <2>1. Len(added) \in 0..Len(added)
    BY <1>2
  <2>2. /\ pv = At(arp_table, added, Len(added))
        /\ arp_table = At(arp_table, added, Len(added) + 1)
    BY <1>2, <1>4
  <2> QED BY <1>3, <1>6, <1>7, <1>8, <2>1, <2>2, SpellsInsert
<1>10. TableRep'
  BY <1>1, <1>3, <1>6, <1>9 DEF TableRep, ArpCells
<1>11. Shown(0)'
  BY <1>1 DEF Shown
<1>12. CASE ToSet(added') = ArpEntries
  <2>1. arp_pc' = "print" /\ cursor' = arp_mem'.next[arp_table]
    BY <1>12 DEF AddEntry
  <2>2. cursor' = At(arp_table, added', 1) /\ Len(added') \in Nat
    <3>1. /\ Len(added') \in Nat /\ At(arp_table, added', 0) = arp_table
      BY <1>9, AtIs
    <3> QED BY <1>9, <2>1, <3>1 DEF Spells
  <2>3. AtCell(0 + 1)' /\ 0 \in 0..Len(added')
    BY <2>2 DEF AtCell
  <2>4. AllAdded'
    <3>1. \A x \in ArpEntries : \E i \in DOMAIN added' : added'[i] = x
      BY <1>12 DEF ToSet
    <3>2. DOMAIN added' = 1..Len(added')
      BY <1>7 DEF WithEntry
    <3> QED BY <3>1, <3>2 DEF AllAdded
  <2> QED BY <1>10, <1>11, <2>1, <2>3, <2>4 DEF TableInv, LookupRight
<1>13. CASE ToSet(added') # ArpEntries
  <2>1. arp_pc' = "add"
    BY <1>1, <1>13 DEF AddEntry
  <2> QED BY <1>10, <1>11, <2>1 DEF TableInv, LookupRight
<1> QED BY <1>12, <1>13

(* The print loop follows the pointers from entry to entry. *)
LEMMA TablePrint == ASSUME TableInv, PrintEntry PROVE TableInv'
<1>1. /\ TableRep /\ AllAdded /\ arp_pc = "print"
      /\ UNCHANGED <<arp_mem, ip, added, dip, dstmac, freed>>
  BY DEF TableInv, PrintEntry
<1>2. TableRep' /\ AllAdded'
  BY <1>1 DEF TableRep, AllAdded, ArpCells
<1>3. PICK k \in 0..Len(added) : AtCell(k + 1) /\ Shown(k)
  BY <1>1 DEF TableInv
<1>4. /\ Len(added) \in Nat
      /\ At(arp_table, added, 0) = arp_table
      /\ At(arp_table, added, Len(added) + 1) = arp_table
      /\ \A i \in 1..Len(added) : /\ At(arp_table, added, i) = added[i]
                                  /\ added[i] \in ArpEntries /\ added[i] # arp_table
  BY <1>1, TableWay
<1>5. CASE cursor # arp_table
  <2>1. /\ printed' = Append(printed, ip[cursor]) /\ cursor' = arp_mem.next[cursor]
        /\ arp_pc' = "print"
    BY <1>1, <1>5 DEF PrintEntry
  <2>2. cursor = At(arp_table, added, k + 1)
    BY <1>3 DEF AtCell
  <2>3. k # Len(added)
    BY <1>4, <1>5, <2>2
  <2>4. k + 1 \in 1..Len(added) /\ k + 1 \in 0..Len(added)
    BY <1>4, <2>3
  <2>5. cursor = added[k + 1] /\ cursor \in ArpEntries
    BY <1>4, <2>2, <2>4
  <2>6. cursor' = At(arp_table, added, (k + 1) + 1)
    BY <1>1, <2>1, <2>2, <2>4, TableWay
  <2>7. AtCell((k + 1) + 1)'
    BY <1>1, <2>6 DEF AtCell
  <2>8. Shown(k + 1)'
    <3>1. ip[cursor] \in Ips
      BY <1>1, <2>5 DEF TableRep
    <3>2. /\ printed' \in Seq(Ips) /\ Len(printed') = k + 1 /\ printed'[k + 1] = ip[cursor]
          /\ \A i \in 1..k : printed'[i] = printed[i]
      BY <1>3, <2>1, <3>1 DEF Shown
    <3>3. \A i \in 1..(k + 1) : printed'[i] = ip[added[i]]
      BY <1>3, <2>5, <3>2 DEF Shown
    <3> QED BY <1>1, <3>2, <3>3 DEF Shown
  <2>9. \E j \in 0..Len(added') : AtCell(j + 1)' /\ Shown(j)'
    BY <1>1, <2>4, <2>7, <2>8
  <2> QED BY <1>2, <2>1, <2>9 DEF TableInv, LookupRight
<1>6. CASE cursor = arp_table
  <2>1. arp_pc' = "lookup" /\ cursor' = arp_mem.next[arp_table] /\ printed' = printed
    BY <1>1, <1>6 DEF PrintEntry
  <2>2. k = Len(added)
    <3> SUFFICES ASSUME k # Len(added) PROVE FALSE
      OBVIOUS
    <3>1. k + 1 \in 1..Len(added)
      BY <1>4
    <3> QED BY <1>3, <1>4, <1>6, <3>1 DEF AtCell
  <2>3. Shown(Len(added))'
    BY <1>1, <1>3, <2>1, <2>2 DEF Shown
  <2>4. cursor' = At(arp_table, added, 0 + 1) /\ 0 \in 0..Len(added)
    BY <1>1, <1>4, <2>1, TableWay
  <2>5. AtCell(0 + 1)' /\ Missed(0)'
    BY <1>1, <2>4 DEF AtCell, Missed
  <2>6. \E j \in 0..Len(added') : AtCell(j + 1)' /\ Missed(j)'
    BY <1>1, <2>4, <2>5
  <2> QED BY <1>2, <2>1, <2>3, <2>6 DEF TableInv, LookupRight
<1> QED BY <1>5, <1>6

(* ht_get_dst_macaddr() passes the entries with another address and stops  *)
(* at the first with this one, or back at the head.                        *)
LEMMA TableLookup == ASSUME TableInv, ht_get_dst_macaddr PROVE TableInv'
<1>1. /\ TableRep /\ AllAdded /\ arp_pc = "lookup" /\ Shown(Len(added))
      /\ UNCHANGED <<arp_mem, ip, added, printed, dip, freed>>
  BY DEF TableInv, ht_get_dst_macaddr
<1>2. TableRep' /\ AllAdded' /\ Shown(Len(added))'
  BY <1>1 DEF TableRep, AllAdded, ArpCells, Shown
<1>3. PICK k \in 0..Len(added) : AtCell(k + 1) /\ Missed(k)
  BY <1>1 DEF TableInv
<1>4. /\ Len(added) \in Nat
      /\ At(arp_table, added, Len(added) + 1) = arp_table
      /\ \A i \in 1..Len(added) : /\ At(arp_table, added, i) = added[i]
                                  /\ added[i] \in ArpEntries /\ added[i] # arp_table
  BY <1>1, TableWay
<1>5. cursor = At(arp_table, added, k + 1)
  BY <1>3 DEF AtCell
<1>6. CASE cursor = arp_table
  <2>1. arp_pc' = "print_mac" /\ dstmac' = NULL
    BY <1>6 DEF ht_get_dst_macaddr
  <2>2. k = Len(added)
    <3> SUFFICES ASSUME k # Len(added) PROVE FALSE
      OBVIOUS
    <3>1. k + 1 \in 1..Len(added)
      BY <1>4
    <3> QED BY <1>4, <1>5, <1>6, <3>1
  <2>3. \A e \in ArpEntries : ip[e] # dip
    BY <1>1, <1>3, <2>2 DEF AllAdded, Missed
  <2>4. LookupRight'
    BY <1>1, <2>1, <2>3 DEF LookupRight
  <2> QED BY <1>2, <2>1, <2>4 DEF TableInv
<1>7. CASE cursor # arp_table
  <2>1. k # Len(added)
    BY <1>4, <1>5, <1>7
  <2>2. k + 1 \in 1..Len(added) /\ k + 1 \in 0..Len(added)
    BY <1>4, <2>1
  <2>3. cursor = added[k + 1]
    BY <1>4, <1>5, <2>2
  <2>4. CASE ip[cursor] = dip
    <3>1. arp_pc' = "print_mac" /\ dstmac' = cursor
      BY <1>7, <2>4 DEF ht_get_dst_macaddr
    <3>2. /\ dstmac' = added[k + 1] /\ ip[added[k + 1]] = dip
          /\ \A j \in 1..((k + 1) - 1) : ip[added[j]] # dip
      BY <1>3, <2>3, <2>4, <3>1 DEF Missed
    <3>3. LookupRight'
      BY <1>1, <2>2, <3>1, <3>2 DEF LookupRight
    <3> QED BY <1>2, <3>1, <3>3 DEF TableInv
  <2>5. CASE ip[cursor] # dip
    <3>1. arp_pc' = "lookup" /\ cursor' = arp_mem.next[cursor]
      BY <1>1, <1>7, <2>5 DEF ht_get_dst_macaddr
    <3>2. cursor' = At(arp_table, added, (k + 1) + 1)
      BY <1>1, <1>5, <2>2, <3>1, TableWay
    <3>3. AtCell((k + 1) + 1)' /\ Missed(k + 1)'
      BY <1>1, <1>3, <2>3, <2>5, <3>2 DEF AtCell, Missed
    <3>4. \E j \in 0..Len(added') : AtCell(j + 1)' /\ Missed(j)'
      BY <1>1, <2>2, <3>3
    <3> QED BY <1>2, <3>1, <3>4 DEF TableInv, LookupRight
  <2> QED BY <2>4, <2>5
<1> QED BY <1>6, <1>7

(* What follows the lookup changes neither the table nor the results. *)
LEMMA TableRest ==
  ASSUME TableInv, PrintMac \/ Free \/ UNCHANGED arp_vars
  PROVE  TableInv'
<1>1. CASE UNCHANGED arp_vars
  BY <1>1 DEF TableInv, TableRep, AllAdded, ArpCells, Shown, AtCell, Missed, LookupRight,
              arp_vars
<1>2. CASE PrintMac \/ Free
  <2>1. /\ UNCHANGED <<arp_mem, ip, added, cursor, printed, dip, dstmac>>
        /\ arp_pc \notin {"add", "print", "lookup"} /\ arp_pc' \notin {"add", "print", "lookup"}
    BY <1>2 DEF PrintMac, Free
  <2>2. TableRep /\ AllAdded /\ Shown(Len(added)) /\ LookupRight
    BY <2>1 DEF TableInv
  <2>3. TableRep' /\ AllAdded' /\ Shown(Len(added))'
    BY <2>1, <2>2 DEF TableRep, AllAdded, ArpCells, Shown
  <2>4. added \in Seq(ArpEntries)
    BY <2>2 DEF TableRep
  <2>5. LookupRight'
    <3>1. CASE PrintMac /\ dstmac = NULL
      <4>1. arp_pc = "print_mac" /\ arp_pc' = "crashed"
        BY <3>1 DEF PrintMac
      <4>2. \A e \in ArpEntries : ip[e] # dip
        BY <2>2, <2>4, <3>1, <4>1, TableAssumption DEF LookupRight
      <4> QED BY <2>1, <3>1, <4>1, <4>2 DEF LookupRight
    <3>2. CASE PrintMac /\ dstmac # NULL
      <4>1. arp_pc = "print_mac" /\ arp_pc' = "free"
        BY <3>2 DEF PrintMac
      <4>2. PICK i \in 1..Len(added) :
              /\ dstmac = added[i] /\ ip[added[i]] = dip
              /\ \A j \in 1..(i - 1) : ip[added[j]] # dip
        BY <2>2, <3>2, <4>1 DEF LookupRight
      <4>3. \E e \in ArpEntries : ip[e] = dip
        BY <2>4, <4>2
      <4> QED BY <2>1, <4>1, <4>2, <4>3 DEF LookupRight
    <3>3. CASE Free
      <4>1. arp_pc = "free" /\ arp_pc' \in {"free", "done"}
        BY <3>3 DEF Free
      <4> QED BY <2>1, <2>2, <4>1 DEF LookupRight
    <3> QED BY <1>2, <3>1, <3>2, <3>3
  <2> QED BY <2>1, <2>3, <2>5 DEF TableInv
<1> QED BY <1>1, <1>2

(* The table is what the entries added say, and the loops are on it. *)
LEMMA TableAlways == ArpSpec => []TableInv
<1>1. ArpInit => TableInv
  BY TableInit
<1>2. TableInv /\ [ArpNext]_arp_vars => TableInv'
  BY TableAdd, TablePrint, TableLookup, TableRest DEF ArpNext
<1> QED BY <1>1, <1>2, PTL DEF ArpSpec

(* The addresses printed are those of all entries, in their order. *)
LEMMA PrintsFromInv == TableInv => PrintsTable
<1> SUFFICES ASSUME TableInv, arp_pc \notin {"add", "print"}
             PROVE  printed = [i \in 1..Len(added) |-> ip[added[i]]]
  BY DEF PrintsTable
<1>1. Shown(Len(added))
  BY DEF TableInv
<1> QED BY <1>1 DEF Shown

(* main() prints every address of the table once, in the order of its      *)
(* calls of list_add_tail(), whatever the entries and their addresses.     *)
THEOREM PrintCorrect == ArpSpec => []PrintsTable
BY TableAlways, PrintsFromInv, PTL

(* ht_get_dst_macaddr() returns the entry added first of those with the    *)
(* address, and main() dies on its NULL exactly if there is none.          *)
THEOREM LookupCorrect == ArpSpec => []LookupRight
<1>1. TableInv => LookupRight
  BY DEF TableInv
<1> QED BY <1>1, TableAlways, PTL

============================================================================
