--------------------------- MODULE ListSeqProofs ---------------------------
(***************************************************************************)
(* What the list operations of ListSeq do to the set of entries and to its *)
(* being free of duplicates.                                               *)
(***************************************************************************)
EXTENDS ListSeq, TLAPS

(* IndexOf() finds an entry that is there. *)
LEMMA IndexOfFound ==
  ASSUME NEW T, NEW q \in Seq(T), NEW e \in ToSet(q)
  PROVE  IndexOf(q, e) \in 1..Len(q) /\ q[IndexOf(q, e)] = e
<1>1. \E i \in 1..Len(q) : q[i] = e
  BY DEF ToSet
<1> QED BY <1>1 DEF IndexOf

(* list_add_tail() of a new entry keeps the others and adds that one. *)
LEMMA ListAddTail ==
  ASSUME NEW T, NEW q \in Seq(T), NoDuplicates(q), NEW e \in T, e \notin ToSet(q)
  PROVE  /\ list_add_tail(q, e) \in Seq(T)
         /\ ToSet(list_add_tail(q, e)) = ToSet(q) \cup {e}
         /\ NoDuplicates(list_add_tail(q, e))
<1> DEFINE r == list_add_tail(q, e)
<1>1. /\ r \in Seq(T) /\ Len(r) = Len(q) + 1 /\ Len(q) \in Nat
      /\ \A i \in 1..Len(q) : r[i] = q[i]
      /\ r[Len(q) + 1] = e
  BY DEF list_add_tail
<1> HIDE DEF r
<1>2. DOMAIN r = 1..(Len(q) + 1) /\ DOMAIN q = 1..Len(q)
  BY <1>1
<1>3. ToSet(r) = ToSet(q) \cup {e}
  BY <1>1, <1>2 DEF ToSet
<1>4. \A i \in 1..Len(q) : q[i] # e
  BY <1>2 DEF ToSet
<1>5. NoDuplicates(r)
  BY <1>1, <1>4 DEF NoDuplicates
<1> QED BY <1>1, <1>3, <1>5 DEF r

(* The sequence list_del() returns, entry by entry. *)
LEMMA ListDelEntries ==
  ASSUME NEW T, NEW q \in Seq(T), NEW e \in ToSet(q)
  PROVE  LET i == IndexOf(q, e)
             r == list_del(q, e)
         IN  /\ r \in Seq(T)
             /\ Len(r) = Len(q) - 1
             /\ \A j \in 1..(Len(q) - 1) : r[j] = IF j < i THEN q[j] ELSE q[j + 1]
<1> DEFINE i == IndexOf(q, e)
           a == SubSeq(q, 1, i - 1)
           b == SubSeq(q, i + 1, Len(q))
<1>1. i \in 1..Len(q) /\ q[i] = e /\ Len(q) \in Nat
  BY IndexOfFound
<1> HIDE DEF i
<1>2. /\ a \in Seq(T) /\ Len(a) = i - 1
      /\ \A j \in 1..(i - 1) : a[j] = q[j]
  BY <1>1
<1>3. /\ b \in Seq(T) /\ Len(b) = Len(q) - i
      /\ \A j \in 1..(Len(q) - i) : b[j] = q[i + j]
  BY <1>1
<1>4. list_del(q, e) = a \o b
  BY DEF list_del, RemoveAt, i
<1> HIDE DEF a, b
<1>5. /\ a \o b \in Seq(T) /\ Len(a \o b) = Len(q) - 1
      /\ \A j \in 1..(Len(q) - 1) :
           (a \o b)[j] = IF j < i THEN a[j] ELSE b[j - (i - 1)]
  <2>1. a \in Seq(T) /\ b \in Seq(T) /\ Len(a) \in Nat /\ Len(b) \in Nat
    BY <1>2, <1>3
  <2>2. /\ a \o b \in Seq(T) /\ Len(a \o b) = Len(a) + Len(b)
        /\ \A j \in 1..(Len(a) + Len(b)) :
             (a \o b)[j] = IF j <= Len(a) THEN a[j] ELSE b[j - Len(a)]
    BY <2>1
  <2>3. Len(a) + Len(b) = Len(q) - 1 /\ \A j \in Nat : j <= Len(a) <=> j < i
    BY <1>1, <1>2, <1>3
  <2> QED BY <1>1, <1>2, <2>2, <2>3
<1>6. \A j \in 1..(Len(q) - 1) : (a \o b)[j] = IF j < i THEN q[j] ELSE q[j + 1]
  <2> TAKE j \in 1..(Len(q) - 1)
  <2>1. CASE j < i
    BY <1>1, <1>2, <1>5, <2>1
  <2>2. CASE ~(j < i)
    <3>1. j - (i - 1) \in 1..(Len(q) - i) /\ i + (j - (i - 1)) = j + 1
      BY <1>1, <2>2
    <3> QED BY <1>3, <1>5, <2>2, <3>1
  <2> QED BY <2>1, <2>2
<1> QED BY <1>4, <1>5, <1>6 DEF i

(* list_del() takes exactly one entry out and keeps the others. *)
LEMMA ListDel ==
  ASSUME NEW T, NEW q \in Seq(T), NoDuplicates(q), NEW e \in ToSet(q)
  PROVE  /\ list_del(q, e) \in Seq(T)
         /\ ToSet(list_del(q, e)) = ToSet(q) \ {e}
         /\ NoDuplicates(list_del(q, e))
<1> DEFINE i == IndexOf(q, e)
           r == list_del(q, e)
<1>1. i \in 1..Len(q) /\ q[i] = e /\ Len(q) \in Nat
  BY IndexOfFound
<1>2. /\ r \in Seq(T) /\ Len(r) = Len(q) - 1
      /\ \A j \in 1..(Len(q) - 1) : r[j] = IF j < i THEN q[j] ELSE q[j + 1]
  BY ListDelEntries
<1> HIDE DEF i, r
<1>3. DOMAIN r = 1..(Len(q) - 1) /\ DOMAIN q = 1..Len(q)
  BY <1>1, <1>2
<1>4. NoDuplicates(r)
  BY <1>1, <1>2 DEF NoDuplicates
<1>5. ASSUME NEW x \in ToSet(r) PROVE x \in ToSet(q) \ {e}
  <2>1. PICK j \in 1..(Len(q) - 1) : r[j] = x
    BY <1>3 DEF ToSet
  <2> DEFINE k == IF j < i THEN j ELSE j + 1
  <2>2. k \in 1..Len(q) /\ k # i /\ q[k] = x
    BY <1>1, <1>2, <2>1
  <2>3. q[k] # e
    BY <1>1, <2>2 DEF NoDuplicates
  <2> QED BY <1>3, <2>2, <2>3 DEF ToSet
<1>6. ASSUME NEW x \in ToSet(q) \ {e} PROVE x \in ToSet(r)
  <2>1. PICK k \in 1..Len(q) : q[k] = x
    BY <1>3 DEF ToSet
  <2> DEFINE j == IF k < i THEN k ELSE k - 1
  <2>2. k # i
    BY <1>1, <2>1
  <2>3. j \in 1..(Len(q) - 1) /\ r[j] = x
    BY <1>1, <1>2, <2>1, <2>2
  <2> QED BY <1>3, <2>3 DEF ToSet
<1> QED BY <1>2, <1>4, <1>5, <1>6 DEF r

(* The entries of r are entries of q, in the order they have there. *)
KeepsOrder(r, q) ==
  \A i, j \in 1..Len(r) : i < j =>
    \E k, l \in 1..Len(q) : k < l /\ r[i] = q[k] /\ r[j] = q[l]

(* list_del() keeps the order of the other entries. *)
LEMMA ListDelOrder ==
  ASSUME NEW T, NEW q \in Seq(T), NEW e \in ToSet(q)
  PROVE  KeepsOrder(list_del(q, e), q)
<1> DEFINE r == list_del(q, e)
           n == IndexOf(q, e)
           old(i) == IF i < n THEN i ELSE i + 1
<1>1. Len(q) \in Nat /\ Len(r) = Len(q) - 1 /\ n \in 1..Len(q)
  BY ListDelEntries, IndexOfFound
<1>2. \A i \in 1..(Len(q) - 1) : r[i] = IF i < n THEN q[i] ELSE q[i + 1]
  BY ListDelEntries
<1> HIDE DEF r, n
<1>3. \A i \in 1..Len(r) : old(i) \in 1..Len(q) /\ r[i] = q[old(i)]
  BY <1>1, <1>2
<1>4. \A i, j \in 1..Len(r) : i < j => old(i) < old(j)
  BY <1>1
<1> HIDE DEF old
<1> SUFFICES ASSUME NEW i \in 1..Len(r), NEW j \in 1..Len(r), i < j
             PROVE  \E k, l \in 1..Len(q) : k < l /\ r[i] = q[k] /\ r[j] = q[l]
  BY DEF KeepsOrder, r
<1>5. /\ old(i) \in 1..Len(q) /\ old(j) \in 1..Len(q) /\ old(i) < old(j)
      /\ r[i] = q[old(i)] /\ r[j] = q[old(j)]
  BY <1>3, <1>4
<1> QED BY <1>5

(* Contains() and the set of entries agree. *)
LEMMA ContainsToSet ==
  ASSUME NEW T, NEW q \in Seq(T), NEW e
  PROVE  Contains(q, e) <=> e \in ToSet(q)
<1>1. DOMAIN q = 1..Len(q)
  OBVIOUS
<1> QED BY <1>1 DEF Contains, ToSet

(* The empty list has no entries. *)
LEMMA EmptyList ==
  /\ ToSet(<<>>) = {}
  /\ NoDuplicates(<<>>)
  /\ \A T : <<>> \in Seq(T)
<1> QED BY DEF ToSet, NoDuplicates

(* A list is empty exactly when it has no entries. *)
LEMMA EmptyToSet ==
  ASSUME NEW T, NEW q \in Seq(T)
  PROVE  q = <<>> <=> ToSet(q) = {}
<1>1. CASE q = <<>>
  BY <1>1, EmptyList
<1>2. CASE q # <<>>
  <2>1. 1 \in DOMAIN q
    BY <1>2
  <2> QED BY <1>2, <2>1 DEF ToSet
<1> QED BY <1>1, <1>2

(* list_add() of a new entry keeps the others and adds that one. *)
LEMMA ListAdd ==
  ASSUME NEW T, NEW q \in Seq(T), NoDuplicates(q), NEW e \in T, e \notin ToSet(q)
  PROVE  /\ list_add(q, e) \in Seq(T)
         /\ ToSet(list_add(q, e)) = ToSet(q) \cup {e}
         /\ NoDuplicates(list_add(q, e))
<1> DEFINE r == list_add(q, e)
<1>1. /\ r \in Seq(T) /\ Len(r) = Len(q) + 1 /\ Len(q) \in Nat
      /\ r[1] = e
      /\ \A i \in 2..(Len(q) + 1) : r[i] = q[i - 1]
  <2>1. r = <<e>> \o q /\ <<e>> \in Seq(T) /\ Len(<<e>>) = 1
    BY DEF list_add, Cons
  <2> HIDE DEF r
  <2> QED BY <2>1
<1> HIDE DEF r
<1>2. DOMAIN r = 1..(Len(q) + 1) /\ DOMAIN q = 1..Len(q)
  BY <1>1
<1>3. ASSUME NEW x \in ToSet(r) PROVE x \in ToSet(q) \cup {e}
  <2>1. PICK i \in 1..(Len(q) + 1) : r[i] = x
    BY <1>2 DEF ToSet
  <2>2. CASE i = 1
    BY <1>1, <2>1, <2>2
  <2>3. CASE i # 1
    <3>1. i - 1 \in 1..Len(q) /\ q[i - 1] = x
      BY <1>1, <2>1, <2>3
    <3> QED BY <1>2, <3>1 DEF ToSet
  <2> QED BY <2>2, <2>3
<1>4. ASSUME NEW x \in ToSet(q) PROVE x \in ToSet(r)
  <2>1. PICK i \in 1..Len(q) : q[i] = x
    BY <1>2 DEF ToSet
  <2>2. i + 1 \in 2..(Len(q) + 1) /\ (i + 1) - 1 = i
    BY <1>1
  <2>3. r[i + 1] = x
    BY <1>1, <2>1, <2>2
  <2> QED BY <1>1, <1>2, <2>2, <2>3 DEF ToSet
<1>5. e \in ToSet(r)
  BY <1>1, <1>2 DEF ToSet
<1>6. \A i \in 1..Len(q) : q[i] # e
  BY <1>2 DEF ToSet
<1>7. NoDuplicates(r)
  <2> SUFFICES ASSUME NEW i \in 1..Len(r), NEW j \in 1..Len(r), r[i] = r[j], i # j
               PROVE  FALSE
    BY DEF NoDuplicates
  <2>1. ASSUME NEW k \in 1..Len(r), k # 1
        PROVE  k - 1 \in 1..Len(q) /\ r[k] = q[k - 1] /\ r[k] # e
    BY <1>1, <1>6, <2>1
  <2>2. i # 1 /\ j # 1
    BY <1>1, <2>1
  <2>3. q[i - 1] = q[j - 1] /\ i - 1 \in 1..Len(q) /\ j - 1 \in 1..Len(q) /\ i - 1 # j - 1
    BY <1>1, <2>1, <2>2
  <2> QED BY <2>3 DEF NoDuplicates
<1> QED BY <1>1, <1>3, <1>4, <1>5, <1>7 DEF r

(* The first entry of a list that is not empty, and the others. *)
LEMMA ListTail ==
  ASSUME NEW T, NEW q \in Seq(T), NoDuplicates(q), q # <<>>
  PROVE  /\ Head(q) \in T /\ Head(q) \in ToSet(q)
         /\ Tail(q) \in Seq(T)
         /\ ToSet(Tail(q)) = ToSet(q) \ {Head(q)}
         /\ NoDuplicates(Tail(q))
<1> DEFINE r == Tail(q)
<1>1. /\ r \in Seq(T) /\ Len(q) \in Nat /\ Len(q) > 0 /\ Len(r) = Len(q) - 1
      /\ \A i \in 1..(Len(q) - 1) : r[i] = q[i + 1]
      /\ Head(q) = q[1]
  OBVIOUS
<1> HIDE DEF r
<1>2. DOMAIN r = 1..(Len(q) - 1) /\ DOMAIN q = 1..Len(q)
  BY <1>1
<1>3. Head(q) \in T /\ Head(q) \in ToSet(q)
  BY <1>1, <1>2 DEF ToSet
<1>4. NoDuplicates(r)
  BY <1>1 DEF NoDuplicates
<1>5. ASSUME NEW x \in ToSet(r) PROVE x \in ToSet(q) \ {Head(q)}
  <2>1. PICK i \in 1..(Len(q) - 1) : r[i] = x
    BY <1>2 DEF ToSet
  <2>2. i + 1 \in 1..Len(q) /\ 1 \in 1..Len(q) /\ i + 1 # 1 /\ q[i + 1] = x
    BY <1>1, <2>1
  <2>3. q[i + 1] # q[1]
    BY <2>2 DEF NoDuplicates
  <2> QED BY <1>1, <1>2, <2>2, <2>3 DEF ToSet
<1>6. ASSUME NEW x \in ToSet(q) \ {Head(q)} PROVE x \in ToSet(r)
  <2>1. PICK i \in 1..Len(q) : q[i] = x
    BY <1>2 DEF ToSet
  <2>2. i - 1 \in 1..(Len(q) - 1) /\ (i - 1) + 1 = i
    BY <1>1, <2>1
  <2>3. r[i - 1] = x
    BY <1>1, <2>1, <2>2
  <2> QED BY <1>2, <2>2, <2>3 DEF ToSet
<1> QED BY <1>1, <1>3, <1>4, <1>5, <1>6 DEF r

============================================================================
