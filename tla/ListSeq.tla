------------------------------ MODULE ListSeq ------------------------------
(***************************************************************************)
(* What the operations of the kernel's struct list_head promise, on the    *)
(* sequence of entries a list head leads to, first entry first.  Modules   *)
(* of code that uses a list as a queue work with these; ListHead.tla is    *)
(* the pointer-level code, shown to implement them.                        *)
(***************************************************************************)
EXTENDS Integers, SequencesExt

IndexOf(q, e) == CHOOSE i \in 1..Len(q) : q[i] = e

NoDuplicates(q) == \A i, j \in 1..Len(q) : q[i] = q[j] => i = j

list_add_tail(q, e) == Append(q, e)

list_add(q, e) == Cons(e, q)

list_del(q, e) == RemoveAt(q, IndexOf(q, e))

============================================================================
