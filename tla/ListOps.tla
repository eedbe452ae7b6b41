------------------------------ MODULE ListOps ------------------------------
(***************************************************************************)
(* The functions of src/list_example/list.h (the file is                   *)
(* include/linux/list.h of the kernel, made to compile in user space).     *)
(*                                                                         *)
(* A memory m holds the next and prev fields of all struct list_head       *)
(* cells, those that are list heads and those inside entries.  A function  *)
(* of list.h is an operator from a memory to the memory after it,          *)
(* assignment by assignment, under its name in the source                  *)
(* (list_add_between is __list_add, and so on).                            *)
(***************************************************************************)
CONSTANTS LIST_POISON1, LIST_POISON2  \* the pointers a deleted entry holds

SetNext(m, c, v) == [m EXCEPT !.next[c] = v]

SetPrev(m, c, v) == [m EXCEPT !.prev[c] = v]

INIT_LIST_HEAD(m, list) == SetPrev(SetNext(m, list, list), list, list)

(* __list_add() *)
list_add_between(m, new, pv, nx) ==
  SetNext(SetPrev(SetNext(SetPrev(m, nx, new), new, nx), new, pv), pv, new)

list_add(m, new, head) == list_add_between(m, new, head, m.next[head])

list_add_tail(m, new, head) == list_add_between(m, new, m.prev[head], head)

(* __list_del() *)
list_del_between(m, pv, nx) == SetNext(SetPrev(m, nx, pv), pv, nx)

list_del_entry(m, entry) == list_del_between(m, m.prev[entry], m.next[entry])

list_del(m, entry) ==
  SetPrev(SetNext(list_del_entry(m, entry), entry, LIST_POISON1),
          entry, LIST_POISON2)

(* Faulty: both pointers of old are read before anything is written, which *)
(* goes wrong when old is empty.                                           *)
list_replace_ReadFirst(m, old, new) ==
  LET m1 == SetPrev(SetNext(m, new, m.next[old]), new, m.prev[old])
  IN  SetNext(SetPrev(m1, m.next[old], new), m.prev[old], new)

list_replace(m, old, new) ==
  LET m1 == SetNext(m, new, m.next[old])
      m2 == SetPrev(m1, m1.next[new], new)
      m3 == SetPrev(m2, new, m2.prev[old])
  IN  SetNext(m3, m3.prev[new], new)

list_replace_init(m, old, new) == INIT_LIST_HEAD(list_replace(m, old, new), old)

list_del_init(m, entry) == INIT_LIST_HEAD(list_del_entry(m, entry), entry)

list_move(m, list, head) == list_add(list_del_entry(m, list), list, head)

list_move_tail(m, list, head) == list_add_tail(list_del_entry(m, list), list, head)

list_is_last(m, list, head) == m.next[list] = head

list_empty(m, head) == m.next[head] = head

list_empty_careful(m, head) == m.next[head] = head /\ m.next[head] = m.prev[head]

list_rotate_left(m, head) ==
  IF list_empty(m, head) THEN m ELSE list_move_tail(m, m.next[head], head)

(* Faulty: also true of an empty list. *)
list_is_singular_OrEmpty(m, head) == m.next[head] = m.prev[head]

list_is_singular(m, head) ==
  ~list_empty(m, head) /\ m.next[head] = m.prev[head]

(* __list_cut_position() *)
list_cut_at(m, list, head, entry) ==
  LET new_first == m.next[entry]
      m1 == SetNext(m, list, m.next[head])
      m2 == SetPrev(m1, m1.next[list], list)
      m3 == SetNext(SetPrev(m2, list, entry), entry, list)
  IN  SetPrev(SetNext(m3, head, new_first), new_first, head)

list_cut_position(m, list, head, entry) ==
  CASE list_empty(m, head) -> m
    [] ~list_empty(m, head) /\ list_is_singular(m, head)
         /\ m.next[head] # entry /\ head # entry -> m
    [] OTHER -> IF entry = head THEN INIT_LIST_HEAD(m, list)
                                ELSE list_cut_at(m, list, head, entry)

(* __list_splice() *)
list_splice_between(m, list, pv, nx) ==
  LET first == m.next[list]
      last == m.prev[list]
  IN  SetPrev(SetNext(SetNext(SetPrev(m, first, pv), pv, first), last, nx), nx, last)

list_splice(m, list, head) ==
  IF list_empty(m, list) THEN m
  ELSE list_splice_between(m, list, head, m.next[head])

list_splice_tail(m, list, head) ==
  IF list_empty(m, list) THEN m
  ELSE list_splice_between(m, list, m.prev[head], head)

list_splice_init(m, list, head) ==
  IF list_empty(m, list) THEN m
  ELSE INIT_LIST_HEAD(list_splice_between(m, list, head, m.next[head]), list)

list_splice_tail_init(m, list, head) ==
  IF list_empty(m, list) THEN m
  ELSE INIT_LIST_HEAD(list_splice_between(m, list, m.prev[head], head), list)

============================================================================
