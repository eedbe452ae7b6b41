------------------------------ MODULE ListHead ------------------------------
(***************************************************************************)
(* Lists under use: any sequence of calls of the functions of ListOps that *)
(* respects what list.h asks of its callers.                               *)
(*                                                                         *)
(* mem is the memory the functions write.  lists, solo and valid exist in  *)
(* the model only.  They say what a caller knows: the entries of each list *)
(* in order, the entries that are initialised and on no list, and the      *)
(* heads that are in use.  The guards are the conditions list.h puts on    *)
(* its callers; what the functions do to lists is given by ListSeq.        *)
(***************************************************************************)
EXTENDS ListOps, Integers, Sequences, FiniteSets

CONSTANTS
  Heads,    \* the cells used as list heads
  Entries   \* the cells that are members of entries

Cells == Heads \cup Entries

Poison == {LIST_POISON1, LIST_POISON2}

ASSUME CellsAssumption == Heads \cap Entries = {} /\ Cells \cap Poison = {}
ASSUME PoisonAssumption == LIST_POISON1 # LIST_POISON2

LS == INSTANCE ListSeq

VARIABLES
  mem,    \* the fields next and prev of all cells
  lists,  \* the entries of each list, in order
  solo,   \* entries that point to themselves
  valid,  \* heads in use; the others hold pointers not to be followed
  iter    \* a list_for_each_entry_safe() loop, see NoLoop

vars == <<mem, lists, solo, valid, iter>>

----------------------------------------------------------------------------
(* What callers know and must respect *)

On(h, e) == h \in valid /\ LS!Contains(lists[h], e)

Linked(e) == \E h \in valid : On(h, e)

(* May be linked into a list: not yet initialised, deleted, or initialised. *)
Loose(e) == ~Linked(e)

(* Cells that __list_del() may be applied to. *)
Deletable(e) == Linked(e) \/ e \in solo

(* lists after e was taken off the list it is on, if it is on one. *)
Without(e) ==
  [h \in Heads |-> IF On(h, e) THEN LS!list_del(lists[h], e) ELSE lists[h]]

(* No loop is under way. *)
NoLoop == [phase |-> "none"]

NotIterating == iter = NoLoop

(* In the body of a loop only the cursor may be unlinked; while its lock   *)
(* is dropped anything but the cursor may.                                 *)
MayUnlink(e) ==
  /\ iter.phase = "body" => e = iter.pos
  /\ iter.phase = "unlocked" => e # iter.pos

(* The loop does not owe e a visit any more. *)
Forget(e) == IF NotIterating THEN iter ELSE [iter EXCEPT !.todo = @ \ {e}]

MayLink(h) == iter.phase = "body" => h # iter.head

Init ==
  /\ mem = [next |-> [c \in Cells |-> IF c \in Heads THEN c ELSE LIST_POISON1],
            prev |-> [c \in Cells |-> IF c \in Heads THEN c ELSE LIST_POISON2]]
  /\ lists = [h \in Heads |-> <<>>]
  /\ solo = {}
  /\ valid = Heads
  /\ iter = NoLoop

----------------------------------------------------------------------------
(* Calls on entries *)

InitEntry(e) ==
  /\ Loose(e)
  /\ mem' = INIT_LIST_HEAD(mem, e)
  /\ solo' = solo \cup {e}
  /\ UNCHANGED <<lists, valid, iter>>

Add(e, h) ==
  /\ Loose(e) /\ h \in valid /\ MayLink(h)
  /\ \/ /\ mem' = list_add(mem, e, h)
        /\ lists' = [lists EXCEPT ![h] = LS!list_add(@, e)]
     \/ /\ mem' = list_add_tail(mem, e, h)
        /\ lists' = [lists EXCEPT ![h] = LS!list_add_tail(@, e)]
  /\ solo' = solo \ {e}
  /\ UNCHANGED <<valid, iter>>

Del(e) ==
  /\ Deletable(e) /\ MayUnlink(e)
  /\ lists' = Without(e)
  /\ \/ mem' = list_del(mem, e) /\ solo' = solo \ {e}
     \/ mem' = list_del_init(mem, e) /\ solo' = solo \cup {e}
  /\ iter' = Forget(e)
  /\ UNCHANGED valid

(* The entry may be on the very list it is moved to. *)
Move(e, h) ==
  /\ Deletable(e) /\ h \in valid /\ MayUnlink(e) /\ MayLink(h)
  /\ \/ /\ mem' = list_move(mem, e, h)
        /\ lists' = [Without(e) EXCEPT ![h] = LS!list_add(@, e)]
     \/ /\ mem' = list_move_tail(mem, e, h)
        /\ lists' = [Without(e) EXCEPT ![h] = LS!list_add_tail(@, e)]
  /\ solo' = solo \ {e}
  /\ iter' = Forget(e)
  /\ UNCHANGED valid

(* f takes the place of e. *)
Replace(e, f) ==
  /\ NotIterating
  /\ Linked(e) /\ Loose(f)
  /\ lists' = [h \in Heads |->
                 IF On(h, e) THEN [lists[h] EXCEPT ![LS!IndexOf(lists[h], e)] = f]
                             ELSE lists[h]]
  /\ \/ mem' = list_replace(mem, e, f) /\ solo' = solo \ {f}
     \/ mem' = list_replace_init(mem, e, f) /\ solo' = (solo \ {f}) \cup {e}
  /\ UNCHANGED <<valid, iter>>

----------------------------------------------------------------------------
(* Calls on whole lists *)

InitHead(h) ==
  /\ h \notin valid
  /\ mem' = INIT_LIST_HEAD(mem, h)
  /\ lists' = [lists EXCEPT ![h] = <<>>]
  /\ valid' = valid \cup {h}
  /\ UNCHANGED <<solo, iter>>

(* A head that holds no entries anybody cares for. *)
Disposable(g) == g \in valid => lists[g] = <<>>

(* g takes the place of the head h, as when a list is moved to a local     *)
(* head.  "If @old was empty, it will be overwritten."                     *)
ReplaceHead(h, g) ==
  /\ NotIterating
  /\ h # g /\ h \in valid /\ Disposable(g)
  /\ lists' = [lists EXCEPT ![g] = lists[h], ![h] = <<>>]
  /\ \/ mem' = list_replace(mem, h, g) /\ valid' = (valid \ {h}) \cup {g}
     \/ mem' = list_replace_init(mem, h, g) /\ valid' = valid \cup {g}
  /\ UNCHANGED <<solo, iter>>

RotateLeft(h) ==
  /\ NotIterating
  /\ h \in valid
  /\ mem' = list_rotate_left(mem, h)
  /\ lists' = [lists EXCEPT ![h] = IF @ = <<>> THEN @ ELSE Append(Tail(@), Head(@))]
  /\ UNCHANGED <<solo, valid, iter>>

(* The entries of h up to c go to g, none if c is h itself.  An empty h    *)
(* leaves g as it was, initialised or not.                                 *)
CutPosition(g, h, c) ==
  LET cut == IF c = h THEN 0 ELSE LS!IndexOf(lists[h], c)
  IN  /\ mem' = list_cut_position(mem, g, h, c)
      /\ lists' = [lists EXCEPT ![g] = SubSeq(lists[h], 1, cut),
                                ![h] = SubSeq(lists[h], cut + 1, Len(lists[h]))]
      /\ valid' = IF lists[h] = <<>> THEN valid ELSE valid \cup {g}

Cut(g, h) ==
  /\ NotIterating
  /\ h # g /\ h \in valid /\ Disposable(g)
  /\ \E c \in {h} \cup LS!ToSet(lists[h]) : CutPosition(g, h, c)
  /\ UNCHANGED <<solo, iter>>

SpliceFront(g, h) == lists' = [lists EXCEPT ![h] = lists[g] \o @, ![g] = <<>>]

SpliceEnd(g, h) == lists' = [lists EXCEPT ![h] = @ \o lists[g], ![g] = <<>>]

Unusable(g) == valid' = IF lists[g] = <<>> THEN valid ELSE valid \ {g}

(* All entries of g go to the front or to the end of h.  Without _init, g  *)
(* is not usable afterwards unless it was empty.                           *)
Splice(g, h) ==
  /\ NotIterating
  /\ h # g /\ {g, h} \subseteq valid
  /\ \/ mem' = list_splice(mem, g, h) /\ SpliceFront(g, h) /\ Unusable(g)
     \/ mem' = list_splice_tail(mem, g, h) /\ SpliceEnd(g, h) /\ Unusable(g)
     \/ mem' = list_splice_init(mem, g, h) /\ SpliceFront(g, h) /\ UNCHANGED valid
     \/ mem' = list_splice_tail_init(mem, g, h) /\ SpliceEnd(g, h) /\ UNCHANGED valid
  /\ UNCHANGED <<solo, iter>>

----------------------------------------------------------------------------
(* list_for_each_entry_safe(pos, n, head), its _reverse variant, and       *)
(* list_safe_reset_next().  dir is the field the loop follows.             *)

(* todo: the entries that were on the list when the loop began, have not   *)
(* left it since and have not been visited.                                *)
BeginLoop(h, dir) ==
  LET first == mem[dir][h]
  IN  /\ NotIterating
      /\ h \in valid
      /\ iter' = IF first = h THEN NoLoop
                 ELSE [phase |-> "body", dir |-> dir, head |-> h,
                       pos |-> first, n |-> mem[dir][first],
                       todo |-> LS!ToSet(lists[h]) \ {first}]
      /\ UNCHANGED <<mem, lists, solo, valid>>

(* The loop ends when it is back at the head. *)
NextTurn ==
  LET pos == iter.n
  IN  iter' = IF pos = iter.head THEN NoLoop
              ELSE [iter EXCEPT !.pos = pos, !.n = mem[iter.dir][pos],
                                !.todo = @ \ {pos}]

AdvanceLoop ==
  /\ iter.phase = "body"
  /\ NextTurn
  /\ UNCHANGED <<mem, lists, solo, valid>>

(* The body drops the lock of the list while the cursor stays linked. *)
DropLock ==
  /\ iter.phase = "body" /\ iter.dir = "next" /\ On(iter.head, iter.pos)
  /\ iter' = [iter EXCEPT !.phase = "unlocked"]
  /\ UNCHANGED <<mem, lists, solo, valid>>

(* Faulty: the loop goes on with the old n. *)
list_safe_reset_next_Stale == iter.n

list_safe_reset_next == mem.next[iter.pos]

RetakeLock ==
  /\ iter.phase = "unlocked"
  /\ iter' = [iter EXCEPT !.phase = "body", !.n = list_safe_reset_next]
  /\ UNCHANGED <<mem, lists, solo, valid>>

Next ==
  \/ \E e \in Entries :
       \/ InitEntry(e) \/ Del(e)
       \/ \E h \in Heads : Add(e, h) \/ Move(e, h)
       \/ \E f \in Entries : Replace(e, f)
  \/ \E h \in Heads :
       \/ InitHead(h) \/ RotateLeft(h)
       \/ \E dir \in {"next", "prev"} : BeginLoop(h, dir)
       \/ \E g \in Heads : ReplaceHead(h, g) \/ Cut(g, h) \/ Splice(g, h)
  \/ AdvanceLoop \/ DropLock \/ RetakeLock

Spec == Init /\ [][Next]_vars

----------------------------------------------------------------------------

(* The cells of list h from one end to the other and back to the head. *)
Ring(h) == <<h>> \o lists[h] \o <<h>>

(* The pointers always spell out the lists the callers expect, forwards in *)
(* next and backwards in prev, however adds, deletes, moves, replacements, *)
(* cuts and splices follow each other; an entry initialised or removed     *)
(* with list_del_init() points to itself.  Aliasing is what could break    *)
(* it: empty and singular lists, moves within a list, empty replacements.  *)
Represents ==
  /\ \A h \in valid : \A i \in 1..(Len(lists[h]) + 1) :
       /\ mem.next[Ring(h)[i]] = Ring(h)[i + 1]
       /\ mem.prev[Ring(h)[i + 1]] = Ring(h)[i]
  /\ \A e \in solo : mem.next[e] = e /\ mem.prev[e] = e

(* The tests of list.h answer what they claim, from one or two pointers;   *)
(* list_empty() of an entry tells whether it is initialised and unlinked   *)
(* and is false after list_del().                                          *)
TestsRight ==
  /\ \A h \in valid :
       /\ list_empty(mem, h) <=> lists[h] = <<>>
       /\ list_empty_careful(mem, h) <=> lists[h] = <<>>
       /\ list_is_singular(mem, h) <=> Len(lists[h]) = 1
       /\ \A e \in LS!ToSet(lists[h]) :
            list_is_last(mem, e, h) <=> e = LS!Last(lists[h])
  /\ \A e \in Entries : list_empty(mem, e) <=> e \in solo

(* A loop that removes its cursor, or that drops the lock and resets n, is *)
(* not led astray: n is the head or an entry of the list, the one after    *)
(* the cursor if that is still linked, and every entry still owed a visit  *)
(* comes at n or later.                                                    *)
LoopSound ==
  iter.phase = "body" =>
    LET ring == IF iter.dir = "next" THEN Ring(iter.head) ELSE LS!Reverse(Ring(iter.head))
    IN  \E i \in 2..Len(ring) :
          /\ iter.n = ring[i]
          /\ On(iter.head, iter.pos) => ring[i - 1] = iter.pos
          /\ iter.todo \subseteq {ring[j] : j \in i..Len(ring)}

============================================================================
