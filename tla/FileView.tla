------------------------------ MODULE FileView ------------------------------
(***************************************************************************)
(* src/module/memory/Access_Physical_Memory/fileview.cpp, used on the      *)
(* device of dram.c: a window of BUFHIGH lines of BUFWIDE bytes is filled  *)
(* with read() calls, which end at page boundaries, and moved with keys.   *)
(* The hexadecimal formats and the drawing are left out: the window is     *)
(* what buffer holds.                                                      *)
(***************************************************************************)
EXTENDS Dram

CONSTANTS
  BUFWIDE, BUFHIGH,  \* 16 and 16 in the source
  incmin, incmax,    \* bounds of the page increment, 2^8 and 2^36
  Factor,            \* what the increment is multiplied or divided by, 2^4
  MaxAddress,        \* bound on the addresses typed at the seek prompt
  FILL               \* the byte that means nothing was read

BUFSIZE == BUFWIDE * BUFHIGH

ASSUME FileViewAssumption ==
  /\ BUFWIDE \in Nat \ {0} /\ BUFHIGH \in Nat \ {0}
  /\ Factor \in Nat \ {0, 1} /\ MaxAddress \in Nat
  /\ incmin \in Nat \ {0} /\ incmax \in Nat /\ incmin <= incmax
  /\ incmin % BUFWIDE = 0 /\ incmax % BUFWIDE = 0

VARIABLES
  pc,        \* "draw": top of the main loop; "read": filling the buffer;
             \* "key": waiting for a key; "done"
  f_pos,     \* the position of the open file
  position,  \* where the window starts
  pageincr,
  buffer,    \* the bytes of the window, numbered from 0
  to_read

view_vars == <<pc, f_pos, position, pageincr, buffer, to_read>>

(* & ~0xF *)
Align(x) == x - (x % BUFWIDE)

filesize == my_llseek(0, 0, "SEEK_END")

posmin == 0

(* Faulty: the last line of the file cannot be reached. *)
posmax_Short == IF filesize < BUFSIZE THEN posmin ELSE Align(filesize - BUFSIZE)

(* (filesize - 241) & ~0xF: the last position whose bottom line is not     *)
(* empty.                                                                  *)
posmax ==
  LET last == Align(filesize - (BUFSIZE - BUFWIDE + 1))
  IN  IF last < posmin THEN posmin ELSE last

Erased == [j \in 0..(BUFSIZE - 1) |-> FILL]

(* main(), up to its loop *)
ViewInit ==
  /\ pc = "draw"
  /\ f_pos = filesize
  /\ position = 0
  /\ pageincr = incmin
  /\ buffer = Erased
  /\ to_read = BUFSIZE

(* The increment back in its bounds. *)
BoundedIncr(i) ==
  CASE i = 0 -> incmax
    [] i > 0 /\ i < incmin -> incmin
    [] i > incmax -> incmax
    [] OTHER -> i

(* The top of the loop: the buffer is erased and the file positioned. *)
Draw ==
  /\ pc = "draw"
  /\ buffer' = Erased
  /\ pageincr' = BoundedIncr(pageincr)
  /\ LET location == my_llseek(f_pos, position, "SEEK_SET")
     IN  f_pos' = IF location >= 0 THEN location ELSE f_pos
  /\ to_read' = BUFSIZE
  /\ pc' = "read"
  /\ UNCHANGED position

(* Faulty: every part is read to the start of the buffer. *)
Read_SamePlace ==
  LET nbytes == my_read_count(f_pos, to_read)
  IN  /\ pc = "read"
      /\ buffer' = [j \in DOMAIN buffer |-> IF j < nbytes THEN f_pos + j ELSE buffer[j]]
      /\ f_pos' = f_pos + nbytes
      /\ to_read' = to_read - nbytes
      /\ pc' = IF nbytes <= 0 \/ to_read' = 0 THEN "key" ELSE "read"
      /\ UNCHANGED <<position, pageincr>>

(* One read() of the loop that fills the buffer.  It ends when the buffer  *)
(* is full or nothing was read.                                            *)
Read ==
  LET nbytes == my_read_count(f_pos, to_read)
      where == BUFSIZE - to_read
  IN  /\ pc = "read"
      /\ buffer' = [j \in DOMAIN buffer |->
                      IF j \in where..(where + nbytes - 1) THEN f_pos + (j - where)
                                                           ELSE buffer[j]]
      /\ f_pos' = f_pos + nbytes
      /\ to_read' = to_read - nbytes
      /\ pc' = IF nbytes <= 0 \/ to_read' = 0 THEN "key" ELSE "read"
      /\ UNCHANGED <<position, pageincr>>

(* "insure that 'position' remains within bounds" *)
Clamp(p) ==
  CASE p < posmin -> posmin
    [] p > posmax -> posmax
    [] OTHER -> p

MoveTo(p) ==
  /\ pc = "key"
  /\ position' = Clamp(p)
  /\ pc' = "draw"
  /\ UNCHANGED <<f_pos, pageincr, buffer, to_read>>

(* Home, End, line and page down and up, and the keys that move nothing *)
Navigate ==
  \E p \in {posmin, posmax, position + BUFWIDE, position - BUFWIDE,
            position + pageincr, position - pageincr, position} : MoveTo(p)

(* The seek prompt: strtoull() of what is typed, which may wrap, is        *)
(* aligned.                                                                *)
Seek == \E address \in (-BUFWIDE)..MaxAddress : MoveTo(Align(address))

(* Right and Left *)
ChangeIncr ==
  /\ pc = "key"
  /\ pageincr' \in {pageincr \div Factor, pageincr * Factor}
  /\ pc' = "draw"
  /\ UNCHANGED <<f_pos, position, buffer, to_read>>

Quit ==
  /\ pc = "key"
  /\ pc' = "done"
  /\ UNCHANGED <<f_pos, position, pageincr, buffer, to_read>>

ViewNext == Draw \/ Read \/ Navigate \/ Seek \/ ChangeIncr \/ Quit

ViewSpec == ViewInit /\ [][ViewNext]_view_vars

----------------------------------------------------------------------------

(* When the user sees the window, it shows every byte of the file that     *)
(* falls into it, in its place, however the reads were split at page       *)
(* boundaries.  What it shows past the end of the file is NoneBeyondEnd.   *)
WindowShown ==
  pc = "key" =>
    \A j \in 0..(BUFSIZE - 1) : position + j < filesize => buffer[j] = position + j

(* "we cannot read beyond the end-of-file", says my_read() in dram.c: then *)
(* the part of a window that is past the end of the file shows nothing.    *)
NoneBeyondEnd ==
  pc = "key" =>
    \A j \in 0..(BUFSIZE - 1) : position + j >= filesize => buffer[j] = FILL

(* The End key, or moving down, reaches the last byte of the file.         *)
EndReached ==
  pc = "key" /\ position = posmax /\ filesize > 0 =>
    \E j \in 0..(BUFSIZE - 1) : buffer[j] = filesize - 1

=============================================================================
