-------------------------------- MODULE Dram --------------------------------
(***************************************************************************)
(* src/module/memory/Access_Physical_Memory/dram.c: a character device     *)
(* that reads as the physical memory.  The methods of my_fops are          *)
(* operators of the file position; a byte is named by its address.         *)
(***************************************************************************)
EXTENDS Integers

CONSTANTS
  PAGE_SIZE,
  dram_size   \* "total bytes of system memory", fixed in dram_init()

ASSUME PageSizeAssumption == PAGE_SIZE \in Nat \ {0}
ASSUME DramSizeAssumption == dram_size \in Nat

EINVAL == -22

(* my_read(): the number of bytes it asks copy_to_user() to copy: nothing  *)
(* from the end of the memory on, else at most up to the end of the page.  *)
my_read_count(pos, count) ==
  LET page_indent == pos % PAGE_SIZE
  IN  IF pos >= dram_size THEN 0
      ELSE IF page_indent + count > PAGE_SIZE THEN PAGE_SIZE - page_indent
      ELSE count

(* my_llseek(): the new position, or -EINVAL. *)
my_llseek(f_pos, offset, whence) ==
  LET newpos == CASE whence = "SEEK_SET" -> offset
                  [] whence = "SEEK_CUR" -> f_pos + offset
                  [] whence = "SEEK_END" -> dram_size + offset
  IN  IF newpos < 0 \/ newpos > dram_size THEN EINVAL ELSE newpos

=============================================================================
