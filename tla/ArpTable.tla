------------------------------ MODULE ArpTable ------------------------------
(***************************************************************************)
(* src/list_example/main.c: an ARP table kept in a list.  main() adds      *)
(* three entries with list_add_tail(), prints them in a list_for_each()    *)
(* loop, looks an address up with ht_get_dst_macaddr() and prints the      *)
(* hardware address through the pointer it got, and frees the entries.     *)
(* The addresses main() uses, 1, 2 and 3, looking up 2, are among those    *)
(* checked: the model takes any.                                           *)
(*                                                                         *)
(* A pointer to hw_addr is represented by its entry.  One turn of a loop   *)
(* is an action.                                                           *)
(***************************************************************************)
EXTENDS ListOps, Integers, SequencesExt

CONSTANTS
  arp_table,  \* the list head
  ArpEntries, \* the entries main() allocates
  Ips,        \* IP addresses
  NULL

ASSUME TableAssumption == arp_table \notin ArpEntries /\ NULL \notin ArpEntries

VARIABLES
  arp_mem,  \* the list pointers
  ip,       \* the ip field of each entry; those of one program run
  added,    \* the entries added so far, in the order of the calls
  arp_pc,   \* "add", "print", "lookup", "print_mac", "free", "done"
            \* or "crashed"
  cursor,   \* the loop variable of list_for_each()
  printed,  \* the addresses printed so far
  dip,      \* the argument of ht_get_dst_macaddr()
  dstmac,   \* what it returned
  freed     \* entries that were freed

arp_vars == <<arp_mem, ip, added, arp_pc, cursor, printed, dip, dstmac, freed>>

ArpInit ==
  /\ arp_mem = [next |-> [c \in ArpEntries \cup {arp_table} |-> IF c = arp_table THEN c ELSE NULL],
                prev |-> [c \in ArpEntries \cup {arp_table} |-> IF c = arp_table THEN c ELSE NULL]]
  /\ ip \in [ArpEntries -> Ips]
  /\ dip \in Ips
  /\ added = <<>>
  /\ arp_pc = "add"
  /\ cursor = NULL
  /\ printed = <<>>
  /\ dstmac = NULL
  /\ freed = {}

(* Faulty: list_add() puts the entry in front. *)
AddEntry_Front(e) ==
  /\ arp_pc = "add" /\ ~Contains(added, e)
  /\ arp_mem' = list_add(arp_mem, e, arp_table)
  /\ added' = Append(added, e)
  /\ IF ToSet(added') = ArpEntries
     THEN arp_pc' = "print" /\ cursor' = arp_mem'.next[arp_table]
     ELSE UNCHANGED <<arp_pc, cursor>>
  /\ UNCHANGED <<ip, printed, dip, dstmac, freed>>

(* main(): an entry is filled in and added; after the last one the print   *)
(* loop starts.                                                            *)
AddEntry(e) ==
  /\ arp_pc = "add" /\ ~Contains(added, e)
  /\ arp_mem' = list_add_tail(arp_mem, e, arp_table)
  /\ added' = Append(added, e)
  /\ IF ToSet(added') = ArpEntries
     THEN arp_pc' = "print" /\ cursor' = arp_mem'.next[arp_table]
     ELSE UNCHANGED <<arp_pc, cursor>>
  /\ UNCHANGED <<ip, printed, dip, dstmac, freed>>

(* One turn of the print loop, or the call that follows it. *)
PrintEntry ==
  /\ arp_pc = "print"
  /\ IF cursor # arp_table
     THEN /\ printed' = Append(printed, ip[cursor])
          /\ cursor' = arp_mem.next[cursor]
          /\ UNCHANGED arp_pc
     ELSE /\ arp_pc' = "lookup"
          /\ cursor' = arp_mem.next[arp_table]
          /\ UNCHANGED printed
  /\ UNCHANGED <<arp_mem, ip, added, dip, dstmac, freed>>

(* Faulty: the loop ends before the last entry is compared. *)
ht_get_dst_macaddr_ShortLoop ==
  /\ arp_pc = "lookup"
  /\ IF list_is_last(arp_mem, cursor, arp_table) \/ ip[cursor] = dip
     THEN /\ arp_pc' = "print_mac"
          /\ dstmac' = IF list_is_last(arp_mem, cursor, arp_table) THEN NULL ELSE cursor
          /\ UNCHANGED cursor
     ELSE /\ cursor' = arp_mem.next[cursor]
          /\ UNCHANGED <<arp_pc, dstmac>>
  /\ UNCHANGED <<arp_mem, ip, added, printed, dip, freed>>

(* One turn of the loop of ht_get_dst_macaddr(). *)
ht_get_dst_macaddr ==
  /\ arp_pc = "lookup"
  /\ IF cursor = arp_table \/ ip[cursor] = dip
     THEN /\ arp_pc' = "print_mac"
          /\ dstmac' = IF cursor = arp_table THEN NULL ELSE cursor
          /\ UNCHANGED cursor
     ELSE /\ cursor' = arp_mem.next[cursor]
          /\ UNCHANGED <<arp_pc, dstmac>>
  /\ UNCHANGED <<arp_mem, ip, added, printed, dip, freed>>

(* main() prints through dstmac without looking at it: with NULL the       *)
(* program dies.                                                           *)
PrintMac ==
  /\ arp_pc = "print_mac"
  /\ arp_pc' = IF dstmac = NULL THEN "crashed" ELSE "free"
  /\ UNCHANGED <<arp_mem, ip, added, cursor, printed, dip, dstmac, freed>>

(* The entries are freed without being taken off the list. *)
Free ==
  /\ arp_pc = "free"
  /\ freed' = freed \cup {added[Cardinality(freed) + 1]}
  /\ arp_pc' = IF freed' = ArpEntries THEN "done" ELSE "free"
  /\ UNCHANGED <<arp_mem, ip, added, cursor, printed, dip, dstmac>>

ArpNext ==
  (\E e \in ArpEntries : AddEntry(e)) \/ PrintEntry \/ ht_get_dst_macaddr \/ PrintMac \/ Free

ArpSpec == ArpInit /\ [][ArpNext]_arp_vars

----------------------------------------------------------------------------

(* When the print loop is over it has printed every address once, in the   *)
(* order of the list_add_tail() calls.                                     *)
PrintsTable ==
  arp_pc \notin {"add", "print"} => printed = [i \in 1..Len(added) |-> ip[added[i]]]

(* ht_get_dst_macaddr() returns the entry added first of those with the    *)
(* address, and NULL exactly if there is none: main(), which follows the   *)
(* pointer unseen, dies if the address is not in the table, and only then. *)
LookupRight ==
  /\ arp_pc \notin {"add", "print", "lookup"} =>
       \/ dstmac = NULL /\ \A e \in ArpEntries : ip[e] # dip
       \/ \E i \in 1..Len(added) :
            /\ dstmac = added[i] /\ ip[added[i]] = dip
            /\ \A j \in 1..(i - 1) : ip[added[j]] # dip
  /\ arp_pc = "crashed" => \A e \in ArpEntries : ip[e] # dip
  /\ arp_pc \in {"free", "done"} => \E e \in ArpEntries : ip[e] = dip

============================================================================
