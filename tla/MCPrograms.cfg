SPECIFICATION ProgramsSpec
CONSTANTS
  fir = fir
  sec = sec
  third = third
  ArpEntries = {fir, sec, third}
  arp_table = arp_table
  NULL = NULL
  LIST_POISON1 = LIST_POISON1
  LIST_POISON2 = LIST_POISON2
  Ips = {1, 2, 3}
  PAGE_SIZE = 8
  dram_size = 29
  BUFWIDE = 2
  BUFHIGH = 3
  incmin = 6
  incmax = 24
  Factor = 2
  MaxAddress = 40
  FILL = FILL
INVARIANTS
  PrintsTable
  LookupRight
  WindowShown
  EndReached
CHECK_DEADLOCK FALSE
