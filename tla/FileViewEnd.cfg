SPECIFICATION ViewSpec
CONSTANTS
  PAGE_SIZE = 8
  dram_size = 29
  BUFWIDE = 2
  BUFHIGH = 3
  incmin = 6
  incmax = 24
  Factor = 2
  MaxAddress = 40
  FILL = FILL
INVARIANT NoneBeyondEnd
CHECK_DEADLOCK FALSE
