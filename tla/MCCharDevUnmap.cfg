SPECIFICATION Spec
CONSTANTS
  mychar = mychar
  dram = dram
  other = other
  n200 = n200
  m200 = m200
  n85 = n85
  o1 = o1
  o2 = o2
  o3 = o3
  Drivers = {dram, other}
  MajorOf <- MCMajorOf
  Careless = {}
  Nodes = {n85}
  NodeMajor <- MCNodeMajor
  Openers = {o1}
  NULL = NULL
INVARIANT FreedIsUnmapped
