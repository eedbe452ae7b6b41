SPECIFICATION Spec
CONSTANTS
  h1 = h1
  h2 = h2
  e1 = e1
  e2 = e2
  e3 = e3
  e4 = e4
  Heads = {h1, h2}
  Entries = {e1, e2, e3, e4}
  LIST_POISON1 = LIST_POISON1
  LIST_POISON2 = LIST_POISON2
SYMMETRY CellSymmetry
INVARIANTS
  Represents
  TestsRight
  LoopSound
