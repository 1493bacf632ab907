SPECIFICATION FairSpec
CONSTANTS
  n1 = n1
  n2 = n2
  n3 = n3
  Node = {n1, n2, n3}
  Link = {l1, l2}
  Grids <- SmallGrids
  None = None
INVARIANTS TypeOK MastersShare
PROPERTIES FetchEnds EmptiedIsRefilled
CHECK_DEADLOCK FALSE
