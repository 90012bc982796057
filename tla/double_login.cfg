SPECIFICATION Spec
CONSTANTS
  c1 = c1
  c2 = c2
  c3 = c3
  small = small
  large = large
  Null = Null
  Sessions <- MCSessions
  Users <- MCUsers
  SmallIds <- MCSmallIds
  Spaced = FALSE
SYMMETRY SessionSymmetry
INVARIANT OneSessionPerUser
CHECK_DEADLOCK FALSE
