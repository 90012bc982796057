SPECIFICATION Spec
CONSTANTS
  c1 = c1
  c2 = c2
  c3 = c3
  small = small
  large = large
  Null = Null
  Sessions <- MCSessions
  Users <- MCUsers
  SmallIds <- MCSmallIds
  Spaced = TRUE
SYMMETRY SessionSymmetry
INVARIANTS OneSessionPerUser ActiveListExact OwnFoldersExist StudentListExact
PROPERTIES NoListThrows RegistryIsAtomic
CHECK_DEADLOCK FALSE
