SPECIFICATION Spec
CONSTANTS
  c1 = c1
  c2 = c2
  c3 = c3
  zero = zero
  ann = ann
  bob = bob
  Null = Null
  Zero = zero
  Sessions <- MCSessions
  Users <- ThreeUsers
  MaxMessages = 1
  MaxCrowded = 1
  MaxRaced = 1
SYMMETRY MailboxSymmetry
INVARIANT StoredForAll
CHECK_DEADLOCK FALSE
