SPECIFICATION Spec
CONSTANTS
  c1 = c1
  c2 = c2
  c3 = c3
  zero = zero
  ann = ann
  bob = bob
  Null = Null
  Zero = zero
  Sessions <- MCSessions
  Users <- MCUsers
  MaxMessages = 3
  MaxCrowded = 2
  MaxRaced = 1
SYMMETRY MailboxSymmetry
INVARIANTS TypeOK ShownOnce OnlyAddressed QuietlyStored
CHECK_DEADLOCK FALSE
