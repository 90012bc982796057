SPECIFICATION FairSpec
CONSTANTS
  c1 = c1
  c2 = c2
  c3 = c3
  small = small
  large = large
  Null = Null
  Sessions <- TwoSessions
  Users <- MCUsers
  SmallIds <- MCSmallIds
  Spaced = FALSE
INVARIANTS TypeOK RegisteredHasFolder
PROPERTIES LoginEnds EventuallyPrompted LookupEndsEventually FolderAppears
CHECK_DEADLOCK FALSE
