SPECIFICATION Spec
CONSTANTS
  Modulus = 64
  Seg = 4
  InitCwnd = 16
  Alpha = 1
  BwUnit = 1
  Rtts <- MCRtts
  Gaps <- MCGaps
  MaxAcked = 2
  Never = Never
  Garbage = Garbage
  Infinite = Infinite
INVARIANTS TypeOK SamplesSound
PROPERTIES WindowFloor ShrinksOnlyToBackOff LossBacksOff
