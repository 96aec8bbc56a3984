CONSTANTS
  Slices <- TwoSlices
  Fiat <- HalfEach
  MaxFiat = 2
  Amount = 4
  Actors = {"main", "sweep"}
  FaultKinds = {}
  MaxFaults = 0
SPECIFICATION Spec
INVARIANT PaidIsBacked
CHECK_DEADLOCK FALSE
