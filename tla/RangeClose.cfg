CONSTANTS
  Slices <- TwoSlices
  Fiat <- HalfEach
  MaxFiat = 2
  Amount = 4
  Actors = {"main", "rpc", "timeout", "expirer", "sweep", "subscriber"}
  FaultKinds = {"crash", "lnd", "db", "cltv"}
  MaxFaults = 2
SPECIFICATION ScenarioSpec
INVARIANT ClosedExactly
PROPERTIES RangeResolved SlashedIsFinal
CHECK_DEADLOCK FALSE
