SPECIFICATION EitherSpec
CONSTANTS
  b1 = b1
  b2 = b2
  b3 = b3
  x = x
  y = y
  Bonds = {b1, b2}
  Takers = {x, y}
  Owner <- OneEach
  Main = main
  Expirer = expirer
  None = none
  TakersCancel = FALSE
  Expiry = TRUE
  FaultKinds = {"crash", "lnd", "stream", "db"}
  MaxFaults = 2
INVARIANTS OneLockedTaker ReleasedIsReturned
PROPERTIES RaceResumesLocked CanceledIsFinal HeldIsReleased
\* the window closes with the order canceled, expired or taken
CHECK_DEADLOCK FALSE
