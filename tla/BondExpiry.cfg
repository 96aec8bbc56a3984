SPECIFICATION Spec
CONSTANTS
  b1 = b1
  b2 = b2
  b3 = b3
  x = x
  y = y
  Bonds = {b1}
  Takers = {x, y}
  Owner <- OneBond
  Main = main
  Expirer = expirer
  None = none
  TakersCancel = FALSE
  Expiry = TRUE
  FaultKinds = {}
  MaxFaults = 0
PROPERTY ExpirySparesTakes
\* the window closes with the order canceled, expired or taken
CHECK_DEADLOCK FALSE
