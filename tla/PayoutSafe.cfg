SPECIFICATION ScenarioSpec
CONSTANTS
  Hashes = {h1, h2}
  Addr = addr
  Invoices = {addr}
  Tasks = {t1, t2}
  Reconciler = recon
  NoClaim = none
  Grace = 1
  RegisterDelay = 0
  Retries = 2
  MaxFaults = 1
  MaxSwaps = 0
VIEW ScenarioAges
SYMMETRY Symmetry
INVARIANTS NoDoublePayout 
PROPERTY PaysOnce
\* the trade is over once the order is closed and every task has ended
CHECK_DEADLOCK FALSE
