SPECIFICATION FairSpec
CONSTANTS
  Hashes = {h1}
  Addr = addr
  Invoices = {h1, addr}
  Tasks = {t1}
  Reconciler = recon
  NoClaim = none
  Grace = 1
  RegisterDelay = 0
  Retries = 2
  MaxFaults = 1
  MaxSwaps = 1
VIEW Ages
PROPERTY ClaimResolved
\* the trade is over once the order is closed and every task has ended
CHECK_DEADLOCK FALSE
