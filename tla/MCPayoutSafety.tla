--------------------------- MODULE MCPayoutSafety ---------------------------
(* Two instances of Payout told apart by `scenario`: a Lightning address     *)
(* that resolves to another invoice at every attempt, with one fault (the    *)
(* constants of the configuration), and a buyer who replaces the invoice     *)
(* once while a request may reach LND late ("swap").                         *)
EXTENDS MCPayout

VARIABLE scenario

Swap == INSTANCE Payout
  WITH Invoices <- Hashes, Grace <- 2, RegisterDelay <- 1, MaxFaults <- 0, MaxSwaps <- 1

allVars == <<vars, scenario>>

ScenarioInit ==
  \/ scenario = "faults" /\ Init
  \/ scenario = "swap" /\ Swap!Init

ScenarioNext ==
  /\ \/ scenario = "faults" /\ Next
     \/ scenario = "swap" /\ Swap!Next
  /\ UNCHANGED scenario

ScenarioSpec == ScenarioInit /\ [][ScenarioNext]_allVars

ScenarioAges == <<scenario, AgesUpTo(IF scenario = "swap" THEN 2 ELSE Grace)>>
=============================================================================
