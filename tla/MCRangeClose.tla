---------------------------- MODULE MCRangeClose ----------------------------
(* Instances of RangeBond told apart by `scenario`, each with some of the   *)
(* workers of the configuration: faults beside the timeout job or beside    *)
(* the expiry job, both jobs without faults, and both solver channels with  *)
(* one fault and without the jobs.                                          *)
EXTENDS MCRangeBond

VARIABLE scenario

Timeouts == INSTANCE RangeBond WITH Actors <- Actors \ {"expirer", "rpc"}
Expiry == INSTANCE RangeBond WITH Actors <- Actors \ {"timeout", "rpc"}
Jobs == INSTANCE RangeBond WITH Actors <- Actors \ {"rpc"}, MaxFaults <- 0
Solvers == INSTANCE RangeBond WITH Actors <- Actors \ {"timeout", "expirer"}, MaxFaults <- 1

allVars == <<vars, scenario>>

ScenarioInit == Init /\ scenario \in {"timeouts", "expiry", "jobs", "solvers"}

ScenarioNext ==
  /\ \/ scenario = "timeouts" /\ Timeouts!Next
     \/ scenario = "expiry" /\ Expiry!Next
     \/ scenario = "jobs" /\ Jobs!Next
     \/ scenario = "solvers" /\ Solvers!Next
  /\ UNCHANGED scenario

ScenarioSpec == ScenarioInit /\ [][ScenarioNext]_allVars /\ Fairness
=============================================================================
