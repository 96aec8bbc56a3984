------------------------------ MODULE MCBonds ------------------------------
(* Two instances of the taker-bond window in one run, told apart by         *)
(* `scenario`: a race of takes, the maker's cancel and expiry under faults  *)
(* ("race", the constants of the configuration), and takers who cancel      *)
(* their own takes, over a restart and with the scheduler's fairness        *)
(* ("cancel").                                                              *)
EXTENDS MCTakerBonds

VARIABLE scenario

Canceling == INSTANCE TakerBonds
  WITH TakersCancel <- TRUE, Expiry <- FALSE, FaultKinds <- {"crash"}, MaxFaults <- 1

allVars == <<vars, scenario>>

EitherInit == scenario \in {"race", "cancel"} /\ Init

EitherNext ==
  /\ \/ scenario = "race" /\ Next
     \/ scenario = "cancel" /\ Canceling!Next
  /\ UNCHANGED scenario

(* The fairness of TakerBonds, for the instance with a liveness question.   *)
EitherFairness ==
  /\ \A b \in Bonds : WF_allVars(scenario = "cancel" /\ HandlerNext(b) /\ UNCHANGED scenario)
  /\ \A w \in Workers : WF_allVars(scenario = "cancel" /\ ReleaseStep(w) /\ UNCHANGED scenario)
  /\ WF_allVars(/\ scenario = "cancel"
                /\ \/ CreateBond \/ Subscribe \/ Park \/ cancel_pending_order_from_maker
                   \/ cancel_order_by_taker \/ OthersRemain
                   \/ update_order_to_initial_state \/ edit_pubkeys_order
                /\ UNCHANGED scenario)

EitherSpec == EitherInit /\ [][EitherNext]_allVars /\ EitherFairness

(* HeldIsResolved of TakerBonds: sats held for a bond are given back or     *)
(* back the trade (flow.rs, "always release"), over a restart and takers'   *)
(* own cancels.                                                             *)
HeldIsReleased == scenario = "cancel" => HeldIsResolved

(* While no taker cancels, every take that enters the trade satisfies       *)
(* ResumesLocked of TakerBonds: it does so with a taker whose bond is       *)
(* Locked at that moment (flow.rs:769).                                     *)
RaceResumesLocked == [][scenario = "race" => ResumesLocked]_allVars
=============================================================================
