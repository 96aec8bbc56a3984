--------------------------- MODULE MCResolutions ---------------------------
(* The resolutions of a trade and of its bonds, told apart by `scenario`.   *)
(* In three it is the trade that moves: every way but the deadline ("any",  *)
(* the events of the configuration), the same without a step of the admin   *)
(* RPC ("messages"), and the guardian against users and restarts, with the  *)
(* fairness of Trade ("deadline").  In two it is the bonds of BondSlash: a  *)
(* dispute and two solver channels ("solvers"), and the timeout job on an   *)
(* overdue order ("overdue").                                               *)
EXTENDS MCTrade

VARIABLES scenario,
  status, duty, bond, reason, bond_htlc, job, told, bond_faults  \* of BondSlash

Deadline == INSTANCE Trade
  WITH Events <- {"coop", "dispute", "deadline", "lnd_error", "restart"}

Solvers == INSTANCE BondSlash
  WITH From <- "active", Actors <- {"main", "rpc", "sweep"}, Armed <- {},
       FaultKinds <- {"lnd", "db", "relay"}, MaxFaults <- 1,
       htlc <- bond_htlc, faults <- bond_faults
Overdue == INSTANCE BondSlash
  WITH From <- "waiting", Actors <- {"main", "timeout", "sweep", "subscriber"},
       Armed <- {"maker", "taker"}, FaultKinds <- {"crash", "lnd", "db", "relay", "cltv"},
       MaxFaults <- 1, htlc <- bond_htlc, faults <- bond_faults

bonds == <<status, duty, bond, reason, bond_htlc, job, told, bond_faults>>
allVars == <<vars, bonds, scenario>>

ScenarioInit ==
    \/ scenario \in {"any", "messages", "deadline"} /\ Init /\ Solvers!Init
    \/ scenario = "solvers" /\ Init /\ kind = "sell" /\ Solvers!Init
    \/ scenario = "overdue" /\ Init /\ kind = "sell" /\ Overdue!Init

ScenarioNext ==
    /\ \/ scenario = "any" /\ Next /\ UNCHANGED bonds
       \/ scenario = "messages" /\ Next /\ pc'[Rpc] = pc[Rpc] /\ UNCHANGED bonds
       \/ scenario = "deadline" /\ Deadline!Next /\ UNCHANGED bonds
       \/ scenario = "solvers" /\ Solvers!Next /\ UNCHANGED vars
       \/ scenario = "overdue" /\ Overdue!Next /\ UNCHANGED vars
    /\ UNCHANGED scenario

Fair(A) == scenario = "deadline" /\ A /\ UNCHANGED <<bonds, scenario>>

ScenarioFairness ==
    /\ WF_allVars(Fair(Deadline!MainStep /\ pc[Main] # "idle"))
    /\ \A h \in Invoices :
          WF_allVars(Fair(Deadline!hold_invoice_paid(h) \/ Deadline!hold_invoice_canceled(h)))
    /\ WF_allVars(Fair(Deadline!enforce_escrow_deadline_pass))

ScenarioSpec == ScenarioInit /\ [][ScenarioNext]_allVars /\ ScenarioFairness

(* EscrowBacked of Trade, with resolutions from messages only: an order     *)
(* that shows a live trade is backed by the seller's money.                 *)
MessagesKeepBacking == scenario = "messages" => EscrowBacked

(* CanceledNotSettled of Trade, without the guardian: a trade recorded as   *)
(* canceled (cancel.rs, admin_cancel.rs) has not had its escrow settled.    *)
ResolutionsAgree == scenario # "deadline" => CanceledNotSettled

(* SettledIsPaid of Trade, without a restart: settled escrow of the order's *)
(* trade is paid out or in the hands of a handler about to pay it           *)
(* (release.rs:250-394, admin_settle.rs:91-240).                            *)
ResolutionsPay == scenario # "deadline" => SettledIsPaid

(* DeadlineEnforced of Trade: within the margin of the CLTV expiry an order *)
(* that records its escrow leaves active and fiat-sent for good             *)
(* (scheduler.rs:768-780).                                                  *)
GuardianEnforces == scenario = "deadline" => DeadlineEnforced

(* RowFollowsInvoice of BondSlash: a slashed bond is money Mostro holds, a  *)
(* released one went back (slash_one, release_bond).                        *)
RowFollowsInvoice == Overdue!RowFollowsInvoice

(* NoticeIsTrue of BondSlash: who was told of a slash lost the bond         *)
(* (slash_reason_recorded).                                                 *)
NoticeIsTrue == Overdue!NoticeIsTrue

(* DecidedBeforeWritten of BondSlash: an overdue order is written only once *)
(* the late party's bond is decided (job_cancel_orders).                    *)
DecidedBeforeWritten == Overdue!DecidedBeforeWritten
============================================================================
