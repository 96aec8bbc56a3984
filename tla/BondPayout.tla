------------------------------ MODULE BondPayout ------------------------------
(***************************************************************************)
(* The bond payout queue, src/src/app/bond/payout.rs: the rows a slash     *)
(* leaves in pending-payout and the scheduler job that turns each of them  *)
(* into one Lightning payment to the winner.                               *)
(*                                                                         *)
(* Three parties run concurrently.  The job reads every pending row at the *)
(* start of a cycle and then works on those copies, one row after the      *)
(* other, one SQL statement or LND call per step.  The main loop stores    *)
(* the invoices the winner sends.  LND settles or fails a payment whenever *)
(* it likes, also after the job stopped waiting for it.                    *)
(*                                                                         *)
(* The debts are owed to the same winner on the same order and have the    *)
(* same amount: debts that differ in one of the three never meet.          *)
(***************************************************************************)
EXTENDS Integers

CONSTANTS
  Debts,      \* 1..n: pending-payout rows, most recently slashed first
  NodeOnly,   \* the debts whose counterparty share is zero
  Invoices,   \* bolt11 invoices of the winner, one payment hash each
  None,       \* SQL NULL
  MaxRetries, \* payout_max_retries
  MaxSends,   \* bound: how often one invoice is sent to LND
  FaultKinds, \* which of "crash", "lnd", "db", "window" may happen
  MaxFaults   \* bound: how many of them

ASSUME DebtAssumption ==
  /\ Debts \in SUBSET (Nat \ {0}) /\ NodeOnly \subseteq Debts
  /\ None \notin Invoices \cup Debts
  /\ MaxRetries \in Nat \ {0} /\ MaxSends \in Nat /\ MaxFaults \in Nat
  /\ FaultKinds \subseteq {"crash", "lnd", "db", "window"}

VARIABLES
  state, invoice, hash, attempts, \* columns of the bond rows
  requested, \* last_invoice_request_at is set and still recent
  prompted,  \* the winner has been asked for an invoice
  expired,   \* payout_claim_window_days have passed since slashed_at
  payment,   \* LND's payments, by hash
  sends,     \* how many times each invoice was handed to LND
  owner,     \* the debt an invoice was last accepted for (history)
  copies,    \* the job's copies of the rows it has still to process
  job,       \* its step and the debt it is at
  message,   \* AddBondInvoice in the main loop: the row found, its state, the invoice
  faults

columns == <<state, invoice, hash, attempts, requested>>
lnd == <<payment, sends>>
vars == <<state, invoice, hash, attempts, requested, prompted, expired, payment, sends,
          owner, copies, job, message, faults>>

Steps == {"forfeit", "finalize", "request", "enqueue", "lookup", "persist", "send",
          "verdict", "slash", "terminal", "indeterminate", "rearm", "give_up"}
Copy == [invoice : Invoices \cup {None}, hash : Invoices \cup {None},
         attempts : 0..MaxRetries, requested : BOOLEAN]
Idle == [step |-> "idle", debt |-> None]
NoMessage == [debt |-> None]

(* The state has its shape.                                                 *)
TypeOK ==
  /\ state \in [Debts -> {"pending-payout", "slashed", "forfeited", "failed"}]
  /\ invoice \in [Debts -> Invoices \cup {None}]
  /\ hash \in [Debts -> Invoices \cup {None}]
  /\ attempts \in [Debts -> 0..MaxRetries]
  /\ requested \in [Debts -> BOOLEAN] /\ prompted \in BOOLEAN /\ expired \in BOOLEAN
  /\ payment \in [Invoices -> {"none", "in-flight", "succeeded", "failed"}]
  /\ sends \in [Invoices -> 0..MaxSends]
  /\ owner \in [Invoices -> Debts \cup {None}]
  /\ DOMAIN copies \subseteq Debts /\ \A d \in DOMAIN copies : copies[d] \in Copy
  /\ job = Idle \/ job \in [step : Steps, debt : DOMAIN copies]
  /\ message = NoMessage
     \/ message \in [debt : Debts, state : {"pending-payout", "failed"}, invoice : Invoices]
  /\ faults \in 0..MaxFaults

Init ==
  /\ state = [d \in Debts |-> "pending-payout"]
  /\ invoice = [d \in Debts |-> None] /\ hash = [d \in Debts |-> None]
  /\ attempts = [d \in Debts |-> 0]
  /\ requested = [d \in Debts |-> FALSE] /\ prompted = FALSE /\ expired = FALSE
  /\ payment = [i \in Invoices |-> "none"] /\ sends = [i \in Invoices |-> 0]
  /\ owner = [i \in Invoices |-> None]
  /\ copies = <<>> /\ job = Idle /\ message = NoMessage
  /\ faults = 0

Fault(kind) ==
  /\ kind \in FaultKinds
  /\ faults < MaxFaults
  /\ faults' = faults + 1
Pending(d) == state[d] = "pending-payout"
Set(column, d, value) == [column EXCEPT ![d] = value]

-----------------------------------------------------------------------------
(* The job.                                                                 *)

At(step) == job.step = step
Goto(step) == job' = [job EXCEPT !.step = step] /\ UNCHANGED copies
Done ==
  /\ job' = Idle
  /\ copies' = [d \in DOMAIN copies \ {job.debt} |-> copies[d]]
Outside == UNCHANGED <<expired, owner, message>>

run_bond_payout_cycle ==
  /\ job = Idle /\ DOMAIN copies = {}
  /\ \E d \in Debts : Pending(d)
  /\ copies' = [d \in {d \in Debts : Pending(d)} |->
                  [invoice |-> invoice[d], hash |-> hash[d],
                   attempts |-> attempts[d], requested |-> requested[d]]]
  /\ UNCHANGED <<columns, prompted, lnd, job, faults>> /\ Outside

(* The arm of process_one_bond a copy calls for; None: nothing this cycle.  *)
Arm(d) ==
  LET copy == copies[d] IN
  IF copy.invoice = None /\ expired THEN "forfeit"
  ELSE IF d \in NodeOnly THEN "finalize"
  ELSE IF copy.invoice = None THEN (IF copy.requested THEN None ELSE "request")
  ELSE IF copy.hash = copy.invoice THEN "lookup" ELSE "persist"

process_one_bond(d) ==
  /\ job = Idle /\ d \in DOMAIN copies
  /\ IF Arm(d) = None
     THEN copies' = [e \in DOMAIN copies \ {d} |-> copies[e]] /\ UNCHANGED job
     ELSE job' = [step |-> Arm(d), debt |-> d] /\ UNCHANGED copies
  /\ UNCHANGED <<columns, prompted, lnd, faults>> /\ Outside

forfeit_bond ==
  /\ At("forfeit")
  /\ state' = IF Pending(job.debt) /\ invoice[job.debt] = None
              THEN Set(state, job.debt, "forfeited") ELSE state
  /\ Done
  /\ UNCHANGED <<invoice, hash, attempts, requested, prompted, lnd, faults>> /\ Outside

finalize_node_only ==
  /\ At("finalize")
  /\ state' = IF Pending(job.debt) THEN Set(state, job.debt, "slashed") ELSE state
  /\ Done
  /\ UNCHANGED <<invoice, hash, attempts, requested, prompted, lnd, faults>> /\ Outside

(* The cadence column is written before the message is enqueued.            *)
request_payout_invoice ==
  /\ At("request")
  /\ IF Pending(job.debt)
     THEN requested' = Set(requested, job.debt, TRUE) /\ Goto("enqueue")
     ELSE UNCHANGED requested /\ Done
  /\ UNCHANGED <<state, invoice, hash, attempts, prompted, lnd, faults>> /\ Outside

enqueue_order_msg ==
  /\ At("enqueue")
  /\ prompted' = TRUE
  /\ Done
  /\ UNCHANGED <<columns, lnd, faults>> /\ Outside

\* mutant: a payment LND still reports in flight is taken for failed
InFlightIsFailed(status) ==
  CASE status = "succeeded" -> "slash"
    [] status \in {"failed", "in-flight"} -> "terminal"
    [] status = "none"      -> "persist"

\* mutant: a payment that failed is left for the next cycle
FailedIsDeferred(status) ==
  CASE status = "succeeded" -> "slash"
    [] status \in {"failed", "in-flight"} -> None
    [] status = "none"      -> "persist"

(* What reconciling on entry makes of LND's answer.                         *)
Verdict(status) ==
  CASE status = "succeeded" -> "slash"
    [] status = "failed"    -> "terminal"
    [] status = "in-flight" -> None
    [] status = "none"      -> "persist"

(* An LND that does not answer is treated like one that has no record.      *)
lookup_payment_status ==
  /\ At("lookup")
  /\ \/ /\ LET next == Verdict(payment[copies[job.debt].invoice])
           IN IF next = None THEN Done ELSE Goto(next)
        /\ UNCHANGED faults
     \/ Fault("lnd") /\ Goto("persist")
  /\ UNCHANGED <<columns, prompted, lnd>> /\ Outside

persist_payment_hash ==
  /\ At("persist")
  /\ IF Pending(job.debt)
     THEN hash' = Set(hash, job.debt, copies[job.debt].invoice) /\ Goto("send")
     ELSE UNCHANGED hash /\ Done
  /\ UNCHANGED <<state, invoice, attempts, requested, prompted, lnd, faults>> /\ Outside

(* LND refuses a hash in flight or paid.  An RPC error leaves open whether  *)
(* the payment was taken.                                                   *)
send_payment ==
  LET i == copies[job.debt].invoice
      Take == /\ payment' = Set(payment, i, "in-flight")
              /\ sends' = Set(sends, i, sends[i] + 1)
  IN
  /\ At("send")
  /\ \/ /\ payment[i] \in {"none", "failed"} /\ sends[i] < MaxSends
        /\ Take
        /\ \/ Goto("verdict") /\ UNCHANGED faults
           \/ Goto("indeterminate") /\ Fault("lnd")
     \/ /\ payment[i] \in {"in-flight", "succeeded"}
        /\ Goto("indeterminate") /\ UNCHANGED <<lnd, faults>>
     \/ Fault("lnd") /\ Goto("indeterminate") /\ UNCHANGED lnd
  /\ UNCHANGED <<columns, prompted>> /\ Outside

\* mutant: the row is closed as soon as LND took the payment
SlashOnTake ==
  /\ At("verdict")
  /\ LET status == payment[copies[job.debt].invoice] IN
     Goto(IF status = "failed" THEN "terminal" ELSE "slash")
  /\ UNCHANGED <<columns, prompted, lnd, faults>> /\ Outside

(* The stream's terminal status, or the timeout.                            *)
classify_send_verdict ==
  /\ At("verdict")
  /\ LET status == payment[copies[job.debt].invoice] IN
     Goto(IF status = "succeeded" THEN "slash"
          ELSE IF status = "failed" THEN "terminal" ELSE "indeterminate")
  /\ UNCHANGED <<columns, prompted, lnd, faults>> /\ Outside

(* The compare-and-swap, or an error that outlasts its retries.             *)
slash_after_success ==
  /\ At("slash")
  /\ \/ /\ state' = IF Pending(job.debt) THEN Set(state, job.debt, "slashed") ELSE state
        /\ UNCHANGED faults
     \/ Fault("db") /\ UNCHANGED state
  /\ Done
  /\ UNCHANGED <<invoice, hash, attempts, requested, prompted, lnd>> /\ Outside

(* The counter is computed from the copy.  Only a failure LND confirmed     *)
(* abandons the invoice.                                                    *)
AfterFailure(exhausted) ==
  CASE ~exhausted \/ At("indeterminate") -> None
    [] exhausted /\ At("terminal") /\ ~expired -> "rearm"
    [] exhausted /\ At("terminal") /\ expired  -> "give_up"

on_send_payment_failure ==
  LET d == job.debt
      bumped == IF copies[d].attempts < MaxRetries THEN copies[d].attempts + 1 ELSE MaxRetries
      next == AfterFailure(bumped = MaxRetries)
  IN
  /\ At("terminal") \/ At("indeterminate")
  /\ attempts' = IF Pending(d) THEN Set(attempts, d, bumped) ELSE attempts
  /\ IF next = None THEN Done ELSE Goto(next)
  /\ UNCHANGED <<state, invoice, hash, requested, prompted, lnd, faults>> /\ Outside

rearm ==
  LET d == job.debt IN
  /\ At("rearm")
  /\ IF Pending(d)
     THEN /\ invoice' = Set(invoice, d, None) /\ hash' = Set(hash, d, None)
          /\ attempts' = Set(attempts, d, 0) /\ requested' = Set(requested, d, FALSE)
     ELSE UNCHANGED <<invoice, hash, attempts, requested>>
  /\ Done
  /\ UNCHANGED <<state, prompted, lnd, faults>> /\ Outside

give_up ==
  /\ At("give_up")
  /\ state' = IF Pending(job.debt) THEN Set(state, job.debt, "failed") ELSE state
  /\ Done
  /\ UNCHANGED <<invoice, hash, attempts, requested, prompted, lnd, faults>> /\ Outside

-----------------------------------------------------------------------------
(* The winner and the main loop.                                            *)

find_recoverable_bond_for_recipient ==
  {d \in Debts : state[d] \in {"pending-payout", "failed"}}

(* The rows have the invoice's amount, so the first of them is the one.  A  *)
(* debt without a counterparty share refuses the invoice.                   *)
add_bond_invoice_action(i) ==
  /\ message = NoMessage
  /\ prompted
  /\ owner[i] = None
  /\ \E d \in find_recoverable_bond_for_recipient \ NodeOnly :
       /\ \A e \in find_recoverable_bond_for_recipient : d <= e
       /\ message' = [debt |-> d, state |-> state[d], invoice |-> i]
  /\ UNCHANGED <<columns, prompted, expired, lnd, owner, copies, job, faults>>

\* mutant: a pending row takes an invoice although it has one
AcceptReplacement ==
  LET d == message.debt
      i == message.invoice
      persisted == message.state = "pending-payout" /\ Pending(d)
      resurrected == message.state = "failed" /\ state[d] = "failed" /\ ~expired
  IN
  /\ message # NoMessage
  /\ message' = NoMessage
  /\ IF persisted \/ resurrected
     THEN invoice' = Set(invoice, d, i) /\ owner' = Set(owner, i, d)
     ELSE UNCHANGED <<invoice, owner>>
  /\ IF resurrected
     THEN /\ state' = Set(state, d, "pending-payout")
          /\ attempts' = Set(attempts, d, 0) /\ hash' = Set(hash, d, None)
     ELSE UNCHANGED <<state, attempts, hash>>
  /\ UNCHANGED <<requested, prompted, expired, lnd, copies, job, faults>>

apply_payout_invoice ==
  LET d == message.debt
      i == message.invoice
      persisted == message.state = "pending-payout" /\ Pending(d) /\ invoice[d] = None
      resurrected == message.state = "failed" /\ state[d] = "failed" /\ ~expired
  IN
  /\ message # NoMessage
  /\ message' = NoMessage
  /\ IF persisted \/ resurrected
     THEN invoice' = Set(invoice, d, i) /\ owner' = Set(owner, i, d)
     ELSE UNCHANGED <<invoice, owner>>
  /\ IF resurrected
     THEN /\ state' = Set(state, d, "pending-payout")
          /\ attempts' = Set(attempts, d, 0) /\ hash' = Set(hash, d, None)
     ELSE UNCHANGED <<state, attempts, hash>>
  /\ UNCHANGED <<requested, prompted, expired, lnd, copies, job, faults>>

-----------------------------------------------------------------------------
(* Time, LND and restarts.                                                  *)

invoice_window_elapses(d) ==
  /\ requested[d]
  /\ requested' = Set(requested, d, FALSE)
  /\ UNCHANGED <<state, invoice, hash, attempts, prompted, lnd, copies, job, faults>> /\ Outside

claim_window_elapses ==
  /\ ~expired
  /\ expired' = TRUE
  /\ UNCHANGED <<columns, prompted, lnd, owner, copies, job, message, faults>>

payment_resolves(i, status) ==
  /\ payment[i] = "in-flight"
  /\ payment' = Set(payment, i, status)
  /\ UNCHANGED <<columns, prompted, sends, copies, job, faults>> /\ Outside

Restarted == copies' = <<>> /\ job' = Idle /\ message' = NoMessage

crash ==
  /\ Fault("crash")
  /\ Restarted
  /\ UNCHANGED <<columns, prompted, expired, lnd, owner>>

(* The operator restarts the daemon with a longer claim window.             *)
extend_claim_window ==
  /\ expired /\ expired' = FALSE
  /\ Fault("window")
  /\ Restarted
  /\ UNCHANGED <<columns, prompted, lnd, owner>>

-----------------------------------------------------------------------------
Working ==
  \/ run_bond_payout_cycle \/ \E d \in Debts : process_one_bond(d)
  \/ forfeit_bond \/ finalize_node_only \/ request_payout_invoice \/ enqueue_order_msg
  \/ lookup_payment_status \/ persist_payment_hash \/ send_payment \/ classify_send_verdict
  \/ slash_after_success \/ on_send_payment_failure \/ rearm \/ give_up

Resolving(i) == payment_resolves(i, "succeeded") \/ payment_resolves(i, "failed")

Next ==
  \/ Working
  \/ \E i \in Invoices : add_bond_invoice_action(i) \/ Resolving(i)
  \/ apply_payout_invoice
  \/ \E d \in Debts : invoice_window_elapses(d)
  \/ claim_window_elapses \/ crash \/ extend_claim_window

Spec == Init /\ [][Next]_vars

(* The job runs every minute, a message being handled is handled, LND       *)
(* resolves a payment, and time passes.  The winner owes nothing.           *)
FairSpec ==
  /\ Spec
  /\ WF_vars(Working) /\ WF_vars(apply_payout_invoice) /\ WF_vars(claim_window_elapses)
  /\ \A i \in Invoices : WF_vars(Resolving(i))
  /\ \A d \in Debts : WF_vars(invoice_window_elapses(d))

-----------------------------------------------------------------------------
(* The reconciliation of pay_counterparty and the failure kinds of          *)
(* on_send_payment_failure: however often the winner is asked again, at     *)
(* most one of the invoices accepted for a debt is ever paid, and none can  *)
(* still be paid next to it.                                                *)
PaidAtMostOnce ==
  \A i, j \in Invoices :
    /\ owner[i] \in Debts /\ owner[i] = owner[j]
    /\ {payment[i], payment[j]} \subseteq {"in-flight", "succeeded"}
    => i = j

NoPaymentLeft ==
  \A d \in Debts : state[d] \in {"forfeited", "failed"} =>
    \A i \in Invoices : owner[i] = d => payment[i] \notin {"in-flight", "succeeded"}

AcceptedNotForfeited ==
  \A d \in Debts : state[d] = "forfeited" => invoice[d] = None

(* forfeit_bond and give_up: a debt is written off only when no payment of  *)
(* it was made or can still be made, and an invoice that was acknowledged   *)
(* to the winner is never discarded by a forfeit decided on a copy of the   *)
(* row without it.                                                          *)
NotWrittenOffWhilePaid == NoPaymentLeft /\ AcceptedNotForfeited

(* slash_after_success: a debt is closed as paid only when an invoice       *)
(* accepted for it, and for no other debt, was paid.                        *)
SlashedIsPaid ==
  \A d \in Debts \ NodeOnly : state[d] = "slashed" =>
    \E i \in Invoices : owner[i] = d /\ payment[i] = "succeeded"

(* process_one_bond: every debt leaves the queue, whatever the winner, LND  *)
(* and the restarts do, and one that an invoice brings back leaves again.   *)
NoneOwed == \A d \in Debts : ~Pending(d)
DebtResolved == []<>NoneOwed
==============================================================================
