------------------------------- MODULE DevFee -------------------------------
(***************************************************************************)
(* The development fee of a completed order, src/src/app/dev_fee.rs: a     *)
(* scheduler job that runs four phases a minute and pays the fee over      *)
(* Lightning.  Every resolution of the lightning address gives a new       *)
(* invoice, so LND cannot recognise a second payment of the same fee: only *)
(* the order's dev_fee_payment_hash column stands between a restart and a  *)
(* double payment.  Every SQL statement and every LND call is one step;    *)
(* LND settles or fails a payment at any time.                             *)
(***************************************************************************)
EXTENDS Integers

CONSTANTS
  MaxInvoices, \* bound: how many invoices the address gives out
  FaultKinds,  \* which of "crash", "lnd", "lnurl", "db" may happen
  MaxFaults    \* bound: how many of them

VARIABLES
  hash,      \* dev_fee_payment_hash: Null, the PENDING marker, or an invoice
  stale,     \* the marker is older than CLEANUP_TTL_SECS
  paid,      \* dev_fee_paid
  confirmed, \* the job's in-memory set contains the order
  audited,   \* audit events published
  issued,    \* invoices resolved so far
  payment,   \* LND's payments, by invoice
  step,      \* where the job is in its cycle
  faults

vars == <<hash, stale, paid, confirmed, audited, issued, payment, step, faults>>

Null == 0
Marker == -1
Fees == 1..MaxInvoices

(* The state has its shape; at most one audit event is published.           *)
TypeOK ==
  /\ hash \in Fees \cup {Null, Marker}
  /\ stale \in BOOLEAN /\ paid \in BOOLEAN /\ confirmed \in BOOLEAN
  /\ audited \in 0..1
  /\ issued \in 0..MaxInvoices
  /\ payment \in [Fees -> {"none", "in-flight", "succeeded", "failed"}]
  /\ step \in {"cleanup", "verify", "recover", "mark", "clear", "claim", "resolve", "release",
               "store", "send", "wait", "success", "timeout", "timeout_mark", "timeout_clear",
               "sleep"}
  /\ faults \in 0..MaxFaults

Init ==
  /\ hash = Null /\ stale = FALSE /\ paid = FALSE /\ confirmed = FALSE
  /\ audited = 0 /\ issued = 0
  /\ payment = [f \in Fees |-> "none"]
  /\ step = "cleanup"
  /\ faults = 0

Fault(kind) ==
  /\ kind \in FaultKinds
  /\ faults < MaxFaults
  /\ faults' = faults + 1
Real == hash \in Fees

(* cleanup_stale_pending_markers: the reset is bound to the marker read.    *)
cleanup_stale_pending_markers ==
  /\ step = "cleanup"
  /\ IF hash = Marker /\ stale THEN hash' = Null /\ paid' = FALSE ELSE UNCHANGED <<hash, paid>>
  /\ step' = "verify"
  /\ UNCHANGED <<stale, confirmed, audited, issued, payment, faults>>

\* mutant: a payment in flight is reported as failed
InFlightFailed ==
  IF payment[hash] \in {"in-flight", "failed"} THEN "failed"
  ELSE IF payment[hash] = "none" THEN "unknown" ELSE payment[hash]

(* A hash LND has no record of, and an LND that does not answer, are both   *)
(* Unknown.                                                                 *)
check_dev_fee_payment_status ==
  IF payment[hash] = "none" THEN "unknown" ELSE payment[hash]

(* The status a phase acts on.                                              *)
Checked(status) ==
  \/ status = check_dev_fee_payment_status /\ UNCHANGED faults
  \/ status = "unknown" /\ Fault("lnd")

verify_confirmed_orders ==
  /\ step = "verify"
  /\ IF paid /\ Real /\ ~confirmed
     THEN \E status \in {"unknown", "in-flight", "succeeded", "failed"} :
            Checked(status) /\ confirmed' = (status = "succeeded")
     ELSE UNCHANGED <<confirmed, faults>>
  /\ step' = "recover"
  /\ UNCHANGED <<hash, stale, paid, audited, issued, payment>>

(* What Phase 3 and the timeout make of a status.                           *)
Outcome(marking, clearing, otherwise) ==
  \E status \in {"unknown", "in-flight", "succeeded", "failed"} :
    /\ Checked(status)
    /\ step' = CASE status = "succeeded" -> marking
                 [] status = "failed"    -> clearing
                 [] OTHER                -> otherwise

\* mutant: Phase 3 only frees the orders whose payment failed
RecoverFailedOnly ==
  /\ step = "recover"
  /\ IF ~paid /\ Real THEN Outcome("claim", "clear", "claim") ELSE step' = "claim" /\ UNCHANGED faults
  /\ UNCHANGED <<hash, stale, paid, confirmed, audited, issued, payment>>

recover_partial_payments ==
  /\ step = "recover"
  /\ IF ~paid /\ Real THEN Outcome("mark", "clear", "claim") ELSE step' = "claim" /\ UNCHANGED faults
  /\ UNCHANGED <<hash, stale, paid, confirmed, audited, issued, payment>>

DbFails(next) ==
  /\ Fault("db")
  /\ step' = next
  /\ UNCHANGED <<hash, stale, paid, confirmed, audited, issued, payment>>

mark_paid ==
  /\ step = "mark"
  /\ \/ /\ paid' = TRUE /\ confirmed' = TRUE /\ audited' = audited + 1
        /\ step' = "claim"
        /\ UNCHANGED <<hash, stale, issued, payment, faults>>
     \/ DbFails("claim")

(* A failed payment frees the order for a new invoice.                      *)
clear_hash ==
  LET next == IF step = "clear" THEN "claim" ELSE "sleep" IN
  /\ step \in {"clear", "timeout_clear"}
  /\ \/ /\ hash' = Null /\ step' = next
        /\ UNCHANGED <<stale, paid, confirmed, audited, issued, payment, faults>>
     \/ DbFails(next)

try_claim_order_for_dev_fee ==
  /\ step = "claim"
  /\ IF ~paid /\ hash = Null
     THEN hash' = Marker /\ stale' = FALSE /\ step' = "resolve"
     ELSE step' = "sleep" /\ UNCHANGED <<hash, stale>>
  /\ UNCHANGED <<paid, confirmed, audited, issued, payment, faults>>

resolve_dev_fee_invoice ==
  /\ step = "resolve"
  /\ \/ issued < MaxInvoices /\ issued' = issued + 1 /\ step' = "store" /\ UNCHANGED faults
     \/ issued = MaxInvoices /\ step' = "release" /\ UNCHANGED <<issued, faults>>
     \/ Fault("lnurl") /\ step' = "release" /\ UNCHANGED issued
  /\ UNCHANGED <<hash, stale, paid, confirmed, audited, payment>>

release_pending_claim ==
  /\ step = "release"
  /\ \/ /\ hash' = IF hash = Marker THEN Null ELSE hash
        /\ step' = "sleep"
        /\ UNCHANGED <<stale, paid, confirmed, audited, issued, payment, faults>>
     \/ DbFails("sleep")

(* The real hash replaces the marker before anything is sent; the order is  *)
(* then read again.                                                         *)
store_payment_hash ==
  /\ step = "store"
  /\ \/ /\ hash' = issued
        /\ \/ step' = "send" /\ UNCHANGED faults
           \/ step' = "sleep" /\ Fault("db")
        /\ UNCHANGED <<stale, paid, confirmed, audited, issued, payment>>
     \/ DbFails("release")

(* An RPC error leaves open whether LND took the payment.  The failure      *)
(* handler keeps the hash.                                                  *)
send_dev_fee_payment ==
  /\ step = "send"
  /\ \/ /\ payment' = [payment EXCEPT ![issued] = "in-flight"]
        /\ \/ step' = "wait" /\ UNCHANGED faults
           \/ step' = "sleep" /\ Fault("lnd")
     \/ Fault("lnd") /\ step' = "sleep" /\ UNCHANGED payment
  /\ UNCHANGED <<hash, stale, paid, confirmed, audited, issued>>

wait_for_result ==
  /\ step = "wait"
  /\ step' \in CASE payment[issued] = "succeeded" -> {"success", "timeout"}
                 [] OTHER -> {"sleep", "timeout"}
  /\ UNCHANGED <<hash, stale, paid, confirmed, audited, issued, payment, faults>>

handle_payment_success ==
  /\ step = "success"
  /\ \/ /\ hash' = issued /\ paid' = TRUE /\ confirmed' = TRUE
        /\ audited' = IF paid THEN audited ELSE audited + 1
        /\ step' = "sleep"
        /\ UNCHANGED <<stale, issued, payment, faults>>
     \/ DbFails("sleep")

(* The status of the stored hash decides, as in Phase 3; no audit event.    *)
handle_payment_timeout ==
  /\ step = "timeout"
  /\ Outcome("timeout_mark", "timeout_clear", "sleep")
  /\ UNCHANGED <<hash, stale, paid, confirmed, audited, issued, payment>>

mark_paid_after_timeout ==
  /\ step = "timeout_mark"
  /\ \/ paid' = TRUE /\ UNCHANGED faults
     \/ Fault("db") /\ UNCHANGED paid
  /\ confirmed' = TRUE
  /\ step' = "sleep"
  /\ UNCHANGED <<hash, stale, audited, issued, payment>>

(* The job sleeps for a minute between cycles.                              *)
run_dev_fee_cycle ==
  /\ step = "sleep"
  /\ step' = "cleanup"
  /\ UNCHANGED <<hash, stale, paid, confirmed, audited, issued, payment, faults>>

marker_ages ==
  /\ hash = Marker /\ ~stale
  /\ stale' = TRUE
  /\ UNCHANGED <<hash, paid, confirmed, audited, issued, payment, step, faults>>

payment_resolves(f, status) ==
  /\ payment[f] = "in-flight"
  /\ payment' = [payment EXCEPT ![f] = status]
  /\ UNCHANGED <<hash, stale, paid, confirmed, audited, issued, step, faults>>

crash ==
  /\ Fault("crash")
  /\ confirmed' = FALSE /\ step' = "cleanup"
  /\ UNCHANGED <<hash, stale, paid, audited, issued, payment>>

-----------------------------------------------------------------------------
Phases ==
  \/ cleanup_stale_pending_markers \/ verify_confirmed_orders
  \/ recover_partial_payments \/ mark_paid \/ clear_hash
  \/ try_claim_order_for_dev_fee \/ resolve_dev_fee_invoice \/ release_pending_claim
  \/ store_payment_hash \/ send_dev_fee_payment \/ wait_for_result
  \/ handle_payment_success \/ handle_payment_timeout \/ mark_paid_after_timeout
  \/ run_dev_fee_cycle

Resolving(f) == payment_resolves(f, "succeeded") \/ payment_resolves(f, "failed")

Next == Phases \/ marker_ages \/ crash \/ \E f \in Fees : Resolving(f)

Spec == Init /\ [][Next]_vars

(* The job runs every minute, the marker ages, LND resolves a payment.      *)
FairSpec ==
  /\ Spec
  /\ WF_vars(Phases) /\ WF_vars(marker_ages)
  /\ \A f \in Fees : WF_vars(Resolving(f))

-----------------------------------------------------------------------------
(* dev_fee.rs: "the real payment hash is always stored before sending, and  *)
(* recovery paths ... query LND by that hash instead of resolving a new     *)
(* invoice, preventing double payment".                                     *)
FeePaidAtMostOnce ==
  \A f, g \in Fees :
    {payment[f], payment[g]} \subseteq {"in-flight", "succeeded"} => f = g

(* dev_fee_paid is set only for a payment that succeeded, and the hash      *)
(* column still names that payment.                                         *)
PaidFeeIsReal == paid => Real /\ payment[hash] = "succeeded"

(* A payment made for the fee, whether the job saw its outcome or crashed,  *)
(* is eventually recorded, and a claim never outlives its cycle for good:   *)
(* whatever interrupts it, the order is claimed again or carries a real     *)
(* hash.                                                                    *)
Recorded == hash # Marker /\ ((\E f \in Fees : payment[f] = "succeeded") => paid)
FeeRecorded == []<>Recorded
=============================================================================
