------------------------------- MODULE Payout -------------------------------
(***************************************************************************)
(* The buyer payout of one order: src/src/app/release.rs (do_payment, its  *)
(* background dispatch task and status watcher, payment_success,           *)
(* reconcile_inflight_payout, check_failure_retries), the payout claim of  *)
(* src/src/db.rs, pay_new_invoice of src/src/app/add_invoice.rs and the    *)
(* two scheduler jobs that drive them.                                     *)
(*                                                                         *)
(* Concurrent parties: the main event loop, the retry job, one background  *)
(* task (with its watcher) per dispatched payout, the reconcile job, the   *)
(* LND node and the buyer.  Every SQL statement is one step; everything a  *)
(* party read before an await stays in its own snapshot until used.        *)
(***************************************************************************)
EXTENDS Integers

CONSTANTS
  Hashes,           \* payment hashes of the invoices the buyer can be paid on
  Addr,             \* a Lightning address / LNURL: resolves to any of Hashes
  Invoices,         \* what the buyer may give as payout destination
  Tasks,            \* slots for the background dispatch tasks alive at once
  Reconciler,       \* the reconcile job, an actor like the tasks
  NoClaim,          \* payout_payment_hash IS NULL
  Grace,            \* reconcile grace window, max(payment_retries_interval, 30)
  RegisterDelay,    \* longest delay from the last touch to LND knowing the hash
  Retries,          \* settings.lightning.payment_attempts
  MaxFaults,        \* bound: injected crashes, lost streams, RPC and DB errors
  MaxSwaps          \* bound: replacement invoices the buyer sends

Actors == Tasks \cup {Reconciler}
Callers == {"settle", "retry"}
Claims == [hash : Hashes, at : Nat]

ASSUME ConstAssumption ==
  /\ Reconciler \notin Tasks
  /\ Addr \notin Hashes
  /\ Invoices \subseteq Hashes \cup {Addr}
  /\ NoClaim \notin Claims

(* The grace window is there so that "LND has surely registered [a payout]  *)
(* before we ever act on a None/Failed lookup" (scheduler.rs:269-272).      *)
ASSUME TimingAssumption ==
  /\ Grace \in Nat
  /\ RegisterDelay \in Nat
  /\ RegisterDelay < Grace

ASSUME BudgetAssumption ==
  /\ Retries \in Nat /\ Retries >= 2
  /\ MaxFaults \in Nat /\ MaxSwaps \in Nat

VARIABLES
  \* the columns of the order row the payout uses
  status, buyer_invoice, payout, failed_payment, payment_attempts,
  asked,        \* an AddInvoice request is out, unanswered, to the buyer
  caller,       \* do_payment before its claim: from a release or admin settle
                \* (main loop or RPC server), or from the retry job
  pc, claim, snap, \* background tasks and reconciler: step, claim token, row copy
  wire,         \* SendPaymentV2 requests LND has not processed
  lnd,          \* LND's record of the payment of each hash
  now, lastStamp, faults, swaps

row == <<status, buyer_invoice, payout, failed_payment, payment_attempts>>
actors == <<pc, claim, snap>>
bounds == <<faults, swaps>>
clock == <<now, lastStamp>>
vars == <<row, asked, caller, actors, wire, lnd, clock, bounds>>

Snapshots == [failed : BOOLEAN, attempts : Nat]
Zero == [failed |-> FALSE, attempts |-> 0]
Idle == [pc |-> "idle"]
Requests == [task : Tasks, claim : Claims]
PayStates == {"none", "in_flight", "succeeded", "failed"}
PcStates == {"idle", "queued", "sending", "streaming", "errored", "lookup",
             "pre", "rearm", "book", "finalize", "clear"}

TypeOK ==
  /\ status \in {"fiat-sent", "settled-hold-invoice", "success"}
  /\ buyer_invoice \in Invoices
  /\ payout \in Claims \cup {NoClaim}
  /\ failed_payment \in BOOLEAN
  /\ payment_attempts \in Nat
  /\ asked \in BOOLEAN
  /\ caller \in [Callers -> {Idle} \cup
                   [pc : {"dispatch"}, invoice : Invoices, snap : Snapshots]]
  /\ pc \in [Actors -> PcStates]
  /\ claim \in [Actors -> Claims \cup {NoClaim}]
  /\ snap \in [Actors -> Snapshots]
  /\ wire \in SUBSET Requests
  /\ lnd \in [Hashes -> PayStates]
  /\ now \in Nat /\ lastStamp \in Nat
  /\ faults \in Nat /\ swaps \in Nat

Init ==
  /\ status = "fiat-sent"
  /\ buyer_invoice \in Invoices
  /\ payout = NoClaim
  /\ failed_payment = FALSE
  /\ payment_attempts = 0
  /\ asked = FALSE
  /\ caller = [c \in Callers |-> Idle]
  /\ pc = [a \in Actors |-> "idle"]
  /\ claim = [a \in Actors |-> NoClaim]
  /\ snap = [a \in Actors |-> Zero]
  /\ wire = {}
  /\ lnd = [h \in Hashes |-> "none"]
  /\ now = 0 /\ lastStamp = 0
  /\ faults = 0 /\ swaps = 0

Live(h) == lnd[h] \in {"in_flight", "succeeded"}
RowSnap == [failed |-> failed_payment, attempts |-> payment_attempts]
Fault == faults < MaxFaults /\ faults' = faults + 1
Goto(a, step) == pc' = [pc EXCEPT ![a] = step] /\ UNCHANGED <<claim, snap>>
Stop(a) ==
  /\ pc' = [pc EXCEPT ![a] = "idle"]
  /\ claim' = [claim EXCEPT ![a] = NoClaim]
  /\ snap' = [snap EXCEPT ![a] = Zero]

-----------------------------------------------------------------------------
(* The payout claim of the order row: one compare-and-swap statement each.  *)

claim_order_payout(h) ==
  /\ payout = NoClaim
  /\ status = "settled-hold-invoice"
  /\ payout' = [hash |-> h, at |-> now]
  /\ lastStamp' = now

touch_order_payout_claim(a) ==
  /\ payout = claim[a]
  /\ status = "settled-hold-invoice"
  /\ payout' = [hash |-> payout.hash, at |-> now]
  /\ claim' = [claim EXCEPT ![a] = payout']
  /\ lastStamp' = now

clear_order_payout(c) ==
  payout' = IF payout = c THEN NoClaim ELSE payout

\* mutants: the release is not scoped to a token; it forgets failed_payment
fail_order_payout_Unscoped(c) ==
  /\ payout # NoClaim
  /\ payout' = NoClaim
  /\ failed_payment' = TRUE
fail_order_payout_NoFlag(c) ==
  /\ payout = c
  /\ payout' = NoClaim
  /\ UNCHANGED failed_payment

fail_order_payout(c) ==
  /\ payout = c
  /\ payout' = NoClaim
  /\ failed_payment' = TRUE

find_failed_payment ==
  failed_payment /\ status = "settled-hold-invoice" /\ payout = NoClaim

\* mutant: claims are reconciled without waiting for the grace window
find_inflight_payouts_NoGrace ==
  payout # NoClaim /\ status = "settled-hold-invoice"

find_inflight_payouts ==
  /\ payout # NoClaim
  /\ status = "settled-hold-invoice"
  /\ payout.at <= now - Grace

(* mostro_core's Order::count_failed_payment, as check_failure_retries and  *)
(* its tests use it.                                                        *)
count_failed_payment(s) ==
  [failed |-> TRUE,
   attempts |-> IF ~s.failed THEN 1
                ELSE IF s.attempts < Retries THEN s.attempts + 1
                ELSE s.attempts]

\* mutant: the AddInvoice request comes one failure too late
check_failure_retries_Late(s) ==
  LET n == count_failed_payment(s)
  IN /\ failed_payment' = n.failed
     /\ payment_attempts' = n.attempts
     /\ asked' = (asked \/ (s.attempts # 0 /\ n.attempts > Retries))

(* Bookkeeping of one failure from the caller's copy of the row: the first  *)
(* failure sends PaymentFailed, exhausting the budget sends AddInvoice; the *)
(* two retry columns are then overwritten.                                  *)
check_failure_retries(s) ==
  LET n == count_failed_payment(s)
  IN /\ failed_payment' = n.failed
     /\ payment_attempts' = n.attempts
     /\ asked' = (asked \/ (s.attempts # 0 /\ n.attempts >= Retries))

-----------------------------------------------------------------------------
(* do_payment up to the claim, and what else the main loop does meanwhile.  *)

Run(c, s) ==
  caller' = [caller EXCEPT ![c] =
               [pc |-> "dispatch", invoice |-> buyer_invoice, snap |-> s]]
Return(c) == caller' = [caller EXCEPT ![c] = Idle]

(* release_action / admin_settle_action: the hold invoice is settled, the   *)
(* status committed, and do_payment called inline with the row in memory.   *)
Settle ==
  /\ status = "fiat-sent"
  /\ status' = "settled-hold-invoice"
  /\ Run("settle", RowSnap)
  /\ UNCHANGED <<buyer_invoice, payout, failed_payment, payment_attempts,
                 asked, actors, wire, lnd, clock, bounds>>

(* One tick of job_retry_failed_payments.                                   *)
RetryTick ==
  /\ caller["retry"] = Idle
  /\ find_failed_payment
  /\ payment_attempts < Retries
  /\ Run("retry", RowSnap)
  /\ UNCHANGED <<row, asked, actors, wire, lnd, clock, bounds>>

(* The payout address gives no usable invoice: bookkeeping, no claim.       *)
ResolveFails(c) ==
  /\ caller[c] # Idle
  /\ caller[c].invoice = Addr
  /\ check_failure_retries(caller[c].snap)
  /\ Return(c)
  /\ UNCHANGED <<status, buyer_invoice, payout, actors, wire, lnd, clock,
                 bounds>>

(* LndConnector::new or the claim statement errors: `?` returns early.      *)
ConnectFails(c) ==
  /\ caller[c] # Idle
  /\ Fault
  /\ Return(c)
  /\ UNCHANGED <<row, asked, actors, wire, lnd, clock, swaps>>

(* The claim, and a task slot takes over from here.  A Lightning address    *)
(* may have resolved to any invoice, a BOLT11 invoice only to itself.  The  *)
(* claim is never lost: only a row without one has a caller in do_payment.  *)
Claim(c) ==
  /\ caller[c] # Idle
  /\ \E h \in Hashes, t \in Tasks :
       /\ caller[c].invoice \in {h, Addr}
       /\ pc[t] = "idle"
       /\ claim_order_payout(h)
       /\ pc' = [pc EXCEPT ![t] = "queued"]
       /\ claim' = [claim EXCEPT ![t] = [hash |-> h, at |-> now]]
       /\ snap' = [snap EXCEPT ![t] = caller[c].snap]
  /\ Return(c)
  /\ UNCHANGED <<status, buyer_invoice, failed_payment, payment_attempts,
                 asked, wire, lnd, now, bounds>>

(* add_invoice_action on a settled order: the buyer replaces the invoice,   *)
(* unless a payout is in flight.  An admin settle from the RPC server may   *)
(* be inside do_payment at the time.                                        *)
pay_new_invoice(i) ==
  /\ status = "settled-hold-invoice"
  /\ payout = NoClaim
  /\ swaps < MaxSwaps
  /\ buyer_invoice' = i
  /\ payment_attempts' = 0
  /\ asked' = FALSE
  /\ swaps' = swaps + 1
  /\ UNCHANGED <<status, payout, failed_payment, caller, actors, wire, lnd,
                 clock, faults>>

-----------------------------------------------------------------------------
(* The background task of do_payment.                                       *)

(* The claim was re-armed or replaced while queued: drop the dispatch.      *)
TouchLost(t) ==
  /\ pc[t] = "queued"
  /\ payout # claim[t] \/ status # "settled-hold-invoice"
  /\ Stop(t)
  /\ UNCHANGED <<row, asked, caller, wire, lnd, clock, bounds>>

(* While waiting for a send permit the claim is re-stamped.                 *)
Heartbeat(t) ==
  /\ pc[t] = "queued"
  /\ claim[t].at < now
  /\ touch_order_payout_claim(t)
  /\ UNCHANGED <<status, buyer_invoice, failed_payment, payment_attempts,
                 asked, caller, pc, snap, wire, lnd, now, bounds>>

(* Permit acquired, claim re-validated and re-stamped, watcher started and  *)
(* send_payment called.                                                     *)
Dispatch(t) ==
  /\ pc[t] = "queued"
  /\ touch_order_payout_claim(t)
  /\ pc' = [pc EXCEPT ![t] = "sending"]
  /\ wire' = wire \cup {[task |-> t, claim |-> claim'[t]]}
  /\ UNCHANGED <<status, buyer_invoice, failed_payment, payment_attempts,
                 asked, caller, snap, lnd, now, bounds>>

(* The timeout around send_payment, a stream that dies without a terminal   *)
(* update, a failed heartbeat or touch statement: the marker is kept.       *)
TaskGivesUp(t) ==
  /\ pc[t] \in {"queued", "sending", "streaming"}
  /\ Fault
  /\ Stop(t)
  /\ UNCHANGED <<row, asked, caller, wire, lnd, clock, swaps>>

(* classify_dispatch after an RPC error: the lookup by hash decides between *)
(* keeping the marker and re-arming.                                        *)
classify_dispatch(t) ==
  /\ pc[t] = "errored"
  /\ IF Live(claim[t].hash) THEN Stop(t) ELSE Goto(t, "rearm")
  /\ UNCHANGED <<row, asked, caller, wire, lnd, clock, bounds>>

-----------------------------------------------------------------------------
(* LND, and the send_payment call that talks to it.                         *)

Sender(r) == pc[r.task] = "sending" /\ claim[r.task] = r.claim
Answer(r, step) ==
  IF Sender(r) THEN Goto(r.task, step) ELSE UNCHANGED actors

(* LND starts paying; the caller gets the stream, or an error in its place. *)
LndRegister(r) ==
  /\ now <= r.claim.at + RegisterDelay
  /\ ~Live(r.claim.hash)
  /\ lnd' = [lnd EXCEPT ![r.claim.hash] = "in_flight"]
  /\ wire' = wire \ {r}
  /\ \/ Answer(r, "streaming") /\ UNCHANGED faults
     \/ Answer(r, "errored") /\ Fault
  /\ UNCHANGED <<row, asked, caller, clock, swaps>>

(* The duplicate guard, or LND itself, refuses a hash in flight or settled. *)
LndRejectsDuplicate(r) ==
  /\ Live(r.claim.hash)
  /\ wire' = wire \ {r}
  /\ Answer(r, "errored")
  /\ UNCHANGED <<row, asked, caller, lnd, clock, bounds>>

(* The request never reaches LND: an RPC error, or the caller is gone.      *)
RequestLost(r) ==
  /\ wire' = wire \ {r}
  /\ Answer(r, "errored")
  /\ Fault \/ (now > r.claim.at + RegisterDelay /\ UNCHANGED faults)
  /\ UNCHANGED <<row, asked, caller, lnd, clock, swaps>>

(* A payment ends; every open stream of the hash delivers the last update   *)
(* to its watcher.                                                          *)
Deliver(h, step) ==
  pc' = [a \in Actors |-> IF pc[a] = "streaming" /\ claim[a].hash = h
                          THEN step ELSE pc[a]]
LndSettles(h) ==
  /\ lnd[h] = "in_flight"
  /\ lnd' = [lnd EXCEPT ![h] = "succeeded"]
  /\ Deliver(h, "finalize")
  /\ UNCHANGED <<row, asked, caller, claim, snap, wire, clock, bounds>>
LndFails(h) ==
  /\ lnd[h] = "in_flight"
  /\ lnd' = [lnd EXCEPT ![h] = "failed"]
  /\ Deliver(h, "rearm")
  /\ UNCHANGED <<row, asked, caller, claim, snap, wire, clock, bounds>>

-----------------------------------------------------------------------------
(* job_reconcile_inflight_payouts.                                          *)

ReconcilePick ==
  /\ pc[Reconciler] = "idle"
  /\ find_inflight_payouts
  /\ claim' = [claim EXCEPT ![Reconciler] = payout]
  /\ pc' = [pc EXCEPT ![Reconciler] = "lookup"]
  /\ UNCHANGED <<row, asked, caller, snap, wire, lnd, clock, bounds>>

(* lookup_payment_status decides the branch of reconcile_inflight_payout; a *)
(* failed payout's row copy is read before the claim is released.           *)
reconcile_inflight_payout ==
  /\ pc[Reconciler] = "lookup"
  /\ LET h == claim[Reconciler].hash
     IN \/ lnd[h] = "succeeded" /\ Goto(Reconciler, "finalize")
        \/ lnd[h] = "in_flight" /\ Stop(Reconciler)
        \/ ~Live(h) /\ Goto(Reconciler, "pre")
  /\ UNCHANGED <<row, asked, caller, wire, lnd, clock, bounds>>

ReadPre ==
  /\ pc[Reconciler] = "pre"
  /\ pc' = [pc EXCEPT ![Reconciler] = "rearm"]
  /\ snap' = [snap EXCEPT ![Reconciler] = RowSnap]
  /\ UNCHANGED <<row, asked, caller, claim, wire, lnd, clock, bounds>>

-----------------------------------------------------------------------------
(* What a watcher, a task and the reconciler do with a known outcome.       *)

(* A failed payout: release the claim and, if it was still ours, book.      *)
Rearm(a) ==
  /\ pc[a] = "rearm"
  /\ \/ fail_order_payout(claim[a]) /\ Goto(a, "book")
     \/ payout # claim[a] /\ Stop(a) /\ UNCHANGED <<payout, failed_payment>>
  /\ UNCHANGED <<status, buyer_invoice, payment_attempts, asked, caller,
                 wire, lnd, clock, bounds>>

Book(a) ==
  /\ pc[a] = "book"
  /\ check_failure_retries(snap[a])
  /\ Stop(a)
  /\ UNCHANGED <<status, buyer_invoice, payout, caller, wire,
                 lnd, clock, bounds>>

(* payment_success: the status moves to success, once, whoever gets there.  *)
payment_success(a) ==
  /\ pc[a] = "finalize"
  /\ status' = IF status = "settled-hold-invoice" THEN "success" ELSE status
  /\ Goto(a, "clear")
  /\ UNCHANGED <<buyer_invoice, payout, failed_payment, payment_attempts,
                 asked, caller, wire, lnd, clock, bounds>>

Clear(a) ==
  /\ pc[a] = "clear"
  /\ clear_order_payout(claim[a])
  /\ Stop(a)
  /\ UNCHANGED <<status, buyer_invoice, failed_payment, payment_attempts,
                 asked, caller, wire, lnd, clock, bounds>>

(* A lookup, statement or publication of these steps errors: the actor      *)
(* stops there and leaves the marker as it is.                              *)
ActorErrs(a) ==
  /\ pc[a] \in {"errored", "lookup", "pre", "rearm", "book", "finalize", "clear"}
  /\ Fault
  /\ Stop(a)
  /\ UNCHANGED <<row, asked, caller, wire, lnd, clock, swaps>>

-----------------------------------------------------------------------------
(* A restart: every task of the process is gone, rows and LND stay.         *)
Crash ==
  /\ Fault
  /\ pc' = [a \in Actors |-> "idle"]
  /\ claim' = [a \in Actors |-> NoClaim]
  /\ snap' = [a \in Actors |-> Zero]
  /\ caller' = [c \in Callers |-> Idle]
  /\ UNCHANGED <<row, asked, wire, lnd, clock, swaps>>

(* Seconds only matter up to one grace window after the last stamp.         *)
Tick ==
  /\ now < lastStamp + Grace
  /\ now' = now + 1
  /\ UNCHANGED <<row, asked, caller, actors, wire, lnd, lastStamp, bounds>>

Next ==
  \/ Settle \/ RetryTick
  \/ \E c \in Callers : ResolveFails(c) \/ ConnectFails(c) \/ Claim(c)
  \/ \E i \in Invoices : pay_new_invoice(i)
  \/ \E t \in Tasks : \/ TouchLost(t) \/ Heartbeat(t) \/ Dispatch(t)
                      \/ TaskGivesUp(t) \/ classify_dispatch(t)
  \/ \E r \in wire : LndRegister(r) \/ LndRejectsDuplicate(r) \/ RequestLost(r)
  \/ \E h \in Hashes : LndSettles(h) \/ LndFails(h)
  \/ ReconcilePick \/ reconcile_inflight_payout \/ ReadPre
  \/ \E a \in Actors : Rearm(a) \/ Book(a) \/ payment_success(a) \/ Clear(a)
                       \/ ActorErrs(a)
  \/ Crash \/ Tick

Spec == Init /\ [][Next]_vars

(* What the runtime guarantees: the scheduler jobs keep ticking, a task     *)
(* that can run runs, seconds pass, LND answers every request and resolves  *)
(* every HTLC (its CLTV expires at the latest).  The buyer and the faults   *)
(* promise nothing.                                                         *)
Fairness ==
  /\ WF_vars(RetryTick) /\ WF_vars(ReconcilePick) /\ WF_vars(Tick)
  /\ \A c \in Callers : WF_vars(Claim(c) \/ ResolveFails(c))
  /\ \A t \in Tasks : WF_vars(TouchLost(t) \/ Dispatch(t) \/ classify_dispatch(t))
  /\ WF_vars(\E r \in wire :
               LndRegister(r) \/ LndRejectsDuplicate(r) \/ RequestLost(r))
  /\ \A h \in Hashes : WF_vars(LndSettles(h) \/ LndFails(h))
  /\ WF_vars(reconcile_inflight_payout \/ ReadPre)
  /\ \A a \in Actors : WF_vars(Rearm(a) \/ Book(a) \/ payment_success(a) \/ Clear(a))

FairSpec == Spec /\ Fairness

-----------------------------------------------------------------------------
(* The payout implements PayOnce: claims, tasks, jobs, retries and restarts *)
(* are invisible in what LND pays and when the order closes.                *)
Promise == INSTANCE PayOnce WITH
  paying <- {h \in Hashes : lnd[h] = "in_flight"},
  paid <- {h \in Hashes : lnd[h] = "succeeded"}
PaysOnce == Promise!Spec

(* No two payouts of one escrow: at any time LND is paying, or has paid, at *)
(* most one invoice for the order, through every interleaving of queued     *)
(* dispatches, reconciliation, invoice swaps and restarts ("it is never     *)
(* lost or paid twice", release.rs:714-716).                                *)
NoDoublePayout == \A g, h \in Hashes : Live(g) /\ Live(h) => g = h

(* While the order waits for its payout, a payment LND may still complete   *)
(* is always the one the order row claims, so find_failed_payment and       *)
(* pay_new_invoice cannot start a second one beside it.                     *)
LivePaymentHasClaim ==
  \A h \in Hashes : Live(h) /\ status = "settled-hold-invoice" =>
    payout # NoClaim /\ payout.hash = h

(* payment_success is reached only for a payment LND reports settled, even  *)
(* by a stale watcher or a reconciler racing it.                            *)
SuccessMeansPaid ==
  status = "success" => \E h \in Hashes : lnd[h] = "succeeded"

(* An order the retry job skips because its budget is spent has an          *)
(* unanswered AddInvoice request out, whichever stale copy of the row the   *)
(* bookkeeping was written from.                                            *)
ExhaustedBuyerIsAsked == payment_attempts >= Retries => asked

(* A claimed payout is never lost: it ends in success, or the buyer is      *)
(* asked for a new invoice, over restarts, lost streams and timeouts.       *)
ClaimResolved == payout # NoClaim ~> (status = "success" \/ asked)

(* Every settled escrow reaches the buyer or the buyer is asked for another *)
(* invoice ("retries are driven by the failed-payment job", release.rs:591).*)
SettledResolved ==
  status = "settled-hold-invoice" ~> (status = "success" \/ asked)
=============================================================================
