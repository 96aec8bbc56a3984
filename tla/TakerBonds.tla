----------------------------- MODULE TakerBonds -----------------------------
(***************************************************************************)
(* The taker-bond window of one published order: src/src/app/bond/flow.rs  *)
(* (request_taker_bond, release_bond, the bond invoice subscribers and     *)
(* their handlers), the bond checks of the take handlers, the pre-trade    *)
(* cancels of src/src/app/cancel.rs and the expiry job of                  *)
(* src/src/scheduler.rs.  The window ends when a take reaches a trade      *)
(* status or the order is canceled or expired.                             *)
(*                                                                         *)
(* Concurrent parties: the main event loop (takes and cancels, one at a    *)
(* time), one subscriber per bond invoice, the expiry job, LND and the     *)
(* takers.  Every SQL statement and every LND call is one step.            *)
(***************************************************************************)
EXTENDS Integers

CONSTANTS
  Bonds,        \* rows of the bonds table the takes of this order may create
  Takers,       \* trade pubkeys of the prospective takers
  Owner,        \* the taker each bond belongs to
  Main,         \* the main event loop
  Expirer,      \* job_expire_pending_older_orders
  None,         \* NULL
  TakersCancel, \* do takers cancel in this instance?
  Expiry,       \* is expires_at reached in this instance?
  FaultKinds,   \* which of "crash", "lnd", "stream", "db" may happen
  MaxFaults     \* bound: how many of them

Workers == Bonds \cup {Main, Expirer}

ASSUME BondAssumption ==
  /\ Owner \in [Bonds -> Takers]
  /\ Main \notin Bonds /\ Expirer \notin Bonds /\ Main # Expirer
  /\ None \notin Bonds \cup Takers
  /\ Bonds \cap Takers = {}
  /\ TakersCancel \in BOOLEAN /\ Expiry \in BOOLEAN
  /\ FaultKinds \subseteq {"crash", "lnd", "stream", "db"}
  /\ MaxFaults \in Nat

VARIABLES
  status, taker, \* columns of the order row: status, the promoted taker
  bond,          \* state column of each bond row
  inv,           \* LND's state of each bond hold invoice
  subs,          \* bonds whose invoice has a live subscriber
  notes,         \* invoice updates queued for each bond's handler
  late,          \* expires_at has passed
  pc,            \* step each worker is at
  todo,          \* bonds a worker still has to release
  freed,         \* bond whose invoice a worker has canceled, row not written
  subject,       \* bond being requested / taker canceling, in the main loop
  copy,          \* order row as the expiry job read it: the taker column
  faults

order == <<status, taker>>
release == <<todo, freed>>
vars == <<order, bond, inv, subs, notes, late, pc, release, subject, copy, faults>>

PRETRADE_STATUSES == {"pending", "waiting-taker-bond"}
Statuses == PRETRADE_STATUSES \cup {"trade", "canceled", "expired"}
Active == {"requested", "locked"}
MainSteps == {"request", "subscribe", "park", "cancel", "enumerate", "find",
              "release_sender", "remaining", "reset", "pubkeys"}
HandlerSteps == {"won", "lost", "losers", "losers_gone", "release_losers",
                 "read_order", "promote", "resume", "canceled", "drop"}
Steps == {"idle", "release", "expire"} \cup MainSteps \cup HandlerSteps

TypeOK ==
  /\ status \in Statuses
  /\ taker \in Takers \cup {None}
  /\ bond \in [Bonds -> {"none", "released"} \cup Active]
  /\ inv \in [Bonds -> {"none", "unsent", "open", "accepted", "canceled"}]
  /\ subs \in SUBSET Bonds
  /\ notes \in [Bonds -> SUBSET {"accepted", "canceled"}]
  /\ late \in BOOLEAN
  /\ pc \in [Workers -> Steps]
  /\ todo \in [Workers -> SUBSET Bonds]
  /\ freed \in [Workers -> Bonds \cup {None}]
  /\ subject \in Bonds \cup Takers \cup {None}
  /\ copy \in Takers \cup {None}
  /\ faults \in Nat

Init ==
  /\ status = "pending" /\ taker = None
  /\ bond = [b \in Bonds |-> "none"]
  /\ inv = [b \in Bonds |-> "none"]
  /\ subs = {}
  /\ notes = [b \in Bonds |-> {}]
  /\ late = FALSE
  /\ pc = [w \in Workers |-> "idle"]
  /\ todo = [w \in Workers |-> {}]
  /\ freed = [w \in Workers |-> None]
  /\ subject = None /\ copy = None
  /\ faults = 0

PreTrade == status \in PRETRADE_STATUSES
IsActive(b) == bond[b] \in Active
find_active_bonds_for_order == {b \in Bonds : IsActive(b)}
trade_committed_by_locked_taker_bond == \E b \in Bonds : bond[b] = "locked"
Fault(kind) ==
  /\ kind \in FaultKinds
  /\ faults < MaxFaults
  /\ faults' = faults + 1
Goto(w, step) == pc' = [pc EXCEPT ![w] = step]

-----------------------------------------------------------------------------
(* release_bond, on each bond of a list in turn: cancel at LND, then write  *)
(* Released over the whole row.  The list was read earlier and only holds   *)
(* active bonds, so the early return for terminal rows never applies.       *)

AfterRelease(step) ==
  CASE step = "release_losers" -> "read_order"
    [] step = "release_sender" -> "remaining"
    [] OTHER -> "idle"
Releasing(w) == pc[w] \in {"release", "release_losers", "release_sender"}

(* Start the list; an empty one is done at once.                            *)
ReleaseAll(w, step, bonds) ==
  /\ todo' = [todo EXCEPT ![w] = bonds]
  /\ Goto(w, IF bonds = {} THEN AfterRelease(step) ELSE step)
  /\ UNCHANGED freed

(* The next bond of the list, or the end of it.                             *)
ReleaseNext(w, b) ==
  /\ todo' = [todo EXCEPT ![w] = @ \ {b}]
  /\ Goto(w, IF todo[w] \ {b} = {} THEN AfterRelease(pc[w]) ELSE pc[w])

(* LND moves the hold invoice to a new state; a subscriber hears of it.     *)
(* Canceling a canceled invoice reports already-done.                       *)
LndUpdate(b, state) ==
  /\ inv' = [inv EXCEPT ![b] = state]
  /\ notes' = [notes EXCEPT ![b] =
                 IF b \in subs /\ inv[b] # state THEN @ \cup {state} ELSE @]

cancel_hold_invoice(w, b) ==
  /\ Releasing(w) /\ freed[w] = None
  /\ b \in todo[w]
  /\ LndUpdate(b, "canceled")
  /\ freed' = [freed EXCEPT ![w] = b]
  /\ UNCHANGED <<order, bond, subs, late, pc, todo, subject, copy, faults>>

\* mutant: an unreachable LND counts as a cancel that is already done
ReleaseTransient_Done(w, b) ==
  /\ Releasing(w) /\ freed[w] = None
  /\ b \in todo[w]
  /\ Fault("lnd")
  /\ freed' = [freed EXCEPT ![w] = b]
  /\ UNCHANGED <<order, bond, inv, subs, notes, late, pc, todo, subject, copy>>

(* A transient failure leaves the bond active and moves on.                 *)
ReleaseTransient(w, b) ==
  /\ Releasing(w) /\ freed[w] = None
  /\ b \in todo[w]
  /\ Fault("lnd")
  /\ ReleaseNext(w, b)
  /\ UNCHANGED <<order, bond, inv, subs, notes, late, freed, subject, copy>>

MarkReleased(w) ==
  /\ Releasing(w) /\ freed[w] # None
  /\ bond' = [bond EXCEPT ![freed[w]] = "released"]
  /\ ReleaseNext(w, freed[w])
  /\ freed' = [freed EXCEPT ![w] = None]
  /\ UNCHANGED <<order, inv, subs, notes, late, subject, copy, faults>>

-----------------------------------------------------------------------------
(* A take: take_buy_action / take_sell_action up to request_taker_bond, in  *)
(* the main loop.                                                           *)

Take(b) ==
  /\ pc[Main] = "idle"
  /\ PreTrade /\ ~late
  /\ ~trade_committed_by_locked_taker_bond
  /\ \A c \in Bonds : Owner[c] = Owner[b] => ~IsActive(c)
  /\ bond[b] = "none"
  /\ subject' = b
  /\ Goto(Main, "request")
  /\ UNCHANGED <<order, bond, inv, subs, notes, late, release, copy, faults>>

(* A taker who already has an active bond gets the same invoice again.      *)
Resend(b) ==
  /\ pc[Main] = "idle"
  /\ PreTrade /\ ~late
  /\ ~trade_committed_by_locked_taker_bond
  /\ IsActive(b) /\ inv[b] = "unsent"
  /\ inv' = [inv EXCEPT ![b] = "open"]
  /\ UNCHANGED <<order, bond, subs, notes, late, pc, release, subject, copy,
                 faults>>

(* request_taker_bond: hold invoice at LND, bond row, ...                   *)
CreateBond ==
  /\ pc[Main] = "request"
  /\ inv' = [inv EXCEPT ![subject] = "unsent"]
  /\ bond' = [bond EXCEPT ![subject] = "requested"]
  /\ Goto(Main, "subscribe")
  /\ UNCHANGED <<order, subs, notes, late, release, subject, copy, faults>>

(* ... a subscriber, then the invoice is sent to the taker ...              *)
Subscribe ==
  /\ pc[Main] = "subscribe"
  /\ subs' = subs \cup {subject}
  /\ inv' = [inv EXCEPT ![subject] =
               IF inv[subject] = "unsent" THEN "open" ELSE @]
  /\ notes' = [notes EXCEPT ![subject] =
                 IF inv[subject] = "canceled" THEN {"canceled"} ELSE {}]
  /\ Goto(Main, "park")
  /\ UNCHANGED <<order, bond, late, release, subject, copy, faults>>

(* ... or, without a subscriber, the bond is rolled back.                   *)
SubscribeFails ==
  /\ pc[Main] = "subscribe"
  /\ Fault("lnd")
  /\ ReleaseAll(Main, "release", {subject})
  /\ subject' = None
  /\ UNCHANGED <<order, bond, inv, subs, notes, late, copy>>

(* ... and the order is parked unless it has moved on.                      *)
Park ==
  /\ pc[Main] = "park"
  /\ status' = IF status = "pending" THEN "waiting-taker-bond" ELSE status
  /\ Goto(Main, "idle")
  /\ subject' = None
  /\ UNCHANGED <<taker, bond, inv, subs, notes, late, release, copy, faults>>

-----------------------------------------------------------------------------
(* Cancels of a pre-trade order, in the main loop.                          *)

(* The maker: cancel_pending_order_from_maker publishes, then commits with  *)
(* cas_pretrade_order_status, then releases every active taker bond.        *)
MakerCancels ==
  /\ pc[Main] = "idle"
  /\ PreTrade
  /\ Goto(Main, "cancel")
  /\ UNCHANGED <<order, bond, inv, subs, notes, late, release, subject, copy,
                 faults>>

cas_pretrade_order_status(new) == PreTrade /\ status' = new

cancel_pending_order_from_maker ==
  /\ pc[Main] = "cancel"
  /\ \/ cas_pretrade_order_status("canceled") /\ Goto(Main, "enumerate")
     \/ ~PreTrade /\ Goto(Main, "idle") /\ UNCHANGED status
  /\ UNCHANGED <<taker, bond, inv, subs, notes, late, release, subject, copy,
                 faults>>

(* release_taker_bonds_for_order, for the maker's cancel and for the expiry *)
release_taker_bonds_for_order(w) ==
  /\ pc[w] = "enumerate"
  /\ ReleaseAll(w, "release", find_active_bonds_for_order)
  /\ UNCHANGED <<order, bond, inv, subs, notes, late, subject, copy, faults>>

(* A taker, recognised by an active bond or as the promoted taker:          *)
(* cancel_order_by_taker releases the taker's bond and, unless another      *)
(* taker is still in the race, resets and republishes the order.            *)
TakerCancels(t) ==
  /\ TakersCancel
  /\ pc[Main] = "idle"
  /\ PreTrade
  /\ taker = t \/ \E b \in find_active_bonds_for_order : Owner[b] = t
  /\ subject' = t
  /\ Goto(Main, "find")
  /\ UNCHANGED <<order, bond, inv, subs, notes, late, release, copy, faults>>

cancel_order_by_taker ==
  /\ pc[Main] = "find"
  /\ ReleaseAll(Main, "release_sender",
                {b \in find_active_bonds_for_order : Owner[b] = subject})
  /\ UNCHANGED <<order, bond, inv, subs, notes, late, subject, copy, faults>>

OthersRemain ==
  /\ pc[Main] = "remaining"
  /\ IF \E b \in find_active_bonds_for_order : Owner[b] # subject
     THEN Goto(Main, "idle") ELSE Goto(Main, "reset")
  /\ subject' = None
  /\ UNCHANGED <<order, bond, inv, subs, notes, late, release, copy, faults>>

(* cancel_order_by_taker_inner: neither statement looks at the status.      *)
update_order_to_initial_state ==
  /\ pc[Main] = "reset"
  /\ status' = "pending"
  /\ Goto(Main, "pubkeys")
  /\ UNCHANGED <<taker, bond, inv, subs, notes, late, release, subject, copy,
                 faults>>

edit_pubkeys_order ==
  /\ pc[Main] = "pubkeys"
  /\ taker' = None
  /\ Goto(Main, "idle")
  /\ UNCHANGED <<status, bond, inv, subs, notes, late, release, subject, copy,
                 faults>>

-----------------------------------------------------------------------------
(* The expiry job: reads the row, publishes, writes the whole row back.     *)

Expires ==
  /\ Expiry /\ ~late
  /\ late' = TRUE
  /\ UNCHANGED <<order, bond, inv, subs, notes, pc, release, subject, copy,
                 faults>>

find_order_by_date ==
  /\ pc[Expirer] = "idle"
  /\ late /\ PreTrade
  /\ copy' = taker
  /\ Goto(Expirer, "expire")
  /\ UNCHANGED <<order, bond, inv, subs, notes, late, release, subject, faults>>

job_expire_pending_older_orders ==
  /\ pc[Expirer] = "expire"
  /\ status' = "expired" /\ taker' = copy
  /\ copy' = None
  /\ Goto(Expirer, "enumerate")
  /\ UNCHANGED <<bond, inv, subs, notes, late, release, subject, faults>>

-----------------------------------------------------------------------------
(* on_bond_invoice_accepted, in the subscriber of bond b.                   *)

\* mutant: the compare-and-swap does not look at the order's other bonds
CanLock_Unguarded(b) == bond[b] = "requested"

(* Requested -> Locked, unless another taker bond of the order is Locked.   *)
CanLock(b) ==
  /\ bond[b] = "requested"
  /\ \A c \in Bonds \ {b} : bond[c] # "locked"

on_bond_invoice_accepted(b) ==
  /\ pc[b] = "idle"
  /\ "accepted" \in notes[b]
  /\ notes' = [notes EXCEPT ![b] = @ \ {"accepted"}]
  /\ \/ CanLock(b) /\ bond' = [bond EXCEPT ![b] = "locked"] /\ Goto(b, "won")
     \/ ~CanLock(b) /\ UNCHANGED bond /\ Goto(b, "lost")
  /\ UNCHANGED <<order, inv, subs, late, release, subject, copy, faults>>

\* mutant: a bond that lost the race resumes like a duplicate delivery
Reread_Resume(b) ==
  /\ pc[b] \in {"won", "lost"}
  /\ Goto(b, IF pc[b] = "won" THEN "losers" ELSE "read_order")
  /\ UNCHANGED <<order, bond, inv, subs, notes, late, release, subject, copy,
                 faults>>

(* The row is read again: a loser releases itself, a duplicate delivery for *)
(* a Locked bond resumes the take, a winner goes on to the losers.          *)
Reread(b) ==
  \/ /\ pc[b] = "won"
     /\ Goto(b, IF bond[b] = "locked" THEN "losers" ELSE "losers_gone")
     /\ UNCHANGED <<order, bond, inv, subs, notes, late, release, subject,
                    copy, faults>>
  \/ /\ pc[b] = "lost"
     /\ \/ bond[b] = "locked" /\ Goto(b, "read_order") /\ UNCHANGED release
        \/ bond[b] # "locked" /\ ReleaseAll(b, "release", {b} \cap find_active_bonds_for_order)
     /\ UNCHANGED <<order, bond, inv, subs, notes, late, subject, copy, faults>>

ReleaseLosers(b) ==
  /\ pc[b] \in {"losers", "losers_gone"}
  /\ ReleaseAll(b, IF pc[b] = "losers" THEN "release_losers" ELSE "release",
                {c \in Bonds \ {b} : bond[c] = "requested"})
  /\ UNCHANGED <<order, bond, inv, subs, notes, late, subject, copy, faults>>

\* mutant: a canceled order is treated like every other status
ReadOrder_Skip(b) ==
  /\ pc[b] = "read_order"
  /\ Goto(b, IF PreTrade THEN "promote" ELSE "idle")
  /\ UNCHANGED <<order, bond, inv, subs, notes, late, release, subject, copy,
                 faults>>

(* A canceled order gives the bond back; any other status outside the       *)
(* pre-trade window leaves it alone.                                        *)
ReadOrder(b) ==
  /\ pc[b] = "read_order"
  /\ \/ PreTrade /\ Goto(b, "promote") /\ UNCHANGED release
     \/ status = "canceled" /\ ReleaseAll(b, "release", {b})
     \/ ~PreTrade /\ status # "canceled" /\ Goto(b, "idle") /\ UNCHANGED release
  /\ UNCHANGED <<order, bond, inv, subs, notes, late, subject, copy, faults>>

\* mutant: the promoted row is written back whatever the status is by now
promote_taker_context_to_order_Stale(b) ==
  /\ pc[b] = "promote"
  /\ status' = "waiting-taker-bond" /\ taker' = Owner[b] /\ Goto(b, "resume")
  /\ UNCHANGED <<bond, inv, subs, notes, late, release, subject, copy, faults>>

promote_taker_context_to_order(b) ==
  /\ pc[b] = "promote"
  /\ \/ PreTrade /\ taker' = Owner[b] /\ Goto(b, "resume")
     \/ ~PreTrade /\ Goto(b, "idle") /\ UNCHANGED taker
  /\ UNCHANGED <<status, bond, inv, subs, notes, late, release, subject, copy,
                 faults>>

(* resume_take_after_bond: the order enters waiting-payment, with the taker *)
(* columns of the handler's copy, or waiting-buyer-invoice, status only.    *)
resume_take_after_bond(b) ==
  /\ pc[b] = "resume"
  /\ \/ cas_pretrade_order_status("trade") /\ taker' \in {taker, Owner[b]}
     \/ ~PreTrade /\ UNCHANGED order
  /\ Goto(b, "idle")
  /\ UNCHANGED <<bond, inv, subs, notes, late, release, subject, copy, faults>>

-----------------------------------------------------------------------------
(* on_bond_invoice_canceled: a row still active is written Released.        *)

on_bond_invoice_canceled(b) ==
  /\ pc[b] = "idle"
  /\ notes[b] = {"canceled"}
  /\ notes' = [notes EXCEPT ![b] = {}]
  /\ Goto(b, IF IsActive(b) THEN "canceled" ELSE "idle")
  /\ UNCHANGED <<order, bond, inv, subs, late, release, subject, copy, faults>>

MarkCanceled(b) ==
  /\ pc[b] = "canceled"
  /\ bond' = [bond EXCEPT ![b] = "released"]
  /\ Goto(b, "drop")
  /\ UNCHANGED <<order, inv, subs, notes, late, release, subject, copy, faults>>

maybe_drop_waiting_taker_bond(b) ==
  /\ pc[b] = "drop"
  /\ status' = IF status = "waiting-taker-bond" /\ find_active_bonds_for_order = {}
               THEN "pending" ELSE status
  /\ Goto(b, "idle")
  /\ UNCHANGED <<taker, bond, inv, subs, notes, late, release, subject, copy,
                 faults>>

-----------------------------------------------------------------------------
(* LND: the taker's payment is held; an unpaid invoice expires.             *)

LndAccepts(b) ==
  /\ inv[b] = "open"
  /\ LndUpdate(b, "accepted")
  /\ UNCHANGED <<order, bond, subs, late, pc, release, subject, copy, faults>>

LndExpires(b) ==
  /\ inv[b] \in {"unsent", "open"}
  /\ LndUpdate(b, "canceled")
  /\ UNCHANGED <<order, bond, subs, late, pc, release, subject, copy, faults>>

-----------------------------------------------------------------------------
(* Faults.                                                                  *)

(* A subscription stream ends; nothing replaces it before a restart.        *)
StreamLost(b) ==
  /\ b \in subs
  /\ Fault("stream")
  /\ subs' = subs \ {b}
  /\ UNCHANGED <<order, bond, inv, notes, late, pc, release, subject, copy>>

(* A statement or call outside release_bond errors and ends the handler;    *)
(* only the losers' listing is skipped instead.                             *)
WorkerErrs(w) ==
  /\ pc[w] # "idle" /\ ~Releasing(w)
  /\ Fault("db")
  /\ Goto(w, IF pc[w] = "losers" THEN "read_order" ELSE "idle")
  /\ subject' = IF w = Main THEN None ELSE subject
  /\ copy' = IF w = Expirer THEN None ELSE copy
  /\ UNCHANGED <<order, bond, inv, subs, notes, late, release>>

ReleaseWriteFails(w) ==
  /\ Releasing(w) /\ freed[w] # None
  /\ Fault("db")
  /\ ReleaseNext(w, freed[w])
  /\ freed' = [freed EXCEPT ![w] = None]
  /\ UNCHANGED <<order, bond, inv, subs, notes, late, subject, copy>>

(* A restart: resubscribe_active_bonds, and LND repeats the current state.  *)
Restart ==
  /\ Fault("crash")
  /\ pc' = [w \in Workers |-> "idle"]
  /\ todo' = [w \in Workers |-> {}]
  /\ freed' = [w \in Workers |-> None]
  /\ subject' = None /\ copy' = None
  /\ subs' = find_active_bonds_for_order
  /\ notes' = [b \in Bonds |-> IF IsActive(b)
                               THEN {inv[b]} \cap {"accepted", "canceled"} ELSE {}]
  /\ UNCHANGED <<order, bond, inv, late>>

MainNext ==
  \/ \E b \in Bonds : Take(b) \/ Resend(b)
  \/ CreateBond \/ Subscribe \/ SubscribeFails \/ Park
  \/ MakerCancels \/ cancel_pending_order_from_maker
  \/ \E t \in Takers : TakerCancels(t)
  \/ cancel_order_by_taker \/ OthersRemain
  \/ update_order_to_initial_state \/ edit_pubkeys_order
HandlerNext(b) ==
  \/ on_bond_invoice_accepted(b) \/ Reread(b) \/ ReleaseLosers(b)
  \/ ReadOrder(b) \/ promote_taker_context_to_order(b)
  \/ resume_take_after_bond(b) \/ on_bond_invoice_canceled(b)
  \/ MarkCanceled(b) \/ maybe_drop_waiting_taker_bond(b)
ExpireNext == Expires \/ find_order_by_date \/ job_expire_pending_older_orders
ReleaseStep(w) ==
  \/ release_taker_bonds_for_order(w)
  \/ \E b \in Bonds : cancel_hold_invoice(w, b)
  \/ MarkReleased(w)
LndNext == \E b \in Bonds : LndAccepts(b) \/ LndExpires(b)
FaultNext ==
  \/ \E w \in Workers : \/ WorkerErrs(w) \/ ReleaseWriteFails(w)
                         \/ \E b \in Bonds : ReleaseTransient(w, b)
  \/ \E b \in Bonds : StreamLost(b)
  \/ Restart

Next ==
  \/ MainNext \/ ExpireNext \/ LndNext \/ FaultNext
  \/ \E b \in Bonds : HandlerNext(b)
  \/ \E w \in Workers : ReleaseStep(w)

Spec == Init /\ [][Next]_vars

(* A handler, job or message the daemon has begun is carried on with; the   *)
(* takers, the maker, LND's timers and the faults promise nothing.          *)
Fairness ==
  /\ \A b \in Bonds : WF_vars(HandlerNext(b))
  /\ \A w \in Workers : WF_vars(ReleaseStep(w))
  /\ WF_vars(CreateBond \/ Subscribe \/ Park \/ cancel_pending_order_from_maker
            \/ cancel_order_by_taker \/ OthersRemain
            \/ update_order_to_initial_state \/ edit_pubkeys_order)
  /\ WF_vars(find_order_by_date \/ job_expire_pending_older_orders)

FairSpec == Spec /\ Fairness

-----------------------------------------------------------------------------
(* First to lock wins: whatever accepted updates, redeliveries, releases    *)
(* and restarts interleave, at most one taker bond of the order is Locked   *)
(* ("Exactly one bond can win per order", flow.rs:792-793).                     *)
OneLockedTaker ==
  \A b, c \in Bonds : bond[b] = "locked" /\ bond[c] = "locked" => b = c

(* A bond row is closed only once LND has returned the taker's HTLC: no     *)
(* error path writes Released over a bond whose sats are still held, which  *)
(* no exit path would ever look at again.                                   *)
ReleasedIsReturned ==
  \A b \in Bonds : bond[b] = "released" => inv[b] = "canceled"

(* The take continues only "as long as the bond is still Locked"            *)
(* (flow.rs:769): an order enters the trade with a taker whose bond is      *)
(* Locked at that moment.                                                   *)
ResumesLocked ==
  status # "trade" /\ status' = "trade" =>
    \E b \in Bonds : Owner[b] = taker' /\ bond[b] = "locked"

(* A canceled order is never taken, parked or republished again, although   *)
(* handlers that read it before the cancel are still running.               *)
CanceledIsFinal ==
  [][status = "canceled" => status' \in {"canceled", "expired"}]_vars

(* "a writer working from a stale snapshot loses cleanly instead of         *)
(* clobbering whoever committed first" (db.rs:668-670): expiry never        *)
(* overwrites a take that has committed.                                    *)
ExpirySparesTakes == [][status = "trade" => status' # "expired"]_vars

(* Bonds are always released: sats held for a bond are given back or back   *)
(* the trade, over restarts; a race loser, and a bond that locks on an      *)
(* order that is gone, do not wait for the HTLC to time out.                *)
HeldIsResolved ==
  \A b \in Bonds : inv[b] = "accepted" ~>
    inv[b] = "canceled" \/ (bond[b] = "locked" /\ status = "trade")
=============================================================================
