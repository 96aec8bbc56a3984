------------------------------- MODULE Trade -------------------------------
(***************************************************************************)
(* The life of one order and of the Lightning hold invoices that escrow    *)
(* it, from a take to the end of the trade.                                *)
(*                                                                         *)
(* The order is one row of the table `orders`.  It is written by the main  *)
(* event loop (app.rs: one message at a time), by the gRPC server, by one  *)
(* subscriber task per hold invoice and by two scheduler jobs.  A handler  *)
(* reads the row, talks to LND and writes the row back, and each of these  *)
(* is a step of its own here: between two of them anybody else may run.    *)
(* Most writes are full-row writes of the copy read at the start           *)
(* (`order.update(pool)`); a few are compare-and-swap or name columns.     *)
(*                                                                         *)
(* Left out: bonds (TakerBonds), the buyer's payout (Payout), amounts,     *)
(* rates and fees, messages and events on relays, range orders, Cashu.     *)
(***************************************************************************)
EXTENDS Integers

CONSTANTS
    Invoices,     \* payment hashes of the hold invoices takes may create
    None,         \* no payment hash
    Main,         \* the main event loop
    Rpc,          \* the gRPC server, running the same admin actions
    Timer,        \* job_cancel_orders
    Guardian,     \* job_escrow_deadline
    Kinds,        \* the kinds of order of this instance
    Events,       \* what may happen in this instance, see EventNames
    MaxFaults     \* bound on LND errors and restarts

EventNames == {"expire", "timeout", "deadline", "cancel", "coop", "dispute",
               "admin", "rpc", "lnd_error", "restart"}

ASSUME TradeAssumption ==
    /\ None \notin Invoices
    /\ Main \notin {Rpc, Timer, Guardian} /\ Rpc \notin {Timer, Guardian}
    /\ Timer # Guardian
    /\ {Main, Rpc, Timer, Guardian} \cap Invoices = {}
    /\ Kinds \subseteq {"buy", "sell"}
    /\ Events \subseteq EventNames
    /\ MaxFaults \in Nat

Actors == {Main, Rpc, Timer, Guardian} \cup Invoices

Sides == {"buyer", "seller"}

Statuses == {"pending", "waiting-payment", "waiting-buyer-invoice", "active",
             "fiat-sent", "dispute", "settled-hold-invoice", "canceled",
             "cooperatively-canceled", "canceled-by-admin"}

Waiting == {"waiting-payment", "waiting-buyer-invoice"}

Canceled == {"canceled", "cooperatively-canceled", "canceled-by-admin"}

(***************************************************************************)
(* The columns of the order a decision reads: its status, the payment hash *)
(* (the preimage is written and cleared with it), whether the buyer's      *)
(* invoice, the taker's keys and invoice_held_at are set, the initiator of *)
(* a cooperative cancel and the two dispute flags.                         *)
(***************************************************************************)
Rows == [status : Statuses, hash : Invoices \cup {None},
         buyer_invoice : BOOLEAN, taker : BOOLEAN, held : BOOLEAN,
         initiator : Sides \cup {"none"}, disputed : SUBSET Sides]

DisputeStatuses == {"none", "initiated", "in-progress", "settled",
                    "seller-refunded"}

Steps == {"idle", "create_take", "create_invoice", "complete_take",
          "complete_invoice", "orphan", "activate", "fiat_sent",
          "release", "release_commit", "release_close",
          "cancel_pending", "maker_write", "maker_refund",
          "taker_refund", "taker_reset", "taker_edit",
          "coop_start", "coop_refund", "coop_write", "coop_close",
          "dispute_read", "dispute_write", "dispute_create",
          "dispute_take", "settle", "settle_commit", "settle_close", "pay",
          "admin_refund", "admin_flags", "admin_write",
          "paid_write", "paid_held", "evaporated",
          "late_refund", "late_reset", "late_edit", "late_write",
          "probe", "deadline_refund", "deadline_gone", "deadline_write",
          "deadline_row", "deadline_flip"}

VARIABLES
    kind,      \* the kind of the order, never written
    row,       \* the row of `orders`
    dispute,   \* the status of the row of `disputes`, "none" without one
    solver,    \* that row names a solver
    htlc,      \* what LND knows of each hold invoice
    age,       \* of an accepted HTLC: 1 past half the guard window, 2 within
               \* the margin of its CLTV expiry
    subs,      \* invoices with a live subscription
    notes,     \* updates LND sent to a subscription and not yet handled
    pc,        \* where each actor is in its handler
    copy,      \* the order each actor holds in memory
    payments,  \* calls of do_payment for the trade each invoice escrowed
    faults     \* LND errors and restarts so far

vars == <<kind, row, dispute, solver, htlc, age, subs, notes, pc, copy,
          payments, faults>>

lnd == <<htlc, age, subs, notes>>
rest == <<kind, payments, faults>>

Fresh == [status |-> "pending", hash |-> None, buyer_invoice |-> FALSE,
          taker |-> FALSE, held |-> FALSE, initiator |-> "none",
          disputed |-> {}]

TypeOK ==
    /\ kind \in Kinds
    /\ row \in Rows
    /\ dispute \in DisputeStatuses
    /\ solver \in BOOLEAN
    /\ htlc \in [Invoices -> {"none", "created", "open", "accepted", "settled",
                             "canceled"}]
    /\ age \in [Invoices -> 0..2]
    /\ subs \in SUBSET Invoices
    /\ notes \in [Invoices -> SUBSET {"accepted", "canceled"}]
    /\ pc \in [Actors -> Steps]
    /\ copy \in [Actors -> Rows]
    /\ payments \in [Invoices -> Nat]
    /\ faults \in 0..MaxFaults

Init ==
    /\ kind \in Kinds
    /\ \E inv \in {FALSE, kind = "buy"} :
          row = [Fresh EXCEPT !.buyer_invoice = inv]
    /\ dispute = "none"
    /\ solver = FALSE
    /\ htlc = [h \in Invoices |-> "none"]
    /\ age = [h \in Invoices |-> 0]
    /\ subs = {}
    /\ notes = [h \in Invoices |-> {}]
    /\ pc = [a \in Actors |-> "idle"]
    /\ copy = [a \in Actors |-> Fresh]
    /\ payments = [h \in Invoices |-> 0]
    /\ faults = 0
----------------------------------------------------------------------------
(***************************************************************************)
(* The steps handlers are made of.                                         *)
(***************************************************************************)
(* A handler moves on; one that returns drops its copy of the order. *)
Goto(a, step) ==
    /\ pc' = [pc EXCEPT ![a] = step]
    /\ copy' = IF step = "idle" THEN [copy EXCEPT ![a] = Fresh] ELSE copy

(* A handler moves on with r as its copy of the order. *)
Hold(a, r, step) ==
    /\ pc' = [pc EXCEPT ![a] = step]
    /\ copy' = [copy EXCEPT ![a] = r]

(* A handler starts: it has read the order and keeps r of it in memory. *)
Begin(a, r, step) ==
    /\ pc[a] = "idle"
    /\ Hold(a, r, step)
    /\ UNCHANGED <<row, dispute, solver, lnd, rest>>

(* A database statement that leaves the order as r. *)
Store(a, from, r, to) ==
    /\ pc[a] = from
    /\ row' = r
    /\ Goto(a, to)
    /\ UNCHANGED <<dispute, solver, lnd, rest>>

(* order.update(pool): the whole row becomes the copy with a new status. *)
Update(a, from, status, to) ==
    Store(a, from, [copy[a] EXCEPT !.status = status], to)

(* A statement on the dispute row, which leaves it with status d. *)
StoreDispute(a, from, d, to) ==
    /\ pc[a] = from
    /\ dispute' = d
    /\ Goto(a, to)
    /\ UNCHANGED <<row, solver, lnd, rest>>

(* LND moves invoice h to state s and tells its subscriber, if any. *)
Move(h, s) ==
    /\ htlc' = [htlc EXCEPT ![h] = s]
    /\ notes' = IF h \in subs /\ htlc[h] # s /\ s \in {"accepted", "canceled"}
                THEN [notes EXCEPT ![h] = @ \cup {s}] ELSE notes
    /\ UNCHANGED <<age, subs>>

(* Mutant: an error of cancel_hold_invoice is logged and passed over. *)
MutRefundIgnoresError(a, from, to) ==
    /\ pc[a] = from
    /\ Goto(a, to)
    /\ LET h == copy[a].hash IN
       IF h = None \/ htlc[h] = "settled" THEN UNCHANGED lnd
                                          ELSE Move(h, "canceled")
    /\ UNCHANGED <<row, dispute, solver, rest>>

(* Mutant: a canceled invoice cannot be canceled again. *)
MutRefundOnce(a, from, to) ==
    /\ pc[a] = from
    /\ LET h == copy[a].hash IN
       IF h = None
       THEN Goto(a, to) /\ UNCHANGED lnd
       ELSE IF htlc[h] \in {"settled", "canceled"}
            THEN Goto(a, "idle") /\ UNCHANGED lnd
            ELSE Goto(a, to) /\ Move(h, "canceled")
    /\ UNCHANGED <<row, dispute, solver, rest>>

(***************************************************************************)
(* cancel_hold_invoice on the copy's hash, skipped without one.  LND       *)
(* answers OK for an invoice it has already canceled and an error for a    *)
(* settled one; on an error the handler returns.                           *)
(***************************************************************************)
Refund(a, from, to) ==
    /\ pc[a] = from
    /\ LET h == copy[a].hash IN
       IF h = None
       THEN Goto(a, to) /\ UNCHANGED lnd
       ELSE IF htlc[h] = "settled"
            THEN Goto(a, "idle") /\ UNCHANGED lnd
            ELSE Goto(a, to) /\ Move(h, "canceled")
    /\ UNCHANGED <<row, dispute, solver, rest>>

(* Mutant: a failed settle does not end the handler. *)
MutSettleIgnoresError(a, from, to) ==
    /\ pc[a] = from
    /\ Goto(a, to)
    /\ LET h == copy[a].hash IN
       IF h # None /\ htlc[h] = "accepted" THEN Move(h, "settled")
                                           ELSE UNCHANGED lnd
    /\ UNCHANGED <<row, dispute, solver, rest>>

(***************************************************************************)
(* settle_seller_hold_invoice: LND settles an accepted invoice only; in    *)
(* any other state, without a preimage or without the seller's key the     *)
(* handler returns an error.                                               *)
(***************************************************************************)
Settle(a, from, to) ==
    /\ pc[a] = from
    /\ LET h == copy[a].hash IN
       IF /\ h # None
          /\ htlc[h] = "accepted"
          /\ copy[a].taker \/ kind = "sell"
       THEN Goto(a, to) /\ Move(h, "settled")
       ELSE Goto(a, "idle") /\ UNCHANGED lnd
    /\ UNCHANGED <<row, dispute, solver, rest>>
----------------------------------------------------------------------------
(***************************************************************************)
(* Taking the order.  A buy order waits for the seller's payment, a sell   *)
(* order taken with a buyer invoice too; without one it first waits for    *)
(* the invoice, and add_invoice continues.                                 *)
(***************************************************************************)
take_buy_action ==
    /\ kind = "buy"
    /\ row.status = "pending"
    /\ Begin(Main, [row EXCEPT !.taker = TRUE], "create_take")

take_sell_action ==
    /\ kind = "sell"
    /\ row.status = "pending"
    /\ \/ Begin(Main, [row EXCEPT !.taker = TRUE, !.buyer_invoice = TRUE],
                "create_take")
       \/ Begin(Main, [row EXCEPT !.taker = TRUE,
                                  !.status = "waiting-buyer-invoice"],
                "complete_take")

(* show_hold_invoice, first half: LND creates a hold invoice. *)
create_hold_invoice(from, to) ==
    /\ pc[Main] = from
    /\ \E h \in Invoices :
          /\ htlc[h] = "none"
          /\ htlc' = [htlc EXCEPT ![h] = "created"]
          /\ Hold(Main, [copy[Main] EXCEPT !.hash = h,
                                           !.status = "waiting-payment"], to)
    /\ UNCHANGED <<row, dispute, solver, age, subs, notes, rest>>

(* Mutant: a take that lost leaves its invoice at LND. *)
MutOrphanKept(from, statuses) ==
    /\ pc[Main] = from
    /\ LET r == copy[Main]
           created == r.hash # None /\ htlc[r.hash] = "created"
       IN
       IF row.status \in statuses
       THEN /\ row' = [row EXCEPT !.status = r.status, !.hash = r.hash,
                                  !.buyer_invoice = r.buyer_invoice,
                                  !.taker = TRUE]
            /\ IF created
               THEN /\ htlc' = [htlc EXCEPT ![r.hash] = "open"]
                    /\ subs' = subs \cup {r.hash}
               ELSE UNCHANGED <<htlc, subs>>
       ELSE UNCHANGED <<row, htlc, subs>>
    /\ Goto(Main, "idle")
    /\ UNCHANGED <<dispute, solver, age, notes, rest>>

(***************************************************************************)
(* Second half: the compare-and-swap that stores the take, and, once it    *)
(* won, the payment request goes to the seller and the invoice is          *)
(* subscribed.  A take that lost cancels the invoice it created.           *)
(***************************************************************************)
cas_complete_pretrade_take(from, statuses) ==
    /\ pc[Main] = from
    /\ LET r == copy[Main]
           created == r.hash # None /\ htlc[r.hash] = "created"
       IN
       IF row.status \in statuses
       THEN /\ row' = [row EXCEPT !.status = r.status, !.hash = r.hash,
                                  !.buyer_invoice = r.buyer_invoice,
                                  !.taker = TRUE]
            /\ Goto(Main, "idle")
            /\ IF created
               THEN /\ htlc' = [htlc EXCEPT ![r.hash] = "open"]
                    /\ subs' = subs \cup {r.hash}
               ELSE UNCHANGED <<htlc, subs>>
       ELSE /\ Goto(Main, IF created THEN "orphan" ELSE "idle")
            /\ UNCHANGED <<row, htlc, subs>>
    /\ UNCHANGED <<dispute, solver, age, notes, rest>>

show_hold_invoice ==
    \/ create_hold_invoice("create_take", "complete_take")
    \/ create_hold_invoice("create_invoice", "complete_invoice")
    \/ cas_complete_pretrade_take("complete_take", {"pending"})
    \/ cas_complete_pretrade_take("complete_invoice",
                                  {"pending", "waiting-buyer-invoice"})
    \/ Refund(Main, "orphan", "idle")

(* Mutant: the order goes active whether the seller has paid or not. *)
MutActivateUnpaid ==
    \/ /\ row.status = "waiting-buyer-invoice"
       /\ row.taker
       /\ Begin(Main, [row EXCEPT !.buyer_invoice = TRUE], "activate")
    \/ Update(Main, "activate", "active", "idle")

(* The buyer sends an invoice; the seller has paid, or is now asked to. *)
add_invoice_action ==
    \/ /\ row.status = "waiting-buyer-invoice"
       /\ row.taker
       /\ Begin(Main, [row EXCEPT !.buyer_invoice = TRUE],
                IF row.hash # None THEN "activate" ELSE "create_invoice")
    \/ Update(Main, "activate", "active", "idle")

fiat_sent_action ==
    \/ /\ row.status = "active"
       /\ row.taker
       /\ Begin(Main, row, "fiat_sent")
    \/ Update(Main, "fiat_sent", "fiat-sent", "idle")
----------------------------------------------------------------------------
(* Mutant: an order in dispute does not match the compare-and-swap. *)
MutCommitUndisputed(a, from, statuses, to) ==
    IF row.status \in statuses \ {"dispute"}
    THEN Store(a, from, [row EXCEPT !.status = "settled-hold-invoice"], to)
    ELSE Store(a, from, row, "idle")

(***************************************************************************)
(* The seller releases: settle at LND, move the order out of fiat-sent or  *)
(* dispute with a compare-and-swap, close the dispute, pay the buyer.  A   *)
(* lost compare-and-swap ends the handler.                                 *)
(***************************************************************************)
CommitSettled(a, from, statuses, to) ==
    IF row.status \in statuses
    THEN Store(a, from, [row EXCEPT !.status = "settled-hold-invoice"], to)
    ELSE Store(a, from, row, "idle")

do_payment(a) ==
    /\ pc[a] = "pay"
    /\ payments' = [payments EXCEPT ![copy[a].hash] = @ + 1]
    /\ Goto(a, "idle")
    /\ UNCHANGED <<kind, row, dispute, solver, lnd, faults>>

Closed(d) == IF dispute = "none" THEN "none" ELSE d

release_action ==
    \/ /\ row.status \in {"fiat-sent", "dispute"}
       /\ row.taker
       /\ Begin(Main, row, "release")
    \/ Settle(Main, "release", "release_commit")
    \/ CommitSettled(Main, "release_commit", {"fiat-sent", "dispute"},
                     "release_close")
    \/ StoreDispute(Main, "release_close", Closed("settled"), "pay")
----------------------------------------------------------------------------
(***************************************************************************)
(* Cancels.  A pending order is canceled by its maker with a               *)
(* compare-and-swap.  A waiting one goes back to the book when its taker   *)
(* cancels, and is dead when its maker does.  A live one needs both sides. *)
(***************************************************************************)
cancel_pending_order_from_maker ==
    \/ /\ "cancel" \in Events
       /\ row.status = "pending"
       /\ Begin(Main, row, "cancel_pending")
    \/ Store(Main, "cancel_pending",
             IF row.status = "pending" THEN [row EXCEPT !.status = "canceled"]
                                       ELSE row, "idle")

cancel_order_by_maker ==
    \/ /\ "cancel" \in Events
       /\ row.status \in Waiting
       /\ row.taker
       /\ Begin(Main, row, "maker_write")
    \/ Update(Main, "maker_write", "canceled", "maker_refund")
    \/ Refund(Main, "maker_refund", "idle")

(* update_order_to_initial_state, a write of these columns only. *)
InitialState(r) == [r EXCEPT !.status = "pending", !.hash = None,
                             !.buyer_invoice = FALSE, !.held = FALSE]

cancel_order_by_taker ==
    \/ /\ "cancel" \in Events
       /\ row.status \in Waiting
       /\ row.taker
       /\ Begin(Main, row, "taker_refund")
    \/ Refund(Main, "taker_refund", "taker_reset")
    \/ Store(Main, "taker_reset", InitialState(row), "taker_edit")
    \/ Store(Main, "taker_edit", [row EXCEPT !.taker = FALSE], "idle")

(* The first side to ask is recorded as the initiator. *)
cancel_cooperative_execution_step_1 ==
    Store(Main, "coop_start", copy[Main], "idle")

(* The other side agrees. *)
cancel_cooperative_execution_step_2 ==
    \/ Refund(Main, "coop_refund", "coop_write")
    \/ Update(Main, "coop_write", "cooperatively-canceled", "coop_close")
    \/ StoreDispute(Main, "coop_close", Closed("seller-refunded"), "idle")

cancel_active_order ==
    \/ /\ "coop" \in Events
       /\ row.status \in {"active", "fiat-sent", "dispute"}
       /\ row.taker
       /\ \E side \in Sides :
             IF row.initiator = "none"
             THEN Begin(Main, [row EXCEPT !.initiator = side], "coop_start")
             ELSE /\ row.initiator # side
                  /\ Begin(Main, row, "coop_refund")
    \/ cancel_cooperative_execution_step_1
    \/ cancel_cooperative_execution_step_2
----------------------------------------------------------------------------
(* Mutant: both flags are raised, whoever files. *)
MutBothFlags(r, side) == [r EXCEPT !.status = "dispute", !.disputed = Sides]

(***************************************************************************)
(* Disputes.  A side files one: the order is written first, then the row   *)
(* of `disputes`, whose order_id is unique, so that a second row is        *)
(* refused.  A solver takes it and settles or refunds, from a message      *)
(* (Main) or over gRPC (Rpc).                                              *)
(***************************************************************************)
setup_dispute(r, side) ==
    [r EXCEPT !.status = "dispute", !.disputed = @ \cup {side}]

dispute_action ==
    \/ /\ "dispute" \in Events
       /\ dispute = "none"
       /\ Begin(Main, row, "dispute_read")
    \/ /\ pc[Main] = "dispute_read"
       /\ \E side \in Sides :
             IF /\ row.status \in {"active", "fiat-sent"}
                /\ row.taker
                /\ side \notin row.disputed
             THEN Hold(Main, setup_dispute(row, side), "dispute_write")
             ELSE Goto(Main, "idle")
       /\ UNCHANGED <<row, dispute, solver, lnd, rest>>
    \/ Store(Main, "dispute_write", copy[Main], "dispute_create")
    \/ StoreDispute(Main, "dispute_create",
                    IF dispute = "none" THEN "initiated" ELSE dispute, "idle")

Admins == (IF "admin" \in Events THEN {Main} ELSE {})
            \cup (IF "rpc" \in Events THEN {Rpc} ELSE {})

(* The dispute row is read, and later written whole, with its solver. *)
admin_take_dispute_action(a) ==
    \/ /\ dispute \in {"initiated", "in-progress"}
       /\ Begin(a, row, "dispute_take")
    \/ /\ pc[a] = "dispute_take"
       /\ dispute' = "in-progress"
       /\ solver' = TRUE
       /\ Goto(a, "idle")
       /\ UNCHANGED <<row, lnd, rest>>

(* The code derives the initiator of the dispute from the two flags. *)
OneFlag(r) == \E side \in Sides : r.disputed = {side}

admin_settle_action(a) ==
    \/ /\ solver
       /\ row.status = "dispute"
       /\ Begin(a, row, "settle")
    \/ Settle(a, "settle", "settle_commit")
    \/ CommitSettled(a, "settle_commit", {"dispute"}, "settle_close")
    \/ StoreDispute(a, "settle_close", Closed("settled"),
                    IF dispute = "none" \/ OneFlag(copy[a]) THEN "pay"
                                                            ELSE "idle")

admin_cancel_action(a) ==
    \/ /\ solver
       /\ row.status = "dispute"
       /\ Begin(a, row, "admin_refund")
    \/ Refund(a, "admin_refund", "admin_flags")
    \/ IF OneFlag(copy[a])
       THEN StoreDispute(a, "admin_flags", Closed("seller-refunded"),
                         "admin_write")
       ELSE StoreDispute(a, "admin_flags", dispute, "idle")
    \/ Update(a, "admin_write", "canceled-by-admin", "idle")
----------------------------------------------------------------------------
(***************************************************************************)
(* The subscriber of invoice h handles LND's updates in order.             *)
(***************************************************************************)
Handle(h, s, guard, to) ==
    /\ pc[h] = "idle"
    /\ s \in notes[h]
    /\ notes' = [notes EXCEPT ![h] = @ \ {s}]
    /\ IF row.hash = h /\ guard
       THEN Hold(h, row, to)
       ELSE UNCHANGED <<copy, pc>>
    /\ UNCHANGED <<row, dispute, solver, htlc, age, subs, rest>>

(* Full-row write of the new status, then invoice_held_at by itself. *)
hold_invoice_paid(h) ==
    \/ Handle(h, "accepted", row.status \in Waiting /\ ~row.held /\ row.taker,
              "paid_write")
    \/ Update(h, "paid_write",
              IF copy[h].buyer_invoice THEN "active"
                                       ELSE "waiting-buyer-invoice",
              "paid_held")
    \/ Store(h, "paid_held", [row EXCEPT !.held = TRUE], "idle")

(* An escrow that evaporates past its deadline ends an active trade. *)
hold_invoice_canceled(h) ==
    \/ /\ "accepted" \notin notes[h]
       /\ Handle(h, "canceled",
                 row.status = "active" /\ row.held /\ age[h] = 2, "evaporated")
    \/ Update(h, "evaporated", "canceled", "idle")
----------------------------------------------------------------------------
(***************************************************************************)
(* job_cancel_orders: a waiting order whose time is up loses its invoice.  *)
(* It returns to the book when the taker was late, and is canceled when    *)
(* the maker was.  edit_pubkeys_order clears the taker and reads the row   *)
(* again; the last step writes that row whole.                             *)
(***************************************************************************)
TakerLate(status) == <<status, kind>> \in {<<"waiting-buyer-invoice", "sell">>,
                                           <<"waiting-payment", "buy">>}

job_cancel_orders ==
    \/ /\ "timeout" \in Events
       /\ row.status \in Waiting
       /\ Begin(Timer, row, "late_refund")
    \/ Refund(Timer, "late_refund",
              IF TakerLate(copy[Timer].status) THEN "late_reset"
                                               ELSE "late_edit")
    \/ Store(Timer, "late_reset", InitialState(row), "late_edit")
    \/ /\ pc[Timer] = "late_edit"
       /\ row' = [row EXCEPT !.taker = FALSE]
       /\ Hold(Timer, [row' EXCEPT !.status = IF TakerLate(copy[Timer].status)
                                              THEN "pending" ELSE "canceled"],
               "late_write")
       /\ UNCHANGED <<dispute, solver, lnd, rest>>
    \/ Store(Timer, "late_write", copy[Timer], "idle")

(* Mutant: a live dispute row is taken for a solver already at work. *)
MutDisputeExists ==
    /\ pc[Guardian] = "deadline_row"
    /\ IF dispute \in {"initiated", "in-progress"}
       THEN Goto(Guardian, "idle") /\ UNCHANGED <<dispute, solver>>
       ELSE /\ dispute' = "initiated"
            /\ solver' = FALSE
            /\ Goto(Guardian, "deadline_flip")
    /\ UNCHANGED <<row, lnd, rest>>

(***************************************************************************)
(* A fiat-sent order goes to a solver: a live dispute row is kept, a       *)
(* resolved one reopened, a missing one created; then the order is         *)
(* flipped, from the copy read at the start of the pass.                   *)
(***************************************************************************)
OpenDispute ==
    /\ pc[Guardian] = "deadline_row"
    /\ dispute' = IF dispute = "in-progress" THEN dispute ELSE "initiated"
    /\ solver' = (solver /\ dispute \in {"initiated", "in-progress"})
    /\ Goto(Guardian, "deadline_flip")
    /\ UNCHANGED <<row, lnd, rest>>

FlipToDispute ==
    Store(Guardian, "deadline_flip", setup_dispute(copy[Guardian], "buyer"),
          "idle")

(***************************************************************************)
(* job_escrow_deadline: an escrow near its CLTV horizon is acted on before *)
(* LND refunds it.  An active trade is refunded and canceled, a fiat-sent  *)
(* one goes to a solver.  An invoice with no accepted HTLC counts as gone, *)
(* and then an error of the cancel is passed over.                         *)
(***************************************************************************)
enforce_escrow_deadline_pass ==
    \/ /\ "deadline" \in Events
       /\ row.status \in {"active", "fiat-sent"}
       /\ row.held
       /\ row.hash # None
       /\ age[row.hash] > 0
       /\ Begin(Guardian, row, "probe")
    \/ /\ pc[Guardian] = "probe"
       /\ LET h == copy[Guardian].hash IN
          Goto(Guardian,
               IF htlc[h] = "accepted" /\ age[h] < 2 THEN "idle"
               ELSE IF copy[Guardian].status = "fiat-sent" THEN "deadline_row"
               ELSE IF htlc[h] = "accepted" THEN "deadline_refund"
               ELSE "deadline_gone")
       /\ UNCHANGED <<row, dispute, solver, lnd, rest>>
    \/ Refund(Guardian, "deadline_refund", "deadline_write")
    \/ /\ pc[Guardian] = "deadline_gone"
       /\ Goto(Guardian, "deadline_write")
       /\ UNCHANGED <<row, dispute, solver, lnd, rest>>
    \/ Update(Guardian, "deadline_write", "canceled", "idle")
    \/ OpenDispute
    \/ FlipToDispute
----------------------------------------------------------------------------
(***************************************************************************)
(* LND and the chain, the faults and a restart of the daemon.              *)
(***************************************************************************)
SellerPays(h) ==
    /\ htlc[h] = "open"
    /\ Move(h, "accepted")
    /\ UNCHANGED <<row, dispute, solver, pc, copy, rest>>

InvoiceExpires(h) ==
    /\ "expire" \in Events
    /\ htlc[h] = "open"
    /\ Move(h, "canceled")
    /\ UNCHANGED <<row, dispute, solver, pc, copy, rest>>

(* No handler runs and no update of LND waits for one. *)
Quiet ==
    /\ \A a \in Actors : pc[a] = "idle"
    /\ \A h \in Invoices : notes[h] = {}

(***************************************************************************)
(* Time passes for an accepted HTLC.  Half the guard window is hours: no   *)
(* handler that ran before it still holds a copy of the order.             *)
(***************************************************************************)
Ages(h) ==
    /\ "deadline" \in Events
    /\ htlc[h] = "accepted"
    /\ \/ age[h] = 0 /\ Quiet
       \/ age[h] = 1
    /\ age' = [age EXCEPT ![h] = @ + 1]
    /\ UNCHANGED <<row, dispute, solver, htlc, subs, notes, pc, copy, rest>>

(* LND refunds an HTLC too close to its expiry by itself. *)
EscrowExpires(h) ==
    /\ age[h] = 2
    /\ htlc[h] = "accepted"
    /\ Move(h, "canceled")
    /\ UNCHANGED <<row, dispute, solver, pc, copy, rest>>

LndCalls == {"create_take", "create_invoice", "orphan", "release", "settle",
             "maker_refund", "taker_refund", "coop_refund", "admin_refund",
             "late_refund", "deadline_refund"}

(* A call to LND fails before it does anything, and its handler returns. *)
LndError(a) ==
    /\ "lnd_error" \in Events
    /\ faults < MaxFaults
    /\ faults' = faults + 1
    /\ pc[a] \in LndCalls
    /\ Goto(a, "idle")
    /\ UNCHANGED <<kind, row, dispute, solver, lnd, payments>>

(* Without an answer of LND the guardian falls back on the nominal clock, *)
(* which never proves the escrow gone.                                    *)
ProbeError ==
    /\ "lnd_error" \in Events
    /\ faults < MaxFaults
    /\ faults' = faults + 1
    /\ pc[Guardian] = "probe"
    /\ Goto(Guardian,
            IF age[copy[Guardian].hash] < 2 THEN "idle"
            ELSE IF copy[Guardian].status = "fiat-sent" THEN "deadline_row"
            ELSE "deadline_refund")
    /\ UNCHANGED <<kind, row, dispute, solver, lnd, payments>>

(* A waiting order may have an invoice to watch, a live one has it paid. *)
find_held_invoices ==
    {h \in Invoices :
        /\ row.hash = h
        /\ \/ row.status \in Waiting
           \/ row.held /\ row.status \in {"active", "fiat-sent", "dispute"}}

(* main.rs resubscribes the invoices find_held_invoices returns; LND then *)
(* sends the current state of each.                                       *)
Restart ==
    /\ "restart" \in Events
    /\ faults < MaxFaults
    /\ faults' = faults + 1
    /\ pc' = [a \in Actors |-> "idle"]
    /\ copy' = [a \in Actors |-> Fresh]
    /\ subs' = find_held_invoices
    /\ notes' = [h \in Invoices |->
                   IF h \in subs' THEN {htlc[h]} \cap {"accepted", "canceled"}
                                  ELSE {}]
    /\ UNCHANGED <<kind, row, dispute, solver, htlc, age, payments>>
----------------------------------------------------------------------------
MainStep ==
    \/ take_buy_action
    \/ take_sell_action
    \/ show_hold_invoice
    \/ add_invoice_action
    \/ fiat_sent_action
    \/ release_action
    \/ cancel_pending_order_from_maker
    \/ cancel_order_by_maker
    \/ cancel_order_by_taker
    \/ cancel_active_order
    \/ dispute_action
    \/ do_payment(Main)

AdminStep(a) ==
    \/ admin_take_dispute_action(a)
    \/ admin_settle_action(a)
    \/ admin_cancel_action(a)

Next ==
    \/ MainStep
    \/ \E a \in Admins : AdminStep(a)
    \/ "rpc" \in Events /\ do_payment(Rpc)
    \/ \E h \in Invoices : hold_invoice_paid(h) \/ hold_invoice_canceled(h)
    \/ job_cancel_orders
    \/ enforce_escrow_deadline_pass
    \/ \E h \in Invoices :
          SellerPays(h) \/ InvoiceExpires(h) \/ Ages(h) \/ EscrowExpires(h)
    \/ \E a \in Actors : LndError(a)
    \/ ProbeError
    \/ Restart

Spec == Init /\ [][Next]_vars

(***************************************************************************)
(* The daemon's own tasks run: the main loop finishes the message it       *)
(* started, subscribers handle what LND sent, the two jobs tick for ever.  *)
(* Users, sellers' wallets, solvers and the chain owe nothing.             *)
(***************************************************************************)
Fairness ==
    /\ WF_vars(MainStep /\ pc[Main] # "idle")
    /\ \A h \in Invoices :
          WF_vars(hold_invoice_paid(h) \/ hold_invoice_canceled(h))
    /\ WF_vars(job_cancel_orders)
    /\ WF_vars(enforce_escrow_deadline_pass)

FairSpec == Spec /\ Fairness
----------------------------------------------------------------------------
(***************************************************************************)
(* The buyer's payout is started at most once for the trade an invoice     *)
(* escrowed, and only once LND has settled that invoice, whichever of the  *)
(* release (release.rs:250-394) and the two admin paths                    *)
(* (admin_settle.rs:91-240) get there.                                     *)
(***************************************************************************)
PaysSettledOnce ==
    \A h \in Invoices :
        /\ payments[h] <= 1
        /\ payments[h] = 1 => htlc[h] = "settled"

(***************************************************************************)
(* A trade recorded as canceled has not had its escrow settled: the seller *)
(* has the money back, or still holds an invoice that can be canceled.     *)
(***************************************************************************)
CanceledNotSettled ==
    row.status \in Canceled /\ row.hash # None => htlc[row.hash] # "settled"

(***************************************************************************)
(* An escrow that was settled has its payout started, or the handler that  *)
(* settled it is on its way to do so.                                      *)
(***************************************************************************)
SettledIsPaid ==
    \A h \in Invoices : htlc[h] = "settled" =>
        \/ payments[h] = 1
        \/ \E a \in {Main, Rpc} :
              /\ copy[a].hash = h
              /\ pc[a] \in {"release_commit", "release_close", "settle_commit",
                            "settle_close", "pay"}

(***************************************************************************)
(* An order that shows a live trade is backed: LND holds the seller's      *)
(* money, has settled it, or a handler that refunded it is about to write  *)
(* the cancel.                                                             *)
(***************************************************************************)
Refunding == {"coop_write", "admin_flags", "admin_write", "deadline_write",
              "deadline_gone"}

EscrowBacked ==
    row.status \in {"active", "fiat-sent", "dispute"} =>
        /\ row.hash # None
        /\ \/ htlc[row.hash] \in {"accepted", "settled"}
           \/ age[row.hash] = 2
           \/ \E a \in Actors : pc[a] \in Refunding /\ copy[a].hash = row.hash

(***************************************************************************)
(* An order in dispute names one initiator.  With both flags or none,      *)
(* admin_settle and admin_cancel fail after their call to LND.             *)
(***************************************************************************)
OneInitiator ==
    row.status = "dispute" => OneFlag(row)

(***************************************************************************)
(* The guardian keeps its promise (scheduler.rs:768-780) for an order that *)
(* records when its escrow was paid: within the margin of the CLTV expiry  *)
(* it leaves active and fiat-sent for good, stale writes notwithstanding.  *)
(***************************************************************************)
Exposed(h) ==
    row.hash = h /\ row.status \in {"active", "fiat-sent"} /\ age[h] = 2

DeadlineEnforced ==
    \A h \in Invoices : Exposed(h) /\ row.held
                            ~> [](row.status \notin {"active", "fiat-sent"})

(***************************************************************************)
(* Unless a call to LND failed or the daemon stopped, a hold invoice LND   *)
(* has and the seller was never sent is in the hands of the take that      *)
(* created it: one that lost its compare-and-swap cancels it, best effort  *)
(* (util.rs:1606-1614).                                                    *)
(***************************************************************************)
NoUnsentInvoice ==
    faults = 0 =>
        \A h \in Invoices : htlc[h] = "created" =>
            /\ copy[Main].hash = h
            /\ pc[Main] \in {"complete_take", "complete_invoice", "orphan"}

(***************************************************************************)
(* No order waits for ever: the timeout job takes an unsettled order out   *)
(* of the waiting states even when its invoice has expired at LND          *)
(* (scheduler.rs:505-540).                                                 *)
(***************************************************************************)
WaitingEnds ==
    row.status \in Waiting
        ~> \/ row.status \notin Waiting
           \/ \E h \in Invoices : htlc[h] = "settled"
============================================================================
