---------------------------- MODULE TradeProofs ----------------------------
(***************************************************************************)
(* Proofs about Trade, for any set of invoices and any bound on faults.    *)
(***************************************************************************)
EXTENDS Trade, TLAPS

(* Zenon closes most leaves at once; SMT takes those with arithmetic.       *)
USE ZenonT(3), SMTT(60), ZenonT(60)

----------------------------------------------------------------------------
(***************************************************************************)
(* Types.  The building blocks of the handlers keep TypeOK.                *)
(***************************************************************************)

(* A row keeps its type when its columns take values of theirs. *)
LEMMA RowType ==
    ASSUME NEW r \in Rows
    PROVE  /\ r.status \in Statuses /\ r.hash \in Invoices \cup {None}
           /\ r.buyer_invoice \in BOOLEAN /\ r.taker \in BOOLEAN
           /\ r.held \in BOOLEAN /\ r.initiator \in Sides \cup {"none"}
           /\ r.disputed \in SUBSET Sides
           /\ \A s \in Statuses : [r EXCEPT !.status = s] \in Rows
           /\ [r EXCEPT !.taker = TRUE] \in Rows
           /\ [r EXCEPT !.taker = FALSE] \in Rows
           /\ [r EXCEPT !.held = TRUE] \in Rows
           /\ [r EXCEPT !.buyer_invoice = TRUE] \in Rows
           /\ [r EXCEPT !.taker = TRUE, !.buyer_invoice = TRUE] \in Rows
           /\ [r EXCEPT !.taker = TRUE, !.status = "waiting-buyer-invoice"]
                 \in Rows
           /\ \A h \in Invoices :
                 [r EXCEPT !.hash = h, !.status = "waiting-payment"] \in Rows
           /\ \A side \in Sides : [r EXCEPT !.initiator = side] \in Rows
           /\ \A side \in Sides : setup_dispute(r, side) \in Rows
           /\ InitialState(r) \in Rows
           /\ \A q \in Rows :
                 [r EXCEPT !.status = q.status, !.hash = q.hash,
                           !.buyer_invoice = q.buyer_invoice, !.taker = TRUE]
                   \in Rows
<1>1. r.status \in Statuses /\ r.hash \in Invoices \cup {None}
      /\ r.buyer_invoice \in BOOLEAN /\ r.taker \in BOOLEAN
      /\ r.held \in BOOLEAN /\ r.initiator \in Sides \cup {"none"}
      /\ r.disputed \in SUBSET Sides
  BY DEF Rows
<1>2. \A s \in Statuses : [r EXCEPT !.status = s] \in Rows
  BY DEF Rows
<1>3. [r EXCEPT !.taker = TRUE] \in Rows /\ [r EXCEPT !.taker = FALSE] \in Rows
      /\ [r EXCEPT !.held = TRUE] \in Rows
      /\ [r EXCEPT !.buyer_invoice = TRUE] \in Rows
      /\ [r EXCEPT !.taker = TRUE, !.buyer_invoice = TRUE] \in Rows
  BY Zenon DEF Rows
<1>4. [r EXCEPT !.taker = TRUE, !.status = "waiting-buyer-invoice"] \in Rows
  BY Zenon DEF Rows, Statuses
<1>5. \A h \in Invoices :
         [r EXCEPT !.hash = h, !.status = "waiting-payment"] \in Rows
  BY Zenon DEF Rows, Statuses
<1>6. \A side \in Sides : [r EXCEPT !.initiator = side] \in Rows
  BY DEF Rows
<1>7. \A side \in Sides : setup_dispute(r, side) \in Rows
  BY Zenon DEF Rows, Statuses, setup_dispute
<1>8. InitialState(r) \in Rows
  BY Zenon DEF Rows, Statuses, InitialState
<1>9. \A q \in Rows :
         [r EXCEPT !.status = q.status, !.hash = q.hash,
                   !.buyer_invoice = q.buyer_invoice, !.taker = TRUE] \in Rows
  BY Zenon DEF Rows
<1> QED
  BY Zenon, <1>1, <1>2, <1>3, <1>4, <1>5, <1>6, <1>7, <1>8, <1>9

(* The fresh row is a row. *)
LEMMA FreshType == Fresh \in Rows
  BY DEF Fresh, Rows, Statuses, Sides

(* A handler that moves on keeps the types of pc and copy. *)
LEMMA GotoType ==
    ASSUME TypeOK, NEW a \in Actors, NEW step \in Steps, Goto(a, step)
    PROVE  pc' \in [Actors -> Steps] /\ copy' \in [Actors -> Rows]
  BY FreshType DEF TypeOK, Goto

(* So does one that takes a new copy. *)
LEMMA HoldType ==
    ASSUME TypeOK, NEW a \in Actors, NEW step \in Steps, NEW r \in Rows,
           Hold(a, r, step)
    PROVE  pc' \in [Actors -> Steps] /\ copy' \in [Actors -> Rows]
  BY DEF TypeOK, Hold

(* A handler starts. *)
LEMMA BeginType ==
    ASSUME TypeOK, NEW a \in Actors, NEW step \in Steps, NEW r \in Rows,
           Begin(a, r, step)
    PROVE  TypeOK'
  BY HoldType DEF TypeOK, Begin, lnd, rest

(* A statement on the order. *)
LEMMA StoreType ==
    ASSUME TypeOK, NEW a \in Actors, NEW from, NEW r \in Rows,
           NEW to \in Steps, Store(a, from, r, to)
    PROVE  TypeOK'
  BY GotoType DEF TypeOK, Store, lnd, rest

(* A full-row write. *)
LEMMA UpdateType ==
    ASSUME TypeOK, NEW a \in Actors, NEW from, NEW s \in Statuses,
           NEW to \in Steps, Update(a, from, s, to)
    PROVE  TypeOK'
<1>1. copy[a] \in Rows
  BY Zenon DEF TypeOK
<1>2. [copy[a] EXCEPT !.status = s] \in Rows
  BY Zenon, <1>1, RowType
<1> QED
  BY <1>2, StoreType DEF Update

(* A statement on the dispute. *)
LEMMA StoreDisputeType ==
    ASSUME TypeOK, NEW a \in Actors, NEW from, NEW d \in DisputeStatuses,
           NEW to \in Steps, StoreDispute(a, from, d, to)
    PROVE  TypeOK'
  BY GotoType DEF TypeOK, StoreDispute, lnd, rest

(* LND moves an invoice. *)
LEMMA MoveType ==
    ASSUME TypeOK, NEW h \in Invoices,
           NEW s \in {"accepted", "settled", "canceled"}, Move(h, s)
    PROVE  /\ htlc' \in [Invoices -> {"none", "created", "open", "accepted",
                                      "settled", "canceled"}]
           /\ notes' \in [Invoices -> SUBSET {"accepted", "canceled"}]
           /\ age' = age /\ subs' = subs
<1>1. htlc' \in [Invoices -> {"none", "created", "open", "accepted",
                              "settled", "canceled"}]
      /\ age' = age /\ subs' = subs
  BY DEF TypeOK, Move
<1>2. notes' \in [Invoices -> SUBSET {"accepted", "canceled"}]
  BY DEF TypeOK, Move
<1> QED
  BY <1>1, <1>2

(* A cancel of the copy's invoice. *)
LEMMA RefundType ==
    ASSUME TypeOK, NEW a \in Actors, NEW from, NEW to \in Steps,
           Refund(a, from, to)
    PROVE  TypeOK'
<1>1. copy[a] \in Rows /\ "idle" \in Steps
  BY Zenon DEF TypeOK, Steps
<1>2. copy[a].hash \in Invoices \cup {None}
  BY Zenon, <1>1, RowType
<1>3. pc' \in [Actors -> Steps] /\ copy' \in [Actors -> Rows]
  BY <1>1, GotoType DEF Refund
<1>4. CASE UNCHANGED lnd
  BY <1>3, <1>4 DEF TypeOK, Refund, lnd, rest
<1>5. CASE copy[a].hash # None /\ Move(copy[a].hash, "canceled")
  BY <1>2, <1>3, <1>5, MoveType DEF TypeOK, Refund, rest
<1> QED
  BY <1>4, <1>5 DEF Refund

(* A settle of the copy's invoice. *)
LEMMA SettleType ==
    ASSUME TypeOK, NEW a \in Actors, NEW from, NEW to \in Steps,
           Settle(a, from, to)
    PROVE  TypeOK'
<1>1. copy[a] \in Rows /\ "idle" \in Steps
  BY DEF TypeOK, Steps
<1>2. copy[a].hash \in Invoices \cup {None}
  BY Zenon, <1>1, RowType
<1>3. pc' \in [Actors -> Steps] /\ copy' \in [Actors -> Rows]
  BY <1>1, GotoType DEF Settle
<1>4. CASE UNCHANGED lnd
  BY <1>3, <1>4 DEF TypeOK, Settle, lnd, rest
<1>5. CASE copy[a].hash # None /\ Move(copy[a].hash, "settled")
  BY <1>2, <1>3, <1>5, MoveType DEF TypeOK, Settle, rest
<1> QED
  BY Zenon, <1>4, <1>5 DEF Settle

(* The messages of the two sides. *)
LEMMA TakeType ==
    ASSUME TypeOK, take_buy_action \/ take_sell_action \/ show_hold_invoice
    PROVE  TypeOK'
<1>m. Main \in Actors
  BY DEF Actors
<1>r. row \in Rows /\ copy[Main] \in Rows
  BY Zenon, <1>m DEF TypeOK
<1>t. copy[Main].hash \in Invoices \cup {None}
      /\ [row EXCEPT !.taker = TRUE] \in Rows
      /\ [row EXCEPT !.taker = TRUE, !.buyer_invoice = TRUE] \in Rows
      /\ [row EXCEPT !.taker = TRUE, !.status = "waiting-buyer-invoice"] \in Rows
  BY Zenon, <1>r, RowType
<1>u. [row EXCEPT !.status = copy[Main].status, !.hash = copy[Main].hash,
                  !.buyer_invoice = copy[Main].buyer_invoice, !.taker = TRUE]
        \in Rows
  BY Zenon, <1>r, RowType
<1>s. "idle" \in Steps /\ "create_take" \in Steps /\ "complete_take" \in Steps
      /\ "complete_invoice" \in Steps /\ "orphan" \in Steps
  BY DEF Steps
<1>1. CASE take_buy_action
  BY <1>1, <1>m, <1>t, <1>s, BeginType DEF take_buy_action
<1>2. CASE take_sell_action
  BY <1>2, <1>m, <1>t, <1>s, BeginType DEF take_sell_action
<1>3. ASSUME NEW from, NEW to \in Steps, create_hold_invoice(from, to)
      PROVE  TypeOK'
  <2>1. PICK h \in Invoices :
           /\ htlc' = [htlc EXCEPT ![h] = "created"]
           /\ Hold(Main, [copy[Main] EXCEPT !.hash = h,
                                            !.status = "waiting-payment"], to)
    BY Zenon, <1>3 DEF create_hold_invoice
  <2>2. [copy[Main] EXCEPT !.hash = h, !.status = "waiting-payment"] \in Rows
    BY Zenon, <1>r, RowType
  <2>3. pc' \in [Actors -> Steps] /\ copy' \in [Actors -> Rows]
    BY <2>1, <2>2, <1>m, <1>3, HoldType
  <2> QED
    BY Zenon, <2>1, <2>3, <1>3 DEF TypeOK, create_hold_invoice, rest
<1>4. ASSUME NEW from, NEW statuses, cas_complete_pretrade_take(from, statuses)
      PROVE  TypeOK'
  <2>1. pc' \in [Actors -> Steps] /\ copy' \in [Actors -> Rows]
    BY <1>4, <1>m, <1>s, GotoType DEF cas_complete_pretrade_take
  <2>2. row' \in Rows
    BY <1>4, <1>r, <1>u DEF cas_complete_pretrade_take
  <2>3. htlc' \in [Invoices -> {"none", "created", "open", "accepted",
                                "settled", "canceled"}]
    BY <1>4, <1>t DEF cas_complete_pretrade_take, TypeOK
  <2>4. subs' \in SUBSET Invoices
    BY <1>4, <1>t DEF cas_complete_pretrade_take, TypeOK
  <2> QED
    BY <2>1, <2>2, <2>3, <2>4, <1>4 DEF TypeOK, cas_complete_pretrade_take, rest
<1>5. CASE show_hold_invoice
  BY <1>5, <1>3, <1>4, <1>m, <1>s, RefundType DEF show_hold_invoice
<1> QED
  BY <1>1, <1>2, <1>5

(* The buyer's and the seller's steps of a live trade, and the payout. *)
LEMMA SidesType ==
    ASSUME TypeOK,
           \/ add_invoice_action
           \/ fiat_sent_action
           \/ release_action
           \/ \E a \in {Main, Rpc} : do_payment(a)
    PROVE  TypeOK'
<1>m. Main \in Actors /\ Rpc \in Actors
  BY DEF Actors
<1>r. row \in Rows
  BY Zenon DEF TypeOK
<1>t. [row EXCEPT !.buyer_invoice = TRUE] \in Rows
      /\ [row EXCEPT !.status = "settled-hold-invoice"] \in Rows
  BY Zenon, <1>r, RowType DEF Statuses
<1>s. {"idle", "activate", "create_invoice", "fiat_sent", "release",
       "release_commit", "release_close", "pay"} \subseteq Steps
      /\ "active" \in Statuses /\ "fiat-sent" \in Statuses
  BY DEF Steps, Statuses
<1>1. CASE add_invoice_action
  BY <1>1, <1>m, <1>t, <1>s, BeginType, UpdateType DEF add_invoice_action
<1>2. CASE fiat_sent_action
  BY <1>2, <1>m, <1>r, <1>s, BeginType, UpdateType DEF fiat_sent_action
<1>3. CASE release_action
  <2>1. ASSUME Begin(Main, row, "release")
        PROVE  TypeOK'
    BY <2>1, <1>m, <1>r, <1>s, BeginType
  <2>2. ASSUME Settle(Main, "release", "release_commit")
        PROVE  TypeOK'
    BY <2>2, <1>m, <1>s, SettleType
  <2>3. ASSUME CommitSettled(Main, "release_commit", {"fiat-sent", "dispute"},
                             "release_close")
        PROVE  TypeOK'
    BY <2>3, <1>m, <1>r, <1>t, <1>s, StoreType DEF CommitSettled
  <2>4. ASSUME StoreDispute(Main, "release_close", Closed("settled"), "pay")
        PROVE  TypeOK'
    BY <2>4, <1>m, <1>s, StoreDisputeType DEF Closed, DisputeStatuses
  <2> QED
    BY <1>3, <2>1, <2>2, <2>3, <2>4 DEF release_action
<1>4. ASSUME NEW a \in {Main, Rpc}, do_payment(a)
      PROVE  TypeOK'
  <2>1. pc' \in [Actors -> Steps] /\ copy' \in [Actors -> Rows]
    BY <1>4, <1>m, <1>s, GotoType DEF do_payment
  <2>2. payments' \in [Invoices -> Nat]
    <3>1. payments \in [Invoices -> Nat]
          /\ payments' = [payments EXCEPT ![copy[a].hash] = @ + 1]
      BY <1>4 DEF do_payment, TypeOK
    <3>2. \A h \in Invoices : payments[h] + 1 \in Nat
      BY <3>1
    <3>3. \A h \in Invoices : payments'[h] \in Nat
      BY <3>1, <3>2
    <3> QED
      BY Zenon, <3>1, <3>3
  <2> QED
    BY <2>1, <2>2, <1>4 DEF do_payment, TypeOK, lnd
<1> QED
  BY <1>1, <1>2, <1>3, <1>4

(* The cancels and the disputes. *)
LEMMA CancelType ==
    ASSUME TypeOK,
           \/ cancel_pending_order_from_maker
           \/ cancel_order_by_maker
           \/ cancel_order_by_taker
           \/ cancel_active_order
    PROVE  TypeOK'
<1>m. Main \in Actors
  BY DEF Actors
<1>r. row \in Rows /\ copy[Main] \in Rows
  BY <1>m DEF TypeOK
<1>t. [row EXCEPT !.taker = FALSE] \in Rows
      /\ [row EXCEPT !.status = "canceled"] \in Rows
      /\ InitialState(row) \in Rows
      /\ \A side \in Sides : [row EXCEPT !.initiator = side] \in Rows
  BY Zenon, <1>r, RowType DEF Statuses
<1>s. {"idle", "cancel_pending", "maker_write", "maker_refund", "taker_refund",
       "taker_reset", "taker_edit", "coop_start", "coop_refund", "coop_write",
       "coop_close"} \subseteq Steps
      /\ "canceled" \in Statuses /\ "cooperatively-canceled" \in Statuses
  BY DEF Steps, Statuses
<1>1. CASE cancel_pending_order_from_maker
  <2>1. ASSUME Begin(Main, row, "cancel_pending")
        PROVE  TypeOK'
    BY <2>1, <1>m, <1>r, <1>s, BeginType
  <2>2. (IF row.status = "pending" THEN [row EXCEPT !.status = "canceled"]
                                   ELSE row) \in Rows
    BY <1>r, <1>t
  <2> QED
    BY <1>1, <2>1, <2>2, <1>m, <1>s, StoreType
    DEF cancel_pending_order_from_maker
<1>2. CASE cancel_order_by_maker
  BY <1>2, <1>m, <1>r, <1>s, BeginType, UpdateType, RefundType
  DEF cancel_order_by_maker
<1>3. CASE cancel_order_by_taker
  BY <1>3, <1>m, <1>r, <1>t, <1>s, BeginType, StoreType, RefundType
  DEF cancel_order_by_taker
<1>4. CASE cancel_active_order
  <2>1. ASSUME NEW side \in Sides,
               IF row.initiator = "none"
               THEN Begin(Main, [row EXCEPT !.initiator = side], "coop_start")
               ELSE row.initiator # side /\ Begin(Main, row, "coop_refund")
        PROVE  TypeOK'
    BY <2>1, <1>m, <1>r, <1>t, <1>s, BeginType
  <2>2. ASSUME Store(Main, "coop_start", copy[Main], "idle")
        PROVE  TypeOK'
    BY <2>2, <1>m, <1>r, <1>s, StoreType
  <2>3. ASSUME Refund(Main, "coop_refund", "coop_write")
        PROVE  TypeOK'
    BY <2>3, <1>m, <1>s, RefundType
  <2>4. ASSUME Update(Main, "coop_write", "cooperatively-canceled", "coop_close")
        PROVE  TypeOK'
    BY <2>4, <1>m, <1>s, UpdateType
  <2>5. ASSUME StoreDispute(Main, "coop_close", Closed("seller-refunded"), "idle")
        PROVE  TypeOK'
    BY <2>5, <1>m, <1>s, StoreDisputeType DEF Closed, DisputeStatuses
  <2> QED
    BY Zenon, <1>4, <2>1, <2>2, <2>3, <2>4, <2>5 DEF cancel_active_order,
        cancel_cooperative_execution_step_1,
        cancel_cooperative_execution_step_2
<1> QED
  BY <1>1, <1>2, <1>3, <1>4

(* Filing, taking and resolving a dispute. *)
LEMMA DisputeType ==
    ASSUME TypeOK, dispute_action \/ \E a \in Admins : AdminStep(a)
    PROVE  TypeOK'
<1>m. Main \in Actors /\ Admins \subseteq Actors
  BY DEF Actors, Admins
<1>r. row \in Rows /\ copy[Main] \in Rows /\ dispute \in DisputeStatuses
  BY Zenon, <1>m DEF TypeOK
<1>t. /\ [row EXCEPT !.status = "settled-hold-invoice"] \in Rows
      /\ \A side \in Sides : setup_dispute(row, side) \in Rows
  BY Zenon, <1>r, RowType DEF Statuses
<1>s. {"idle", "dispute_read", "dispute_write", "dispute_create",
       "dispute_take", "settle", "settle_commit", "settle_close", "pay",
       "admin_refund", "admin_flags", "admin_write"} \subseteq Steps
      /\ "canceled-by-admin" \in Statuses
      /\ {"initiated", "in-progress"} \subseteq DisputeStatuses
  BY DEF Steps, Statuses, DisputeStatuses
<1>1. CASE dispute_action
  <2>1. ASSUME Begin(Main, row, "dispute_read")
        PROVE  TypeOK'
    BY <2>1, <1>m, <1>r, <1>s, BeginType
  <2>2. ASSUME NEW side \in Sides,
               \/ Hold(Main, setup_dispute(row, side), "dispute_write")
               \/ Goto(Main, "idle"),
               UNCHANGED <<row, dispute, solver, lnd, rest>>
        PROVE  TypeOK'
    <3>1. pc' \in [Actors -> Steps] /\ copy' \in [Actors -> Rows]
      BY <2>2, <1>m, <1>t, <1>s, HoldType, GotoType
    <3> QED
      BY <2>2, <3>1 DEF TypeOK, lnd, rest
  <2>3. ASSUME Store(Main, "dispute_write", copy[Main], "dispute_create")
        PROVE  TypeOK'
    BY <2>3, <1>m, <1>r, <1>s, StoreType
  <2>4. ASSUME StoreDispute(Main, "dispute_create",
                    IF dispute = "none" THEN "initiated" ELSE dispute, "idle")
        PROVE  TypeOK'
    BY <2>4, <1>m, <1>r, <1>s, StoreDisputeType
  <2> QED
    BY <1>1, <2>1, <2>2, <2>3, <2>4 DEF dispute_action
<1>2. ASSUME NEW a \in Actors, admin_take_dispute_action(a)
      PROVE  TypeOK'
  <2>1. ASSUME Begin(a, row, "dispute_take")
        PROVE  TypeOK'
    BY <2>1, <1>r, <1>s, BeginType
  <2>2. ASSUME dispute' = "in-progress", solver' = TRUE, Goto(a, "idle"),
               UNCHANGED <<row, lnd, rest>>
        PROVE  TypeOK'
    <3>1. pc' \in [Actors -> Steps] /\ copy' \in [Actors -> Rows]
      BY <2>2, <1>s, GotoType
    <3> QED
      BY <2>2, <3>1, <1>s DEF TypeOK, lnd, rest
  <2> QED
    BY Zenon, <1>2, <2>1, <2>2 DEF admin_take_dispute_action
<1>3. ASSUME NEW a \in Actors, admin_settle_action(a)
      PROVE  TypeOK'
  <2>1. ASSUME Begin(a, row, "settle")
        PROVE  TypeOK'
    BY <2>1, <1>r, <1>s, BeginType
  <2>2. ASSUME Settle(a, "settle", "settle_commit")
        PROVE  TypeOK'
    BY <2>2, <1>s, SettleType
  <2>3. ASSUME CommitSettled(a, "settle_commit", {"dispute"}, "settle_close")
        PROVE  TypeOK'
    BY <2>3, <1>r, <1>t, <1>s, StoreType DEF CommitSettled
  <2>4. ASSUME NEW to \in {"pay", "idle"},
               StoreDispute(a, "settle_close", Closed("settled"), to)
        PROVE  TypeOK'
    BY <2>4, <1>s, StoreDisputeType DEF Closed, DisputeStatuses
  <2> QED
    BY <1>3, <2>1, <2>2, <2>3, <2>4 DEF admin_settle_action
<1>4. ASSUME NEW a \in Actors, admin_cancel_action(a)
      PROVE  TypeOK'
  <2>1. ASSUME Begin(a, row, "admin_refund")
        PROVE  TypeOK'
    BY <2>1, <1>r, <1>s, BeginType
  <2>2. ASSUME Refund(a, "admin_refund", "admin_flags")
        PROVE  TypeOK'
    BY <2>2, <1>s, RefundType
  <2>3. ASSUME StoreDispute(a, "admin_flags", Closed("seller-refunded"),
                            "admin_write")
        PROVE  TypeOK'
    BY <2>3, <1>s, StoreDisputeType DEF Closed, DisputeStatuses
  <2>4. ASSUME StoreDispute(a, "admin_flags", dispute, "idle")
        PROVE  TypeOK'
    BY <2>4, <1>r, <1>s, StoreDisputeType
  <2>5. ASSUME Update(a, "admin_write", "canceled-by-admin", "idle")
        PROVE  TypeOK'
    BY <2>5, <1>s, UpdateType
  <2> QED
    BY <1>4, <2>1, <2>2, <2>3, <2>4, <2>5 DEF admin_cancel_action
<1> QED
  BY <1>1, <1>2, <1>3, <1>4, <1>m DEF AdminStep

(* The subscribers and the two jobs. *)
LEMMA TasksType ==
    ASSUME TypeOK,
           \/ \E h \in Invoices : hold_invoice_paid(h) \/ hold_invoice_canceled(h)
           \/ job_cancel_orders
           \/ enforce_escrow_deadline_pass
    PROVE  TypeOK'
<1>m. Timer \in Actors /\ Guardian \in Actors /\ Invoices \subseteq Actors
  BY DEF Actors
<1>r. row \in Rows /\ \A a \in Actors : copy[a] \in Rows
  BY Zenon DEF TypeOK
<1>t. /\ [row EXCEPT !.held = TRUE] \in Rows
      /\ [row EXCEPT !.taker = FALSE] \in Rows
      /\ InitialState(row) \in Rows
  BY Zenon, <1>r, RowType
<1>s. {"idle", "paid_write", "paid_held", "evaporated", "late_refund",
       "late_reset", "late_edit", "late_write", "probe", "deadline_refund",
       "deadline_gone", "deadline_write", "deadline_row", "deadline_flip"}
        \subseteq Steps
      /\ {"active", "waiting-buyer-invoice", "canceled", "pending"}
           \subseteq Statuses
      /\ "initiated" \in DisputeStatuses
  BY DEF Steps, Statuses, DisputeStatuses
<1>1. ASSUME NEW h \in Invoices, NEW s, NEW guard, NEW to \in Steps,
             Handle(h, s, guard, to)
      PROVE  TypeOK'
  <2>1. pc' \in [Actors -> Steps] /\ copy' \in [Actors -> Rows]
    <3>1. CASE Hold(h, row, to)
      BY <3>1, <1>1, <1>m, <1>r, HoldType
    <3>2. CASE UNCHANGED <<copy, pc>>
      BY <3>2 DEF TypeOK
    <3> QED
      BY <1>1, <3>1, <3>2 DEF Handle
  <2>2. notes' \in [Invoices -> SUBSET {"accepted", "canceled"}]
    BY <1>1 DEF Handle, TypeOK
  <2> QED
    BY <1>1, <2>1, <2>2 DEF Handle, TypeOK, rest
<1>2. ASSUME NEW h \in Invoices, hold_invoice_paid(h)
      PROVE  TypeOK'
  <2>1. ASSUME NEW st \in {"active", "waiting-buyer-invoice"},
               Update(h, "paid_write", st, "paid_held")
        PROVE  TypeOK'
    BY <2>1, <1>m, <1>s, UpdateType
  <2>2. ASSUME Store(h, "paid_held", [row EXCEPT !.held = TRUE], "idle")
        PROVE  TypeOK'
    BY <2>2, <1>m, <1>t, <1>s, StoreType
  <2> QED
    BY <1>1, <1>2, <1>s, <2>1, <2>2 DEF hold_invoice_paid
<1>3. ASSUME NEW h \in Invoices, hold_invoice_canceled(h)
      PROVE  TypeOK'
  <2>1. ASSUME Update(h, "evaporated", "canceled", "idle")
        PROVE  TypeOK'
    BY <2>1, <1>m, <1>s, UpdateType
  <2> QED
    BY <1>1, <1>3, <1>s, <2>1 DEF hold_invoice_canceled
<1>4. CASE job_cancel_orders
  <2>1. ASSUME Begin(Timer, row, "late_refund")
        PROVE  TypeOK'
    BY <2>1, <1>m, <1>r, <1>s, BeginType
  <2>2. ASSUME NEW to \in {"late_reset", "late_edit"},
               Refund(Timer, "late_refund", to)
        PROVE  TypeOK'
    BY <2>2, <1>m, <1>s, RefundType
  <2>3. ASSUME Store(Timer, "late_reset", InitialState(row), "late_edit")
        PROVE  TypeOK'
    BY <2>3, <1>m, <1>t, <1>s, StoreType
  <2>4. ASSUME NEW st \in {"pending", "canceled"},
               row' = [row EXCEPT !.taker = FALSE],
               Hold(Timer, [row' EXCEPT !.status = st], "late_write"),
               UNCHANGED <<dispute, solver, lnd, rest>>
        PROVE  TypeOK'
    <3>1. row' \in Rows
      BY Zenon, <2>4, <1>t
    <3>2. [row' EXCEPT !.status = st] \in Rows
      BY Zenon, <3>1, <2>4, <1>s, RowType
    <3>3. pc' \in [Actors -> Steps] /\ copy' \in [Actors -> Rows]
      BY <3>2, <2>4, <1>m, <1>s, HoldType
    <3> QED
      BY <2>4, <3>1, <3>3 DEF TypeOK, lnd, rest
  <2>5. ASSUME Store(Timer, "late_write", copy[Timer], "idle")
        PROVE  TypeOK'
    BY Zenon, <2>5, <1>m, <1>r, <1>s, StoreType
  <2> QED
    BY <1>4, <2>1, <2>2, <2>3, <2>4, <2>5 DEF job_cancel_orders
<1>5. CASE enforce_escrow_deadline_pass
  <2>1. ASSUME Begin(Guardian, row, "probe")
        PROVE  TypeOK'
    BY <2>1, <1>m, <1>r, <1>s, BeginType
  <2>2. ASSUME NEW to \in {"idle", "deadline_row", "deadline_refund",
                           "deadline_gone", "deadline_write"},
               Goto(Guardian, to), UNCHANGED <<row, dispute, solver, lnd, rest>>
        PROVE  TypeOK'
    <3>1. pc' \in [Actors -> Steps] /\ copy' \in [Actors -> Rows]
      BY <2>2, <1>m, <1>s, GotoType
    <3> QED
      BY <2>2, <3>1 DEF TypeOK, lnd, rest
  <2>3. ASSUME Refund(Guardian, "deadline_refund", "deadline_write")
        PROVE  TypeOK'
    BY <2>3, <1>m, <1>s, RefundType
  <2>4. ASSUME Update(Guardian, "deadline_write", "canceled", "idle")
        PROVE  TypeOK'
    BY <2>4, <1>m, <1>s, UpdateType
  <2>5. ASSUME OpenDispute
        PROVE  TypeOK'
    <3>1. pc' \in [Actors -> Steps] /\ copy' \in [Actors -> Rows]
      BY <2>5, <1>m, <1>s, GotoType DEF OpenDispute
    <3>2. dispute' \in DisputeStatuses
      BY <2>5, <1>s DEF OpenDispute, TypeOK
    <3>3. solver' \in BOOLEAN
      BY <2>5, Zenon DEF OpenDispute
    <3> QED
      BY <2>5, <3>1, <3>2, <3>3 DEF OpenDispute, TypeOK, lnd, rest
  <2>6. ASSUME FlipToDispute
        PROVE  TypeOK'
    <3>1. setup_dispute(copy[Guardian], "buyer") \in Rows
      BY Zenon, <1>m, <1>r, RowType DEF Sides
    <3> QED
      BY Zenon, <2>6, <3>1, <1>m, <1>s, StoreType DEF FlipToDispute
  <2> QED
    BY <1>5, <2>1, <2>2, <2>3, <2>4, <2>5, <2>6
    DEF enforce_escrow_deadline_pass
<1> QED
  BY <1>2, <1>3, <1>4, <1>5

(* LND, the chain and the faults. *)
LEMMA OutsideType ==
    ASSUME TypeOK,
           \/ \E h \in Invoices :
                 SellerPays(h) \/ InvoiceExpires(h) \/ Ages(h) \/ EscrowExpires(h)
           \/ \E a \in Actors : LndError(a)
           \/ ProbeError
           \/ Restart
    PROVE  TypeOK'
<1>m. Guardian \in Actors
  BY DEF Actors
<1>s. {"idle", "deadline_row", "deadline_refund"} \subseteq Steps
  BY DEF Steps
<1>1. ASSUME NEW h \in Invoices, NEW s \in {"accepted", "canceled"}, Move(h, s),
             UNCHANGED <<row, dispute, solver, pc, copy, rest>>
      PROVE  TypeOK'
  BY <1>1, MoveType DEF TypeOK, rest
<1>2. ASSUME NEW h \in Invoices, Ages(h)
      PROVE  TypeOK'
  <2>1. age' \in [Invoices -> 0..2]
    BY <1>2 DEF Ages, TypeOK
  <2> QED
    BY <1>2, <2>1 DEF Ages, TypeOK, rest
<1>3. ASSUME NEW a \in Actors, NEW to \in {"idle", "deadline_row", "deadline_refund"},
             Goto(a, to), faults < MaxFaults, faults' = faults + 1,
             UNCHANGED <<kind, row, dispute, solver, lnd, payments>>
      PROVE  TypeOK'
  <2>1. pc' \in [Actors -> Steps] /\ copy' \in [Actors -> Rows]
    BY <1>3, <1>s, GotoType
  <2>2. faults' \in 0..MaxFaults
    BY <1>3, TradeAssumption DEF TypeOK
  <2> QED
    BY <1>3, <2>1, <2>2 DEF TypeOK, lnd
<1>4. CASE Restart
  <2>1. pc' \in [Actors -> Steps] /\ copy' \in [Actors -> Rows]
    BY <1>4, <1>s, FreshType DEF Restart
  <2>2. faults' \in 0..MaxFaults
    BY SMTT(30), <1>4, TradeAssumption DEF TypeOK, Restart
  <2>3. subs' \in SUBSET Invoices
    BY <1>4 DEF Restart, find_held_invoices
  <2>4. notes' \in [Invoices -> SUBSET {"accepted", "canceled"}]
    BY <1>4 DEF Restart, find_held_invoices
  <2> QED
    BY Zenon, <1>4, <2>1, <2>2, <2>3, <2>4 DEF TypeOK, Restart
<1> QED
  BY <1>1, <1>2, <1>3, <1>4, <1>m
  DEF SellerPays, InvoiceExpires, EscrowExpires, LndError, ProbeError

(* The first state has the types TypeOK gives. *)
LEMMA TypeInit ==
    ASSUME Init
    PROVE  TypeOK
<1>1. row \in Rows
  BY Zenon DEF Init, Fresh, Rows, Statuses, Sides
<1>2. pc \in [Actors -> Steps] /\ copy \in [Actors -> Rows]
  BY FreshType DEF Init, Steps
<1>3. faults \in 0..MaxFaults
  BY TradeAssumption DEF Init
<1>4. kind \in Kinds /\ dispute = "none" /\ solver \in BOOLEAN /\ subs = {}
  BY Zenon DEF Init
<1>5. /\ htlc = [h \in Invoices |-> "none"]
      /\ age = [h \in Invoices |-> 0]
      /\ notes = [h \in Invoices |-> {}]
      /\ payments = [h \in Invoices |-> 0]
  BY DEF Init
<1> QED
  BY <1>1, <1>2, <1>3, <1>4, <1>5 DEF TypeOK, DisputeStatuses

(* Every step keeps them. *)
LEMMA TypeNext ==
    ASSUME TypeOK, [Next]_vars
    PROVE  TypeOK'
<1>1. CASE MainStep
  BY <1>1, TakeType, SidesType, CancelType, DisputeType DEF MainStep
<1>2. CASE UNCHANGED vars
  BY <1>2 DEF TypeOK, vars
<1> QED
  BY <1>1, <1>2, SidesType, DisputeType, TasksType, OutsideType DEF Next

(* The variables keep their types: Trade.tla's TypeOK. *)
THEOREM TypeCorrect == Spec => []TypeOK
<1>1. Init => TypeOK
  BY TypeInit
<1>2. TypeOK /\ [Next]_vars => TypeOK'
  BY TypeNext
<1> QED
  BY <1>1, <1>2, PTL DEF Spec

----------------------------------------------------------------------------
(***************************************************************************)
(* PaysSettledOnce.  It is not inductive: a handler that has settled the   *)
(* escrow and not yet paid must be known to hold a settled invoice nobody  *)
(* paid for, and no two such handlers the same one.  The step that settles *)
(* establishes this, because LND settles an accepted invoice only, and     *)
(* such an invoice is neither paid for nor in the hands of another one.    *)
(***************************************************************************)
Settling == {"release_commit", "release_close", "settle_commit",
             "settle_close", "pay"}

PayInv ==
    /\ PaysSettledOnce
    /\ \A a \in Actors : pc[a] \in Settling =>
          /\ copy[a].hash \in Invoices
          /\ htlc[copy[a].hash] = "settled"
          /\ payments[copy[a].hash] = 0
    /\ \A a, b \in Actors : a # b /\ pc[a] \in Settling /\ pc[b] \in Settling
          => copy[a].hash # copy[b].hash

(* A step of actor a that neither settles nor pays. *)
PayFrame(a) ==
    /\ payments' = payments
    /\ \A h \in Invoices : htlc[h] = "settled" => htlc'[h] = "settled"
    /\ \A b \in Actors \ {a} : pc'[b] = pc[b] /\ copy'[b] = copy[b]
    /\ pc'[a] \in Settling => pc[a] \in Settling /\ copy'[a] = copy[a]

(* Such a step keeps PayInv. *)
LEMMA PayFrameKeeps ==
    ASSUME TypeOK, PayInv, NEW a, PayFrame(a)
    PROVE  PayInv'
<1>1. PaysSettledOnce'
  BY DEF PayInv, PayFrame, PaysSettledOnce
<1>2. \A b \in Actors : pc'[b] \in Settling =>
         pc[b] \in Settling /\ copy'[b] = copy[b]
  BY DEF PayFrame
<1>3. \A b \in Actors : pc'[b] \in Settling =>
         /\ copy'[b].hash \in Invoices
         /\ htlc'[copy'[b].hash] = "settled"
         /\ payments'[copy'[b].hash] = 0
  BY <1>2 DEF PayInv, PayFrame
<1>4. \A b, c \in Actors : b # c /\ pc'[b] \in Settling /\ pc'[c] \in Settling
         => copy'[b].hash # copy'[c].hash
  BY <1>2 DEF PayInv
<1> QED
  BY <1>1, <1>3, <1>4 DEF PayInv

(* The building blocks but Settle are such steps. *)
LEMMA GotoFrame ==
    ASSUME TypeOK, NEW a \in Actors, NEW step, Goto(a, step),
           step \in Settling => pc[a] \in Settling
    PROVE  /\ \A b \in Actors \ {a} : pc'[b] = pc[b] /\ copy'[b] = copy[b]
           /\ pc'[a] \in Settling => pc[a] \in Settling /\ copy'[a] = copy[a]
  BY DEF Goto, TypeOK, Settling

(* A handler that takes a new copy is not about to pay. *)
LEMMA HoldFrame ==
    ASSUME TypeOK, NEW a \in Actors, NEW r, NEW step, Hold(a, r, step),
           step \notin Settling
    PROVE  /\ \A b \in Actors \ {a} : pc'[b] = pc[b] /\ copy'[b] = copy[b]
           /\ pc'[a] \notin Settling
  BY DEF Hold, TypeOK

(* Nor is one that starts. *)
LEMMA BeginFrame ==
    ASSUME TypeOK, NEW a \in Actors, NEW r, NEW step, step \notin Settling,
           Begin(a, r, step)
    PROVE  PayFrame(a)
  BY HoldFrame DEF Begin, PayFrame, lnd, rest

(* A statement on the order settles and pays nothing. *)
LEMMA StoreFrame ==
    ASSUME TypeOK, NEW a \in Actors, NEW from, NEW r, NEW to,
           to \in Settling => from \in Settling, Store(a, from, r, to)
    PROVE  PayFrame(a)
  BY GotoFrame DEF Store, PayFrame, lnd, rest

(* Nor does one on the dispute. *)
LEMMA StoreDisputeFrame ==
    ASSUME TypeOK, NEW a \in Actors, NEW from, NEW d, NEW to,
           to \in Settling => from \in Settling, StoreDispute(a, from, d, to)
    PROVE  PayFrame(a)
  BY GotoFrame DEF StoreDispute, PayFrame, lnd, rest

(* LND moves no settled invoice. *)
LEMMA MoveFrame ==
    ASSUME TypeOK, NEW h \in Invoices, NEW s, Move(h, s), htlc[h] # "settled"
    PROVE  \A i \in Invoices : htlc[i] = "settled" => htlc'[i] = "settled"
  BY DEF Move, TypeOK

(* A cancel leaves settled invoices alone. *)
LEMMA RefundFrame ==
    ASSUME TypeOK, NEW a \in Actors, NEW from, NEW to, to \notin Settling,
           Refund(a, from, to)
    PROVE  PayFrame(a)
<1>1. copy[a].hash \in Invoices \cup {None}
  BY Zenon, RowType DEF TypeOK
<1>2. /\ \A b \in Actors \ {a} : pc'[b] = pc[b] /\ copy'[b] = copy[b]
      /\ pc'[a] \in Settling => pc[a] \in Settling /\ copy'[a] = copy[a]
  BY GotoFrame DEF Refund, Settling
<1>3. \A h \in Invoices : htlc[h] = "settled" => htlc'[h] = "settled"
  BY <1>1, MoveFrame DEF Refund, lnd
<1> QED
  BY Zenon, <1>2, <1>3 DEF PayFrame, Refund, rest

(* The step that settles, and the one that pays. *)
LEMMA SettleKeeps ==
    ASSUME TypeOK, PayInv, NEW a \in Actors, NEW from, from \notin Settling,
           NEW to \in Settling, Settle(a, from, to)
    PROVE  PayInv'
<1> DEFINE h == copy[a].hash
<1>1. h \in Invoices \cup {None}
  BY Zenon, RowType DEF TypeOK
<1>2. CASE Goto(a, "idle") /\ UNCHANGED lnd
  <2>1. PayFrame(a)
    BY <1>2, GotoFrame DEF Settle, PayFrame, lnd, rest, Settling
  <2> QED
    BY <2>1, PayFrameKeeps
<1>3. CASE /\ h # None /\ htlc[h] = "accepted"
           /\ Goto(a, to) /\ Move(h, "settled")
  <2>1. h \in Invoices /\ payments[h] = 0 /\ payments' = payments
    BY <1>1, <1>3 DEF PayInv, PaysSettledOnce, TypeOK, Settle, rest
  <2>2. htlc' = [htlc EXCEPT ![h] = "settled"]
    BY <1>3 DEF Move
  <2>3. pc' = [pc EXCEPT ![a] = to] /\ copy' = copy
    BY <1>3 DEF Goto, Settling
  <2>4. \A b \in Actors \ {a} : pc[b] \in Settling => copy[b].hash # h
    BY <1>3 DEF PayInv
  <2>5. PaysSettledOnce'
    BY <2>1, <2>2 DEF PayInv, PaysSettledOnce, TypeOK
  <2>6. \A b \in Actors : pc'[b] \in Settling =>
           /\ copy'[b].hash \in Invoices
           /\ htlc'[copy'[b].hash] = "settled"
           /\ payments'[copy'[b].hash] = 0
    <3> SUFFICES ASSUME NEW b \in Actors, pc'[b] \in Settling
                 PROVE  /\ copy[b].hash \in Invoices
                        /\ htlc'[copy[b].hash] = "settled"
                        /\ payments[copy[b].hash] = 0
      BY <2>1, <2>3
    <3>1. CASE b = a
      BY <3>1, <2>1, <2>2 DEF TypeOK
    <3>2. CASE b # a
      BY <3>2, <2>2, <2>3 DEF TypeOK, PayInv
    <3> QED
      BY <3>1, <3>2
  <2>7. \A b, c \in Actors : b # c /\ pc'[b] \in Settling /\ pc'[c] \in Settling
           => copy'[b].hash # copy'[c].hash
    BY <2>3, <2>4 DEF PayInv, TypeOK
  <2> QED
    BY Zenon, <2>5, <2>6, <2>7 DEF PayInv
<1> QED
  BY Zenon, <1>2, <1>3 DEF Settle

(* do_payment pays for an invoice in its own hands only. *)
LEMMA PaymentKeeps ==
    ASSUME TypeOK, PayInv, NEW a \in Actors, do_payment(a)
    PROVE  PayInv'
<1> DEFINE h == copy[a].hash
<1>1. pc[a] \in Settling
  BY DEF do_payment, Settling
<1>2. h \in Invoices /\ htlc[h] = "settled" /\ payments[h] = 0
  BY <1>1 DEF PayInv
<1>3. payments' = [payments EXCEPT ![h] = @ + 1] /\ htlc' = htlc
  BY DEF do_payment, lnd
<1>4. payments' = [payments EXCEPT ![h] = 1]
  BY <1>2, <1>3
<1>5. /\ \A b \in Actors \ {a} : pc'[b] = pc[b] /\ copy'[b] = copy[b]
      /\ pc'[a] \notin Settling
  BY DEF do_payment, Goto, TypeOK, Settling
<1>6. PaysSettledOnce'
  BY <1>2, <1>3, <1>4 DEF PayInv, PaysSettledOnce, TypeOK
<1>7. \A b \in Actors : pc'[b] \in Settling =>
         /\ b # a /\ pc[b] \in Settling /\ copy'[b] = copy[b]
         /\ copy[b].hash # h
  BY <1>1, <1>5 DEF PayInv
<1>8. \A b \in Actors : pc'[b] \in Settling =>
         /\ copy'[b].hash \in Invoices
         /\ htlc'[copy'[b].hash] = "settled"
         /\ payments'[copy'[b].hash] = 0
  BY <1>3, <1>4, <1>7 DEF PayInv, TypeOK
<1>9. \A b, c \in Actors : b # c /\ pc'[b] \in Settling /\ pc'[c] \in Settling
         => copy'[b].hash # copy'[c].hash
  BY <1>7 DEF PayInv
<1> QED
  BY <1>6, <1>8, <1>9 DEF PayInv

(* The handlers of the main loop. *)
LEMMA MainPays ==
    ASSUME TypeOK, PayInv, MainStep
    PROVE  PayInv'
<1>m. Main \in Actors
  BY DEF Actors
<1>s. /\ {"idle", "create_take", "complete_take", "complete_invoice", "orphan",
          "create_invoice", "activate", "fiat_sent", "release", "settle",
          "cancel_pending", "maker_write", "maker_refund", "taker_refund",
          "taker_reset", "taker_edit", "coop_start", "coop_refund",
          "coop_write", "coop_close", "dispute_read", "dispute_write",
          "dispute_create"} \cap Settling = {}
      /\ {"release_commit", "release_close", "pay"} \subseteq Settling
  BY Zenon DEF Settling
<1>h. copy[Main].hash \in Invoices \cup {None}
  BY Zenon, <1>m, RowType DEF TypeOK
<1>1. ASSUME NEW from, NEW to, to \notin Settling, create_hold_invoice(from, to)
      PROVE  PayFrame(Main)
  <2>1. PICK h \in Invoices :
           /\ htlc[h] = "none" /\ htlc' = [htlc EXCEPT ![h] = "created"]
           /\ Hold(Main, [copy[Main] EXCEPT !.hash = h,
                                            !.status = "waiting-payment"], to)
    BY Zenon, <1>1 DEF create_hold_invoice
  <2>2. /\ \A b \in Actors \ {Main} : pc'[b] = pc[b] /\ copy'[b] = copy[b]
        /\ pc'[Main] \notin Settling
    BY <2>1, <1>1, <1>m, HoldFrame
  <2>3. \A i \in Invoices : htlc[i] = "settled" => htlc'[i] = "settled"
    BY <2>1 DEF TypeOK
  <2> QED
    BY Zenon, <2>2, <2>3, <1>1 DEF PayFrame, create_hold_invoice, rest
<1>2. ASSUME NEW from, NEW statuses, cas_complete_pretrade_take(from, statuses)
      PROVE  PayFrame(Main)
  <2>1. Goto(Main, "idle") \/ Goto(Main, "orphan")
    BY <1>2 DEF cas_complete_pretrade_take
  <2>2. /\ \A b \in Actors \ {Main} : pc'[b] = pc[b] /\ copy'[b] = copy[b]
        /\ pc'[Main] \in Settling =>
              pc[Main] \in Settling /\ copy'[Main] = copy[Main]
    BY <2>1, <1>m, <1>s, GotoFrame
  <2>3. \A i \in Invoices : htlc[i] = "settled" => htlc'[i] = "settled"
    BY <1>2, <1>h DEF cas_complete_pretrade_take, TypeOK
  <2> QED
    BY <2>2, <2>3, <1>2 DEF PayFrame, cas_complete_pretrade_take, rest
<1>3. CASE take_buy_action \/ take_sell_action \/ show_hold_invoice
  <2>1. PayFrame(Main)
    BY <1>3, <1>1, <1>2, <1>m, <1>s, BeginFrame, RefundFrame
    DEF take_buy_action, take_sell_action, show_hold_invoice
  <2> QED
    BY <2>1, PayFrameKeeps
<1>4. CASE add_invoice_action \/ fiat_sent_action
  <2>1. PayFrame(Main)
    BY <1>4, <1>m, <1>s, BeginFrame, StoreFrame
    DEF add_invoice_action, fiat_sent_action, Update
  <2> QED
    BY <2>1, PayFrameKeeps
<1>5. CASE release_action
  <2>1. ASSUME Begin(Main, row, "release")
        PROVE  PayFrame(Main)
    BY <2>1, <1>m, <1>s, BeginFrame
  <2>2. ASSUME Settle(Main, "release", "release_commit")
        PROVE  PayInv'
    BY Zenon, <2>2, <1>m, <1>s, SettleKeeps
  <2>3. ASSUME CommitSettled(Main, "release_commit", {"fiat-sent", "dispute"},
                             "release_close")
        PROVE  PayFrame(Main)
    BY <2>3, <1>m, <1>s, StoreFrame DEF CommitSettled
  <2>4. ASSUME StoreDispute(Main, "release_close", Closed("settled"), "pay")
        PROVE  PayFrame(Main)
    BY <2>4, <1>m, <1>s, StoreDisputeFrame
  <2> QED
    BY <1>5, <2>1, <2>2, <2>3, <2>4, PayFrameKeeps DEF release_action
<1>6. CASE \/ cancel_pending_order_from_maker
           \/ cancel_order_by_maker
           \/ cancel_order_by_taker
  <2>1. PayFrame(Main)
    BY <1>6, <1>m, <1>s, BeginFrame, StoreFrame, RefundFrame
    DEF cancel_pending_order_from_maker, cancel_order_by_maker,
        cancel_order_by_taker, Update
  <2> QED
    BY <2>1, PayFrameKeeps
<1>7. CASE cancel_active_order
  <2>1. PayFrame(Main)
    BY Zenon, <1>7, <1>m, <1>s, BeginFrame, StoreFrame, RefundFrame, StoreDisputeFrame
    DEF cancel_active_order,
        cancel_cooperative_execution_step_1,
        cancel_cooperative_execution_step_2, Update
  <2> QED
    BY <2>1, PayFrameKeeps
<1>8. CASE dispute_action
  <2>1. ASSUME NEW r,
               \/ Hold(Main, r, "dispute_write")
               \/ Goto(Main, "idle"),
               UNCHANGED <<row, dispute, solver, lnd, rest>>
        PROVE  PayFrame(Main)
    BY ZenonT(60), <2>1, <1>m, <1>s, HoldFrame, GotoFrame DEF PayFrame, lnd, rest
  <2>2. PayFrame(Main)
    BY <1>8, <1>m, <1>s, <2>1, BeginFrame, StoreFrame, StoreDisputeFrame
    DEF dispute_action
  <2> QED
    BY <2>2, PayFrameKeeps
<1>9. CASE do_payment(Main)
  BY <1>9, <1>m, PaymentKeeps
<1> QED
  BY <1>3, <1>4, <1>5, <1>6, <1>7, <1>8, <1>9 DEF MainStep

(* The admin actions, over Nostr and over gRPC. *)
LEMMA AdminPays ==
    ASSUME TypeOK, PayInv, NEW a \in Actors, AdminStep(a)
    PROVE  PayInv'
<1>s. /\ {"idle", "dispute_take", "settle", "admin_refund", "admin_flags",
          "admin_write"} \cap Settling = {}
      /\ {"settle_commit", "settle_close", "pay"} \subseteq Settling
  BY DEF Settling
<1>1. CASE admin_take_dispute_action(a)
  <2>1. ASSUME Goto(a, "idle"), UNCHANGED <<row, lnd, rest>>
        PROVE  PayFrame(a)
    BY <2>1, <1>s, GotoFrame DEF PayFrame, lnd, rest
  <2>2. PayFrame(a)
    BY <1>1, <1>s, <2>1, BeginFrame DEF admin_take_dispute_action
  <2> QED
    BY <2>2, PayFrameKeeps
<1>2. CASE admin_settle_action(a)
  <2>1. ASSUME Begin(a, row, "settle")
        PROVE  PayFrame(a)
    BY <2>1, <1>s, BeginFrame
  <2>2. ASSUME Settle(a, "settle", "settle_commit")
        PROVE  PayInv'
    BY <2>2, <1>s, SettleKeeps
  <2>3. ASSUME CommitSettled(a, "settle_commit", {"dispute"}, "settle_close")
        PROVE  PayFrame(a)
    BY <2>3, <1>s, StoreFrame DEF CommitSettled
  <2>4. ASSUME NEW to, StoreDispute(a, "settle_close", Closed("settled"), to)
        PROVE  PayFrame(a)
    BY <2>4, <1>s, StoreDisputeFrame
  <2> QED
    BY <1>2, <2>1, <2>2, <2>3, <2>4, PayFrameKeeps DEF admin_settle_action
<1>3. CASE admin_cancel_action(a)
  <2>1. PayFrame(a)
    BY <1>3, <1>s, BeginFrame, RefundFrame, StoreDisputeFrame, StoreFrame
    DEF admin_cancel_action, Update
  <2> QED
    BY <2>1, PayFrameKeeps
<1> QED
  BY <1>1, <1>2, <1>3 DEF AdminStep

(* The subscribers and the two jobs neither settle nor pay. *)
LEMMA TasksPay ==
    ASSUME TypeOK, PayInv,
           \/ \E h \in Invoices : hold_invoice_paid(h) \/ hold_invoice_canceled(h)
           \/ job_cancel_orders
           \/ enforce_escrow_deadline_pass
    PROVE  PayInv'
<1>m. Timer \in Actors /\ Guardian \in Actors /\ Invoices \subseteq Actors
  BY DEF Actors
<1>s. {"idle", "paid_write", "paid_held", "evaporated", "late_refund",
       "late_reset", "late_edit", "late_write", "probe", "deadline_refund",
       "deadline_gone", "deadline_write", "deadline_row", "deadline_flip"}
        \cap Settling = {}
  BY DEF Settling
<1>1. ASSUME NEW h \in Invoices, NEW s, NEW guard, NEW to, to \notin Settling,
             Handle(h, s, guard, to)
      PROVE  PayFrame(h)
  BY <1>1, <1>m, HoldFrame DEF Handle, PayFrame, rest
<1>2. ASSUME NEW h \in Invoices, hold_invoice_paid(h) \/ hold_invoice_canceled(h)
      PROVE  PayFrame(h)
  BY <1>1, <1>2, <1>m, <1>s, StoreFrame
  DEF hold_invoice_paid, hold_invoice_canceled, Update
<1>3. CASE job_cancel_orders
  <2>1. ASSUME NEW r, Hold(Timer, r, "late_write"), UNCHANGED <<lnd, rest>>
        PROVE  PayFrame(Timer)
    BY <2>1, <1>m, <1>s, HoldFrame DEF PayFrame, lnd, rest
  <2>2. ASSUME NEW to \in {"late_reset", "late_edit"},
               Refund(Timer, "late_refund", to)
        PROVE  PayFrame(Timer)
    BY <2>2, <1>m, <1>s, RefundFrame
  <2>3. PayFrame(Timer)
    BY Zenon, <1>3, <1>m, <1>s, <2>1, <2>2, BeginFrame, StoreFrame
    DEF job_cancel_orders
  <2> QED
    BY <2>3, PayFrameKeeps
<1>4. CASE enforce_escrow_deadline_pass
  <2>1. ASSUME NEW to \in {"idle", "deadline_row", "deadline_refund",
                           "deadline_gone", "deadline_write", "deadline_flip"},
               Goto(Guardian, to), UNCHANGED <<lnd, rest>>
        PROVE  PayFrame(Guardian)
    BY <2>1, <1>m, <1>s, GotoFrame DEF PayFrame, lnd, rest
  <2>2. PayFrame(Guardian)
    BY <1>4, <1>m, <1>s, <2>1, BeginFrame, RefundFrame, StoreFrame
    DEF enforce_escrow_deadline_pass, OpenDispute, FlipToDispute, Update
  <2> QED
    BY <2>2, PayFrameKeeps
<1> QED
  BY <1>2, <1>3, <1>4, PayFrameKeeps

(* Nor do LND, the chain and the faults. *)
LEMMA OutsidePays ==
    ASSUME TypeOK, PayInv,
           \/ \E h \in Invoices :
                 SellerPays(h) \/ InvoiceExpires(h) \/ Ages(h) \/ EscrowExpires(h)
           \/ \E a \in Actors : LndError(a)
           \/ ProbeError
           \/ Restart
    PROVE  PayInv'
<1>m. Guardian \in Actors
  BY DEF Actors
<1>s. {"idle", "deadline_row", "deadline_refund"} \cap Settling = {}
  BY Zenon DEF Settling
<1>1. ASSUME NEW h \in Invoices,
             SellerPays(h) \/ InvoiceExpires(h) \/ EscrowExpires(h)
      PROVE  PayFrame(h)
  <2>1. \A i \in Invoices : htlc[i] = "settled" => htlc'[i] = "settled"
    BY ZenonT(60), <1>1, MoveFrame DEF SellerPays, InvoiceExpires, EscrowExpires
  <2> QED
    BY <1>1, <2>1
    DEF SellerPays, InvoiceExpires, EscrowExpires, PayFrame, rest
<1>2. ASSUME NEW h \in Invoices, Ages(h)
      PROVE  PayFrame(h)
  BY <1>2 DEF Ages, PayFrame, rest
<1>3. ASSUME NEW a \in Actors, LndError(a)
      PROVE  PayFrame(a)
  BY Zenon, <1>3, <1>s, GotoFrame DEF LndError, PayFrame, lnd
<1>4. ASSUME ProbeError
      PROVE  PayFrame(Guardian)
  BY Zenon, <1>4, <1>m, <1>s, GotoFrame DEF ProbeError, PayFrame, lnd
<1>5. CASE Restart
  <2>1. \A a \in Actors : pc'[a] \notin Settling
    BY <1>5 DEF Restart, Settling
  <2> QED
    BY Zenon, <1>5, <2>1 DEF Restart, PayInv, PaysSettledOnce
<1> QED
  BY <1>1, <1>2, <1>3, <1>4, <1>5, PayFrameKeeps

(* Nothing is settled or paid at first. *)
LEMMA PayInit ==
    ASSUME Init
    PROVE  PayInv
  BY DEF Init, PayInv, PaysSettledOnce, Settling

(* Every step keeps PayInv. *)
LEMMA PayNext ==
    ASSUME TypeOK, PayInv, [Next]_vars
    PROVE  PayInv'
<1>m. Rpc \in Actors /\ Admins \subseteq Actors
  BY DEF Actors, Admins
<1>1. CASE UNCHANGED vars
  BY <1>1 DEF PayInv, PaysSettledOnce, vars
<1> QED
  BY <1>m, <1>1, MainPays, AdminPays, PaymentKeeps, TasksPay, OutsidePays
  DEF Next

(***************************************************************************)
(* For any number of hold invoices, LND errors and restarts, the buyer's   *)
(* payout starts at most once per escrow and only from a settled one.      *)
(***************************************************************************)
THEOREM PaysSettledOnceHolds == Spec => []PaysSettledOnce
<1>1. Init => PayInv
  BY PayInit
<1>2. TypeOK /\ PayInv /\ [Next]_vars => PayInv'
  BY PayNext
<1>3. PayInv => PaysSettledOnce
  BY DEF PayInv
<1> QED
  BY <1>1, <1>2, <1>3, TypeCorrect, PTL DEF Spec

----------------------------------------------------------------------------
(***************************************************************************)
(* CanceledNotSettled, in instances where only the two sides together or a *)
(* solver may cancel.  A handler on its way to write such a cancel holds   *)
(* an invoice LND has canceled, and a canceled invoice stays canceled: the *)
(* order it writes over may be at any status, but its escrow was never     *)
(* settled.  With the other cancels the property is false or open: the     *)
(* guardian's is a finding, and the maker's writes the order before it     *)
(* asks LND.                                                               *)
(***************************************************************************)
Refunded == {"coop_write", "admin_flags", "admin_write"}

OtherCancels == {"cancel_pending", "maker_write", "maker_refund",
                 "taker_refund", "taker_reset", "taker_edit", "evaporated",
                 "late_refund", "late_reset", "late_edit", "late_write",
                 "probe", "deadline_refund", "deadline_gone",
                 "deadline_write", "deadline_row", "deadline_flip"}

(* Written over the order, r leaves it no canceled trade with a live escrow. *)
SafeRow(r) == r.status \in Canceled /\ r.hash # None => htlc[r.hash] = "canceled"

SafeCopy(a) ==
    /\ pc[a] \notin OtherCancels
    /\ pc[a] \in Refunded =>
          copy[a].hash = None \/ htlc[copy[a].hash] = "canceled"
    /\ pc[a] \in {"coop_start", "dispute_write"} => copy[a].status \notin Canceled
    /\ pc[a] \in {"complete_take", "complete_invoice"} =>
          copy[a].status \in Waiting

CancelInv ==
    /\ SafeRow(row)
    /\ \A h \in Invoices : age[h] = 0
    /\ \A a \in Actors : SafeCopy(a)

(* No escrow ages into the window before its deadline, and none evaporates. *)
LEMMA NotAged ==
    ASSUME CancelInv, NEW h \in Invoices
    PROVE  age[h] # 2 /\ pc[h] # "evaporated" /\ ~EscrowExpires(h)
<1>1. age[h] = 0 /\ SafeCopy(h)
  BY Zenon DEF CancelInv, Actors
<1>2. pc[h] # "evaporated"
  BY Zenon, <1>1 DEF SafeCopy, OtherCancels
<1>3. age[h] # 2
  BY <1>1
<1> QED
  BY Zenon, <1>2, <1>3 DEF EscrowExpires

(* Columns of the rows the handlers write. *)
LEMMA RowColumns ==
    ASSUME NEW r \in Rows
    PROVE  /\ \A s : /\ [r EXCEPT !.status = s].status = s
                     /\ [r EXCEPT !.status = s].hash = r.hash
                     /\ [r EXCEPT !.status = s].disputed = r.disputed
           /\ \A t : /\ [r EXCEPT !.taker = t].status = r.status
                     /\ [r EXCEPT !.taker = t].hash = r.hash
                     /\ [r EXCEPT !.taker = t].disputed = r.disputed
           /\ \A t : /\ [r EXCEPT !.held = t].status = r.status
                     /\ [r EXCEPT !.held = t].hash = r.hash
                     /\ [r EXCEPT !.held = t].disputed = r.disputed
           /\ \A t : /\ [r EXCEPT !.initiator = t].status = r.status
                     /\ [r EXCEPT !.initiator = t].disputed = r.disputed
           /\ \A t : /\ [r EXCEPT !.buyer_invoice = t].status = r.status
                     /\ [r EXCEPT !.buyer_invoice = t].disputed = r.disputed
           /\ \A t, u : /\ [r EXCEPT !.taker = t, !.buyer_invoice = u].status
                             = r.status
                        /\ [r EXCEPT !.taker = t, !.buyer_invoice = u].disputed
                             = r.disputed
           /\ \A t, s : /\ [r EXCEPT !.taker = t, !.status = s].status = s
                        /\ [r EXCEPT !.taker = t, !.status = s].disputed
                             = r.disputed
           /\ \A h, s : /\ [r EXCEPT !.hash = h, !.status = s].status = s
                        /\ [r EXCEPT !.hash = h, !.status = s].disputed
                             = r.disputed
           /\ \A s, h, b : /\ [r EXCEPT !.status = s, !.hash = h,
                                        !.buyer_invoice = b, !.taker = TRUE]
                                .status = s
                           /\ [r EXCEPT !.status = s, !.hash = h,
                                        !.buyer_invoice = b, !.taker = TRUE]
                                .disputed = r.disputed
           /\ \A side : /\ setup_dispute(r, side).status = "dispute"
                        /\ setup_dispute(r, side).disputed
                             = r.disputed \cup {side}
<1>1. r = [r EXCEPT !.status = r.status]
      /\ DOMAIN r = {"status", "hash", "buyer_invoice", "taker", "held",
                     "initiator", "disputed"}
  BY DEF Rows
<1> QED
  BY <1>1 DEF setup_dispute

(* A step of a that keeps canceled invoices canceled and leaves a safe. *)
LEMMA CancelStep ==
    ASSUME TypeOK, CancelInv, NEW a,
           \A h \in Invoices : htlc[h] = "canceled" => htlc'[h] = "canceled",
           \A b \in Actors \ {a} : pc'[b] = pc[b] /\ copy'[b] = copy[b],
           age' = age, SafeRow(row)', a \in Actors => SafeCopy(a)'
    PROVE  CancelInv'
<1>1. \A b \in Actors \ {a} : SafeCopy(b)'
  <2> SUFFICES ASSUME NEW b \in Actors \ {a} PROVE SafeCopy(b)'
    OBVIOUS
  <2>1. copy[b].hash \in Invoices \cup {None}
    BY Zenon, RowType DEF TypeOK
  <2> QED
    BY <2>1 DEF CancelInv, SafeCopy
<1> QED
  BY <1>1 DEF CancelInv

(* The order is as safe as before when LND keeps canceled ones canceled. *)
LEMMA SafeKept ==
    ASSUME TypeOK, CancelInv,
           \A h \in Invoices : htlc[h] = "canceled" => htlc'[h] = "canceled",
           row' = row
    PROVE  SafeRow(row)'
<1>1. row.hash \in Invoices \cup {None}
  BY Zenon, RowType DEF TypeOK
<1> QED
  BY Zenon, <1>1 DEF CancelInv, SafeRow

(* Steps at which SafeCopy asks nothing of the copy. *)
Plain == Steps \ (OtherCancels \cup Refunded
                  \cup {"coop_start", "dispute_write",
                        "complete_take", "complete_invoice"})

(* At such a step SafeCopy holds. *)
LEMMA PlainSafe ==
    ASSUME NEW a \in Actors, pc'[a] \in Plain
    PROVE  SafeCopy(a)'
  BY DEF Plain, SafeCopy

(* A handler that moves on touches its own pc and copy. *)
LEMMA GotoOthers ==
    ASSUME TypeOK, NEW a \in Actors, NEW step, Goto(a, step)
    PROVE  /\ \A b \in Actors \ {a} : pc'[b] = pc[b] /\ copy'[b] = copy[b]
           /\ pc'[a] = step
           /\ step # "idle" => copy'[a] = copy[a]
           /\ step = "idle" => copy'[a] = Fresh
  BY DEF Goto, TypeOK

(* So does one that takes a new copy. *)
LEMMA HoldOthers ==
    ASSUME TypeOK, NEW a \in Actors, NEW r, NEW step, Hold(a, r, step)
    PROVE  /\ \A b \in Actors \ {a} : pc'[b] = pc[b] /\ copy'[b] = copy[b]
           /\ pc'[a] = step
           /\ copy'[a] = r
  BY DEF Hold, TypeOK

(* A handler that starts keeps CancelInv. *)
LEMMA BeginCancel ==
    ASSUME TypeOK, CancelInv, NEW a \in Actors, NEW r, NEW step,
           Begin(a, r, step),
           \/ step \in Plain
           \/ step = "coop_start" /\ r.status \notin Canceled
           \/ step = "complete_take" /\ r.status \in Waiting
    PROVE  CancelInv'
<1>1. row' = row /\ htlc' = htlc /\ age' = age
  BY DEF Begin, lnd
<1>2. /\ \A b \in Actors \ {a} : pc'[b] = pc[b] /\ copy'[b] = copy[b]
      /\ pc'[a] = step /\ copy'[a] = r
  BY Zenon, HoldOthers DEF Begin
<1>3. SafeCopy(a)'
  BY Zenon, <1>2 DEF SafeCopy, Plain, OtherCancels, Refunded
<1> QED
  BY <1>1, <1>2, <1>3, SafeKept, CancelStep

(* A write of a safe row keeps it. *)
LEMMA StoreCancel ==
    ASSUME TypeOK, CancelInv, NEW a \in Actors, NEW from, NEW r, NEW to \in Plain,
           Store(a, from, r, to), SafeRow(r)
    PROVE  CancelInv'
<1>1. row' = r /\ htlc' = htlc /\ age' = age
  BY DEF Store, lnd
<1>2. /\ \A b \in Actors \ {a} : pc'[b] = pc[b] /\ copy'[b] = copy[b]
      /\ pc'[a] = to
  BY Zenon, GotoOthers DEF Store
<1>3. SafeCopy(a)' /\ SafeRow(row)'
  BY <1>1, <1>2, PlainSafe DEF SafeRow
<1> QED
  BY <1>1, <1>2, <1>3, CancelStep

(* A statement on the dispute keeps it. *)
LEMMA StoreDisputeCancel ==
    ASSUME TypeOK, CancelInv, NEW a \in Actors, NEW from, NEW d, NEW to \in Plain,
           StoreDispute(a, from, d, to)
    PROVE  CancelInv'
<1>1. row' = row /\ htlc' = htlc /\ age' = age
  BY DEF StoreDispute, lnd
<1>2. /\ \A b \in Actors \ {a} : pc'[b] = pc[b] /\ copy'[b] = copy[b]
      /\ SafeCopy(a)'
  BY GotoOthers, PlainSafe DEF StoreDispute
<1> QED
  BY <1>1, <1>2, SafeKept, CancelStep

(* admin_cancel closes the dispute before it writes the order. *)
LEMMA AdminFlagsCancel ==
    ASSUME TypeOK, CancelInv, NEW a \in Actors, NEW d,
           StoreDispute(a, "admin_flags", d, "admin_write")
    PROVE  CancelInv'
<1>1. row' = row /\ htlc' = htlc /\ age' = age /\ pc[a] = "admin_flags"
  BY DEF StoreDispute, lnd
<1>2. /\ \A b \in Actors \ {a} : pc'[b] = pc[b] /\ copy'[b] = copy[b]
      /\ pc'[a] = "admin_write" /\ copy'[a] = copy[a]
  BY GotoOthers DEF StoreDispute
<1>3. SafeCopy(a)'
  BY <1>1, <1>2 DEF CancelInv, SafeCopy, Refunded, OtherCancels
<1> QED
  BY <1>1, <1>2, <1>3, SafeKept, CancelStep

(* A handler past its cancel call holds a canceled invoice. *)
LEMMA RefundCancel ==
    ASSUME TypeOK, CancelInv, NEW a \in Actors, NEW from,
           NEW to \in {"idle", "coop_write", "admin_flags"}, Refund(a, from, to)
    PROVE  CancelInv'
<1> DEFINE h == copy[a].hash
<1>0. h \in Invoices \cup {None} /\ "idle" \in Plain
  BY Zenon, RowType DEF TypeOK, Plain, Steps, OtherCancels, Refunded
<1>1. row' = row /\ age' = age
  BY DEF Refund, lnd, Move
<1>2. \A i \in Invoices : htlc[i] = "canceled" => htlc'[i] = "canceled"
  BY Zenon, <1>0 DEF Refund, lnd, Move, TypeOK
<1>3. CASE Goto(a, "idle")
  <2>1. /\ \A b \in Actors \ {a} : pc'[b] = pc[b] /\ copy'[b] = copy[b]
        /\ SafeCopy(a)'
    BY <1>0, <1>3, GotoOthers, PlainSafe
  <2> QED
    BY Zenon, <1>1, <1>2, <2>1, SafeKept, CancelStep
<1>4. ASSUME Goto(a, to), to # "idle", h = None \/ htlc'[h] = "canceled"
      PROVE  CancelInv'
  <2>1. /\ \A b \in Actors \ {a} : pc'[b] = pc[b] /\ copy'[b] = copy[b]
        /\ pc'[a] = to /\ copy'[a] = copy[a]
    BY <1>4, GotoOthers
  <2>2. SafeCopy(a)'
    BY <2>1, <1>4 DEF SafeCopy, OtherCancels, Refunded
  <2> QED
    BY <1>1, <1>2, <2>1, <2>2, SafeKept, CancelStep
<1>5. CASE h # None /\ htlc[h] = "settled"
  <2>1. Goto(a, "idle")
    BY <1>5 DEF Refund
  <2> QED
    BY <2>1, <1>3
<1>6. CASE h = None \/ htlc[h] # "settled"
  <2>1. Goto(a, to)
    BY <1>6 DEF Refund
  <2>2. h = None \/ htlc'[h] = "canceled"
    BY <1>0, <1>6 DEF Refund, Move, TypeOK
  <2>3. CASE to = "idle"
    BY <2>1, <2>3, <1>3
  <2>4. CASE to # "idle"
    BY Zenon, <2>1, <2>2, <2>4, <1>4
  <2> QED
    BY Zenon, <2>3, <2>4
<1> QED
  BY Zenon, <1>5, <1>6

(* A settle touches no canceled invoice. *)
LEMMA SettleCancel ==
    ASSUME TypeOK, CancelInv, NEW a \in Actors, NEW from, NEW to \in Plain,
           Settle(a, from, to)
    PROVE  CancelInv'
<1>0. copy[a].hash \in Invoices \cup {None} /\ "idle" \in Plain
  BY Zenon, RowType DEF TypeOK, Plain, Steps, OtherCancels, Refunded
<1>1. row' = row /\ age' = age
  BY DEF Settle, lnd, Move
<1>2. \A i \in Invoices : htlc[i] = "canceled" => htlc'[i] = "canceled"
  BY Zenon, <1>0 DEF Settle, lnd, Move, TypeOK
<1>3. /\ \A b \in Actors \ {a} : pc'[b] = pc[b] /\ copy'[b] = copy[b]
      /\ SafeCopy(a)'
  BY <1>0, GotoOthers, PlainSafe DEF Settle
<1> QED
  BY Zenon, <1>1, <1>2, <1>3, SafeKept, CancelStep

(* The cancels but these two are not part of the instance. *)
LEMMA NoOtherCancels ==
    ASSUME CancelInv, NEW a \in Actors,
           {"cancel", "timeout", "deadline"} \cap Events = {}
    PROVE  /\ \A s \in OtherCancels : pc[a] # s
           /\ "cancel" \notin Events /\ "timeout" \notin Events
           /\ "deadline" \notin Events
  BY DEF CancelInv, SafeCopy

(* The handlers of the main loop keep CancelInv. *)
LEMMA MainCancels ==
    ASSUME TypeOK, CancelInv, MainStep,
           {"cancel", "timeout", "deadline"} \cap Events = {}
    PROVE  CancelInv'
<1>m. Main \in Actors
  BY DEF Actors
<1>r. row \in Rows /\ copy[Main] \in Rows /\ SafeRow(row) /\ SafeCopy(Main)
  BY Zenon, <1>m DEF TypeOK, CancelInv
<1>h. copy[Main].hash \in Invoices \cup {None}
  BY Zenon, <1>r, RowType
<1>s. {"idle", "create_take", "orphan", "create_invoice", "activate",
       "fiat_sent", "release", "release_commit", "release_close", "pay",
       "coop_refund", "coop_close", "dispute_read", "dispute_create"}
        \subseteq Plain
  BY DEF Plain, Steps, OtherCancels, Refunded
<1>o. /\ {"cancel_pending", "maker_write", "maker_refund", "taker_refund",
          "taker_reset", "taker_edit"} \subseteq OtherCancels
      /\ \A s \in OtherCancels : pc[Main] # s
      /\ "cancel" \notin Events
  BY <1>m, NoOtherCancels DEF OtherCancels
<1>1. CASE take_buy_action \/ take_sell_action
  <2>1. [row EXCEPT !.taker = TRUE, !.status = "waiting-buyer-invoice"].status
          \in Waiting
    BY <1>r, RowColumns DEF Waiting
  <2> QED
    BY Zenon, <1>1, <2>1, <1>m, <1>s, BeginCancel DEF take_buy_action, take_sell_action
<1>2. ASSUME NEW from, NEW to \in {"complete_take", "complete_invoice"},
             create_hold_invoice(from, to)
      PROVE  CancelInv'
  <2>1. PICK h \in Invoices :
           /\ htlc[h] = "none" /\ htlc' = [htlc EXCEPT ![h] = "created"]
           /\ Hold(Main, [copy[Main] EXCEPT !.hash = h,
                                            !.status = "waiting-payment"], to)
    BY Zenon, <1>2 DEF create_hold_invoice
  <2>2. [copy[Main] EXCEPT !.hash = h, !.status = "waiting-payment"].status
          \in Waiting
    BY <1>r, RowColumns DEF Waiting
  <2>3. /\ \A b \in Actors \ {Main} : pc'[b] = pc[b] /\ copy'[b] = copy[b]
        /\ pc'[Main] = to /\ copy'[Main].status \in Waiting
    BY ZenonT(60), <2>1, <2>2, <1>m, HoldOthers
  <2>4. SafeCopy(Main)'
    BY <2>3, <1>2 DEF SafeCopy, OtherCancels, Refunded
  <2>5. \A i \in Invoices : htlc[i] = "canceled" => htlc'[i] = "canceled"
    BY <2>1 DEF TypeOK
  <2>6. row' = row /\ age' = age
    BY <1>2 DEF create_hold_invoice
  <2> QED
    BY <2>3, <2>4, <2>5, <2>6, SafeKept, CancelStep
<1>3. ASSUME NEW from \in {"complete_take", "complete_invoice"}, NEW statuses,
             cas_complete_pretrade_take(from, statuses)
      PROVE  CancelInv'
  <2>1. copy[Main].status \in Waiting
    BY <1>3, <1>r DEF SafeCopy, cas_complete_pretrade_take
  <2>2. Goto(Main, "idle") \/ Goto(Main, "orphan")
    BY <1>3 DEF cas_complete_pretrade_take
  <2>3. /\ \A b \in Actors \ {Main} : pc'[b] = pc[b] /\ copy'[b] = copy[b]
        /\ SafeCopy(Main)'
    BY <2>2, <1>m, <1>s, GotoOthers, PlainSafe
  <2>4. \A i \in Invoices : htlc[i] = "canceled" => htlc'[i] = "canceled"
    BY <1>3, <1>h DEF cas_complete_pretrade_take, TypeOK
  <2>5. age' = age
    BY Zenon, <1>3 DEF cas_complete_pretrade_take
  <2>6. CASE row' = row
    BY <2>3, <2>4, <2>5, <2>6, SafeKept, CancelStep
  <2>7. CASE row' = [row EXCEPT !.status = copy[Main].status,
                                !.hash = copy[Main].hash,
                                !.buyer_invoice = copy[Main].buyer_invoice,
                                !.taker = TRUE]
    <3>1. row'.status = copy[Main].status
      BY <2>7, <1>r, RowColumns
    <3>2. SafeRow(row)'
      BY <3>1, <2>1 DEF SafeRow, Waiting, Canceled
    <3> QED
      BY <2>3, <2>4, <2>5, <3>2, CancelStep
  <2> QED
    BY <1>3, <2>6, <2>7 DEF cas_complete_pretrade_take
<1>4. CASE show_hold_invoice
  BY <1>4, <1>2, <1>3, <1>m, RefundCancel DEF show_hold_invoice
<1>5. CASE add_invoice_action \/ fiat_sent_action
  <2>1. SafeRow([copy[Main] EXCEPT !.status = "active"])
        /\ SafeRow([copy[Main] EXCEPT !.status = "fiat-sent"])
    BY <1>r, RowColumns DEF SafeRow, Canceled
  <2> QED
    BY <1>5, <2>1, <1>m, <1>s, BeginCancel, StoreCancel
    DEF add_invoice_action, fiat_sent_action, Update
<1>6. CASE release_action
  <2>1. SafeRow([row EXCEPT !.status = "settled-hold-invoice"])
    BY <1>r, RowColumns DEF SafeRow, Canceled
  <2>2. ASSUME CommitSettled(Main, "release_commit", {"fiat-sent", "dispute"},
                             "release_close")
        PROVE  CancelInv'
    BY <2>1, <2>2, <1>m, <1>r, <1>s, StoreCancel DEF CommitSettled
  <2>3. ASSUME Begin(Main, row, "release")
        PROVE  CancelInv'
    BY <2>3, <1>m, <1>s, BeginCancel
  <2>4. ASSUME Settle(Main, "release", "release_commit")
        PROVE  CancelInv'
    BY <2>4, <1>m, <1>s, SettleCancel
  <2>5. ASSUME StoreDispute(Main, "release_close", Closed("settled"), "pay")
        PROVE  CancelInv'
    BY <2>5, <1>m, <1>s, StoreDisputeCancel
  <2> QED
    BY <1>6, <2>2, <2>3, <2>4, <2>5 DEF release_action
<1>7. ASSUME \/ cancel_pending_order_from_maker
             \/ cancel_order_by_maker
             \/ cancel_order_by_taker
      PROVE  FALSE
  BY <1>7, <1>o
  DEF cancel_pending_order_from_maker, cancel_order_by_maker,
      cancel_order_by_taker, Store, Update, Refund
<1>8. CASE cancel_active_order
  <2>1. ASSUME NEW side, row.status \in {"active", "fiat-sent", "dispute"},
               Begin(Main, [row EXCEPT !.initiator = side], "coop_start")
        PROVE  CancelInv'
    <3>1. [row EXCEPT !.initiator = side].status \notin Canceled
      BY <2>1, <1>r, RowColumns DEF Canceled
    <3> QED
      BY Zenon, <2>1, <3>1, <1>m, BeginCancel
  <2>2. ASSUME Begin(Main, row, "coop_refund")
        PROVE  CancelInv'
    BY <2>2, <1>m, <1>s, BeginCancel
  <2>3. ASSUME Store(Main, "coop_start", copy[Main], "idle")
        PROVE  CancelInv'
    <3>1. SafeRow(copy[Main])
      BY <2>3, <1>r DEF SafeCopy, SafeRow, Store
    <3> QED
      BY <2>3, <3>1, <1>m, <1>s, StoreCancel
  <2>4. ASSUME Refund(Main, "coop_refund", "coop_write")
        PROVE  CancelInv'
    BY <2>4, <1>m, RefundCancel
  <2>5. ASSUME Update(Main, "coop_write", "cooperatively-canceled", "coop_close")
        PROVE  CancelInv'
    <3>1. copy[Main].hash = None \/ htlc[copy[Main].hash] = "canceled"
      BY <2>5, <1>r DEF SafeCopy, Refunded, Update, Store
    <3>2. SafeRow([copy[Main] EXCEPT !.status = "cooperatively-canceled"])
      BY <3>1, <1>r, RowColumns DEF SafeRow
    <3> QED
      BY <2>5, <3>2, <1>m, <1>s, StoreCancel DEF Update
  <2>6. ASSUME StoreDispute(Main, "coop_close", Closed("seller-refunded"), "idle")
        PROVE  CancelInv'
    BY <2>6, <1>m, <1>s, StoreDisputeCancel
  <2>7. ASSUME NEW side \in Sides,
               row.status \in {"active", "fiat-sent", "dispute"},
               IF row.initiator = "none"
               THEN Begin(Main, [row EXCEPT !.initiator = side], "coop_start")
               ELSE row.initiator # side /\ Begin(Main, row, "coop_refund")
        PROVE  CancelInv'
    BY <2>1, <2>2, <2>7
  <2> QED
    BY Zenon, <1>8, <2>3, <2>4, <2>5, <2>6, <2>7 DEF cancel_active_order,
        cancel_cooperative_execution_step_1,
        cancel_cooperative_execution_step_2
<1>9. CASE dispute_action
  <2>1. ASSUME NEW side \in Sides,
               \/ Hold(Main, setup_dispute(row, side), "dispute_write")
               \/ Goto(Main, "idle"),
               UNCHANGED <<row, dispute, solver, lnd, rest>>
        PROVE  CancelInv'
    <3>1. setup_dispute(row, side).status \notin Canceled
      BY Zenon, <1>r, RowColumns DEF Canceled
    <3>2. \A b \in Actors \ {Main} : pc'[b] = pc[b] /\ copy'[b] = copy[b]
      BY <2>1, <1>m, HoldOthers, GotoOthers
    <3>3. SafeCopy(Main)'
      <4>1. CASE Goto(Main, "idle")
        BY Zenon, <4>1, <1>m, <1>s, GotoOthers, PlainSafe
      <4>2. CASE Hold(Main, setup_dispute(row, side), "dispute_write")
        <5>1. pc'[Main] = "dispute_write" /\ copy'[Main].status \notin Canceled
          BY <4>2, <3>1, <1>m, HoldOthers
        <5> QED
          BY <5>1 DEF SafeCopy, OtherCancels, Refunded
      <4> QED
        BY <2>1, <4>1, <4>2
    <3>4. htlc' = htlc /\ row' = row /\ age' = age
      BY <2>1 DEF lnd
    <3> QED
      BY <3>2, <3>3, <3>4, SafeKept, CancelStep
  <2>2. ASSUME Begin(Main, row, "dispute_read")
        PROVE  CancelInv'
    BY <2>2, <1>m, <1>s, BeginCancel
  <2>3. ASSUME Store(Main, "dispute_write", copy[Main], "dispute_create")
        PROVE  CancelInv'
    <3>1. SafeRow(copy[Main])
      BY <2>3, <1>r DEF SafeCopy, SafeRow, Store
    <3> QED
      BY Zenon, <2>3, <3>1, <1>m, <1>s, StoreCancel
  <2>4. ASSUME NEW d, StoreDispute(Main, "dispute_create", d, "idle")
        PROVE  CancelInv'
    BY Zenon, <2>4, <1>m, <1>s, StoreDisputeCancel
  <2> QED
    BY Zenon, <1>9, <2>1, <2>2, <2>3, <2>4 DEF dispute_action
<1>10. ASSUME NEW a \in Actors, do_payment(a)
       PROVE  CancelInv'
  <2>1. /\ \A b \in Actors \ {a} : pc'[b] = pc[b] /\ copy'[b] = copy[b]
        /\ SafeCopy(a)'
    BY <1>10, <1>s, GotoOthers, PlainSafe DEF do_payment
  <2>2. htlc' = htlc /\ row' = row /\ age' = age
    BY <1>10 DEF do_payment, lnd
  <2> QED
    BY <2>1, <2>2, SafeKept, CancelStep
<1> QED
  BY <1>1, <1>4, <1>5, <1>6, <1>7, <1>8, <1>9, <1>10, <1>m DEF MainStep

(* The admin actions keep CancelInv. *)
LEMMA AdminCancels ==
    ASSUME TypeOK, CancelInv, NEW a \in Actors, AdminStep(a)
    PROVE  CancelInv'
<1>r. row \in Rows /\ copy[a] \in Rows /\ SafeRow(row) /\ SafeCopy(a)
  BY DEF TypeOK, CancelInv
<1>s. {"idle", "dispute_take", "settle", "settle_commit", "settle_close", "pay",
       "admin_refund"} \subseteq Plain
  BY DEF Plain, Steps, OtherCancels, Refunded
<1>1. CASE admin_take_dispute_action(a)
  <2>1. ASSUME Goto(a, "idle"), UNCHANGED <<row, lnd, rest>>
        PROVE  CancelInv'
    <3>1. /\ \A b \in Actors \ {a} : pc'[b] = pc[b] /\ copy'[b] = copy[b]
          /\ SafeCopy(a)'
      BY <2>1, <1>s, GotoOthers, PlainSafe
    <3>2. htlc' = htlc /\ row' = row /\ age' = age
      BY <2>1 DEF lnd
    <3> QED
      BY <3>1, <3>2, SafeKept, CancelStep
  <2>2. ASSUME Begin(a, row, "dispute_take")
        PROVE  CancelInv'
    BY <2>2, <1>s, BeginCancel
  <2> QED
    BY <1>1, <2>1, <2>2 DEF admin_take_dispute_action
<1>2. CASE admin_settle_action(a)
  <2>1. ASSUME Begin(a, row, "settle")
        PROVE  CancelInv'
    BY <2>1, <1>s, BeginCancel
  <2>2. ASSUME Settle(a, "settle", "settle_commit")
        PROVE  CancelInv'
    BY <2>2, <1>s, SettleCancel
  <2>3. ASSUME CommitSettled(a, "settle_commit", {"dispute"}, "settle_close")
        PROVE  CancelInv'
    <3>1. SafeRow([row EXCEPT !.status = "settled-hold-invoice"])
      BY <1>r, RowColumns DEF SafeRow, Canceled
    <3> QED
      BY <2>3, <3>1, <1>r, <1>s, StoreCancel DEF CommitSettled
  <2>4. ASSUME NEW to \in {"pay", "idle"},
               StoreDispute(a, "settle_close", Closed("settled"), to)
        PROVE  CancelInv'
    BY <2>4, <1>s, StoreDisputeCancel
  <2> QED
    BY <1>2, <2>1, <2>2, <2>3, <2>4 DEF admin_settle_action
<1>3. CASE admin_cancel_action(a)
  <2>1. ASSUME Begin(a, row, "admin_refund")
        PROVE  CancelInv'
    BY <2>1, <1>s, BeginCancel
  <2>2. ASSUME Refund(a, "admin_refund", "admin_flags")
        PROVE  CancelInv'
    BY <2>2, RefundCancel
  <2>3. ASSUME StoreDispute(a, "admin_flags", Closed("seller-refunded"),
                            "admin_write")
        PROVE  CancelInv'
    BY <2>3, AdminFlagsCancel
  <2>4. ASSUME StoreDispute(a, "admin_flags", dispute, "idle")
        PROVE  CancelInv'
    BY <2>4, <1>s, StoreDisputeCancel
  <2>5. ASSUME Update(a, "admin_write", "canceled-by-admin", "idle")
        PROVE  CancelInv'
    <3>1. copy[a].hash = None \/ htlc[copy[a].hash] = "canceled"
      BY <2>5, <1>r DEF SafeCopy, Refunded, Update, Store
    <3>2. SafeRow([copy[a] EXCEPT !.status = "canceled-by-admin"])
      BY <3>1, <1>r, RowColumns DEF SafeRow
    <3> QED
      BY <2>5, <3>2, <1>s, StoreCancel DEF Update
  <2> QED
    BY <1>3, <2>1, <2>2, <2>3, <2>4, <2>5 DEF admin_cancel_action
<1> QED
  BY <1>1, <1>2, <1>3 DEF AdminStep

(* So do the subscribers, LND and the faults. *)
LEMMA OthersCancel ==
    ASSUME TypeOK, CancelInv,
           {"cancel", "timeout", "deadline"} \cap Events = {},
           \/ do_payment(Rpc)
           \/ \E h \in Invoices : hold_invoice_paid(h) \/ hold_invoice_canceled(h)
           \/ job_cancel_orders
           \/ enforce_escrow_deadline_pass
           \/ \E h \in Invoices :
                 SellerPays(h) \/ InvoiceExpires(h) \/ Ages(h) \/ EscrowExpires(h)
           \/ \E a \in Actors : LndError(a)
           \/ ProbeError
           \/ Restart
    PROVE  CancelInv'
<1>m. /\ Rpc \in Actors /\ Timer \in Actors /\ Guardian \in Actors
      /\ Invoices \subseteq Actors
  BY DEF Actors
<1>r. row \in Rows /\ SafeRow(row)
  BY DEF TypeOK, CancelInv
<1>s. {"idle", "paid_write", "paid_held"} \subseteq Plain
  BY DEF Plain, Steps, OtherCancels, Refunded
<1>1. ASSUME NEW a \in Actors, Goto(a, "idle"), UNCHANGED <<row, lnd>>
      PROVE  CancelInv'
  <2>1. /\ \A b \in Actors \ {a} : pc'[b] = pc[b] /\ copy'[b] = copy[b]
        /\ SafeCopy(a)'
    BY <1>1, <1>s, GotoOthers, PlainSafe
  <2>2. htlc' = htlc /\ row' = row /\ age' = age
    BY <1>1 DEF lnd
  <2> QED
    BY Zenon, <2>1, <2>2, SafeKept, CancelStep
<1>2. ASSUME NEW h \in Invoices, hold_invoice_paid(h)
      PROVE  CancelInv'
  <2>0. h \in Actors /\ copy[h] \in Rows
    BY Zenon, <1>m DEF TypeOK
  <2>1. ASSUME NEW s, NEW guard, Handle(h, s, guard, "paid_write")
        PROVE  CancelInv'
    <3>1. htlc' = htlc /\ row' = row /\ age' = age
      BY Zenon, <2>1 DEF Handle
    <3>2. \A b \in Actors \ {h} : pc'[b] = pc[b] /\ copy'[b] = copy[b]
      BY Zenon, <2>0, <2>1, HoldOthers DEF Handle
    <3>3. SafeCopy(h)'
      <4>1. CASE Hold(h, row, "paid_write")
        BY <4>1, <2>0, <1>s, HoldOthers, PlainSafe
      <4>2. CASE UNCHANGED <<copy, pc>>
        BY Zenon, <4>2, <2>0, <2>1, <1>s, PlainSafe DEF Handle
      <4> QED
        BY Zenon, <2>1, <4>1, <4>2 DEF Handle
    <3> QED
      BY Zenon, <3>1, <3>2, <3>3, SafeKept, CancelStep
  <2>2. ASSUME NEW st \in {"active", "waiting-buyer-invoice"},
               Update(h, "paid_write", st, "paid_held")
        PROVE  CancelInv'
    <3>1. SafeRow([copy[h] EXCEPT !.status = st])
      BY <2>0, RowColumns DEF SafeRow, Canceled
    <3> QED
      BY <2>0, <2>2, <3>1, <1>s, StoreCancel DEF Update
  <2>3. ASSUME Store(h, "paid_held", [row EXCEPT !.held = TRUE], "idle")
        PROVE  CancelInv'
    <3>1. SafeRow([row EXCEPT !.held = TRUE])
      BY <1>r, RowColumns DEF SafeRow
    <3> QED
      BY <2>0, <2>3, <3>1, <1>s, StoreCancel
  <2> QED
    BY <1>2, <2>1, <2>2, <2>3 DEF hold_invoice_paid
<1>3. ASSUME NEW h \in Invoices, hold_invoice_canceled(h)
      PROVE  CancelInv'
  <2>0. h \in Actors /\ pc[h] # "evaporated" /\ age[h] # 2
    BY <1>m, NoOtherCancels DEF OtherCancels, CancelInv
  <2>1. UNCHANGED <<row, htlc, age, pc, copy>>
    BY ZenonT(60), <1>3, <2>0 DEF hold_invoice_canceled, Handle, Update, Store
  <2> QED
    BY Zenon, <2>1 DEF CancelInv, SafeCopy, SafeRow
<1>4. ASSUME job_cancel_orders \/ enforce_escrow_deadline_pass \/ ProbeError
      PROVE  FALSE
  <2>1. /\ \A s \in OtherCancels : pc[Timer] # s /\ pc[Guardian] # s
        /\ "timeout" \notin Events /\ "deadline" \notin Events
    BY <1>m, NoOtherCancels
  <2> QED
    BY <1>4, <2>1
    DEF job_cancel_orders, enforce_escrow_deadline_pass, ProbeError,
        OpenDispute, FlipToDispute, Update, Store, Refund, OtherCancels
<1>5. ASSUME NEW h \in Invoices,
             SellerPays(h) \/ InvoiceExpires(h) \/ Ages(h) \/ EscrowExpires(h)
      PROVE  CancelInv'
  <2>1. \A i \in Invoices : htlc[i] = "canceled" => htlc'[i] = "canceled"
    BY Zenon, <1>5 DEF SellerPays, InvoiceExpires, Ages, EscrowExpires, Move, TypeOK
  <2>2. age' = age /\ row' = row /\ pc' = pc /\ copy' = copy
    BY Zenon, <1>5 DEF SellerPays, InvoiceExpires, Ages, EscrowExpires, Move
  <2>3. SafeCopy(h)'
    <3>1. SafeCopy(h) /\ copy[h].hash \in Invoices \cup {None}
      BY Zenon, <1>m, RowType DEF CancelInv, TypeOK
    <3> QED
      BY Zenon, <2>1, <2>2, <3>1 DEF SafeCopy
  <2> QED
    BY Zenon, <2>1, <2>2, <2>3, SafeKept, CancelStep
<1>6. CASE Restart
  <2>1. \A a \in Actors : SafeCopy(a)'
    BY ZenonT(60), <1>6, <1>s, PlainSafe DEF Restart
  <2> QED
    BY Zenon, <1>6, <2>1 DEF Restart, CancelInv, SafeRow
<1>7. CASE do_payment(Rpc)
  BY <1>1, <1>7, <1>m DEF do_payment
<1>8. ASSUME NEW a \in Actors, LndError(a)
      PROVE  CancelInv'
  BY <1>1, <1>8 DEF LndError
<1> QED
  BY <1>2, <1>3, <1>4, <1>5, <1>6, <1>7, <1>8

(* Nothing is canceled at first. *)
LEMMA CancelInit ==
    ASSUME Init
    PROVE  CancelInv
<1>1. row.status = "pending"
  BY DEF Init, Fresh
<1> QED
  BY <1>1 DEF Init, CancelInv, SafeRow, SafeCopy, Canceled, OtherCancels, Refunded

(* Every step keeps CancelInv. *)
LEMMA CancelNext ==
    ASSUME {"cancel", "timeout", "deadline"} \cap Events = {},
           TypeOK, CancelInv, [Next]_vars
    PROVE  CancelInv'
<1>m. Admins \subseteq Actors
  BY Zenon DEF Actors, Admins
<1>1. CASE UNCHANGED vars
  BY <1>1 DEF CancelInv, SafeRow, SafeCopy, vars
<1> QED
  BY <1>m, <1>1, MainCancels, AdminCancels, OthersCancel DEF Next

(***************************************************************************)
(* Where only both sides together (cancel.rs:605-662) and solvers          *)
(* (admin_cancel.rs) cancel a live trade, over Nostr and over gRPC at the  *)
(* same time and with any number of LND errors and restarts, no trade is   *)
(* recorded as canceled whose escrow was settled.                          *)
(***************************************************************************)
THEOREM CanceledNotSettledHolds ==
    ASSUME {"cancel", "timeout", "deadline"} \cap Events = {}
    PROVE  Spec => []CanceledNotSettled
<1>1. Init => CancelInv
  BY CancelInit
<1>2. TypeOK /\ CancelInv /\ [Next]_vars => CancelInv'
  BY CancelNext
<1>3. CancelInv => CanceledNotSettled
  BY DEF CancelInv, SafeRow, CanceledNotSettled
<1> QED
  BY <1>1, <1>2, <1>3, TypeCorrect, PTL DEF Spec

----------------------------------------------------------------------------
(***************************************************************************)
(* OneInitiator, in instances where no waiting order is canceled or times  *)
(* out.  A dispute flag is added to copies of orders that have none, and   *)
(* an order outside dispute and its ends has none: what a handler writes   *)
(* from a stale copy is a row with no flag or with exactly one.            *)
(***************************************************************************)
WaitingCancels == {"cancel_pending", "maker_write", "maker_refund",
                   "taker_refund", "taker_reset", "taker_edit",
                   "late_refund", "late_reset", "late_edit", "late_write"}

GoodFlags(r) ==
    /\ r.status = "dispute" => \E side \in Sides : r.disputed = {side}
    /\ r.status \in {"pending", "active", "fiat-sent"} \cup Waiting =>
          r.disputed = {}

(* What a handler at a step knows of its copy r. *)
At(step, r) ==
    /\ step \notin WaitingCancels
    /\ step \in {"create_take", "create_invoice"} =>
          r.status \in {"pending", "waiting-buyer-invoice"}
    /\ step = "activate" => r.status = "waiting-buyer-invoice"
    /\ step = "fiat_sent" => r.status = "active"
    /\ step = "paid_write" => r.status \in Waiting
    /\ step \in {"deadline_row", "deadline_flip"} => r.status = "fiat-sent"
    /\ step \in {"complete_take", "complete_invoice"} => r.status \in Waiting

FlagsInv ==
    /\ GoodFlags(row)
    /\ \A a \in Actors : GoodFlags(copy[a]) /\ At(pc[a], copy[a])

(* Steps at which At asks nothing of the copy. *)
Free == Steps \ (WaitingCancels \cup
                 {"create_take", "create_invoice", "activate", "fiat_sent",
                  "paid_write", "deadline_row", "deadline_flip",
                  "complete_take", "complete_invoice"})

(* At such a step At holds. *)
LEMMA FreeAt ==
    ASSUME NEW step \in Free, NEW r
    PROVE  At(step, r)
  BY ZenonT(60) DEF Free, At

(* A handler that takes a copy with good flags keeps FlagsInv. *)
LEMMA HoldFlags ==
    ASSUME TypeOK, FlagsInv, NEW a \in Actors, NEW r, NEW step,
           Hold(a, r, step), GoodFlags(r), At(step, r), GoodFlags(row')
    PROVE  FlagsInv'
<1>1. /\ \A b \in Actors \ {a} : pc'[b] = pc[b] /\ copy'[b] = copy[b]
      /\ pc'[a] = step /\ copy'[a] = r
  BY HoldOthers
<1> QED
  BY <1>1 DEF FlagsInv

(* So does one that moves on, if the order it leaves has good flags. *)
LEMMA GotoFlags ==
    ASSUME TypeOK, FlagsInv, NEW a \in Actors, NEW step,
           Goto(a, step), At(step, copy[a]), GoodFlags(row')
    PROVE  FlagsInv'
<1>1. /\ \A b \in Actors \ {a} : pc'[b] = pc[b] /\ copy'[b] = copy[b]
      /\ pc'[a] = step
      /\ step # "idle" => copy'[a] = copy[a]
      /\ step = "idle" => copy'[a] = Fresh
  BY GotoOthers
<1>2. CASE step # "idle"
  BY <1>1, <1>2 DEF FlagsInv
<1>3. CASE step = "idle"
  <2>1. GoodFlags(Fresh) /\ At("idle", Fresh)
    BY Zenon DEF GoodFlags, Fresh, At, WaitingCancels
  <2> QED
    BY Zenon, <1>1, <1>3, <2>1 DEF FlagsInv
<1> QED
  BY Zenon, <1>2, <1>3

(* The blocks that leave the order alone. *)
LEMMA CallFlags ==
    ASSUME TypeOK, FlagsInv, NEW a \in Actors, NEW from, NEW to \in Free,
           Refund(a, from, to) \/ Settle(a, from, to)
    PROVE  FlagsInv'
<1>1. row' = row /\ (Goto(a, to) \/ Goto(a, "idle"))
  BY Zenon DEF Refund, Settle
<1>2. "idle" \in Free /\ GoodFlags(row')
  BY Zenon, <1>1 DEF FlagsInv, Free, Steps, WaitingCancels
<1> QED
  BY Zenon, <1>1, <1>2, FreeAt, GotoFlags

(* A statement on the dispute keeps the flags. *)
LEMMA StoreDisputeFlags ==
    ASSUME TypeOK, FlagsInv, NEW a \in Actors, NEW from, NEW d, NEW to \in Free,
           StoreDispute(a, from, d, to)
    PROVE  FlagsInv'
  BY Zenon, FreeAt, GotoFlags DEF StoreDispute, FlagsInv

(* A handler that starts with good flags. *)
LEMMA BeginFlags ==
    ASSUME TypeOK, FlagsInv, NEW a \in Actors, NEW r, NEW step,
           Begin(a, r, step), GoodFlags(r), At(step, r)
    PROVE  FlagsInv'
  BY HoldFlags DEF Begin, FlagsInv

(* A write of a row with good flags. *)
LEMMA StoreFlags ==
    ASSUME TypeOK, FlagsInv, NEW a \in Actors, NEW from, NEW r, NEW to \in Free,
           Store(a, from, r, to), GoodFlags(r)
    PROVE  FlagsInv'
  BY FreeAt, GotoFlags DEF Store

(* A row whose status asks for no flag, and a canceled or settled one. *)
LEMMA FlagsOfUpdate ==
    ASSUME NEW r \in Rows, GoodFlags(r), NEW s,
           \/ s \in Canceled \cup {"settled-hold-invoice"}
           \/ r.status \in {"pending", "active", "fiat-sent"} \cup Waiting
              /\ s # "dispute"
    PROVE  GoodFlags([r EXCEPT !.status = s])
<1>1. /\ [r EXCEPT !.status = s].status = s
      /\ [r EXCEPT !.status = s].disputed = r.disputed
  BY RowColumns
<1>2. CASE s \in Canceled \cup {"settled-hold-invoice"}
  BY <1>1, <1>2 DEF GoodFlags, Canceled, Waiting
<1>3. CASE r.status \in {"pending", "active", "fiat-sent"} \cup Waiting
           /\ s # "dispute"
  BY <1>1, <1>3 DEF GoodFlags
<1> QED
  BY <1>2, <1>3

(* Filing a dispute on a row without flags raises one. *)
LEMMA FlagsOfDispute ==
    ASSUME NEW r \in Rows, GoodFlags(r), r.status \in {"active", "fiat-sent"},
           NEW side \in Sides
    PROVE  GoodFlags(setup_dispute(r, side))
<1>1. /\ setup_dispute(r, side).status = "dispute"
      /\ setup_dispute(r, side).disputed = r.disputed \cup {side}
  BY RowColumns
<1>2. r.disputed = {}
  BY DEF GoodFlags
<1>3. setup_dispute(r, side).disputed = {side}
  BY <1>1, <1>2
<1> QED
  BY <1>1, <1>3 DEF GoodFlags, Waiting

(* The handlers of the main loop keep FlagsInv. *)
LEMMA MainFlags ==
    ASSUME TypeOK, FlagsInv, MainStep, {"cancel", "timeout"} \cap Events = {}
    PROVE  FlagsInv'
<1>m. Main \in Actors
  BY DEF Actors
<1>r. /\ row \in Rows /\ copy[Main] \in Rows /\ GoodFlags(row)
      /\ GoodFlags(copy[Main]) /\ At(pc[Main], copy[Main])
  BY <1>m DEF TypeOK, FlagsInv
<1>s. {"idle", "orphan", "release", "release_commit", "release_close", "pay",
       "coop_start", "coop_refund", "coop_write", "coop_close",
       "dispute_read", "dispute_write", "dispute_create"} \subseteq Free
  BY DEF Free, Steps, WaitingCancels
<1>1. CASE take_buy_action \/ take_sell_action
  <2>1. ASSUME NEW r, r.status = "pending", r.disputed = row.disputed,
               row.status = "pending", Begin(Main, r, "create_take")
        PROVE  FlagsInv'
    <3>1. GoodFlags(r) /\ At("create_take", r)
      BY <2>1, <1>r DEF GoodFlags, At, WaitingCancels
    <3> QED
      BY ZenonT(60), <2>1, <3>1, <1>m, BeginFlags
  <2>2. ASSUME NEW r, r.status = "waiting-buyer-invoice",
               r.disputed = row.disputed, row.status = "pending",
               Begin(Main, r, "complete_take")
        PROVE  FlagsInv'
    <3>1. GoodFlags(r) /\ At("complete_take", r)
      BY <2>2, <1>r DEF GoodFlags, At, Waiting, WaitingCancels
    <3> QED
      BY ZenonT(60), <2>2, <3>1, <1>m, BeginFlags
  <2>3. CASE take_buy_action
    <3>1. /\ [row EXCEPT !.taker = TRUE].status = row.status
          /\ [row EXCEPT !.taker = TRUE].disputed = row.disputed
      BY Zenon, <1>r, RowColumns
    <3> QED
      BY Zenon, <2>1, <2>3, <3>1 DEF take_buy_action
  <2>4. CASE take_sell_action
    <3> DEFINE r1 == [row EXCEPT !.taker = TRUE, !.buyer_invoice = TRUE]
               r2 == [row EXCEPT !.taker = TRUE,
                                 !.status = "waiting-buyer-invoice"]
    <3>1. /\ r1.status = row.status /\ r1.disputed = row.disputed
          /\ r2.status = "waiting-buyer-invoice" /\ r2.disputed = row.disputed
      BY <1>r, RowColumns
    <3>2. /\ row.status = "pending"
          /\ Begin(Main, r1, "create_take") \/ Begin(Main, r2, "complete_take")
      BY <2>4 DEF take_sell_action
    <3> HIDE DEF r1, r2
    <3> QED
      BY <2>1, <2>2, <3>1, <3>2
  <2> QED
    BY <1>1, <2>3, <2>4
<1>2. ASSUME NEW from \in {"create_take", "create_invoice"},
             NEW to \in {"complete_take", "complete_invoice"},
             create_hold_invoice(from, to)
      PROVE  FlagsInv'
  <2>1. PICK h \in Invoices :
           Hold(Main, [copy[Main] EXCEPT !.hash = h,
                                         !.status = "waiting-payment"], to)
    BY Zenon, <1>2 DEF create_hold_invoice
  <2> DEFINE r == [copy[Main] EXCEPT !.hash = h, !.status = "waiting-payment"]
  <2>2. r.status = "waiting-payment" /\ r.disputed = copy[Main].disputed
    BY <1>r, RowColumns
  <2>3. copy[Main].disputed = {}
    BY <1>2, <1>r DEF create_hold_invoice, At, GoodFlags, Waiting
  <2>4. GoodFlags(r) /\ At(to, r)
    BY <2>2, <2>3, <1>2 DEF GoodFlags, At, Waiting, WaitingCancels
  <2>5. row' = row
    BY <1>2 DEF create_hold_invoice
  <2> QED
    BY Zenon, <2>1, <2>4, <2>5, <1>m, <1>r, HoldFlags
<1>3. ASSUME NEW from \in {"complete_take", "complete_invoice"},
             NEW statuses \in SUBSET {"pending", "waiting-buyer-invoice"},
             cas_complete_pretrade_take(from, statuses)
      PROVE  FlagsInv'
  <2>1. copy[Main].status \in Waiting
    BY <1>3, <1>r DEF At, cas_complete_pretrade_take
  <2>2. Goto(Main, "idle") \/ Goto(Main, "orphan")
    BY <1>3 DEF cas_complete_pretrade_take
  <2>3. ASSUME GoodFlags(row')
        PROVE  FlagsInv'
    BY <2>2, <2>3, <1>m, <1>s, FreeAt, GotoFlags
  <2>4. CASE row' = row
    BY <2>3, <2>4, <1>r
  <2>5. CASE /\ row.status \in statuses
             /\ row' = [row EXCEPT !.status = copy[Main].status,
                                   !.hash = copy[Main].hash,
                                   !.buyer_invoice = copy[Main].buyer_invoice,
                                   !.taker = TRUE]
    <3>1. row'.status = copy[Main].status /\ row'.disputed = row.disputed
      BY <2>5, <1>r, RowColumns
    <3>2. row.disputed = {}
      BY <2>5, <1>3, <1>r DEF GoodFlags, Waiting
    <3>3. GoodFlags(row')
      BY <3>1, <3>2, <2>1 DEF GoodFlags, Waiting
    <3> QED
      BY <2>3, <3>3
  <2> QED
    BY <1>3, <2>4, <2>5 DEF cas_complete_pretrade_take
<1>4. CASE show_hold_invoice
  BY <1>4, <1>2, <1>3, <1>m, <1>s, CallFlags DEF show_hold_invoice
<1>5. CASE add_invoice_action
  <2>1. ASSUME NEW step \in {"activate", "create_invoice"},
               row.status = "waiting-buyer-invoice",
               Begin(Main, [row EXCEPT !.buyer_invoice = TRUE], step)
        PROVE  FlagsInv'
    <3> DEFINE r == [row EXCEPT !.buyer_invoice = TRUE]
    <3>1. r.status = row.status /\ r.disputed = row.disputed
      BY <1>r, RowColumns
    <3>2. GoodFlags(r) /\ At(step, r)
      BY <3>1, <2>1, <1>r DEF GoodFlags, At, WaitingCancels
    <3> QED
      BY <2>1, <3>2, <1>m, BeginFlags
  <2>2. ASSUME Update(Main, "activate", "active", "idle")
        PROVE  FlagsInv'
    <3>1. copy[Main].status \in Waiting
      BY <2>2, <1>r DEF At, Update, Store, Waiting
    <3>2. GoodFlags([copy[Main] EXCEPT !.status = "active"])
      BY <3>1, <1>r, FlagsOfUpdate
    <3> QED
      BY <2>2, <3>2, <1>m, <1>s, StoreFlags DEF Update
  <2> QED
    BY <1>5, <2>1, <2>2 DEF add_invoice_action
<1>6. CASE fiat_sent_action
  <2>1. ASSUME row.status = "active", Begin(Main, row, "fiat_sent")
        PROVE  FlagsInv'
    <3>1. At("fiat_sent", row)
      BY <2>1 DEF At, WaitingCancels
    <3> QED
      BY <2>1, <3>1, <1>m, <1>r, BeginFlags
  <2>2. ASSUME Update(Main, "fiat_sent", "fiat-sent", "idle")
        PROVE  FlagsInv'
    <3>1. copy[Main].status = "active"
      BY <2>2, <1>r DEF At, Update, Store
    <3>2. GoodFlags([copy[Main] EXCEPT !.status = "fiat-sent"])
      BY <3>1, <1>r, FlagsOfUpdate
    <3> QED
      BY <2>2, <3>2, <1>m, <1>s, StoreFlags DEF Update
  <2> QED
    BY Zenon, <1>6, <2>1, <2>2 DEF fiat_sent_action
<1>7. CASE release_action
  <2>1. ASSUME Begin(Main, row, "release")
        PROVE  FlagsInv'
    BY <2>1, <1>m, <1>r, <1>s, FreeAt, BeginFlags
  <2>2. ASSUME Settle(Main, "release", "release_commit")
        PROVE  FlagsInv'
    BY <2>2, <1>m, <1>s, CallFlags
  <2>3. ASSUME CommitSettled(Main, "release_commit", {"fiat-sent", "dispute"},
                             "release_close")
        PROVE  FlagsInv'
    <3>1. GoodFlags([row EXCEPT !.status = "settled-hold-invoice"])
      BY <1>r, FlagsOfUpdate
    <3> QED
      BY <2>3, <3>1, <1>m, <1>r, <1>s, StoreFlags DEF CommitSettled
  <2>4. ASSUME StoreDispute(Main, "release_close", Closed("settled"), "pay")
        PROVE  FlagsInv'
    BY <2>4, <1>m, <1>s, StoreDisputeFlags
  <2> QED
    BY Zenon, <1>7, <2>1, <2>2, <2>3, <2>4 DEF release_action
<1>8. ASSUME \/ cancel_pending_order_from_maker
             \/ cancel_order_by_maker
             \/ cancel_order_by_taker
      PROVE  FALSE
  <2>1. "cancel" \notin Events /\ pc[Main] \notin WaitingCancels
    BY <1>r DEF At
  <2> QED
    BY <1>8, <2>1
    DEF cancel_pending_order_from_maker, cancel_order_by_maker,
        cancel_order_by_taker, Store, Update, Refund, WaitingCancels
<1>9. CASE cancel_active_order
  <2>1. ASSUME NEW side, Begin(Main, [row EXCEPT !.initiator = side], "coop_start")
        PROVE  FlagsInv'
    <3>1. GoodFlags([row EXCEPT !.initiator = side])
      BY SMTT(30), <1>r, RowColumns DEF GoodFlags
    <3> QED
      BY <2>1, <3>1, <1>m, <1>s, FreeAt, BeginFlags
  <2>2. ASSUME Begin(Main, row, "coop_refund")
        PROVE  FlagsInv'
    BY ZenonT(60), <2>2, <1>m, <1>r, <1>s, FreeAt, BeginFlags
  <2>3. ASSUME Store(Main, "coop_start", copy[Main], "idle")
        PROVE  FlagsInv'
    BY <2>3, <1>m, <1>r, <1>s, StoreFlags
  <2>4. ASSUME Refund(Main, "coop_refund", "coop_write")
        PROVE  FlagsInv'
    BY <2>4, <1>m, <1>s, CallFlags
  <2>5. ASSUME Update(Main, "coop_write", "cooperatively-canceled", "coop_close")
        PROVE  FlagsInv'
    <3>1. GoodFlags([copy[Main] EXCEPT !.status = "cooperatively-canceled"])
      BY <1>r, FlagsOfUpdate DEF Canceled
    <3> QED
      BY <2>5, <3>1, <1>m, <1>s, StoreFlags DEF Update
  <2>6. ASSUME StoreDispute(Main, "coop_close", Closed("seller-refunded"), "idle")
        PROVE  FlagsInv'
    BY <2>6, <1>m, <1>s, StoreDisputeFlags
  <2>7. ASSUME NEW side \in Sides,
               IF row.initiator = "none"
               THEN Begin(Main, [row EXCEPT !.initiator = side], "coop_start")
               ELSE row.initiator # side /\ Begin(Main, row, "coop_refund")
        PROVE  FlagsInv'
    BY Zenon, <2>1, <2>2, <2>7
  <2> QED
    BY Zenon, <1>9, <2>3, <2>4, <2>5, <2>6, <2>7 DEF cancel_active_order,
        cancel_cooperative_execution_step_1,
        cancel_cooperative_execution_step_2
<1>10. CASE dispute_action
  <2>1. ASSUME NEW side \in Sides, row.status \in {"active", "fiat-sent"},
               Hold(Main, setup_dispute(row, side), "dispute_write"), row' = row
        PROVE  FlagsInv'
    <3>1. GoodFlags(setup_dispute(row, side))
      BY Zenon, <2>1, <1>r, FlagsOfDispute
    <3> QED
      BY Zenon, <2>1, <3>1, <1>m, <1>r, <1>s, FreeAt, HoldFlags
  <2>2. ASSUME Goto(Main, "idle"), row' = row
        PROVE  FlagsInv'
    BY Zenon, <2>2, <1>m, <1>r, <1>s, FreeAt, GotoFlags
  <2>3. ASSUME Begin(Main, row, "dispute_read")
        PROVE  FlagsInv'
    BY Zenon, <2>3, <1>m, <1>r, <1>s, FreeAt, BeginFlags
  <2>4. ASSUME Store(Main, "dispute_write", copy[Main], "dispute_create")
        PROVE  FlagsInv'
    BY <2>4, <1>m, <1>r, <1>s, StoreFlags
  <2>5. ASSUME NEW d, StoreDispute(Main, "dispute_create", d, "idle")
        PROVE  FlagsInv'
    BY ZenonT(60), <2>5, <1>m, <1>s, StoreDisputeFlags
  <2> QED
    BY Zenon, <1>10, <2>1, <2>2, <2>3, <2>4, <2>5 DEF dispute_action
<1>11. CASE do_payment(Main)
  BY <1>11, <1>m, <1>r, <1>s, FreeAt, GotoFlags DEF do_payment
<1> QED
  BY <1>1, <1>4, <1>5, <1>6, <1>7, <1>8, <1>9, <1>10, <1>11 DEF MainStep

(* The admin actions keep FlagsInv. *)
LEMMA AdminFlags ==
    ASSUME TypeOK, FlagsInv, NEW a \in Actors, AdminStep(a)
    PROVE  FlagsInv'
<1>r. row \in Rows /\ copy[a] \in Rows /\ GoodFlags(row) /\ GoodFlags(copy[a])
  BY DEF TypeOK, FlagsInv
<1>s. {"idle", "dispute_take", "settle", "settle_commit", "settle_close", "pay",
       "admin_refund", "admin_flags", "admin_write"} \subseteq Free
  BY DEF Free, Steps, WaitingCancels
<1>1. ASSUME NEW step \in Free, Begin(a, row, step)
      PROVE  FlagsInv'
  BY <1>1, <1>r, FreeAt, BeginFlags
<1>2. ASSUME Goto(a, "idle"), row' = row
      PROVE  FlagsInv'
  BY <1>2, <1>r, <1>s, FreeAt, GotoFlags
<1>3. CASE admin_take_dispute_action(a)
  BY <1>1, <1>2, <1>3, <1>s DEF admin_take_dispute_action
<1>4. CASE admin_settle_action(a)
  <2>1. ASSUME Settle(a, "settle", "settle_commit")
        PROVE  FlagsInv'
    BY <2>1, <1>s, CallFlags
  <2>2. ASSUME CommitSettled(a, "settle_commit", {"dispute"}, "settle_close")
        PROVE  FlagsInv'
    <3>1. GoodFlags([row EXCEPT !.status = "settled-hold-invoice"])
      BY <1>r, FlagsOfUpdate
    <3> QED
      BY <2>2, <3>1, <1>r, <1>s, StoreFlags DEF CommitSettled
  <2>3. ASSUME NEW to \in {"pay", "idle"},
               StoreDispute(a, "settle_close", Closed("settled"), to)
        PROVE  FlagsInv'
    BY <2>3, <1>s, StoreDisputeFlags
  <2> QED
    BY <1>1, <1>4, <1>s, <2>1, <2>2, <2>3 DEF admin_settle_action
<1>5. CASE admin_cancel_action(a)
  <2>1. ASSUME Refund(a, "admin_refund", "admin_flags")
        PROVE  FlagsInv'
    BY <2>1, <1>s, CallFlags
  <2>2. ASSUME NEW d, NEW to \in {"admin_write", "idle"},
               StoreDispute(a, "admin_flags", d, to)
        PROVE  FlagsInv'
    BY <2>2, <1>s, StoreDisputeFlags
  <2>3. ASSUME Update(a, "admin_write", "canceled-by-admin", "idle")
        PROVE  FlagsInv'
    <3>1. GoodFlags([copy[a] EXCEPT !.status = "canceled-by-admin"])
      BY <1>r, FlagsOfUpdate DEF Canceled
    <3> QED
      BY <2>3, <3>1, <1>s, StoreFlags DEF Update
  <2> QED
    BY <1>1, <1>5, <1>s, <2>1, <2>2, <2>3 DEF admin_cancel_action
<1> QED
  BY <1>3, <1>4, <1>5 DEF AdminStep

(* So do the subscribers and the guardian. *)
LEMMA TasksFlags ==
    ASSUME TypeOK, FlagsInv,
           \/ \E h \in Invoices : hold_invoice_paid(h) \/ hold_invoice_canceled(h)
           \/ enforce_escrow_deadline_pass
           \/ ProbeError
    PROVE  FlagsInv'
<1>m. Guardian \in Actors /\ Invoices \subseteq Actors
  BY DEF Actors
<1>r. /\ row \in Rows /\ GoodFlags(row)
      /\ \A a \in Actors : /\ copy[a] \in Rows /\ GoodFlags(copy[a])
                           /\ At(pc[a], copy[a])
  BY DEF TypeOK, FlagsInv
<1>s. {"idle", "paid_held", "evaporated", "probe", "deadline_refund",
       "deadline_gone", "deadline_write"} \subseteq Free
  BY DEF Free, Steps, WaitingCancels
<1>1. ASSUME NEW h \in Invoices, NEW s, NEW guard,
             NEW to \in {"paid_write", "evaporated"}, Handle(h, s, guard, to),
             guard /\ to = "paid_write" => row.status \in Waiting
      PROVE  FlagsInv'
  <2>1. CASE guard /\ Hold(h, row, to)
    <3>1. At(to, row)
      BY Zenon, <1>1, <2>1 DEF At, WaitingCancels
    <3> QED
      BY Zenon, <1>1, <2>1, <3>1, <1>m, <1>r, HoldFlags DEF Handle
  <2>2. CASE UNCHANGED <<copy, pc>>
    BY Zenon, <1>1, <2>2 DEF Handle, FlagsInv
  <2> QED
    BY Zenon, <1>1, <2>1, <2>2 DEF Handle
<1>2. ASSUME NEW h \in Invoices, hold_invoice_paid(h)
      PROVE  FlagsInv'
  <2>1. ASSUME Handle(h, "accepted",
                      row.status \in Waiting /\ ~row.held /\ row.taker,
                      "paid_write")
        PROVE  FlagsInv'
    BY Zenon, <1>1, <2>1
  <2>2. ASSUME NEW st \in {"active", "waiting-buyer-invoice"},
               Update(h, "paid_write", st, "paid_held")
        PROVE  FlagsInv'
    <3>1. h \in Actors /\ copy[h].status \in Waiting
      BY <2>2, <1>m, <1>r DEF At, Update, Store
    <3>2. GoodFlags([copy[h] EXCEPT !.status = st])
      BY <3>1, <1>r, FlagsOfUpdate
    <3> QED
      BY <2>2, <3>1, <3>2, <1>s, StoreFlags DEF Update
  <2>3. ASSUME Store(h, "paid_held", [row EXCEPT !.held = TRUE], "idle")
        PROVE  FlagsInv'
    <3>1. GoodFlags([row EXCEPT !.held = TRUE])
      BY <1>r, RowColumns DEF GoodFlags
    <3> QED
      BY <2>3, <3>1, <1>m, <1>s, StoreFlags
  <2> QED
    BY <1>2, <2>1, <2>2, <2>3 DEF hold_invoice_paid
<1>3. ASSUME NEW a \in Actors, NEW from,
             NEW to \in Free, Update(a, from, "canceled", to)
      PROVE  FlagsInv'
  <2>1. GoodFlags([copy[a] EXCEPT !.status = "canceled"])
    BY Zenon, <1>r, FlagsOfUpdate DEF Canceled
  <2> QED
    BY <1>3, <2>1, StoreFlags DEF Update
<1>4. ASSUME NEW h \in Invoices, hold_invoice_canceled(h)
      PROVE  FlagsInv'
  <2>1. ASSUME NEW guard, Handle(h, "canceled", guard, "evaporated")
        PROVE  FlagsInv'
    BY Zenon, <1>1, <2>1
  <2> QED
    BY <1>3, <1>4, <1>m, <1>s, <2>1 DEF hold_invoice_canceled
<1>5. ASSUME NEW to \in Free, Goto(Guardian, to), row' = row
      PROVE  FlagsInv'
  BY Zenon, <1>5, <1>m, <1>r, FreeAt, GotoFlags
<1>6. ASSUME Goto(Guardian, "deadline_row"), row' = row,
             copy[Guardian].status = "fiat-sent"
      PROVE  FlagsInv'
  <2>1. At("deadline_row", copy[Guardian])
    BY Zenon, <1>6 DEF At, WaitingCancels
  <2> QED
    BY Zenon, <1>6, <2>1, <1>m, <1>r, GotoFlags
<1>7. CASE enforce_escrow_deadline_pass
  <2>1. ASSUME Begin(Guardian, row, "probe")
        PROVE  FlagsInv'
    BY Zenon, <2>1, <1>m, <1>r, <1>s, FreeAt, BeginFlags
  <2>2. ASSUME Refund(Guardian, "deadline_refund", "deadline_write")
        PROVE  FlagsInv'
    BY Zenon, <2>2, <1>m, <1>s, CallFlags
  <2>3. CASE OpenDispute
    <3>1. At("deadline_flip", copy[Guardian])
      BY <2>3, <1>m, <1>r DEF OpenDispute, At, WaitingCancels
    <3> QED
      BY ZenonT(60), <2>3, <3>1, <1>m, <1>r, GotoFlags DEF OpenDispute
  <2>4. CASE FlipToDispute
    <3>1. copy[Guardian].status = "fiat-sent"
      BY Zenon, <2>4, <1>m, <1>r DEF FlipToDispute, Store, At
    <3>2. GoodFlags(setup_dispute(copy[Guardian], "buyer"))
      BY Zenon, <3>1, <1>m, <1>r, FlagsOfDispute DEF Sides
    <3> QED
      BY Zenon, <2>4, <3>2, <1>m, <1>s, StoreFlags DEF FlipToDispute
  <2>5. ASSUME \/ Goto(Guardian, "idle")
               \/ Goto(Guardian, "deadline_refund")
               \/ Goto(Guardian, "deadline_gone")
               \/ /\ copy[Guardian].status = "fiat-sent"
                  /\ Goto(Guardian, "deadline_row"),
               row' = row
        PROVE  FlagsInv'
    BY <1>5, <1>6, <1>s, <2>5
  <2>6. ASSUME Goto(Guardian, "deadline_write"), row' = row
        PROVE  FlagsInv'
    BY Zenon, <1>5, <2>6, <1>s
  <2> QED
    BY Zenon, <1>3, <1>7, <1>m, <1>s, <2>1, <2>2, <2>3, <2>4, <2>5, <2>6
    DEF enforce_escrow_deadline_pass
<1>8. CASE ProbeError
  <2>1. /\ \/ Goto(Guardian, "idle")
           \/ Goto(Guardian, "deadline_refund")
           \/ /\ copy[Guardian].status = "fiat-sent"
              /\ Goto(Guardian, "deadline_row")
        /\ row' = row
    BY Zenon, <1>8 DEF ProbeError
  <2> QED
    BY Zenon, <1>5, <1>6, <1>s, <2>1
<1> QED
  BY <1>2, <1>4, <1>7, <1>8

(* No dispute is filed at first. *)
LEMMA FlagsInit ==
    ASSUME Init
    PROVE  FlagsInv
<1>1. row.status = "pending" /\ row.disputed = {}
  BY DEF Init, Fresh
<1>2. Fresh.status = "pending" /\ Fresh.disputed = {}
  BY DEF Fresh
<1>3. \A a \in Actors : pc[a] = "idle" /\ copy[a] = Fresh
  BY DEF Init
<1> QED
  BY <1>1, <1>2, <1>3 DEF FlagsInv, GoodFlags, At, WaitingCancels

(* Every step keeps FlagsInv. *)
LEMMA FlagsNext ==
    ASSUME {"cancel", "timeout"} \cap Events = {},
           TypeOK, FlagsInv, [Next]_vars
    PROVE  FlagsInv'
<1>m. Admins \subseteq Actors /\ Rpc \in Actors /\ Timer \in Actors
  BY DEF Actors, Admins
<1>s. "idle" \in Free
  BY Zenon DEF Free, Steps, WaitingCancels
<1>1. ASSUME NEW a \in Actors, Goto(a, "idle"), row' = row
      PROVE  FlagsInv'
  BY Zenon, <1>1, <1>s, FreeAt, GotoFlags DEF FlagsInv
<1>2. CASE UNCHANGED <<row, pc, copy>>
  BY <1>2 DEF FlagsInv
<1>3. ASSUME job_cancel_orders PROVE FALSE
  <2>1. "timeout" \notin Events /\ pc[Timer] \notin WaitingCancels
    BY Zenon, <1>m DEF FlagsInv, At
  <2> QED
    BY Zenon, <1>3, <2>1 DEF job_cancel_orders, Store, Refund, WaitingCancels
<1>4. CASE Restart
  <2>1. GoodFlags(Fresh) /\ At("idle", Fresh)
    BY DEF GoodFlags, Fresh, At, WaitingCancels
  <2> QED
    BY Zenon, <1>4, <2>1 DEF Restart, FlagsInv
<1>5. CASE do_payment(Rpc)
  BY <1>1, <1>5, <1>m DEF do_payment
<1>6. ASSUME NEW a \in Actors, LndError(a)
      PROVE  FlagsInv'
  BY Zenon, <1>1, <1>6 DEF LndError
<1>7. ASSUME NEW h \in Invoices,
             SellerPays(h) \/ InvoiceExpires(h) \/ Ages(h) \/ EscrowExpires(h)
      PROVE  UNCHANGED <<row, pc, copy>>
  BY <1>7 DEF SellerPays, InvoiceExpires, Ages, EscrowExpires
<1>8. CASE UNCHANGED vars
  BY Zenon, <1>2, <1>8 DEF vars
<1> QED
  BY Zenon, <1>m, <1>2, <1>3, <1>4, <1>5, <1>6, <1>7, <1>8,
     MainFlags, AdminFlags, TasksFlags DEF Next

(***************************************************************************)
(* Where no waiting order is canceled or times out, an order in dispute    *)
(* names one initiator, so that admin_settle (admin_settle.rs:134-139) and *)
(* admin_cancel (admin_cancel.rs:128-133) can finish: for any interleaving *)
(* of both sides, solvers, guardian, subscribers, LND errors and restarts. *)
(***************************************************************************)
THEOREM OneInitiatorHolds ==
    ASSUME {"cancel", "timeout"} \cap Events = {}
    PROVE  Spec => []OneInitiator
<1>1. Init => FlagsInv
  BY FlagsInit
<1>2. TypeOK /\ FlagsInv /\ [Next]_vars => FlagsInv'
  BY Zenon, FlagsNext
<1>3. FlagsInv => OneInitiator
  BY ZenonT(60) DEF FlagsInv, GoodFlags, OneInitiator, OneFlag
<1> QED
  BY <1>1, <1>2, <1>3, TypeCorrect, PTL DEF Spec
----------------------------------------------------------------------------
(***************************************************************************)
(* SettledIsPaid, in instances where only the two sides together or a      *)
(* solver cancel, and the daemon runs.  The argument is that the           *)
(* compare-and-swap after a settle is never lost.  A handler that settles  *)
(* found an accepted invoice, so nobody has ended the trade; from then on  *)
(* nobody else can, because LND answers every other settle or cancel with  *)
(* an error; and the stale copies still to be written leave the order in a *)
(* status the compare-and-swap accepts.  LiveInv says this handler by      *)
(* handler: which status the order has while a handler is at a step        *)
(* (StatusAt), what the handler's copy is (CopyAt), and that it is of the  *)
(* invoice the order has now (StandsAs).                                   *)
(***************************************************************************)
(* A trade under way, and one whose end is recorded. *)
Live == {"active", "fiat-sent", "dispute"}

Ended == {"settled-hold-invoice"} \cup Canceled

(* Steps: of a take, of an invoice of the buyer, of the two sides of a live *)
(* trade, of a solver, and all those of the main loop's users.              *)
Taking == {"create_take", "complete_take"}

Asking == {"create_invoice", "complete_invoice"}

BothSides == {"release", "release_commit", "release_close", "coop_start",
              "coop_refund", "coop_write", "coop_close"}

Solving == {"settle", "settle_commit", "settle_close",
            "admin_refund", "admin_flags", "admin_write"}

Users == {"activate", "fiat_sent", "dispute_read", "dispute_write",
          "dispute_create"} \cup Taking \cup Asking \cup BothSides

(* Steps whose copy has the hash the order has. *)
Copied == {"activate", "fiat_sent", "dispute_write", "release", "release_commit",
           "coop_start", "coop_refund", "coop_write", "settle",
           "settle_commit", "admin_refund", "admin_flags", "admin_write", "paid_write"}

(* The status of the order while a handler is at a step. *)
StatusAt(step, status) ==
    /\ step \in Taking => status = "pending"
    /\ step \in Asking \cup {"activate"} => status = "waiting-buyer-invoice"
    /\ step = "paid_write" => status = "waiting-payment"
    /\ step = "fiat_sent" => status = "active"
    /\ step = "dispute_write" => status \in {"active", "fiat-sent"}
    /\ step \in Solving \cup {"dispute_create", "dispute_take"} =>
          status \in {"dispute"} \cup Ended
    /\ step \in BothSides => status \in Live \cup Ended
    /\ step = "release" => status # "active"
    /\ step = "release_commit" => status \in {"fiat-sent", "dispute"}
    /\ step = "settle_commit" => status = "dispute"

(* The copy of a handler at a step. *)
CopyAt(step, c) ==
    /\ step \in {"create_take", "create_invoice"} => c.hash = None
    /\ step = "activate" => c.hash # None
    /\ step \in {"complete_take", "complete_invoice"} =>
          \/ c.hash = None /\ c.status = "waiting-buyer-invoice"
          \/ /\ c.hash # None /\ c.status = "waiting-payment"
             /\ htlc[c.hash] = "created"
    /\ step \in Solving \cup {"dispute_write"} => c.status = "dispute"
    /\ step = "coop_start" => c.status \in Live

(* Handler a at a step with copy c, the order as it is. *)
StandsAs(a, step, c) ==
    /\ step # "orphan"
    /\ step \in Users => a = Main
    /\ step \in {"paid_write", "paid_held"} => a \in Invoices /\ row.hash = a
    /\ step \in Copied => c.hash = row.hash
    /\ step \in Asking => row.hash = None
    /\ step = "coop_start" => c.status \in {row.status, "dispute"}
    /\ StatusAt(step, row.status)
    /\ CopyAt(step, c)

Stands(a) == StandsAs(a, pc[a], copy[a])

(* The order and its invoice. *)
Escrowed ==
    /\ row.status = "pending" => row.hash = None
    /\ row.status \in Live \cup Ended \cup {"waiting-payment"} => row.hash # None
    /\ row.status \in Ended => htlc[row.hash] \in {"settled", "canceled"}
    /\ solver => dispute # "none"
    /\ dispute # "none" => row.status \in {"dispute"} \cup Ended

(* LND tells of a payment once, to a subscriber that handles it once. *)
PaidOnce(h) ==
    /\ htlc[h] \in {"none", "created"} => row.hash # h
    /\ pc[h] # "idle" => "accepted" \notin notes[h]
    /\ pc[h] # "idle" \/ "accepted" \in notes[h] => htlc[h] \notin {"none", "created", "open"}
    /\ row.hash = h /\ (htlc[h] = "open" \/ "accepted" \in notes[h]) =>
          row.status = "waiting-payment"

LiveInv ==
    /\ \A a \in Actors : Stands(a)
    /\ \A h \in Invoices : PaidOnce(h)
    /\ Escrowed
    /\ SettledIsPaid

(* An idle handler stands. *)
LEMMA IdleStands ==
    ASSUME NEW a
    PROVE  StandsAs(a, "idle", Fresh) /\ StandsAs(a, "idle", Fresh)'
  BY DEF StandsAs, StatusAt, CopyAt, Users, Copied, Taking, Asking, BothSides, Solving

(* A handler that leaves the order's status and hash alone disturbs no other. *)
LEMMA OthersStand ==
    ASSUME TypeOK, LiveInv, NEW a,
           \A b \in Actors \ {a} : pc'[b] = pc[b] /\ copy'[b] = copy[b],
           row'.status = row.status, row'.hash = row.hash,
           \A h \in Invoices : htlc[h] = "created" => htlc'[h] = "created"
    PROVE  \A b \in Actors \ {a} : Stands(b)'
<1> SUFFICES ASSUME NEW b \in Actors \ {a} PROVE StandsAs(b, pc[b], copy[b])'
  BY DEF Stands
<1>1. StandsAs(b, pc[b], copy[b])
  BY DEF LiveInv, Stands
<1>2. copy[b].hash \in Invoices \cup {None}
  BY Zenon, RowType DEF TypeOK
<1>3. CopyAt(pc[b], copy[b])'
  BY Zenon, <1>1, <1>2 DEF StandsAs, CopyAt
<1> QED
  BY Zenon, <1>1, <1>3 DEF StandsAs

(* What was settled and is not paid stays in the hands of who settled it. *)
LEMMA StillPaid ==
    ASSUME TypeOK, SettledIsPaid, payments' = payments,
           \A h \in Invoices : htlc'[h] = "settled" => htlc[h] = "settled",
           \A b \in {Main, Rpc} : pc[b] \in Settling =>
                                     pc'[b] \in Settling /\ copy'[b] = copy[b]
    PROVE  SettledIsPaid'
  BY DEF SettledIsPaid, Settling

(* A handler moves on with r as its copy of the order. *)
LEMMA HoldLive ==
    ASSUME TypeOK, LiveInv, NEW a \in Actors, NEW r, NEW step, Hold(a, r, step),
           UNCHANGED <<row, dispute, solver, lnd, rest>>,
           a \notin Invoices, pc[a] \notin Settling, StandsAs(a, step, r)
    PROVE  LiveInv'
<1>1. UNCHANGED <<row, dispute, solver, htlc, notes, payments>>
  BY Zenon DEF lnd, rest
<1>2. /\ \A b \in Actors \ {a} : pc'[b] = pc[b] /\ copy'[b] = copy[b]
      /\ pc'[a] = step /\ copy'[a] = r
  BY ZenonT(60), HoldOthers
<1>3. \A b \in Actors \ {a} : Stands(b)'
  BY <1>1, <1>2, OthersStand
<1>4. Stands(a)'
  BY ZenonT(60), <1>1, <1>2 DEF Stands, StandsAs, CopyAt
<1>5. \A h \in Invoices : PaidOnce(h)'
  BY Zenon, <1>1, <1>2 DEF LiveInv, PaidOnce, Actors
<1>6. Escrowed'
  BY SMTT(30), <1>1 DEF LiveInv, Escrowed
<1>7. SettledIsPaid'
  <2>1. \A b \in {Main, Rpc} : pc[b] \in Settling =>
                                     pc'[b] \in Settling /\ copy'[b] = copy[b]
    BY <1>2 DEF Actors
  <2> QED
    BY ZenonT(60), <1>1, <2>1, StillPaid DEF LiveInv
<1> QED
  BY <1>3, <1>4, <1>5, <1>6, <1>7 DEF LiveInv

(* A handler starts. *)
LEMMA BeginLive ==
    ASSUME TypeOK, LiveInv, NEW a \in Actors, NEW r, NEW step, Begin(a, r, step),
           a \notin Invoices, StandsAs(a, step, r)
    PROVE  LiveInv'
<1>1. pc[a] \notin Settling
  BY Zenon DEF Begin, Settling
<1> QED
  BY <1>1, HoldLive DEF Begin

(* A handler moves on, and may write the dispute's row. *)
LEMMA GotoLive ==
    ASSUME TypeOK, LiveInv, NEW a \in Actors, NEW step, Goto(a, step),
           UNCHANGED <<row, htlc, notes, payments>>,
           a \in Invoices => step = "idle",
           step = "idle" \/ StandsAs(a, step, copy[a]),
           pc[a] \in Settling => step \in Settling,
           solver' => dispute' # "none",
           dispute' # "none" => row.status \in {"dispute"} \cup Ended
    PROVE  LiveInv'
<1>2. /\ \A b \in Actors \ {a} : pc'[b] = pc[b] /\ copy'[b] = copy[b]
      /\ pc'[a] = step
      /\ step # "idle" => copy'[a] = copy[a]
      /\ step = "idle" => copy'[a] = Fresh
  BY Zenon, GotoOthers
<1>3. \A b \in Actors \ {a} : Stands(b)'
  BY Zenon, <1>2, OthersStand
<1>4. Stands(a)'
  <2>1. CASE step = "idle"
    BY Zenon, <1>2, <2>1, IdleStands DEF Stands
  <2>2. CASE step # "idle"
    BY Zenon, <1>2, <2>2 DEF Stands, StandsAs, CopyAt
  <2> QED
    BY <2>1, <2>2
<1>5. \A h \in Invoices : PaidOnce(h)'
  BY Zenon, <1>2 DEF LiveInv, PaidOnce, Actors
<1>6. Escrowed'
  BY Zenon DEF LiveInv, Escrowed
<1>7. SettledIsPaid'
  <2>1. \A b \in {Main, Rpc} : pc[b] \in Settling =>
                                     pc'[b] \in Settling /\ copy'[b] = copy[b]
    BY <1>2 DEF Settling, Actors
  <2> QED
    BY ZenonT(60), <2>1, StillPaid DEF LiveInv
<1> QED
  BY Zenon, <1>3, <1>4, <1>5, <1>6, <1>7 DEF LiveInv

(***************************************************************************)
(* A write of the order.  The other handlers stand by the new status, and  *)
(* it fits the escrow.                                                     *)
(***************************************************************************)
Fits(a, r) ==
    /\ r.hash = row.hash
    /\ \A b \in Actors \ {a} :
          /\ StatusAt(pc[b], r.status)
          /\ pc[b] = "coop_start" => copy[b].status \in {r.status, "dispute"}
    /\ r.status = "pending" => row.hash = None
    /\ r.status \in Live \cup Ended \cup {"waiting-payment"} => row.hash # None
    /\ r.status \in Ended => htlc[row.hash] \in {"settled", "canceled"}
    /\ dispute # "none" => r.status \in {"dispute"} \cup Ended
    /\ \A h \in Invoices :
          row.hash = h /\ (htlc[h] = "open" \/ "accepted" \in notes[h]) =>
             r.status = "waiting-payment"

(* A write of the order that fits. *)
LEMMA StoreLive ==
    ASSUME TypeOK, LiveInv, NEW a \in Actors, NEW from, NEW r, NEW to,
           Store(a, from, r, to), Fits(a, r),
           from \in Settling => to \in Settling,
           \/ to = "idle"
           \/ /\ to \in {"release_close", "coop_close"} /\ a = Main
              /\ r.status \in Live \cup Ended
           \/ to = "dispute_create" /\ a = Main /\ r.status = "dispute"
           \/ /\ to = "settle_close" /\ a \notin Invoices /\ copy[a].status = "dispute"
              /\ r.status \in {"dispute"} \cup Ended
           \/ to = "paid_held" /\ a \in Invoices /\ row.hash = a /\ pc[a] # "idle"
    PROVE  LiveInv'
<1>1. UNCHANGED <<dispute, solver, htlc, notes, payments>> /\ row' = r /\ pc[a] = from
  BY ZenonT(60) DEF Store, lnd, rest
<1>2. /\ \A b \in Actors \ {a} : pc'[b] = pc[b] /\ copy'[b] = copy[b]
      /\ pc'[a] = to
      /\ to # "idle" => copy'[a] = copy[a]
      /\ to = "idle" => copy'[a] = Fresh
  BY GotoOthers DEF Store
<1>3. \A b \in Actors \ {a} : Stands(b)'
  <2> SUFFICES ASSUME NEW b \in Actors \ {a} PROVE StandsAs(b, pc[b], copy[b])'
    BY Zenon, <1>2 DEF Stands
  <2>1. StandsAs(b, pc[b], copy[b])
    BY Zenon DEF LiveInv, Stands
  <2> QED
    BY <1>1, <1>2, <2>1 DEF StandsAs, CopyAt, Fits
<1>4. Stands(a)'
  <2>1. CASE to = "idle"
    BY Zenon, <1>2, <2>1, IdleStands DEF Stands
  <2>2. CASE to # "idle"
    <3>1. StandsAs(a, to, copy[a])'
      BY Zenon, <1>1, <1>2, <2>2 DEF StandsAs, StatusAt, CopyAt, Users, Copied, Taking, Asking,
                        BothSides, Solving, Fits
    <3> QED
      BY <1>2, <2>2, <3>1 DEF Stands
  <2> QED
    BY Zenon, <2>1, <2>2
<1>5. \A h \in Invoices : PaidOnce(h)'
  BY <1>1, <1>2, TradeAssumption DEF LiveInv, PaidOnce, Actors, Fits
<1>6. Escrowed'
  BY Zenon, <1>1 DEF LiveInv, Escrowed, Fits
<1>7. SettledIsPaid'
  <2>1. \A b \in {Main, Rpc} : pc[b] \in Settling =>
                                     pc'[b] \in Settling /\ copy'[b] = copy[b]
    BY Zenon, <1>1, <1>2 DEF Settling, Actors
  <2> QED
    BY Zenon, <1>1, <2>1, StillPaid DEF LiveInv
<1> QED
  BY Zenon, <1>3, <1>4, <1>5, <1>6, <1>7 DEF LiveInv

(* Of the handlers but the main loop's a write may disturb these. *)
LEMMA OtherStatus ==
    ASSUME NEW step, step \notin Users, NEW s,
           step = "paid_write" => s = "waiting-payment",
           step \in Solving \cup {"dispute_take"} => s \in {"dispute"} \cup Ended,
           step = "settle_commit" => s = "dispute"
    PROVE  StatusAt(step, s)
  BY DEF StatusAt, Users, Taking, Asking, BothSides, Solving

(* A write of the status and the hash the order has fits. *)
LEMMA SameFits ==
    ASSUME LiveInv, NEW a, NEW r, r.hash = row.hash, r.status = row.status
    PROVE  Fits(a, r)
  BY Zenon DEF LiveInv, Stands, StandsAs, Escrowed, PaidOnce, Fits

(* The main loop takes a trade nobody disputes further. *)
LEMMA EarlyFits ==
    ASSUME LiveInv, NEW r, r.hash = row.hash, row.hash # None, r.status \in Live,
           row.status \in {"waiting-buyer-invoice", "active", "fiat-sent"}
    PROVE  Fits(Main, r)
<1>1. dispute = "none"
  BY DEF LiveInv, Escrowed, Ended, Canceled
<1>2. \A h \in Invoices : row.hash = h => htlc[h] # "open" /\ "accepted" \notin notes[h]
  BY DEF LiveInv, PaidOnce
<1>3. ASSUME NEW b \in Actors \ {Main}
      PROVE  /\ StatusAt(pc[b], r.status)
             /\ pc[b] # "coop_start"
  <2>1. StandsAs(b, pc[b], copy[b])
    BY ZenonT(60) DEF LiveInv, Stands
  <2>2. pc[b] \notin Users \cup Solving \cup {"dispute_take", "paid_write"}
    BY <2>1 DEF StandsAs, StatusAt, Ended, Canceled
  <2> QED
    BY <2>2, OtherStatus DEF Users, BothSides, Solving
<1> QED
  BY <1>1, <1>2, <1>3 DEF Fits, Live, Ended, Canceled

(* The first side to ask for a cooperative cancel writes a stale copy: of   *)
(* the order as it is, or of the dispute it was in.                         *)
LEMMA CoopStartLive ==
    ASSUME TypeOK, LiveInv, cancel_cooperative_execution_step_1
    PROVE  LiveInv'
<1>m. Main \in Actors /\ Main \notin Invoices
  BY TradeAssumption DEF Actors
<1>n. "coop_start" \notin Settling
  BY DEF Settling
<1>1. Store(Main, "coop_start", copy[Main], "idle") /\ pc[Main] = "coop_start"
  BY Zenon DEF cancel_cooperative_execution_step_1, Store
<1>2. StandsAs(Main, "coop_start", copy[Main])
  BY Zenon, <1>1, <1>m DEF LiveInv, Stands
<1>3. /\ copy[Main].hash = row.hash /\ copy[Main].status \in {row.status, "dispute"}
      /\ row.status \in Live \cup Ended
  BY <1>2 DEF StandsAs, StatusAt, Copied, BothSides
<1>4. CASE copy[Main].status = row.status
  <2>1. Fits(Main, copy[Main])
    BY <1>3, <1>4, SameFits
  <2> QED
    BY ZenonT(60), <1>1, <1>m, <1>n, <2>1, StoreLive
<1>5. CASE copy[Main].status = "dispute"
  <2>1. \A h \in Invoices : row.hash = h => htlc[h] # "open" /\ "accepted" \notin notes[h]
    BY <1>3 DEF LiveInv, PaidOnce, Live, Ended, Canceled
  <2>2. ASSUME NEW b \in Actors \ {Main}
        PROVE  /\ StatusAt(pc[b], "dispute")
               /\ pc[b] # "coop_start"
    <3>1. StandsAs(b, pc[b], copy[b])
      BY Zenon DEF LiveInv, Stands
    <3>2. pc[b] \notin Users \cup {"paid_write"}
      BY Zenon, <1>3, <3>1 DEF StandsAs, StatusAt, Live, Ended, Canceled
    <3> QED
      BY <3>2, OtherStatus DEF Users, BothSides
  <2>3. Fits(Main, copy[Main])
    BY Zenon, <1>3, <1>5, <2>1, <2>2 DEF Fits, Live, Ended, Canceled, LiveInv, Escrowed
  <2> QED
    BY Zenon, <1>1, <1>m, <1>n, <2>3, StoreLive
<1> QED
  BY <1>3, <1>4, <1>5

(* A handler ends a trade whose invoice is settled or canceled. *)
LEMMA EndFits ==
    ASSUME LiveInv, NEW a, NEW r, r.hash = row.hash, r.status \in Ended,
           row.status \in Live \cup Ended,
           a = Main \/ row.status \in {"dispute"} \cup Ended,
           htlc[row.hash] \in {"settled", "canceled"},
           \A b \in Actors \ {a} : pc[b] \notin {"release_commit", "settle_commit"}
    PROVE  Fits(a, r)
<1>1. row.hash # None
  BY Zenon DEF LiveInv, Escrowed
<1>2. \A h \in Invoices : row.hash = h => htlc[h] # "open" /\ "accepted" \notin notes[h]
  BY Zenon DEF LiveInv, PaidOnce, Live, Ended, Canceled
<1>3. ASSUME NEW b \in Actors \ {a}
      PROVE  /\ StatusAt(pc[b], r.status)
             /\ pc[b] = "coop_start" => copy[b].status \in {r.status, "dispute"}
  <2>1. StandsAs(b, pc[b], copy[b])
    BY Zenon DEF LiveInv, Stands
  <2>2. pc[b] # "paid_write"
    BY Zenon, <2>1 DEF StandsAs, StatusAt, Live, Ended, Canceled
  <2>3. CASE b # Main
    <3>1. pc[b] \notin Users \cup {"settle_commit"}
      BY <2>1, <2>3 DEF StandsAs
    <3> QED
      BY ZenonT(60), <2>2, <3>1, OtherStatus DEF Users, BothSides
  <2>4. CASE b = Main
    <3>1. row.status \in {"dispute"} \cup Ended
      BY <2>4
    <3>2. pc[b] \notin Taking \cup Asking \cup {"activate", "fiat_sent", "dispute_write"}
      BY Zenon, <2>1, <3>1 DEF StandsAs, StatusAt, Ended, Canceled
    <3>3. StatusAt(pc[b], r.status)
      BY Zenon, <2>2, <3>2 DEF StatusAt, Ended, Canceled
    <3>4. pc[b] = "coop_start" => copy[b].status = "dispute"
      BY Zenon, <2>1, <3>1 DEF StandsAs, CopyAt, Live, Ended, Canceled
    <3> QED
      BY <3>3, <3>4
  <2> QED
    BY <2>3, <2>4
<1> QED
  BY Zenon, <1>1, <1>2, <1>3 DEF Fits, Ended, Canceled

(* A subscriber records that the seller has paid. *)
LEMMA PaidFits ==
    ASSUME LiveInv, NEW a \in Actors, NEW r, r.hash = row.hash, pc[a] = "paid_write",
           r.status \in {"active", "waiting-buyer-invoice"}, a \in Invoices
    PROVE  Fits(a, r)
<1>1. row.status = "waiting-payment" /\ row.hash = a
  BY DEF LiveInv, Stands, StandsAs, StatusAt
<1>2. dispute = "none"
  BY <1>1 DEF LiveInv, Escrowed, Ended, Canceled
<1>3. htlc[a] # "open" /\ "accepted" \notin notes[a]
  BY DEF LiveInv, PaidOnce
<1>4. ASSUME NEW b \in Actors \ {a}
      PROVE  /\ StatusAt(pc[b], r.status)
             /\ pc[b] # "coop_start"
  <2>1. StandsAs(b, pc[b], copy[b])
    BY ZenonT(60) DEF LiveInv, Stands
  <2>2. pc[b] \notin {"paid_write", "activate", "fiat_sent", "dispute_write",
                      "dispute_create", "dispute_take"}
                      \cup Taking \cup Asking \cup BothSides \cup Solving
    BY <1>1, <2>1 DEF StandsAs, StatusAt, Live, Ended, Canceled
  <2> QED
    BY <2>2 DEF StatusAt, BothSides, Solving
<1> QED
  BY ZenonT(60), <1>1, <1>2, <1>3, <1>4, TradeAssumption DEF Fits, Ended, Canceled, Live

(***************************************************************************)
(* The calls to LND.  What another handler moves at LND is the order's     *)
(* invoice, which no take is creating.                                     *)
(***************************************************************************)
LEMMA MoveOnceKept ==
    ASSUME TypeOK, LiveInv, NEW h \in Invoices, NEW s \in {"settled", "canceled"},
           Move(h, s), htlc[h] \notin {"none", "created"}, row' = row,
           \A i \in Invoices : pc'[i] = pc[i]
    PROVE  /\ \A i \in Invoices : PaidOnce(i)'
           /\ \A i \in Invoices : htlc[i] = "created" => htlc'[i] = "created"
<1>1. htlc' = [htlc EXCEPT ![h] = s]
  BY DEF Move
<1>2. \A i \in Invoices : "accepted" \in notes'[i] => "accepted" \in notes[i]
  BY ZenonT(60) DEF Move, TypeOK
<1>3. ASSUME NEW i \in Invoices
      PROVE  PaidOnce(i)'
  <2>1. PaidOnce(i)
    BY Zenon DEF LiveInv
  <2>2. htlc'[i] = htlc[i] \/ (i = h /\ htlc'[i] \in {"settled", "canceled"})
    BY <1>1 DEF TypeOK
  <2> QED
    BY <1>2, <2>1, <2>2 DEF PaidOnce
<1>4. \A i \in Invoices : htlc[i] = "created" => htlc'[i] = "created"
  BY <1>1 DEF TypeOK
<1> QED
  BY <1>3, <1>4

(* cancel_hold_invoice, for both sides or for a solver. *)
LEMMA RefundLive ==
    ASSUME TypeOK, LiveInv, NEW a \in Actors, a \notin Invoices,
           NEW from \in {"coop_refund", "admin_refund"}, NEW to,
           from = "coop_refund" => to = "coop_write",
           from = "admin_refund" => to = "admin_flags",
           Refund(a, from, to)
    PROVE  LiveInv'
<1> DEFINE h == copy[a].hash
<1>1. /\ UNCHANGED <<row, dispute, solver, payments>> /\ pc[a] = from
      /\ from \notin Settling /\ to # "idle"
  BY DEF Refund, rest, Settling
<1>2. StandsAs(a, from, copy[a])
  BY <1>1 DEF LiveInv, Stands
<1>3. h = row.hash /\ row.status \in Live \cup Ended /\ h # None /\ h \in Invoices
  <2>1. h = row.hash /\ row.status \in Live \cup Ended
    BY ZenonT(60), <1>2 DEF StandsAs, StatusAt, Copied, BothSides, Solving, Live
  <2>2. row.hash # None
    BY <2>1 DEF LiveInv, Escrowed
  <2>3. h \in Invoices \cup {None}
    BY Zenon, RowType DEF TypeOK
  <2> QED
    BY Zenon, <2>1, <2>2, <2>3
<1>4. htlc[h] \notin {"none", "created"}
  BY <1>3 DEF LiveInv, PaidOnce
<1>5. CASE htlc[h] = "settled"
  <2>1. Goto(a, "idle") /\ UNCHANGED lnd
    BY Zenon, <1>3, <1>5 DEF Refund
  <2> QED
    BY Zenon, <1>1, <2>1, GotoLive DEF lnd, LiveInv, Escrowed
<1>6. CASE htlc[h] # "settled"
  <2>1. Goto(a, to) /\ Move(h, "canceled")
    BY ZenonT(60), <1>3, <1>6 DEF Refund
  <2>2. /\ \A b \in Actors \ {a} : pc'[b] = pc[b] /\ copy'[b] = copy[b]
        /\ pc'[a] = to /\ copy'[a] = copy[a]
    BY <1>1, <2>1, GotoOthers
  <2>3. \A i \in Invoices : pc'[i] = pc[i]
    BY Zenon, <2>2 DEF Actors
  <2>4. /\ \A i \in Invoices : PaidOnce(i)'
        /\ \A i \in Invoices : htlc[i] = "created" => htlc'[i] = "created"
    BY ZenonT(60), <1>1, <1>3, <1>4, <2>1, <2>3, MoveOnceKept
  <2>5. \A b \in Actors \ {a} : Stands(b)'
    BY <1>1, <2>2, <2>4, OthersStand
  <2>6. Stands(a)'
    <3>1. StandsAs(a, to, copy[a])'
      BY Zenon, <1>1, <1>2, <2>2 DEF StandsAs, StatusAt, CopyAt, Users, Copied, Taking, Asking,
                              BothSides, Solving
    <3> QED
      BY <2>2, <3>1 DEF Stands
  <2>7. htlc' = [htlc EXCEPT ![h] = "canceled"]
    BY ZenonT(60), <2>1 DEF Move
  <2>8. Escrowed'
    BY <1>1, <1>3, <2>7 DEF LiveInv, Escrowed, TypeOK
  <2>9. SettledIsPaid'
    <3>1. \A i \in Invoices : htlc'[i] = "settled" => htlc[i] = "settled"
      BY <2>7 DEF TypeOK
    <3>2. \A b \in {Main, Rpc} : pc[b] \in Settling =>
                                       pc'[b] \in Settling /\ copy'[b] = copy[b]
      BY Zenon, <1>1, <2>2 DEF Actors
    <3> QED
      BY ZenonT(60), <1>1, <3>1, <3>2, StillPaid DEF LiveInv
  <2> QED
    BY Zenon, <2>4, <2>5, <2>6, <2>8, <2>9 DEF LiveInv
<1> QED
  BY <1>5, <1>6

(* settle_seller_hold_invoice: a handler that settles finds the order in    *)
(* the status its compare-and-swap asks for.                                *)
LEMMA SettleLive ==
    ASSUME TypeOK, LiveInv, NEW a \in {Main, Rpc},
           NEW from \in {"release", "settle"}, NEW to,
           from = "release" => to = "release_commit",
           from = "settle" => to = "settle_commit",
           Settle(a, from, to)
    PROVE  LiveInv'
<1> DEFINE h == copy[a].hash
<1>m. a \in Actors /\ a \notin Invoices
  BY TradeAssumption DEF Actors
<1>1. /\ UNCHANGED <<row, dispute, solver, payments>> /\ pc[a] = from
      /\ from \notin Settling /\ to # "idle" /\ to \in Settling
  BY ZenonT(60) DEF Settle, rest, Settling
<1>2. StandsAs(a, from, copy[a])
  BY Zenon, <1>1, <1>m DEF LiveInv, Stands
<1>3. h = row.hash /\ row.status \in Live \cup Ended /\ h # None /\ h \in Invoices
  <2>1. h = row.hash /\ row.status \in Live \cup Ended
    BY Zenon, <1>2 DEF StandsAs, StatusAt, Copied, BothSides, Solving, Live
  <2>2. row.hash # None
    BY <2>1 DEF LiveInv, Escrowed
  <2>3. h \in Invoices \cup {None}
    BY Zenon, <1>m, RowType DEF TypeOK
  <2> QED
    BY Zenon, <2>1, <2>2, <2>3
<1>5. CASE Goto(a, "idle") /\ UNCHANGED lnd
  BY Zenon, <1>1, <1>5, <1>m, GotoLive DEF lnd, LiveInv, Escrowed
<1>6. CASE htlc[h] = "accepted" /\ Goto(a, to) /\ Move(h, "settled")
  <2>2. /\ \A b \in Actors \ {a} : pc'[b] = pc[b] /\ copy'[b] = copy[b]
        /\ pc'[a] = to /\ copy'[a] = copy[a]
    BY Zenon, <1>1, <1>6, <1>m, GotoOthers
  <2>3. \A i \in Invoices : pc'[i] = pc[i]
    BY ZenonT(60), <1>m, <2>2 DEF Actors
  <2>4. /\ \A i \in Invoices : PaidOnce(i)'
        /\ \A i \in Invoices : htlc[i] = "created" => htlc'[i] = "created"
    BY <1>1, <1>3, <1>6, <2>3, MoveOnceKept
  <2>5. \A b \in Actors \ {a} : Stands(b)'
    BY Zenon, <1>1, <2>2, <2>4, OthersStand
  <2>6. row.status \notin Ended
    BY ZenonT(60), <1>3, <1>6 DEF LiveInv, Escrowed
  <2>7. Stands(a)'
    <3>1. StandsAs(a, to, copy[a])'
      BY Zenon, <1>1, <1>2, <2>2, <2>6
      DEF StandsAs, StatusAt, CopyAt, Users, Copied, Taking, Asking, BothSides, Solving, Live
    <3> QED
      BY <2>2, <3>1 DEF Stands
  <2>8. htlc' = [htlc EXCEPT ![h] = "settled"]
    BY <1>6 DEF Move
  <2>9. Escrowed'
    BY Zenon, <1>1, <2>6 DEF LiveInv, Escrowed
  <2>10. SettledIsPaid'
    <3> SUFFICES ASSUME NEW i \in Invoices, htlc'[i] = "settled"
                 PROVE  \/ payments'[i] = 1
                        \/ \E b \in {Main, Rpc} : copy'[b].hash = i /\ pc'[b] \in Settling
      BY Zenon DEF SettledIsPaid, Settling
    <3>1. CASE i = h
      BY Zenon, <1>1, <2>2, <3>1
    <3>2. CASE i # h
      <4>1. htlc[i] = "settled"
        BY Zenon, <2>8, <3>2 DEF TypeOK
      <4>2. \/ payments[i] = 1
            \/ \E b \in {Main, Rpc} : copy[b].hash = i /\ pc[b] \in Settling
        BY Zenon, <4>1 DEF LiveInv, SettledIsPaid, Settling
      <4>3. ASSUME NEW b \in {Main, Rpc}, pc[b] \in Settling
            PROVE  copy'[b] = copy[b] /\ pc'[b] \in Settling
        BY <1>1, <2>2, <4>3 DEF Actors
      <4> QED
        BY Zenon, <1>1, <4>2, <4>3
    <3> QED
      BY Zenon, <3>1, <3>2
  <2> QED
    BY Zenon, <2>4, <2>5, <2>7, <2>9, <2>10 DEF LiveInv
<1> QED
  BY Zenon, <1>5, <1>6 DEF Settle

(* The take creates an invoice, and stores it with the order. *)
LEMMA CreateLive ==
    ASSUME TypeOK, LiveInv, NEW from \in {"create_take", "create_invoice"}, NEW to,
           from = "create_take" => to = "complete_take",
           from = "create_invoice" => to = "complete_invoice",
           create_hold_invoice(from, to)
    PROVE  LiveInv'
<1>m. Main \in Actors /\ Main \notin Invoices
  BY TradeAssumption DEF Actors
<1>1. PICK h \in Invoices :
         /\ htlc[h] = "none" /\ htlc' = [htlc EXCEPT ![h] = "created"]
         /\ Hold(Main, [copy[Main] EXCEPT !.hash = h,
                                          !.status = "waiting-payment"], to)
  BY Zenon DEF create_hold_invoice
<1> DEFINE r == [copy[Main] EXCEPT !.hash = h, !.status = "waiting-payment"]
<1>2. UNCHANGED <<row, dispute, solver, notes, payments>> /\ pc[Main] = from
  BY DEF create_hold_invoice, rest
<1>3. /\ \A b \in Actors \ {Main} : pc'[b] = pc[b] /\ copy'[b] = copy[b]
      /\ pc'[Main] = to /\ copy'[Main] = r
  BY <1>1, <1>m, HoldOthers
<1>4. r.hash = h /\ r.status = "waiting-payment" /\ h # None
  BY <1>m, TradeAssumption DEF TypeOK, Rows
<1>5. StandsAs(Main, from, copy[Main])
  BY <1>2, <1>m DEF LiveInv, Stands
<1>6. \A b \in Actors \ {Main} : Stands(b)'
  BY Zenon, <1>1, <1>2, <1>3, OthersStand DEF TypeOK
<1>7. Stands(Main)'
  <2>1. htlc'[h] = "created"
    BY <1>1 DEF TypeOK
  <2>2. StandsAs(Main, to, r)'
    BY <1>2, <1>3, <1>4, <1>5, <2>1
    DEF StandsAs, StatusAt, CopyAt, Users, Copied, Taking, Asking, BothSides, Solving
  <2> QED
    BY Zenon, <1>3, <2>2 DEF Stands
<1>8. \A i \in Invoices : PaidOnce(i)'
  BY <1>1, <1>2, <1>3, <1>m DEF LiveInv, PaidOnce, Actors, TypeOK
<1>9. Escrowed'
  <2>1. row.status \notin Ended
    BY Zenon, <1>5 DEF StandsAs, StatusAt, Taking, Asking, Ended, Canceled
  <2> QED
    BY Zenon, <1>2, <2>1 DEF LiveInv, Escrowed
<1>10. SettledIsPaid'
  <2>1. \A i \in Invoices : htlc'[i] = "settled" => htlc[i] = "settled"
    BY <1>1 DEF TypeOK
  <2>2. \A b \in {Main, Rpc} : pc[b] \in Settling =>
                                     pc'[b] \in Settling /\ copy'[b] = copy[b]
    BY <1>2, <1>3 DEF Actors, Settling
  <2> QED
    BY <1>2, <2>1, <2>2, StillPaid DEF LiveInv
<1> QED
  BY <1>6, <1>7, <1>8, <1>9, <1>10 DEF LiveInv

(* The compare-and-swap of a take is not lost: nobody else writes an order  *)
(* that waits for a taker or for the buyer's invoice.                       *)
LEMMA CompleteLive ==
    ASSUME TypeOK, LiveInv, NEW from, NEW statuses,
           \/ from = "complete_take" /\ statuses = {"pending"}
           \/ from = "complete_invoice" /\ statuses = {"pending", "waiting-buyer-invoice"},
           cas_complete_pretrade_take(from, statuses)
    PROVE  LiveInv'
<1> DEFINE r == copy[Main]
           created == r.hash # None /\ htlc[r.hash] = "created"
           new == [row EXCEPT !.status = r.status, !.hash = r.hash,
                              !.buyer_invoice = r.buyer_invoice, !.taker = TRUE]
<1>m. Main \in Actors /\ Main \notin Invoices
  BY TradeAssumption DEF Actors
<1>1. UNCHANGED <<dispute, solver, notes, payments>> /\ pc[Main] = from
  BY Zenon DEF cas_complete_pretrade_take, rest
<1>2. StandsAs(Main, from, r)
  BY ZenonT(60), <1>1, <1>m DEF LiveInv, Stands
<1>3. /\ row.status \in statuses /\ row.status \in {"pending", "waiting-buyer-invoice"}
      /\ row.hash = None
      /\ \/ r.hash = None /\ r.status = "waiting-buyer-invoice"
         \/ r.hash # None /\ r.status = "waiting-payment" /\ htlc[r.hash] = "created"
  BY <1>2 DEF StandsAs, StatusAt, CopyAt, Taking, Asking, LiveInv, Escrowed
<1>4. /\ row' = new /\ Goto(Main, "idle")
      /\ IF created THEN htlc' = [htlc EXCEPT ![r.hash] = "open"] ELSE htlc' = htlc
  BY <1>3 DEF cas_complete_pretrade_take
<1>5. /\ \A b \in Actors \ {Main} : pc'[b] = pc[b] /\ copy'[b] = copy[b]
      /\ pc'[Main] = "idle" /\ copy'[Main] = Fresh
  BY <1>4, <1>m, GotoOthers
<1>6. row'.status = r.status /\ row'.hash = r.hash
  BY <1>4 DEF TypeOK, Rows
<1>7. r.hash \in Invoices \cup {None}
  BY Zenon, <1>m, RowType DEF TypeOK
<1>8. \A b \in Actors \ {Main} : Stands(b)'
  <2> SUFFICES ASSUME NEW b \in Actors \ {Main} PROVE StandsAs(b, pc[b], copy[b])'
    BY ZenonT(60), <1>5 DEF Stands
  <2>1. StandsAs(b, pc[b], copy[b])
    BY DEF LiveInv, Stands
  <2>2. pc[b] \notin Users \cup Solving \cup {"dispute_take", "paid_write", "orphan"}
    BY Zenon, <1>3, <2>1 DEF StandsAs, StatusAt, Ended, Canceled
  <2>3. pc[b] # "paid_held"
    BY ZenonT(60), <1>3, <2>1, TradeAssumption DEF StandsAs, LiveInv, PaidOnce, Actors
  <2> QED
    BY Zenon, <1>5, <2>2, <2>3
    DEF StandsAs, StatusAt, CopyAt, Users, Copied, Taking, Asking, BothSides, Solving
<1>9. Stands(Main)'
  BY <1>5, IdleStands DEF Stands
<1>10. \A i \in Invoices : PaidOnce(i)'
  <2> SUFFICES ASSUME NEW i \in Invoices PROVE PaidOnce(i)'
    OBVIOUS
  <2>1. PaidOnce(i) /\ pc'[i] = pc[i] /\ notes'[i] = notes[i] /\ i # None
    BY Zenon, <1>1, <1>5, <1>m, TradeAssumption DEF LiveInv, Actors
  <2>2. CASE r.hash = i
    <3>1. htlc[i] = "created" /\ htlc'[i] = "open" /\ r.status = "waiting-payment"
      BY ZenonT(60), <1>3, <1>4, <2>1, <2>2 DEF TypeOK
    <3> QED
      BY Zenon, <1>6, <2>1, <2>2, <3>1 DEF PaidOnce
  <2>3. CASE r.hash # i
    <3>1. htlc'[i] = htlc[i]
      BY Zenon, <1>4, <2>3 DEF TypeOK
    <3> QED
      BY <1>6, <2>1, <2>3, <3>1 DEF PaidOnce
  <2> QED
    BY <2>2, <2>3
<1>11. Escrowed'
  BY ZenonT(60), <1>1, <1>3, <1>6 DEF LiveInv, Escrowed, Ended, Canceled, Live
<1>12. SettledIsPaid'
  <2>1. \A i \in Invoices : htlc'[i] = "settled" => htlc[i] = "settled"
    BY <1>4, <1>7 DEF TypeOK
  <2>2. \A b \in {Main, Rpc} : pc[b] \in Settling =>
                                     pc'[b] \in Settling /\ copy'[b] = copy[b]
    BY <1>1, <1>5 DEF Actors, Settling
  <2> QED
    BY <1>1, <2>1, <2>2, StillPaid DEF LiveInv
<1> QED
  BY <1>8, <1>9, <1>10, <1>11, <1>12 DEF LiveInv

(* do_payment counts for the invoice in its hands. *)
LEMMA PaymentLive ==
    ASSUME TypeOK, PayInv, LiveInv, NEW a \in {Main, Rpc}, do_payment(a)
    PROVE  LiveInv'
<1> DEFINE h == copy[a].hash
<1>m. a \in Actors /\ a \notin Invoices
  BY TradeAssumption DEF Actors
<1>1. UNCHANGED <<row, dispute, solver, htlc, notes>> /\ pc[a] = "pay" /\ "pay" \in Settling
  BY Zenon DEF do_payment, lnd, Settling
<1>2. h \in Invoices /\ payments[h] = 0
  BY ZenonT(60), <1>1, <1>m DEF PayInv
<1>3. /\ \A b \in Actors \ {a} : pc'[b] = pc[b] /\ copy'[b] = copy[b]
      /\ pc'[a] = "idle" /\ copy'[a] = Fresh
  BY <1>m, GotoOthers DEF do_payment
<1>4. payments' = [payments EXCEPT ![h] = @ + 1]
  BY Zenon DEF do_payment
<1>5. payments'[h] = 1 /\ \A i \in Invoices \ {h} : payments'[i] = payments[i]
  BY <1>2, <1>4 DEF TypeOK
<1>6. \A b \in Actors : Stands(b)'
  <2>1. \A b \in Actors \ {a} : Stands(b)'
    BY Zenon, <1>1, <1>3, OthersStand
  <2>2. Stands(a)'
    BY Zenon, <1>3, IdleStands DEF Stands
  <2> QED
    BY <2>1, <2>2
<1>7. \A i \in Invoices : PaidOnce(i)'
  BY Zenon, <1>1, <1>3, <1>m DEF LiveInv, PaidOnce, Actors
<1>8. Escrowed'
  BY Zenon, <1>1 DEF LiveInv, Escrowed
<1>9. SettledIsPaid'
  <2> SUFFICES ASSUME NEW i \in Invoices, htlc'[i] = "settled", i # h
               PROVE  \/ payments'[i] = 1
                      \/ \E b \in {Main, Rpc} : copy'[b].hash = i /\ pc'[b] \in Settling
    BY Zenon, <1>5 DEF SettledIsPaid, Settling
  <2>1. \/ payments[i] = 1
        \/ \E b \in {Main, Rpc} : copy[b].hash = i /\ pc[b] \in Settling
    BY Zenon, <1>1 DEF LiveInv, SettledIsPaid, Settling
  <2>2. ASSUME NEW b \in {Main, Rpc}, copy[b].hash = i
        PROVE  copy'[b] = copy[b] /\ pc'[b] = pc[b]
    BY ZenonT(60), <1>3, <2>2 DEF Actors
  <2> QED
    BY Zenon, <1>5, <2>1, <2>2
<1> QED
  BY <1>6, <1>7, <1>8, <1>9 DEF LiveInv

(* The subscriber reads the order once for the payment it was told of. *)
LEMMA HandleLive ==
    ASSUME TypeOK, LiveInv, NEW h \in Invoices, NEW s, NEW guard, NEW to,
           \/ s = "accepted" /\ to = "paid_write"
           \/ s = "canceled" /\ ~guard,
           Handle(h, s, guard, to)
    PROVE  LiveInv'
<1>m. h \in Actors /\ h # Main /\ h # Rpc
  BY ZenonT(60), TradeAssumption DEF Actors
<1>1. /\ UNCHANGED <<row, dispute, solver, htlc, payments>> /\ pc[h] = "idle"
      /\ s \in notes[h] /\ notes' = [notes EXCEPT ![h] = @ \ {s}]
  BY DEF Handle, rest
<1>2. PaidOnce(h)
  BY DEF LiveInv
<1>3. \A i \in Invoices : "accepted" \in notes'[i] => "accepted" \in notes[i]
  BY ZenonT(60), <1>1 DEF TypeOK
<1>4. Escrowed'
  BY Zenon, <1>1 DEF LiveInv, Escrowed
<1>5. CASE UNCHANGED <<copy, pc>>
  <2>1. \A b \in Actors : Stands(b)'
    <3>1. \A b \in Actors \ {h} : Stands(b)'
      BY Zenon, <1>1, <1>5, OthersStand
    <3>2. Stands(h)'
      BY Zenon, <1>1, <1>5, <1>m DEF LiveInv, Stands, StandsAs, CopyAt
    <3> QED
      BY Zenon, <3>1, <3>2
  <2>2. \A i \in Invoices : PaidOnce(i)'
    BY ZenonT(60), <1>1, <1>3, <1>5 DEF LiveInv, PaidOnce
  <2>3. SettledIsPaid'
    BY Zenon, <1>1, <1>5, StillPaid DEF LiveInv
  <2> QED
    BY <1>4, <2>1, <2>2, <2>3 DEF LiveInv
<1>6. CASE row.hash = h /\ s = "accepted" /\ to = "paid_write" /\ Hold(h, row, to)
  <2>1. row.status = "waiting-payment" /\ htlc[h] \notin {"none", "created", "open"}
    BY ZenonT(60), <1>1, <1>2, <1>6 DEF PaidOnce
  <2>2. /\ \A b \in Actors \ {h} : pc'[b] = pc[b] /\ copy'[b] = copy[b]
        /\ pc'[h] = "paid_write" /\ copy'[h] = row
    BY SMTT(30), <1>6, <1>m, HoldOthers
  <2>3. \A b \in Actors \ {h} : Stands(b)'
    BY ZenonT(60), <1>1, <2>2, OthersStand
  <2>4. Stands(h)'
    <3>1. StandsAs(h, "paid_write", row)'
      BY ZenonT(60), <1>1, <1>6, <2>1
      DEF StandsAs, StatusAt, CopyAt, Users, Copied, Taking, Asking, BothSides, Solving
    <3> QED
      BY <1>1, <2>2, <3>1 DEF Stands
  <2>5. "accepted" \notin notes'[h]
    BY <1>1, <1>6 DEF TypeOK
  <2>6. \A i \in Invoices : PaidOnce(i)'
    <3> SUFFICES ASSUME NEW i \in Invoices PROVE PaidOnce(i)'
      BY ZenonT(60)
    <3>1. CASE i = h
      BY <1>1, <1>2, <2>1, <2>5, <3>1 DEF PaidOnce
    <3>2. CASE i # h
      BY Zenon, <1>1, <1>3, <2>2, <3>2 DEF LiveInv, PaidOnce, Actors
    <3> QED
      BY <3>1, <3>2
  <2>7. SettledIsPaid'
    BY Zenon, <1>1, <1>m, <2>2, StillPaid DEF LiveInv, Actors
  <2> QED
    BY <1>4, <2>3, <2>4, <2>6, <2>7 DEF LiveInv
<1> QED
  BY <1>5, <1>6 DEF Handle

(* The seller pays an invoice that was sent, or lets it expire. *)
LEMMA OutsideLive ==
    ASSUME TypeOK, CancelInv, LiveInv, NEW h \in Invoices,
           SellerPays(h) \/ InvoiceExpires(h) \/ EscrowExpires(h)
    PROVE  LiveInv'
<1>1. /\ UNCHANGED <<row, dispute, solver, pc, copy, payments>> /\ htlc[h] = "open"
      /\ Move(h, "accepted") \/ Move(h, "canceled")
  BY Zenon, NotAged DEF SellerPays, InvoiceExpires, rest
<1>2. htlc' = [htlc EXCEPT ![h] = htlc'[h]] /\ htlc'[h] \in {"accepted", "canceled"}
  BY ZenonT(60), <1>1 DEF Move, TypeOK
<1>3. \A i \in Invoices : "accepted" \in notes'[i] => "accepted" \in notes[i] \/ i = h
  BY <1>1 DEF Move, TypeOK
<1>4. \A i \in Invoices \ {h} : htlc'[i] = htlc[i]
  BY Zenon, <1>2 DEF TypeOK
<1>5. \A b \in Actors : Stands(b)'
  <2>2. \A i \in Invoices : htlc[i] = "created" => htlc'[i] = "created"
    BY Zenon, <1>1, <1>4
  <2>3. ASSUME NEW b \in Actors PROVE Stands(b)'
    <3>1. StandsAs(b, pc[b], copy[b])
      BY DEF LiveInv, Stands
    <3>2. copy[b].hash \in Invoices \cup {None}
      BY Zenon, RowType DEF TypeOK
    <3>3. CopyAt(pc[b], copy[b])'
      BY Zenon, <1>1, <2>2, <3>1, <3>2 DEF StandsAs, CopyAt
    <3> QED
      BY ZenonT(60), <1>1, <3>1, <3>3 DEF Stands, StandsAs
  <2> QED
    BY <2>3
<1>6. \A i \in Invoices : PaidOnce(i)'
  <2> SUFFICES ASSUME NEW i \in Invoices PROVE PaidOnce(i)'
    OBVIOUS
  <2>1. PaidOnce(i)
    BY DEF LiveInv
  <2>2. CASE i = h
    BY ZenonT(60), <1>1, <1>2, <2>1, <2>2 DEF PaidOnce
  <2>3. CASE i # h
    BY <1>1, <1>3, <1>4, <2>1, <2>3 DEF PaidOnce
  <2> QED
    BY <2>2, <2>3
<1>7. Escrowed'
  <2>1. row.hash \in Invoices \cup {None}
    BY Zenon, RowType DEF TypeOK
  <2> QED
    BY Zenon, <1>1, <1>4, <2>1 DEF LiveInv, Escrowed
<1>8. SettledIsPaid'
  <2>1. \A i \in Invoices : htlc'[i] = "settled" => htlc[i] = "settled"
    BY <1>2, <1>4
  <2> QED
    BY Zenon, <1>1, <2>1, StillPaid DEF LiveInv
<1> QED
  BY <1>5, <1>6, <1>7, <1>8 DEF LiveInv

(* No trade is canceled but by both sides or a solver, and the daemon runs. *)
LiveOnly == {"cancel", "timeout", "deadline", "restart"} \cap Events = {}

(* Columns of the copies the handlers of the main loop take. *)
LEMMA CopiedColumns ==
    ASSUME NEW r \in Rows
    PROVE  /\ [r EXCEPT !.taker = TRUE].hash = r.hash
           /\ [r EXCEPT !.taker = TRUE, !.buyer_invoice = TRUE].hash = r.hash
           /\ [r EXCEPT !.taker = TRUE, !.status = "waiting-buyer-invoice"].hash = r.hash
           /\ [r EXCEPT !.buyer_invoice = TRUE].hash = r.hash
           /\ \A side : /\ [r EXCEPT !.initiator = side].hash = r.hash
                        /\ setup_dispute(r, side).hash = r.hash
  BY DEF Rows, setup_dispute

(* The handlers of the main loop before the end of a trade. *)
LEMMA OpeningLive ==
    ASSUME TypeOK, LiveInv,
           \/ take_buy_action
           \/ take_sell_action
           \/ show_hold_invoice
           \/ add_invoice_action
           \/ fiat_sent_action
    PROVE  LiveInv'
<1>m. Main \in Actors /\ Main \notin Invoices /\ row \in Rows /\ copy[Main] \in Rows
  BY TradeAssumption DEF Actors, TypeOK
<1>s. StandsAs(Main, pc[Main], copy[Main])
  BY Zenon, <1>m DEF LiveInv, Stands
<1>t. {"activate", "fiat_sent", "orphan"} \cap Settling = {}
  BY DEF Settling
<1>1. CASE take_buy_action \/ take_sell_action
  <2>1. row.status = "pending" /\ row.hash = None
    BY <1>1 DEF take_buy_action, take_sell_action, LiveInv, Escrowed
  <2>2. ASSUME NEW r, r.hash = row.hash
        PROVE  /\ StandsAs(Main, "create_take", r)
               /\ r.status = "waiting-buyer-invoice" => StandsAs(Main, "complete_take", r)
    BY Zenon, <2>1, <2>2
    DEF StandsAs, StatusAt, CopyAt, Users, Copied, Taking, Asking, BothSides, Solving
  <2>3. [row EXCEPT !.taker = TRUE, !.status = "waiting-buyer-invoice"].status
          = "waiting-buyer-invoice"
    BY <1>m, RowColumns
  <2> QED
    BY Zenon, <1>1, <1>m, <2>2, <2>3, CopiedColumns, BeginLive
    DEF take_buy_action, take_sell_action
<1>2. CASE show_hold_invoice
  <2>1. pc[Main] # "orphan"
    BY Zenon, <1>s DEF StandsAs
  <2> QED
    BY Zenon, <1>2, <2>1, CreateLive, CompleteLive DEF show_hold_invoice, Refund
<1>3. ASSUME NEW from \in {"activate", "fiat_sent"}, NEW status \in Live,
             Update(Main, from, status, "idle")
      PROVE  LiveInv'
  <2>1. pc[Main] = from
    BY <1>3 DEF Update, Store
  <2>2. /\ copy[Main].hash = row.hash
        /\ row.status \in {"waiting-buyer-invoice", "active", "fiat-sent"}
        /\ row.hash # None
    BY Zenon, <1>s, <2>1 DEF StandsAs, StatusAt, CopyAt, Copied, LiveInv, Escrowed, Live
  <2>3. /\ [copy[Main] EXCEPT !.status = status].hash = row.hash
        /\ [copy[Main] EXCEPT !.status = status].status = status
    BY <1>m, <2>2, RowColumns
  <2>4. Fits(Main, [copy[Main] EXCEPT !.status = status])
    BY Zenon, <2>2, <2>3, <1>3, EarlyFits
  <2> QED
    BY Zenon, <1>3, <1>m, <1>t, <2>4, StoreLive DEF Update
<1>4. CASE add_invoice_action
  <2>1. ASSUME row.status = "waiting-buyer-invoice",
               Begin(Main, [row EXCEPT !.buyer_invoice = TRUE],
                     IF row.hash # None THEN "activate" ELSE "create_invoice")
        PROVE  LiveInv'
    <3>1. [row EXCEPT !.buyer_invoice = TRUE].hash = row.hash
      BY <1>m, CopiedColumns
    <3>2. StandsAs(Main, IF row.hash # None THEN "activate" ELSE "create_invoice",
                   [row EXCEPT !.buyer_invoice = TRUE])
      BY <2>1, <3>1
      DEF StandsAs, StatusAt, CopyAt, Users, Copied, Taking, Asking, BothSides, Solving
    <3> QED
      BY Zenon, <1>m, <2>1, <3>2, BeginLive
  <2> QED
    BY <1>3, <1>4, <2>1 DEF add_invoice_action, Live
<1>5. CASE fiat_sent_action
  <2>1. ASSUME row.status = "active", Begin(Main, row, "fiat_sent")
        PROVE  LiveInv'
    <3>1. StandsAs(Main, "fiat_sent", row)
      BY <2>1
      DEF StandsAs, StatusAt, CopyAt, Users, Copied, Taking, Asking, BothSides, Solving
    <3> QED
      BY ZenonT(60), <1>m, <2>1, <3>1, BeginLive
  <2> QED
    BY <1>3, <1>5, <2>1 DEF fiat_sent_action, Live
<1> QED
  BY ZenonT(60), <1>1, <1>2, <1>4, <1>5

(* The order moves on to settled with the invoice its handler settled. *)
LEMMA CommitLive ==
    ASSUME TypeOK, PayInv, LiveInv, NEW a \in {Main, Rpc},
           \/ CommitSettled(a, "release_commit", {"fiat-sent", "dispute"}, "release_close")
           \/ CommitSettled(a, "settle_commit", {"dispute"}, "settle_close")
    PROVE  LiveInv'
<1> DEFINE r == [row EXCEPT !.status = "settled-hold-invoice"]
<1>m. a \in Actors /\ a \notin Invoices /\ row \in Rows
  BY TradeAssumption DEF Actors, TypeOK
<1>1. StandsAs(a, pc[a], copy[a]) /\ pc[a] \in {"release_commit", "settle_commit"}
  BY ZenonT(60), <1>m DEF LiveInv, Stands, CommitSettled, Store
<1>2. /\ pc[a] = "release_commit" => row.status \in {"fiat-sent", "dispute"} /\ a = Main
      /\ pc[a] = "settle_commit" => row.status = "dispute" /\ copy[a].status = "dispute"
      /\ copy[a].hash = row.hash
  BY <1>1 DEF StandsAs, StatusAt, CopyAt, Copied, Solving, Users, BothSides
<1>3. \/ pc[a] = "release_commit" /\ Store(a, "release_commit", r, "release_close")
      \/ pc[a] = "settle_commit" /\ Store(a, "settle_commit", r, "settle_close")
  BY <1>1, <1>2 DEF CommitSettled, Store
<1>4. htlc[row.hash] = "settled"
  BY Zenon, <1>1, <1>2, <1>m DEF PayInv, Settling
<1>5. \A b \in Actors \ {a} : pc[b] \notin {"release_commit", "settle_commit"}
  <2> SUFFICES ASSUME NEW b \in Actors \ {a}, pc[b] \in {"release_commit", "settle_commit"}
               PROVE  FALSE
    OBVIOUS
  <2>1. copy[b].hash = row.hash
    BY ZenonT(60) DEF LiveInv, Stands, StandsAs, Copied
  <2>2. copy[b].hash # copy[a].hash
    BY Zenon, <1>1, <1>m DEF PayInv, Settling
  <2> QED
    BY <1>2, <2>1, <2>2
<1>6. r.hash = row.hash /\ r.status = "settled-hold-invoice"
  BY <1>m, RowColumns
<1>7. Fits(a, r)
  <2>1. /\ row.status \in Live \cup Ended /\ r.status \in Ended
        /\ a = Main \/ row.status \in {"dispute"} \cup Ended
    BY <1>1, <1>2, <1>6 DEF Live, Ended
  <2> QED
    BY Zenon, <1>4, <1>5, <1>6, <2>1, EndFits
<1>8. r.status \in Ended /\ {"release_close", "settle_close"} \subseteq Settling
  BY <1>6 DEF Ended, Settling
<1> QED
  BY Zenon, <1>2, <1>3, <1>7, <1>8, <1>m, StoreLive

(* A refunded trade is written as canceled. *)
LEMMA CancelLive ==
    ASSUME TypeOK, PayInv, CancelInv, LiveInv, NEW a \in {Main, Rpc},
           \/ Update(a, "coop_write", "cooperatively-canceled", "coop_close")
           \/ Update(a, "admin_write", "canceled-by-admin", "idle")
    PROVE  LiveInv'
<1>m. a \in Actors /\ a \notin Invoices /\ copy[a] \in Rows
  BY TradeAssumption DEF Actors, TypeOK
<1>1. StandsAs(a, pc[a], copy[a]) /\ pc[a] \in {"coop_write", "admin_write"}
  BY <1>m DEF LiveInv, Stands, Update, Store
<1>2. /\ pc[a] = "coop_write" => row.status \in Live \cup Ended /\ a = Main
      /\ pc[a] = "admin_write" => row.status \in {"dispute"} \cup Ended
      /\ copy[a].hash = row.hash
  BY Zenon, <1>1 DEF StandsAs, StatusAt, CopyAt, Copied, Solving, Users, BothSides
<1>3. row.status \in Live \cup Ended /\ row.hash # None
  BY Zenon, <1>1, <1>2 DEF Live, LiveInv, Escrowed
<1>4. htlc[row.hash] = "canceled"
  BY ZenonT(60), <1>1, <1>2, <1>3, <1>m DEF CancelInv, SafeCopy, Refunded
<1>5. \A b \in Actors \ {a} : pc[b] \notin {"release_commit", "settle_commit"}
  <2> SUFFICES ASSUME NEW b \in Actors \ {a}, pc[b] \in {"release_commit", "settle_commit"}
               PROVE  FALSE
    BY Zenon
  <2>1. copy[b].hash = row.hash
    BY Zenon DEF LiveInv, Stands, StandsAs, Copied
  <2>2. htlc[copy[b].hash] = "settled"
    BY DEF PayInv, Settling
  <2> QED
    BY <1>4, <2>1, <2>2
<1>6. ASSUME NEW status \in Canceled
      PROVE  /\ Fits(a, [copy[a] EXCEPT !.status = status])
             /\ [copy[a] EXCEPT !.status = status].status \in Live \cup Ended
  <2>1. /\ [copy[a] EXCEPT !.status = status].hash = row.hash
        /\ [copy[a] EXCEPT !.status = status].status = status
        /\ status \in Ended
    BY <1>2, <1>m, <1>6, RowColumns DEF Ended
  <2> QED
    BY Zenon, <1>1, <1>2, <1>3, <1>4, <1>5, <2>1, EndFits
<1>7. /\ {"cooperatively-canceled", "canceled-by-admin"} \subseteq Canceled
      /\ {"coop_write", "admin_write"} \cap Settling = {}
  BY DEF Canceled, Settling
<1>8. pc[a] = "coop_write" => a = Main
  BY <1>2
<1>9. CASE Update(a, "coop_write", "cooperatively-canceled", "coop_close")
  <2>1. a = Main
    BY <1>8, <1>9 DEF Update, Store
  <2> QED
    BY Zenon, <1>6, <1>7, <1>9, <1>m, <2>1, StoreLive DEF Update
<1>10. CASE Update(a, "admin_write", "canceled-by-admin", "idle")
  BY Zenon, <1>6, <1>7, <1>10, <1>m, StoreLive DEF Update
<1> QED
  BY <1>9, <1>10

(* A handler closes the dispute's row, or leaves it. *)
LEMMA CloseLive ==
    ASSUME TypeOK, LiveInv, NEW a \in {Main, Rpc}, NEW from, NEW d, NEW to,
           StoreDispute(a, from, d, to),
           dispute # "none" => d # "none",
           d # "none" => row.status \in {"dispute"} \cup Ended,
           from \in Settling => to \in Settling,
           to = "idle" \/ StandsAs(a, to, copy[a])
    PROVE  LiveInv'
<1>1. a \in Actors /\ a \notin Invoices
  BY TradeAssumption DEF Actors
<1>2. /\ UNCHANGED <<row, solver, htlc, notes, payments>> /\ dispute' = d
      /\ Goto(a, to) /\ pc[a] = from
  BY Zenon DEF StoreDispute, lnd, rest
<1> QED
  BY ZenonT(60), <1>1, <1>2, GotoLive DEF LiveInv, Escrowed

(* The seller releases. *)
LEMMA ReleaseLive ==
    ASSUME TypeOK, PayInv, LiveInv, release_action
    PROVE  LiveInv'
<1>m. Main \in Actors /\ Main \notin Invoices /\ row \in Rows
  BY TradeAssumption DEF Actors, TypeOK
<1>1. ASSUME row.status \in {"fiat-sent", "dispute"}, Begin(Main, row, "release")
      PROVE  LiveInv'
  <2>1. StandsAs(Main, "release", row)
    BY <1>1
    DEF StandsAs, StatusAt, CopyAt, Users, Copied, Taking, Asking, BothSides, Solving, Live
  <2> QED
    BY ZenonT(60), <1>m, <1>1, <2>1, BeginLive
<1>2. ASSUME StoreDispute(Main, "release_close", Closed("settled"), "pay")
      PROVE  LiveInv'
  <2>1. StandsAs(Main, "pay", copy[Main])
    BY Zenon DEF StandsAs, StatusAt, CopyAt, Users, Copied, Taking, Asking, BothSides, Solving
  <2>2. /\ dispute # "none" => Closed("settled") # "none"
        /\ Closed("settled") # "none" => row.status \in {"dispute"} \cup Ended
        /\ "pay" \in Settling
    BY DEF Closed, LiveInv, Escrowed, Settling
  <2> QED
    BY Zenon, <1>2, <2>1, <2>2, CloseLive
<1> QED
  BY <1>1, <1>2, SettleLive, CommitLive DEF release_action

(* Both sides cancel. *)
LEMMA CoopLive ==
    ASSUME TypeOK, PayInv, CancelInv, LiveInv, cancel_active_order
    PROVE  LiveInv'
<1>m. Main \in Actors /\ Main \notin Invoices /\ row \in Rows
  BY TradeAssumption DEF Actors, TypeOK
<1>1. ASSUME row.status \in {"active", "fiat-sent", "dispute"}, NEW side,
             Begin(Main, [row EXCEPT !.initiator = side], "coop_start")
      PROVE  LiveInv'
  <2>1. /\ [row EXCEPT !.initiator = side].hash = row.hash
        /\ [row EXCEPT !.initiator = side].status = row.status
    BY <1>m, CopiedColumns, RowColumns
  <2>2. StandsAs(Main, "coop_start", [row EXCEPT !.initiator = side])
    BY <1>1, <2>1
    DEF StandsAs, StatusAt, CopyAt, Users, Copied, Taking, Asking, BothSides, Solving, Live
  <2> QED
    BY Zenon, <1>m, <1>1, <2>2, BeginLive
<1>2. ASSUME row.status \in {"active", "fiat-sent", "dispute"},
             Begin(Main, row, "coop_refund")
      PROVE  LiveInv'
  <2>1. StandsAs(Main, "coop_refund", row)
    BY <1>2
    DEF StandsAs, StatusAt, CopyAt, Users, Copied, Taking, Asking, BothSides, Solving, Live
  <2> QED
    BY ZenonT(60), <1>m, <1>2, <2>1, BeginLive
<1>3. ASSUME StoreDispute(Main, "coop_close", Closed("seller-refunded"), "idle")
      PROVE  LiveInv'
  <2>1. /\ dispute # "none" => Closed("seller-refunded") # "none"
        /\ Closed("seller-refunded") # "none" => row.status \in {"dispute"} \cup Ended
        /\ "coop_close" \notin Settling
    BY DEF Closed, LiveInv, Escrowed, Settling
  <2> QED
    BY Zenon, <1>3, <2>1, CloseLive
<1>4. Refund(Main, "coop_refund", "coop_write") => LiveInv'
  BY <1>m, RefundLive
<1> QED
  BY Zenon, <1>1, <1>2, <1>3, <1>4, CoopStartLive, CancelLive
  DEF cancel_active_order, cancel_cooperative_execution_step_2

(* A side files a dispute. *)
LEMMA DisputeLive ==
    ASSUME TypeOK, LiveInv, dispute_action
    PROVE  LiveInv'
<1>m. /\ Main \in Actors /\ Main \notin Invoices /\ row \in Rows /\ copy[Main] \in Rows
      /\ {"dispute_read", "dispute_write", "dispute_create"} \cap Settling = {}
  BY TradeAssumption DEF Actors, TypeOK, Settling
<1>s. StandsAs(Main, pc[Main], copy[Main])
  BY Zenon, <1>m DEF LiveInv, Stands
<1>1. ASSUME Begin(Main, row, "dispute_read")
      PROVE  LiveInv'
  <2>1. StandsAs(Main, "dispute_read", row)
    BY ZenonT(60) DEF StandsAs, StatusAt, CopyAt, Users, Copied, Taking, Asking, BothSides, Solving
  <2> QED
    BY Zenon, <1>m, <1>1, <2>1, BeginLive
<1>2. ASSUME pc[Main] = "dispute_read", NEW side \in Sides,
             row.status \in {"active", "fiat-sent"},
             Hold(Main, setup_dispute(row, side), "dispute_write"),
             UNCHANGED <<row, dispute, solver, lnd, rest>>
      PROVE  LiveInv'
  <2>1. /\ setup_dispute(row, side).hash = row.hash
        /\ setup_dispute(row, side).status = "dispute"
    BY <1>m, CopiedColumns, RowColumns
  <2>2. StandsAs(Main, "dispute_write", setup_dispute(row, side))
    BY Zenon, <1>2, <2>1
    DEF StandsAs, StatusAt, CopyAt, Users, Copied, Taking, Asking, BothSides, Solving, Live
  <2> QED
    BY <1>m, <1>2, <2>2, HoldLive
<1>3. ASSUME pc[Main] = "dispute_read", Goto(Main, "idle"),
             UNCHANGED <<row, dispute, solver, lnd, rest>>
      PROVE  LiveInv'
  <2>1. UNCHANGED <<htlc, notes, payments>>
    BY <1>3 DEF lnd, rest
  <2> QED
    BY Zenon, <1>m, <1>3, <2>1, GotoLive DEF LiveInv, Escrowed
<1>4. ASSUME Store(Main, "dispute_write", copy[Main], "dispute_create")
      PROVE  LiveInv'
  <2>1. /\ row.status \in {"active", "fiat-sent"} /\ copy[Main].hash = row.hash
        /\ copy[Main].status = "dispute"
    BY Zenon, <1>4, <1>s DEF Store, StandsAs, StatusAt, CopyAt, Copied
  <2>2. row.hash # None /\ copy[Main].status \in Live
    BY Zenon, <2>1 DEF LiveInv, Escrowed, Live
  <2>3. Fits(Main, copy[Main])
    BY Zenon, <2>1, <2>2, EarlyFits
  <2> QED
    BY Zenon, <1>m, <1>4, <2>1, <2>3, StoreLive
<1>5. ASSUME NEW d \in {"initiated", dispute}, dispute # "none" => d = dispute,
             d # "none",
             StoreDispute(Main, "dispute_create", d, "idle")
      PROVE  LiveInv'
  <2>1. row.status \in {"dispute"} \cup Ended
    BY Zenon, <1>5, <1>s DEF StoreDispute, StandsAs, StatusAt
  <2> QED
    BY ZenonT(60), <1>5, <1>m, <2>1, CloseLive
<1> QED
  BY ZenonT(60), <1>1, <1>2, <1>3, <1>4, <1>5 DEF dispute_action

(* A solver takes the dispute, and settles or refunds. *)
LEMMA AdminLive ==
    ASSUME TypeOK, PayInv, CancelInv, FlagsInv, LiveInv, NEW a \in {Main, Rpc},
           \/ admin_take_dispute_action(a)
           \/ admin_settle_action(a)
           \/ admin_cancel_action(a)
    PROVE  LiveInv'
<1>m. /\ a \in Actors /\ a \notin Invoices /\ row \in Rows /\ copy[a] \in Rows
      /\ {"dispute_take", "admin_flags"} \cap Settling = {}
      /\ {"settle_close", "pay"} \subseteq Settling
  BY ZenonT(60), TradeAssumption DEF Actors, TypeOK, Settling
<1>s. StandsAs(a, pc[a], copy[a])
  BY Zenon, <1>m DEF LiveInv, Stands
<1>1. CASE admin_take_dispute_action(a)
  <2>1. ASSUME dispute \in {"initiated", "in-progress"}, Begin(a, row, "dispute_take")
        PROVE  LiveInv'
    <3>1. StandsAs(a, "dispute_take", row)
      BY ZenonT(60), <2>1
      DEF StandsAs, StatusAt, CopyAt, Users, Copied, Taking, Asking, BothSides, Solving,
          LiveInv, Escrowed
    <3> QED
      BY Zenon, <1>m, <2>1, <3>1, BeginLive
  <2>2. ASSUME pc[a] = "dispute_take", dispute' = "in-progress", solver' = TRUE,
               Goto(a, "idle"), UNCHANGED <<row, lnd, rest>>
        PROVE  LiveInv'
    <3>1. UNCHANGED <<row, htlc, notes, payments>>
      BY <2>2 DEF lnd, rest
    <3>2. row.status \in {"dispute"} \cup Ended
      BY Zenon, <1>s, <2>2 DEF StandsAs, StatusAt
    <3> QED
      BY <1>m, <2>2, <3>1, <3>2, GotoLive
  <2> QED
    BY Zenon, <1>1, <2>1, <2>2 DEF admin_take_dispute_action
<1>2. ASSUME row.status = "dispute", NEW step \in {"settle", "admin_refund"},
             Begin(a, row, step)
      PROVE  LiveInv'
  <2>1. StandsAs(a, step, row)
    BY Zenon, <1>2
    DEF StandsAs, StatusAt, CopyAt, Users, Copied, Taking, Asking, BothSides, Solving
  <2> QED
    BY Zenon, <1>m, <1>2, <2>1, BeginLive
<1>3. \A d \in {"settled", "seller-refunded"} :
         /\ dispute # "none" => Closed(d) # "none"
         /\ Closed(d) # "none" => row.status \in {"dispute"} \cup Ended
  BY ZenonT(60) DEF Closed, LiveInv, Escrowed
<1>4. CASE admin_settle_action(a)
  <2>1. ASSUME StoreDispute(a, "settle_close", Closed("settled"),
                            IF dispute = "none" \/ OneFlag(copy[a]) THEN "pay" ELSE "idle")
        PROVE  LiveInv'
    <3>1. copy[a].status = "dispute"
      BY Zenon, <1>s, <2>1 DEF StoreDispute, StandsAs, CopyAt, Solving
    <3>2. OneFlag(copy[a])
      BY Zenon, <1>m, <3>1 DEF FlagsInv, GoodFlags, OneFlag
    <3>3. StandsAs(a, "pay", copy[a])
      BY Zenon DEF StandsAs, StatusAt, CopyAt, Users, Copied, Taking, Asking, BothSides, Solving
    <3>4. StoreDispute(a, "settle_close", Closed("settled"), "pay")
      BY ZenonT(60), <2>1, <3>2
    <3> QED
      BY Zenon, <1>3, <1>m, <3>3, <3>4, CloseLive
  <2> QED
    BY <1>2, <1>4, <2>1, SettleLive, CommitLive DEF admin_settle_action
<1>5. CASE admin_cancel_action(a)
  <2>1. ASSUME StoreDispute(a, "admin_flags", Closed("seller-refunded"), "admin_write")
        PROVE  LiveInv'
    <3>1. StandsAs(a, "admin_write", copy[a])
      BY Zenon, <1>s, <2>1
      DEF StoreDispute, StandsAs, StatusAt, CopyAt, Users, Copied, Taking, Asking, BothSides,
          Solving
    <3> QED
      BY Zenon, <1>3, <1>m, <2>1, <3>1, CloseLive
  <2>2. ASSUME StoreDispute(a, "admin_flags", dispute, "idle")
        PROVE  LiveInv'
    BY Zenon, <1>m, <2>2, CloseLive DEF LiveInv, Escrowed
  <2>3. Refund(a, "admin_refund", "admin_flags") => LiveInv'
    BY <1>m, RefundLive
  <2> QED
    BY <1>2, <1>5, <2>1, <2>2, <2>3, CancelLive DEF admin_cancel_action
<1> QED
  BY Zenon, <1>1, <1>4, <1>5

(* The subscribers. *)
LEMMA SubscriberLive ==
    ASSUME TypeOK, CancelInv, LiveInv, NEW h \in Invoices,
           hold_invoice_paid(h) \/ hold_invoice_canceled(h)
    PROVE  LiveInv'
<1>m. /\ h \in Actors /\ row \in Rows /\ copy[h] \in Rows
      /\ {"paid_write", "paid_held"} \cap Settling = {}
  BY ZenonT(60) DEF Actors, TypeOK, Settling
<1>s. StandsAs(h, pc[h], copy[h])
  BY Zenon, <1>m DEF LiveInv, Stands
<1>1. ASSUME NEW status \in {"active", "waiting-buyer-invoice"},
             Update(h, "paid_write", status, "paid_held")
      PROVE  LiveInv'
  <2>1. pc[h] = "paid_write" /\ row.hash = h /\ copy[h].hash = row.hash
    BY <1>1, <1>s DEF Update, Store, StandsAs, Copied
  <2>2. /\ [copy[h] EXCEPT !.status = status].hash = row.hash
        /\ [copy[h] EXCEPT !.status = status].status = status
    BY <1>m, <2>1, RowColumns
  <2>3. Fits(h, [copy[h] EXCEPT !.status = status])
    BY Zenon, <1>1, <1>m, <2>1, <2>2, PaidFits
  <2>4. pc[h] # "idle"
    BY <2>1
  <2> QED
    BY Zenon, <1>1, <1>m, <2>1, <2>3, <2>4, StoreLive DEF Update
<1>2. ASSUME Store(h, "paid_held", [row EXCEPT !.held = TRUE], "idle")
      PROVE  LiveInv'
  <2>1. Fits(h, [row EXCEPT !.held = TRUE])
    <3>1. /\ [row EXCEPT !.held = TRUE].hash = row.hash
          /\ [row EXCEPT !.held = TRUE].status = row.status
      BY <1>m, RowColumns
    <3> QED
      BY Zenon, <3>1, SameFits
  <2> QED
    BY Zenon, <1>2, <1>m, <2>1, StoreLive
<1>3. CASE hold_invoice_paid(h)
  BY <1>1, <1>2, <1>3, HandleLive DEF hold_invoice_paid
<1>4. CASE hold_invoice_canceled(h)
  <2>1. pc[h] # "evaporated" /\ age[h] # 2
    BY Zenon, <1>m, NotAged
  <2>2. ASSUME Handle(h, "canceled", row.status = "active" /\ row.held /\ age[h] = 2,
                      "evaporated")
        PROVE  LiveInv'
    <3>1. ~(row.status = "active" /\ row.held /\ age[h] = 2)
      BY <2>1
    <3> QED
      BY Zenon, <2>2, <3>1, HandleLive
  <2> QED
    BY Zenon, <1>4, <2>1, <2>2 DEF hold_invoice_canceled, Update, Store
<1> QED
  BY Zenon, <1>3, <1>4

(* Every step. *)
LEMMA LiveNext ==
    ASSUME LiveOnly, TypeOK, PayInv, CancelInv, FlagsInv, LiveInv, [Next]_vars
    PROVE  LiveInv'
<1>e. /\ {"cancel", "timeout", "deadline"} \cap Events = {}
      /\ "cancel" \notin Events /\ "deadline" \notin Events /\ "restart" \notin Events
      /\ "timeout" \notin Events
  BY DEF LiveOnly
<1>m. /\ Main \in Actors /\ Timer \in Actors /\ Guardian \in Actors /\ Admins \subseteq {Main, Rpc}
  BY Zenon DEF Actors, Admins
<1>n. \A s \in OtherCancels : pc[Main] # s /\ pc[Timer] # s /\ pc[Guardian] # s
  BY <1>m, <1>e, NoOtherCancels
<1>1. CASE MainStep
  <2>1. ASSUME \/ cancel_pending_order_from_maker
               \/ cancel_order_by_maker
               \/ cancel_order_by_taker
        PROVE  FALSE
    BY <1>e, <1>n, <2>1
    DEF cancel_pending_order_from_maker, cancel_order_by_maker, cancel_order_by_taker,
        Update, Store, Refund, OtherCancels
  <2> QED
    BY Zenon, <1>1, <2>1, OpeningLive, ReleaseLive, CoopLive, DisputeLive, PaymentLive
    DEF MainStep
<1>2. ASSUME NEW a \in Admins, AdminStep(a) PROVE LiveInv'
  BY ZenonT(60), <1>2, <1>m, AdminLive DEF AdminStep
<1>3. ASSUME job_cancel_orders \/ enforce_escrow_deadline_pass \/ ProbeError
      PROVE  FALSE
  BY <1>e, <1>n, <1>3
  DEF job_cancel_orders, enforce_escrow_deadline_pass, ProbeError,
      OpenDispute, FlipToDispute, Update, Store, Refund, OtherCancels
<1>4. ASSUME NEW a \in Actors, LndError(a) PROVE LiveInv'
  <2>1. /\ UNCHANGED <<row, dispute, solver, htlc, notes, payments>> /\ Goto(a, "idle")
        /\ pc[a] \in LndCalls
    BY <1>4 DEF LndError, lnd
  <2>2. pc[a] \notin Settling
    BY <2>1 DEF LndCalls, Settling
  <2> QED
    BY Zenon, <2>1, <2>2, GotoLive DEF LiveInv, Escrowed
<1>5. CASE UNCHANGED vars
  <2>1. UNCHANGED <<row, dispute, solver, htlc, notes, pc, copy, payments>>
    BY <1>5 DEF vars, lnd, rest
  <2>2. \A a \in Actors : Stands(a)'
    BY <2>1 DEF LiveInv, Stands, StandsAs, CopyAt
  <2>3. (\A h \in Invoices : PaidOnce(h)') /\ Escrowed'
    BY Zenon, <2>1 DEF LiveInv, PaidOnce, Escrowed
  <2>4. SettledIsPaid'
    BY <2>1 DEF LiveInv, SettledIsPaid, Settling
  <2> QED
    BY Zenon, <2>2, <2>3, <2>4 DEF LiveInv
<1>6. ASSUME NEW h \in Invoices, Ages(h) PROVE FALSE
  BY Zenon, <1>e, <1>6 DEF Ages
<1>7. ~Restart
  BY <1>e DEF Restart
<1> QED
  BY Zenon, <1>1, <1>2, <1>3, <1>4, <1>5, <1>6, <1>7, SubscriberLive, OutsideLive, PaymentLive
  DEF Next

(* Nobody is at work at first. *)
LEMMA LiveInit ==
    ASSUME Init
    PROVE  LiveInv
<1>1. row.status = "pending" /\ row.hash = None
  BY DEF Init, Fresh
<1>2. \A a \in Actors : pc[a] = "idle" /\ copy[a] = Fresh
  BY DEF Init
<1>3. \A a \in Actors : Stands(a)
  BY Zenon, <1>2, IdleStands DEF Stands
<1>4. \A h \in Invoices : htlc[h] = "none" /\ notes[h] = {} /\ pc[h] = "idle" /\ row.hash # h
  BY Zenon, <1>1, <1>2, TradeAssumption DEF Init, Actors
<1> QED
  BY <1>1, <1>3, <1>4
  DEF Init, LiveInv, PaidOnce, Escrowed, SettledIsPaid, Live, Ended, Canceled

(***************************************************************************)
(* Where only both sides together (cancel.rs:605-662) and solvers cancel a *)
(* live trade and the daemon does not stop, an escrow that release_action  *)
(* or admin_settle_action settles is paid out, once, or is in the hands of *)
(* the handler that is about to: neither a lost compare-and-swap           *)
(* (release.rs, admin_settle.rs) nor a dispute without one initiator stops *)
(* that handler on its way, whatever the interleaving with other handlers, *)
(* subscribers and any number of LND errors.                               *)
(***************************************************************************)
THEOREM SettledIsPaidHolds ==
    ASSUME {"cancel", "timeout", "deadline", "restart"} \cap Events = {}
    PROVE  Spec => []SettledIsPaid
<1>e. LiveOnly /\ {"cancel", "timeout", "deadline"} \cap Events = {}
               /\ {"cancel", "timeout"} \cap Events = {}
  BY DEF LiveOnly
<1>1. Init => PayInv /\ CancelInv /\ FlagsInv /\ LiveInv
  BY PayInit, CancelInit, FlagsInit, LiveInit
<1>2. TypeOK /\ PayInv /\ CancelInv /\ FlagsInv /\ LiveInv /\ [Next]_vars =>
         PayInv' /\ CancelInv' /\ FlagsInv' /\ LiveInv'
  BY <1>e, PayNext, CancelNext, FlagsNext, LiveNext
<1>3. LiveInv => SettledIsPaid
  BY DEF LiveInv
<1> QED
  BY <1>1, <1>2, <1>3, TypeCorrect, PTL DEF Spec

----------------------------------------------------------------------------
(***************************************************************************)
(* EscrowBacked, where solvers work over messages only: the main loop then *)
(* runs one resolution at a time.  The seller's money is at LND from the   *)
(* moment the payment is noted until a handler settles or refunds it, and  *)
(* who refunds it is about to write the cancel.                            *)
(***************************************************************************)
Backing == {"coop_write", "admin_flags", "admin_write"}

HeldInv ==
    /\ pc[Rpc] = "idle"
    /\ pc[Main] = "coop_start" => row.status \in Live
    /\ row.hash # None /\ row.status = "waiting-buyer-invoice" => htlc[row.hash] = "accepted"
    /\ \A h \in Invoices : pc[h] = "paid_write" => htlc[h] = "accepted"
    /\ \A h \in Invoices : row.hash = h /\ "accepted" \in notes[h] => htlc[h] = "accepted"
    /\ row.status \in Live => \/ htlc[row.hash] \in {"accepted", "settled"}
                              \/ pc[Main] \in Backing

(* A step of the main loop that leaves the order and LND alone. *)
LEMMA MainHeld ==
    ASSUME TypeOK, LiveInv, HeldInv, UNCHANGED <<row, htlc, notes>>, NEW step, NEW r,
           Goto(Main, step) \/ Hold(Main, r, step),
           pc[Main] \in Backing => step \in Backing,
           step = "coop_start" => row.status \in Live
    PROVE  HeldInv'
<1>1. Main \in Actors /\ Main \notin Invoices /\ Main # Rpc /\ Rpc \in Actors
  BY Zenon, TradeAssumption DEF Actors
<1>2. /\ \A b \in Actors \ {Main} : pc'[b] = pc[b]
      /\ pc'[Main] = step
  BY SMTT(30), <1>1, GotoOthers, HoldOthers
<1> QED
  BY Zenon, <1>1, <1>2 DEF HeldInv, Actors

(* A write of the order by the main loop that keeps its hash. *)
LEMMA StoreHeld ==
    ASSUME TypeOK, LiveInv, HeldInv, NEW from, NEW r, NEW to, Store(Main, from, r, to),
           r.hash = row.hash, to \notin {"coop_start"} \cup Backing,
           r.status \in Live => htlc[row.hash] \in {"accepted", "settled"},
           r.status # "waiting-buyer-invoice"
    PROVE  HeldInv'
<1>1. Main \in Actors /\ Main \notin Invoices /\ Main # Rpc /\ Rpc \in Actors
  BY ZenonT(60), TradeAssumption DEF Actors
<1>2. /\ \A b \in Actors \ {Main} : pc'[b] = pc[b]
      /\ pc'[Main] = to /\ row' = r /\ UNCHANGED <<htlc, notes>>
  BY Zenon, <1>1, GotoOthers DEF Store, lnd
<1> QED
  BY Zenon, <1>1, <1>2 DEF HeldInv, Actors

(* A call to LND that moves the order's invoice. *)
LEMMA MoveHeld ==
    ASSUME TypeOK, LiveInv, HeldInv, NEW h \in Invoices, row.hash = h,
           row.status \in Live \cup Ended, NEW s \in {"settled", "canceled"}, Move(h, s),
           NEW to, to # "idle", to # "coop_start", Goto(Main, to), row' = row,
           s = "canceled" => to \in Backing
    PROVE  HeldInv'
<1>1. Main \in Actors /\ Main \notin Invoices /\ Main # Rpc /\ Rpc \in Actors
  BY Zenon, TradeAssumption DEF Actors
<1>2. /\ \A b \in Actors \ {Main} : pc'[b] = pc[b]
      /\ pc'[Main] = to
  BY Zenon, <1>1, GotoOthers
<1>3. htlc' = [htlc EXCEPT ![h] = s]
  BY ZenonT(60) DEF Move
<1>4. \A i \in Invoices : "accepted" \in notes'[i] => "accepted" \in notes[i]
  BY DEF Move, TypeOK
<1>5. row.status \notin {"waiting-payment", "waiting-buyer-invoice"}
  BY ZenonT(60) DEF Live, Ended, Canceled
<1>6. "accepted" \notin notes[h]
  BY Zenon, <1>5 DEF LiveInv, PaidOnce
<1>7. pc[h] # "paid_write"
  BY Zenon, <1>5 DEF LiveInv, Stands, StandsAs, StatusAt, Actors
<1>8. \A i \in Invoices : i # h => htlc'[i] = htlc[i]
  BY ZenonT(60), <1>3 DEF TypeOK
<1>9. htlc'[h] = s
  BY <1>3 DEF TypeOK
<1> QED
  BY ZenonT(60), <1>1, <1>2, <1>4, <1>5, <1>6, <1>7, <1>8, <1>9 DEF HeldInv, Actors

(* settle_seller_hold_invoice by the main loop. *)
LEMMA SettleHeld ==
    ASSUME TypeOK, LiveInv, HeldInv, NEW from \in {"release", "settle"},
           NEW to \in {"release_commit", "settle_commit"}, Settle(Main, from, to)
    PROVE  HeldInv'
<1>1. StandsAs(Main, from, copy[Main]) /\ pc[Main] = from /\ row' = row
  BY Zenon DEF LiveInv, Stands, Actors, Settle
<1>2. copy[Main].hash = row.hash /\ row.status \in Live \cup Ended
  BY <1>1 DEF StandsAs, StatusAt, Copied, BothSides, Solving, Live
<1>3. row.hash \in Invoices \cup {None}
  BY Zenon, RowType DEF TypeOK
<1>4. CASE Goto(Main, "idle") /\ UNCHANGED lnd
  BY Zenon, <1>1, <1>4, MainHeld DEF lnd, Backing
<1>5. CASE row.hash # None /\ Goto(Main, to) /\ Move(row.hash, "settled")
  BY Zenon, <1>1, <1>2, <1>3, <1>5, MoveHeld
<1> QED
  BY Zenon, <1>2, <1>4, <1>5 DEF Settle

(* cancel_hold_invoice by the main loop. *)
LEMMA RefundHeld ==
    ASSUME TypeOK, LiveInv, HeldInv, NEW from \in {"coop_refund", "admin_refund"},
           NEW to \in {"coop_write", "admin_flags"}, Refund(Main, from, to)
    PROVE  HeldInv'
<1>1. StandsAs(Main, from, copy[Main]) /\ pc[Main] = from /\ row' = row
  BY ZenonT(60) DEF LiveInv, Stands, Actors, Refund
<1>2. copy[Main].hash = row.hash /\ row.status \in Live \cup Ended
  BY <1>1 DEF StandsAs, StatusAt, Copied, BothSides, Solving, Live
<1>3. row.hash \in Invoices
  <2>1. row.hash \in Invoices \cup {None}
    BY Zenon, RowType DEF TypeOK
  <2> QED
    BY Zenon, <1>2, <2>1 DEF LiveInv, Escrowed
<1>4. CASE Goto(Main, "idle") /\ UNCHANGED lnd
  BY <1>1, <1>4, MainHeld DEF lnd, Backing
<1>5. CASE Goto(Main, to) /\ Move(row.hash, "canceled")
  BY Zenon, <1>1, <1>2, <1>3, <1>5, MoveHeld DEF Backing
<1>6. row.hash # None
  BY <1>3, TradeAssumption
<1> QED
  BY Zenon, <1>2, <1>4, <1>5, <1>6 DEF Refund

(* The handlers of the main loop. *)
LEMMA OpeningHeld ==
    ASSUME TypeOK, LiveInv, HeldInv,
           \/ take_buy_action
           \/ take_sell_action
           \/ show_hold_invoice
           \/ add_invoice_action
           \/ fiat_sent_action
    PROVE  HeldInv'
<1>m. /\ Main \in Actors /\ Main \notin Invoices /\ Main # Rpc /\ Rpc \in Actors
      /\ row \in Rows /\ copy[Main] \in Rows
  BY TradeAssumption DEF Actors, TypeOK
<1>s. StandsAs(Main, pc[Main], copy[Main])
  BY Zenon, <1>m DEF LiveInv, Stands
<1>1. ASSUME NEW r, NEW step, Begin(Main, r, step), step # "coop_start"
      PROVE  HeldInv'
  BY <1>1, MainHeld DEF Begin, lnd, Backing
<1>2. ASSUME NEW from \in {"create_take", "create_invoice"},
             NEW to \in {"complete_take", "complete_invoice"}, create_hold_invoice(from, to)
      PROVE  HeldInv'
  <2>1. PICK h \in Invoices : /\ htlc[h] = "none"
                              /\ htlc' = [htlc EXCEPT ![h] = "created"]
                              /\ Hold(Main, [copy[Main] EXCEPT !.hash = h,
                                                               !.status = "waiting-payment"], to)
    BY Zenon, <1>2 DEF create_hold_invoice
  <2>2. pc'[Main] = to /\ \A b \in Actors \ {Main} : pc'[b] = pc[b]
    BY <1>m, <2>1, HoldOthers
  <2>3. row.hash # h /\ pc[h] = "idle"
    BY <2>1 DEF LiveInv, PaidOnce
  <2>4. \A i \in Invoices : i # h => htlc'[i] = htlc[i]
    BY <2>1 DEF TypeOK
  <2>5. UNCHANGED <<row, notes>> /\ pc[Main] = from
    BY <1>2 DEF create_hold_invoice
  <2>6. row.hash \in Invoices \cup {None}
    BY Zenon, RowType DEF TypeOK
  <2>7. row.status \notin Live
    BY Zenon, <1>2, <1>s, <2>5 DEF StandsAs, StatusAt, Taking, Asking, Live
  <2> QED
    BY Zenon, <1>m, <1>2, <2>2, <2>3, <2>4, <2>5, <2>6, <2>7 DEF HeldInv, Actors
<1>3. ASSUME NEW from \in {"complete_take", "complete_invoice"}, NEW statuses,
             cas_complete_pretrade_take(from, statuses)
      PROVE  HeldInv'
  <2>1. pc[Main] = from /\ UNCHANGED notes
    BY ZenonT(60), <1>3 DEF cas_complete_pretrade_take
  <2>2. row.status \notin Live \cup {"waiting-payment"}
    BY Zenon, <1>s, <2>1 DEF StandsAs, StatusAt, Taking, Asking, Live
  <2>3. \/ copy[Main].hash = None /\ copy[Main].status = "waiting-buyer-invoice"
        \/ /\ copy[Main].hash # None /\ copy[Main].status = "waiting-payment"
           /\ htlc[copy[Main].hash] = "created"
    BY Zenon, <1>s, <2>1 DEF StandsAs, CopyAt
  <2>4. CASE UNCHANGED <<row, htlc>>
    <3>1. PICK step \in {"idle", "orphan"} : Goto(Main, step)
      BY <1>3 DEF cas_complete_pretrade_take
    <3> QED
      BY <2>1, <2>4, <3>1, MainHeld DEF Backing
  <2>5. CASE /\ row' = [row EXCEPT !.status = copy[Main].status, !.hash = copy[Main].hash,
                                   !.buyer_invoice = copy[Main].buyer_invoice, !.taker = TRUE]
             /\ Goto(Main, "idle")
    <3>1. row'.status = copy[Main].status /\ row'.hash = copy[Main].hash
      BY <1>m, <2>5 DEF Rows
    <3>2. pc'[Main] = "idle" /\ \A b \in Actors \ {Main} : pc'[b] = pc[b]
      BY <1>m, <2>5, GotoOthers
    <3>3. \A h \in Invoices : pc[h] # "paid_write"
      BY Zenon, <2>2 DEF LiveInv, Stands, StandsAs, StatusAt, Actors
    <3>4. \A h \in Invoices : copy[Main].hash = h => "accepted" \notin notes[h]
      BY Zenon, <2>3, TradeAssumption DEF LiveInv, PaidOnce
    <3> QED
      BY Zenon, <1>m, <2>1, <2>3, <3>1, <3>2, <3>3, <3>4 DEF HeldInv, Actors, Live
  <2> QED
    BY <1>3, <2>4, <2>5 DEF cas_complete_pretrade_take
<1>4. ASSUME NEW from \in {"activate", "fiat_sent"}, NEW status \in Live,
             Update(Main, from, status, "idle")
      PROVE  HeldInv'
  <2>1. /\ pc[Main] = from /\ copy[Main].hash = row.hash /\ row.hash # None
        /\ row.status \in {"waiting-buyer-invoice", "active"}
    BY <1>4, <1>s
    DEF Update, Store, StandsAs, StatusAt, CopyAt, Copied, LiveInv, Escrowed, Live
  <2>2. htlc[row.hash] \in {"accepted", "settled"}
    BY Zenon, <2>1 DEF HeldInv, Live, Backing
  <2>3. /\ [copy[Main] EXCEPT !.status = status].hash = row.hash
        /\ [copy[Main] EXCEPT !.status = status].status = status
    BY <1>m, <2>1, RowColumns
  <2>4. status # "waiting-buyer-invoice" /\ "idle" \notin {"coop_start"} \cup Backing
    BY <1>4 DEF Live, Backing
  <2>5. Store(Main, from, [copy[Main] EXCEPT !.status = status], "idle")
    BY <1>4 DEF Update
  <2> QED
    BY Zenon, <2>2, <2>3, <2>4, <2>5, StoreHeld
<1>5. CASE show_hold_invoice
  <2>1. pc[Main] # "orphan"
    BY Zenon, <1>s DEF StandsAs
  <2> QED
    BY Zenon, <1>5, <1>2, <1>3, <2>1 DEF show_hold_invoice, Refund
<1> QED
  BY ZenonT(60), <1>1, <1>4, <1>5
  DEF take_buy_action, take_sell_action, add_invoice_action, fiat_sent_action, Live

(* The main loop ends a trade, or takes it to a solver. *)
LEMMA EndingHeld ==
    ASSUME TypeOK, FlagsInv, LiveInv, HeldInv,
           \/ release_action
           \/ cancel_active_order
           \/ dispute_action
           \/ do_payment(Main)
           \/ AdminStep(Main)
    PROVE  HeldInv'
<1>m. /\ Main \in Actors /\ Main \notin Invoices /\ row \in Rows /\ copy[Main] \in Rows
  BY Zenon, TradeAssumption DEF Actors, TypeOK
<1>s. StandsAs(Main, pc[Main], copy[Main])
  BY Zenon, <1>m DEF LiveInv, Stands
<1>1. ASSUME NEW r, NEW step, Begin(Main, r, step),
             step = "coop_start" => row.status \in Live
      PROVE  HeldInv'
  BY Zenon, <1>1, MainHeld DEF Begin, lnd, Backing
<1>2. ASSUME NEW from, NEW d, NEW to, StoreDispute(Main, from, d, to), to # "coop_start",
             from \in Backing => to \in Backing
      PROVE  HeldInv'
  BY <1>2, MainHeld DEF StoreDispute, lnd
<1>3. ASSUME NEW step, Goto(Main, step), UNCHANGED <<row, lnd>>,
             pc[Main] \notin Backing, step # "coop_start"
      PROVE  HeldInv'
  BY <1>3, MainHeld DEF lnd
<1>4. ASSUME NEW from, NEW statuses, NEW to \in {"release_close", "settle_close"},
             from \in {"release_commit", "settle_commit"},
             row.status \in statuses,
             Store(Main, from, [row EXCEPT !.status = "settled-hold-invoice"], to)
      PROVE  HeldInv'
  <2>1. /\ [row EXCEPT !.status = "settled-hold-invoice"].hash = row.hash
        /\ [row EXCEPT !.status = "settled-hold-invoice"].status = "settled-hold-invoice"
    BY <1>m, RowColumns
  <2>2. to \notin {"coop_start"} \cup Backing /\ "settled-hold-invoice" \notin Live
    BY DEF Backing, Live
  <2> QED
    BY Zenon, <1>4, <2>1, <2>2, StoreHeld
<1>5. ASSUME NEW from \in {"coop_write", "admin_write"}, NEW status \in Canceled,
             NEW to \in {"coop_close", "idle"}, Update(Main, from, status, to)
      PROVE  HeldInv'
  <2>1. pc[Main] = from /\ copy[Main].hash = row.hash
    BY <1>5, <1>s DEF Update, Store, StandsAs, Copied
  <2>2. /\ [copy[Main] EXCEPT !.status = status].hash = row.hash
        /\ [copy[Main] EXCEPT !.status = status].status = status
    BY <1>m, <2>1, RowColumns
  <2>3. /\ to \notin {"coop_start"} \cup Backing
        /\ status \notin Live /\ status # "waiting-buyer-invoice"
    BY DEF Backing, Live, Canceled
  <2>4. Store(Main, from, [copy[Main] EXCEPT !.status = status], to)
    BY ZenonT(60), <1>5 DEF Update
  <2> QED
    BY Zenon, <2>2, <2>3, <2>4, StoreHeld
<1>6. CASE release_action
  <2>1. ASSUME CommitSettled(Main, "release_commit", {"fiat-sent", "dispute"}, "release_close")
        PROVE  HeldInv'
    <3>1. row.status \in {"fiat-sent", "dispute"}
      BY <1>s, <2>1 DEF CommitSettled, Store, StandsAs, StatusAt
    <3> QED
      BY Zenon, <1>4, <2>1, <3>1 DEF CommitSettled
  <2> QED
    BY <1>1, <1>2, <1>6, <2>1, SettleHeld DEF release_action, Backing
<1>7. CASE cancel_active_order
  <2>1. ASSUME cancel_cooperative_execution_step_1
        PROVE  HeldInv'
    <3>1. /\ copy[Main].hash = row.hash /\ copy[Main].status \in Live
          /\ row.status \in Live /\ pc[Main] = "coop_start"
          /\ Store(Main, "coop_start", copy[Main], "idle")
      BY Zenon, <1>s, <2>1
      DEF cancel_cooperative_execution_step_1, Store, StandsAs, CopyAt, Copied, HeldInv
    <3>2. htlc[row.hash] \in {"accepted", "settled"}
      BY ZenonT(60), <3>1 DEF HeldInv, Backing
    <3>3. /\ "idle" \notin {"coop_start"} \cup Backing
          /\ copy[Main].status # "waiting-buyer-invoice"
      BY <3>1 DEF Backing, Live
    <3> QED
      BY <3>1, <3>2, <3>3, StoreHeld
  <2> QED
    BY ZenonT(60), <1>1, <1>2, <1>5, <1>7, <2>1, RefundHeld
    DEF cancel_active_order, cancel_cooperative_execution_step_2, Live, Canceled, Backing
<1>8. CASE dispute_action
  <2>1. ASSUME NEW side, Hold(Main, setup_dispute(row, side), "dispute_write"),
               UNCHANGED <<row, lnd>>, pc[Main] = "dispute_read"
        PROVE  HeldInv'
    BY ZenonT(60), <2>1, MainHeld DEF lnd, Backing
  <2>2. ASSUME Store(Main, "dispute_write", copy[Main], "dispute_create")
        PROVE  HeldInv'
    <3>1. /\ copy[Main].hash = row.hash /\ copy[Main].status = "dispute"
          /\ row.status \in Live /\ pc[Main] = "dispute_write"
      BY Zenon, <1>s, <2>2 DEF Store, StandsAs, StatusAt, CopyAt, Copied, Live
    <3>2. htlc[row.hash] \in {"accepted", "settled"}
      BY Zenon, <3>1 DEF HeldInv, Backing
    <3>3. "dispute_create" \notin {"coop_start"} \cup Backing
      BY DEF Backing
    <3> QED
      BY <2>2, <3>1, <3>2, <3>3, StoreHeld
  <2>3. "dispute_create" \notin Backing /\ "dispute_read" \notin Backing
    BY ZenonT(60) DEF Backing
  <2> QED
    BY Zenon, <1>1, <1>2, <1>3, <1>8, <2>1, <2>2, <2>3 DEF dispute_action
<1>9. CASE do_payment(Main)
  BY <1>3, <1>9 DEF do_payment, Backing
<1>10. CASE admin_take_dispute_action(Main)
  BY ZenonT(60), <1>1, <1>3, <1>10 DEF admin_take_dispute_action, Backing
<1>11. CASE admin_settle_action(Main)
  <2>1. ASSUME CommitSettled(Main, "settle_commit", {"dispute"}, "settle_close")
        PROVE  HeldInv'
    <3>1. row.status \in {"dispute"}
      BY ZenonT(60), <1>s, <2>1 DEF CommitSettled, Store, StandsAs, StatusAt
    <3> QED
      BY Zenon, <1>4, <2>1, <3>1 DEF CommitSettled
  <2> QED
    BY <1>1, <1>2, <1>11, <2>1, SettleHeld DEF admin_settle_action, Backing
<1>12. CASE admin_cancel_action(Main)
  <2>1. ASSUME StoreDispute(Main, "admin_flags", dispute, "idle"), ~OneFlag(copy[Main])
        PROVE  FALSE
    <3>1. copy[Main].status = "dispute"
      BY Zenon, <1>s, <2>1 DEF StoreDispute, StandsAs, CopyAt, Solving
    <3> QED
      BY Zenon, <1>m, <2>1, <3>1 DEF FlagsInv, GoodFlags, OneFlag
  <2> QED
    BY <1>1, <1>2, <1>5, <1>12, <2>1, RefundHeld DEF admin_cancel_action, Canceled, Backing
<1> QED
  BY Zenon, <1>6, <1>7, <1>8, <1>9, <1>10, <1>11, <1>12 DEF AdminStep

(* The subscribers. *)
LEMMA SubscriberHeld ==
    ASSUME TypeOK, CancelInv, LiveInv, HeldInv, NEW h \in Invoices,
           hold_invoice_paid(h) \/ hold_invoice_canceled(h)
    PROVE  HeldInv'
<1>m. /\ h \in Actors /\ h # Main /\ h # Rpc /\ Main \in Actors /\ Rpc \in Actors
      /\ row \in Rows /\ copy[h] \in Rows
  BY TradeAssumption DEF Actors, TypeOK
<1>s. StandsAs(h, pc[h], copy[h])
  BY Zenon, <1>m DEF LiveInv, Stands
<1>1. ASSUME NEW s, NEW guard, NEW to, Handle(h, s, guard, to),
             \/ s = "accepted" /\ to = "paid_write"
             \/ s = "canceled" /\ ~guard
      PROVE  HeldInv'
  <2>1. UNCHANGED <<row, htlc>> /\ s \in notes[h] /\ notes' = [notes EXCEPT ![h] = @ \ {s}]
    BY Zenon, <1>1 DEF Handle
  <2>2. \A i \in Invoices : "accepted" \in notes'[i] => "accepted" \in notes[i]
    BY <2>1 DEF TypeOK
  <2>3. \A b \in Actors \ {h} : pc'[b] = pc[b]
    BY Zenon, <1>m, <1>1, HoldOthers DEF Handle
  <2>4. pc'[h] = pc[h] \/ (s = "accepted" /\ row.hash = h)
    BY Zenon, <1>m, <1>1, HoldOthers DEF Handle
  <2> QED
    BY Zenon, <1>m, <2>1, <2>2, <2>3, <2>4 DEF HeldInv, Actors
<1>2. ASSUME NEW r, NEW from \in {"paid_write", "paid_held"}, NEW to \in {"paid_held", "idle"},
             Store(h, from, r, to), r.hash = row.hash,
             \/ r.status = row.status
             \/ from = "paid_write" /\ r.status \in {"active", "waiting-buyer-invoice"}
      PROVE  HeldInv'
  <2>1. /\ UNCHANGED <<htlc, notes>> /\ row' = r /\ pc'[h] = to /\ pc[h] = from
        /\ \A b \in Actors \ {h} : pc'[b] = pc[b]
    BY Zenon, <1>m, <1>2, GotoOthers DEF Store, lnd
  <2>2. row.hash = h /\ row.hash # None
    BY Zenon, <1>s, <2>1, TradeAssumption DEF StandsAs
  <2>3. from = "paid_write" => htlc[row.hash] = "accepted" /\ row.status = "waiting-payment"
    BY Zenon, <1>s, <2>1, <2>2 DEF HeldInv, StandsAs, StatusAt
  <2>4. from = "paid_write" => pc[Main] # "coop_start"
    BY Zenon, <2>3 DEF HeldInv, Live
  <2> QED
    BY Zenon, <1>m, <1>2, <2>1, <2>2, <2>3, <2>4 DEF HeldInv, Actors
<1>3. CASE hold_invoice_paid(h)
  <2>1. ASSUME NEW status \in {"active", "waiting-buyer-invoice"},
               Update(h, "paid_write", status, "paid_held")
        PROVE  HeldInv'
    <3>1. copy[h].hash = row.hash
      BY <1>s, <2>1 DEF Update, Store, StandsAs, Copied
    <3>2. /\ [copy[h] EXCEPT !.status = status].hash = row.hash
          /\ [copy[h] EXCEPT !.status = status].status = status
      BY <1>m, <3>1, RowColumns
    <3> QED
      BY Zenon, <1>2, <2>1, <3>2 DEF Update
  <2>2. ASSUME Store(h, "paid_held", [row EXCEPT !.held = TRUE], "idle")
        PROVE  HeldInv'
    <3>1. /\ [row EXCEPT !.held = TRUE].hash = row.hash
          /\ [row EXCEPT !.held = TRUE].status = row.status
      BY ZenonT(60), <1>m, RowColumns
    <3> QED
      BY Zenon, <1>2, <2>2, <3>1
  <2> QED
    BY <1>1, <1>3, <2>1, <2>2 DEF hold_invoice_paid
<1>4. CASE hold_invoice_canceled(h)
  <2>1. pc[h] # "evaporated" /\ age[h] # 2
    BY Zenon, <1>m, NotAged
  <2>2. ASSUME Handle(h, "canceled", row.status = "active" /\ row.held /\ age[h] = 2,
                      "evaporated")
        PROVE  HeldInv'
    <3>1. ~(row.status = "active" /\ row.held /\ age[h] = 2)
      BY <2>1
    <3> QED
      BY Zenon, <2>2, <3>1, <1>1
  <2> QED
    BY Zenon, <1>4, <2>1, <2>2 DEF hold_invoice_canceled, Update, Store
<1> QED
  BY ZenonT(60), <1>3, <1>4

(* LND: an invoice that is paid or expires was open. *)
LEMMA OutsideHeld ==
    ASSUME TypeOK, CancelInv, LiveInv, HeldInv, NEW h \in Invoices,
           SellerPays(h) \/ InvoiceExpires(h) \/ EscrowExpires(h)
    PROVE  HeldInv'
<1>1. PICK s \in {"accepted", "canceled"} :
         /\ htlc[h] = "open" /\ Move(h, s) /\ UNCHANGED <<row, pc>>
  <2>1. ~EscrowExpires(h)
    BY Zenon, NotAged
  <2>2. SellerPays(h) => htlc[h] = "open" /\ Move(h, "accepted") /\ UNCHANGED <<row, pc>>
    BY DEF SellerPays
  <2>3. InvoiceExpires(h) => htlc[h] = "open" /\ Move(h, "canceled") /\ UNCHANGED <<row, pc>>
    BY ZenonT(60) DEF InvoiceExpires
  <2> QED
    BY Zenon, <2>1, <2>2, <2>3
<1>2. /\ htlc'[h] = s /\ \A i \in Invoices : i # h => htlc'[i] = htlc[i]
      /\ \A i \in Invoices : "accepted" \in notes'[i] =>
            "accepted" \in notes[i] \/ (i = h /\ s = "accepted")
  BY <1>1 DEF Move, TypeOK
<1>3. row.hash = h => row.status = "waiting-payment"
  BY Zenon, <1>1 DEF LiveInv, PaidOnce
<1>4. "accepted" \notin notes[h] /\ pc[h] # "paid_write"
  BY Zenon, <1>1 DEF LiveInv, PaidOnce
<1>5. row.hash \in Invoices \cup {None}
  BY Zenon, RowType DEF TypeOK
<1>6. row.status \in Live => row.hash # None
  BY Zenon DEF LiveInv, Escrowed
<1> QED
  BY Zenon, <1>1, <1>2, <1>3, <1>4, <1>5, <1>6 DEF HeldInv, Live

(* Every step but one of the RPC server. *)
LEMMA HeldNext ==
    ASSUME LiveOnly, "rpc" \notin Events \/ pc'[Rpc] = "idle",
           TypeOK, CancelInv, FlagsInv, LiveInv, HeldInv, [Next]_vars
    PROVE  HeldInv'
<1>e. /\ {"cancel", "timeout", "deadline"} \cap Events = {}
      /\ "cancel" \notin Events /\ "deadline" \notin Events /\ "restart" \notin Events
      /\ "timeout" \notin Events
  BY DEF LiveOnly
<1>m. /\ Main \in Actors /\ Timer \in Actors /\ Guardian \in Actors /\ Rpc \in Actors
      /\ Admins \subseteq {Main, Rpc}
      /\ "rpc" \notin Events => Admins \subseteq {Main}
  BY ZenonT(60) DEF Actors, Admins
<1>n. \A s \in OtherCancels : pc[Main] # s /\ pc[Timer] # s /\ pc[Guardian] # s
  BY <1>m, <1>e, NoOtherCancels
<1>1. CASE MainStep
  <2>1. ASSUME \/ cancel_pending_order_from_maker
               \/ cancel_order_by_maker
               \/ cancel_order_by_taker
        PROVE  FALSE
    BY <1>e, <1>n, <2>1
    DEF cancel_pending_order_from_maker, cancel_order_by_maker, cancel_order_by_taker,
        Update, Store, Refund, OtherCancels
  <2> QED
    BY Zenon, <1>1, <2>1, OpeningHeld, EndingHeld DEF MainStep
<1>2. ASSUME NEW a \in Admins, AdminStep(a) PROVE HeldInv'
  <2>1. pc[Rpc] = "idle"
    BY DEF HeldInv
  <2>2. ASSUME AdminStep(Rpc)
        PROVE  \E step \in {"dispute_take", "settle", "admin_refund"} : Begin(Rpc, row, step)
    <3>1. /\ \A from, r, to : Store(Rpc, from, r, to) => from = "idle"
          /\ \A from, d, to : StoreDispute(Rpc, from, d, to) => from = "idle"
          /\ \A from, to : Settle(Rpc, from, to) => from = "idle"
          /\ \A from, to : Refund(Rpc, from, to) => from = "idle"
      BY Zenon, <2>1 DEF Store, StoreDispute, Settle, Refund
    <3>2. CASE admin_take_dispute_action(Rpc)
      BY <2>1, <3>2 DEF admin_take_dispute_action
    <3>3. CASE admin_settle_action(Rpc)
      BY <3>1, <3>3 DEF admin_settle_action, CommitSettled
    <3>4. CASE admin_cancel_action(Rpc)
      BY ZenonT(60), <3>1, <3>4 DEF admin_cancel_action, Update
    <3> QED
      BY <2>2, <3>2, <3>3, <3>4 DEF AdminStep
  <2>3. ASSUME AdminStep(Rpc) PROVE pc'[Rpc] # "idle"
    <3>1. PICK step \in {"dispute_take", "settle", "admin_refund"} : Begin(Rpc, row, step)
      BY Zenon, <2>2, <2>3
    <3> QED
      BY <1>m, <3>1, HoldOthers DEF Begin
  <2>4. a # Rpc
    <3> SUFFICES ASSUME a = Rpc PROVE FALSE
      OBVIOUS
    <3>1. AdminStep(Rpc)
      BY <1>2
    <3>2. pc'[Rpc] # "idle"
      BY <2>3, <3>1
    <3> QED
      BY <1>m, <3>2, TradeAssumption
  <2>5. a = Main
    BY Zenon, <1>m, <2>4
  <2> QED
    BY ZenonT(60), <1>2, <2>5, EndingHeld
<1>3. ASSUME job_cancel_orders \/ enforce_escrow_deadline_pass \/ ProbeError
      PROVE  FALSE
  BY ZenonT(60), <1>e, <1>n, <1>3
  DEF job_cancel_orders, enforce_escrow_deadline_pass, ProbeError,
      OpenDispute, FlipToDispute, Update, Store, Refund, OtherCancels
<1>4. ASSUME NEW a \in Actors, LndError(a) PROVE HeldInv'
  <2>1. UNCHANGED <<row, htlc, notes>> /\ Goto(a, "idle") /\ pc[a] \in LndCalls
    BY ZenonT(60), <1>4 DEF LndError, lnd
  <2>2. pc'[a] = "idle" /\ \A b \in Actors \ {a} : pc'[b] = pc[b]
    BY Zenon, <2>1, GotoOthers
  <2>3. pc[a] \notin Backing
    BY Zenon, <2>1 DEF LndCalls, Backing
  <2> QED
    BY <1>m, <2>1, <2>2, <2>3 DEF HeldInv, Actors
<1>5. CASE UNCHANGED vars
  BY Zenon, <1>5 DEF vars, HeldInv
<1>6. ASSUME NEW h \in Invoices, Ages(h) PROVE FALSE
  BY <1>e, <1>6 DEF Ages
<1>7. ~Restart /\ ~do_payment(Rpc)
  BY Zenon, <1>e DEF Restart, do_payment, HeldInv
<1> QED
  BY ZenonT(60), <1>1, <1>2, <1>3, <1>4, <1>5, <1>6, <1>7, SubscriberHeld, OutsideHeld DEF Next

(* HeldInv is what EscrowBacked asks. *)
LEMMA HeldIsBacked ==
    ASSUME LiveInv, HeldInv
    PROVE  EscrowBacked
<1>1. Main \in Actors
  BY DEF Actors
<1>2. pc[Main] \in Backing => copy[Main].hash = row.hash /\ pc[Main] \in Refunding
  BY ZenonT(60), <1>1 DEF LiveInv, Stands, StandsAs, Copied, Backing, Refunding
<1> QED
  BY Zenon, <1>1, <1>2 DEF LiveInv, Escrowed, HeldInv, EscrowBacked, Live

(* It holds at first. *)
LEMMA HeldInit ==
    ASSUME Init
    PROVE  HeldInv
<1>1. row.status = "pending" /\ row.hash = None
  BY DEF Init, Fresh
<1>2. /\ \A a \in Actors : pc[a] = "idle"
      /\ \A h \in Invoices : notes[h] = {}
  BY DEF Init
<1> QED
  BY <1>1, <1>2 DEF HeldInv, Live, Actors

(***************************************************************************)
(* Where solvers work over messages only and the daemon does not stop, an  *)
(* order that shows a live trade is backed (EscrowBacked): LND holds the   *)
(* seller's money (flow.rs, hold_invoice_paid), has settled it, or the     *)
(* handler that refunded it (cancel.rs, admin_cancel.rs) is about to write *)
(* the cancel, for any interleaving of the main loop with the subscribers, *)
(* LND and any number of its errors.                                       *)
(***************************************************************************)
THEOREM EscrowBackedHolds ==
    ASSUME {"cancel", "timeout", "deadline", "restart", "rpc"} \cap Events = {}
    PROVE  Spec => []EscrowBacked
<1>e. /\ LiveOnly /\ "rpc" \notin Events
      /\ {"cancel", "timeout", "deadline"} \cap Events = {}
      /\ {"cancel", "timeout"} \cap Events = {}
  BY DEF LiveOnly
<1>1. Init => PayInv /\ CancelInv /\ FlagsInv /\ LiveInv /\ HeldInv
  BY ZenonT(60), PayInit, CancelInit, FlagsInit, LiveInit, HeldInit
<1>2. TypeOK /\ PayInv /\ CancelInv /\ FlagsInv /\ LiveInv /\ HeldInv /\ [Next]_vars =>
         PayInv' /\ CancelInv' /\ FlagsInv' /\ LiveInv' /\ HeldInv'
  BY <1>e, PayNext, CancelNext, FlagsNext, LiveNext, HeldNext
<1>3. LiveInv /\ HeldInv => EscrowBacked
  BY HeldIsBacked
<1> QED
  BY <1>1, <1>2, <1>3, TypeCorrect, PTL DEF Spec
----------------------------------------------------------------------------
(***************************************************************************)
(* NoUnsentInvoice is inductive: LND creates an invoice for the main loop  *)
(* only, and what the main loop does next with it is to ask the seller to  *)
(* pay it or to cancel it.                                                 *)
(***************************************************************************)
Unsent == {"complete_take", "complete_invoice", "orphan"}

(* Everything else creates no invoice and leaves the take alone. *)
SentFrame ==
    /\ faults' = 0 => faults = 0
    /\ faults' = 0 => \A h \in Invoices : htlc'[h] = "created" => htlc[h] = "created"
    /\ faults' = 0 => pc[Main] \notin Unsent \/ (pc'[Main] = pc[Main] /\ copy'[Main] = copy[Main])

(* What SentFrame says keeps NoUnsentInvoice. *)
LEMMA SentFrameKeeps ==
    ASSUME NoUnsentInvoice, SentFrame
    PROVE  NoUnsentInvoice'
  BY ZenonT(60) DEF NoUnsentInvoice, SentFrame, Unsent

(* The steps of the handlers that SentFrame covers. *)
LEMMA StepFrame ==
    ASSUME TypeOK, NEW a \in Actors, a = Main => pc[Main] \notin Unsent
    PROVE  /\ \A r, step : Begin(a, r, step) => SentFrame
           /\ \A from, r, to : Store(a, from, r, to) => SentFrame
           /\ \A from, d, to : StoreDispute(a, from, d, to) => SentFrame
           /\ \A from, to : Refund(a, from, to) => SentFrame
           /\ \A from, to : Settle(a, from, to) => SentFrame
           /\ \A step : Goto(a, step) /\ UNCHANGED <<lnd, faults>> => SentFrame
           /\ \A step, r : Hold(a, r, step) /\ UNCHANGED <<htlc, faults>> => SentFrame
<1>1. /\ \A step : Goto(a, step) =>
            pc[Main] \notin Unsent \/ (pc'[Main] = pc[Main] /\ copy'[Main] = copy[Main])
      /\ \A step, r : Hold(a, r, step) =>
            pc[Main] \notin Unsent \/ (pc'[Main] = pc[Main] /\ copy'[Main] = copy[Main])
  BY ZenonT(60), GotoOthers, HoldOthers DEF Actors
<1>2. copy[a].hash \in Invoices \cup {None}
  BY Zenon, RowType DEF TypeOK
<1>3. ASSUME NEW h \in Invoices, NEW s \in {"accepted", "settled", "canceled"}, Move(h, s)
      PROVE  \A i \in Invoices : htlc'[i] = "created" => htlc[i] = "created"
  BY <1>3 DEF Move, TypeOK
<1>4. ASSUME NEW from, NEW to, Refund(a, from, to)
      PROVE  SentFrame
  <2>1. \A i \in Invoices : htlc'[i] = "created" => htlc[i] = "created"
    BY <1>2, <1>3, <1>4 DEF Refund, lnd
  <2> QED
    BY ZenonT(60), <1>1, <1>4, <2>1 DEF Refund, SentFrame, rest
<1>5. ASSUME NEW from, NEW to, Settle(a, from, to)
      PROVE  SentFrame
  <2>1. \A i \in Invoices : htlc'[i] = "created" => htlc[i] = "created"
    BY <1>2, <1>3, <1>5 DEF Settle, lnd
  <2> QED
    BY ZenonT(60), <1>1, <1>5, <2>1 DEF Settle, SentFrame, rest
<1>6. /\ \A r, step : Begin(a, r, step) => SentFrame
      /\ \A from, r, to : Store(a, from, r, to) => SentFrame
      /\ \A from, d, to : StoreDispute(a, from, d, to) => SentFrame
      /\ \A step : Goto(a, step) /\ UNCHANGED <<lnd, faults>> => SentFrame
      /\ \A step, r : Hold(a, r, step) /\ UNCHANGED <<htlc, faults>> => SentFrame
  BY Zenon, <1>1 DEF Begin, Store, StoreDispute, SentFrame, lnd, rest
<1> QED
  BY <1>4, <1>5, <1>6

(* The same, by the step a handler is at. *)
LEMMA SentSteps ==
    ASSUME TypeOK, NEW a \in Actors
    PROVE  /\ \A r, step : Begin(a, r, step) => SentFrame
           /\ \A from, r, to : from \notin Unsent /\ Store(a, from, r, to) => SentFrame
           /\ \A from, d, to : from \notin Unsent /\ StoreDispute(a, from, d, to) => SentFrame
           /\ \A from, to : from \notin Unsent /\ Refund(a, from, to) => SentFrame
           /\ \A from, to : from \notin Unsent /\ Settle(a, from, to) => SentFrame
           /\ \A step : pc[a] \notin Unsent /\ Goto(a, step) /\ UNCHANGED <<lnd, faults>> =>
                 SentFrame
           /\ \A step, r : pc[a] \notin Unsent /\ Hold(a, r, step)
                              /\ UNCHANGED <<htlc, faults>> => SentFrame
<1>1. CASE a = Main => pc[Main] \notin Unsent
  BY <1>1, StepFrame
<1>2. CASE pc[a] \in Unsent
  BY Zenon, <1>2 DEF Begin, Store, StoreDispute, Refund, Settle, Unsent
<1> QED
  BY ZenonT(60), <1>1, <1>2

(* The handlers of the main loop. *)
LEMMA MainSent ==
    ASSUME TypeOK, NoUnsentInvoice, MainStep
    PROVE  NoUnsentInvoice'
<1>m. Main \in Actors
  BY DEF Actors
<1>1. CASE \/ take_buy_action
           \/ take_sell_action
           \/ add_invoice_action
           \/ fiat_sent_action
  BY <1>m, <1>1, SentSteps, SentFrameKeeps
  DEF take_buy_action, take_sell_action, add_invoice_action, fiat_sent_action, Update, Unsent
<1>2. CASE release_action
  BY <1>m, <1>2, SentSteps, SentFrameKeeps DEF release_action, CommitSettled, Unsent
<1>3. CASE \/ cancel_pending_order_from_maker
           \/ cancel_order_by_maker
           \/ cancel_order_by_taker
  BY <1>m, <1>3, SentSteps, SentFrameKeeps
  DEF cancel_pending_order_from_maker, cancel_order_by_maker, cancel_order_by_taker, Update,
      Unsent
<1>4. CASE cancel_active_order
  BY Zenon, <1>m, <1>4, SentSteps, SentFrameKeeps
  DEF cancel_active_order, cancel_cooperative_execution_step_1,
      cancel_cooperative_execution_step_2, Update, Unsent
<1>5. CASE dispute_action
  BY Zenon, <1>m, <1>5, SentSteps, SentFrameKeeps DEF dispute_action, Unsent, lnd, rest
<1>6. CASE do_payment(Main)
  BY Zenon, <1>m, <1>6, SentSteps, SentFrameKeeps DEF do_payment, Unsent
<1>7. CASE show_hold_invoice
  <2>1. ASSUME NEW from, NEW to \in {"complete_take", "complete_invoice"},
               create_hold_invoice(from, to), from \notin Unsent
        PROVE  NoUnsentInvoice'
    <3>1. PICK h \in Invoices : /\ htlc' = [htlc EXCEPT ![h] = "created"]
                                /\ Hold(Main, [copy[Main] EXCEPT !.hash = h,
                                                                 !.status = "waiting-payment"], to)
      BY Zenon, <2>1 DEF create_hold_invoice
    <3>2. pc'[Main] = to /\ copy'[Main].hash = h
      <4>1. /\ pc'[Main] = to
            /\ copy'[Main] = [copy[Main] EXCEPT !.hash = h, !.status = "waiting-payment"]
        BY ZenonT(60), <1>m, <3>1, HoldOthers
      <4>2. copy[Main] \in Rows
        BY <1>m DEF TypeOK
      <4>3. [copy[Main] EXCEPT !.hash = h, !.status = "waiting-payment"].hash = h
        BY <4>2 DEF Rows
      <4> QED
        BY <4>1, <4>3
    <3>3. pc[Main] \notin Unsent /\ faults' = faults
      BY <2>1 DEF create_hold_invoice, rest
    <3>4. \A i \in Invoices : i # h => htlc'[i] = htlc[i]
      BY <3>1 DEF TypeOK
    <3> QED
      BY <3>2, <3>3, <3>4 DEF NoUnsentInvoice, Unsent
  <2>2. ASSUME NEW from, NEW statuses, cas_complete_pretrade_take(from, statuses)
        PROVE  NoUnsentInvoice'
    <3>1. faults' = faults
      BY Zenon, <2>2 DEF cas_complete_pretrade_take, rest
    <3>2. CASE UNCHANGED htlc /\ Goto(Main, "orphan")
      <4>1. pc'[Main] = "orphan" /\ copy'[Main] = copy[Main]
        BY Zenon, <1>m, <3>2, GotoOthers
      <4> QED
        BY Zenon, <3>1, <3>2, <4>1 DEF NoUnsentInvoice
    <3>3. CASE /\ Goto(Main, "idle")
               /\ IF copy[Main].hash # None /\ htlc[copy[Main].hash] = "created"
                  THEN htlc' = [htlc EXCEPT ![copy[Main].hash] = "open"]
                  ELSE UNCHANGED htlc
      <4>1. copy[Main].hash \in Invoices \cup {None}
        BY ZenonT(60), <1>m, RowType DEF TypeOK
      <4>2. \A i \in Invoices : htlc'[i] = "created" => htlc[i] = "created" /\ i # copy[Main].hash
        BY <3>3, <4>1, TradeAssumption DEF TypeOK
      <4> QED
        BY <3>1, <4>2 DEF NoUnsentInvoice
    <3> QED
      BY <2>2, <3>2, <3>3 DEF cas_complete_pretrade_take
  <2>3. ASSUME Refund(Main, "orphan", "idle")
        PROVE  NoUnsentInvoice'
    <3>1. copy[Main].hash \in Invoices \cup {None} /\ faults' = faults
      <4>1. copy[Main].hash \in Invoices \cup {None}
        BY ZenonT(60), <1>m, RowType DEF TypeOK
      <4> QED
        BY Zenon, <2>3, <4>1 DEF Refund, rest
    <3>2. \A i \in Invoices : htlc'[i] = "created" => htlc[i] = "created" /\ i # copy[Main].hash
      BY <2>3, <3>1, TradeAssumption DEF Refund, Move, lnd, TypeOK
    <3> QED
      BY <3>1, <3>2 DEF NoUnsentInvoice
  <2>4. {"create_take", "create_invoice"} \cap Unsent = {}
    BY DEF Unsent
  <2> QED
    BY ZenonT(60), <1>7, <2>1, <2>2, <2>3, <2>4 DEF show_hold_invoice
<1> QED
  BY <1>1, <1>2, <1>3, <1>4, <1>5, <1>6, <1>7 DEF MainStep

(* Solvers, the RPC server, the subscribers and the jobs. *)
LEMMA OthersSent ==
    ASSUME TypeOK, NoUnsentInvoice,
           \/ \E a \in Admins : AdminStep(a)
           \/ do_payment(Rpc)
           \/ \E h \in Invoices : hold_invoice_paid(h) \/ hold_invoice_canceled(h)
           \/ job_cancel_orders
           \/ enforce_escrow_deadline_pass
    PROVE  NoUnsentInvoice'
<1>m. /\ Admins \subseteq Actors /\ Rpc \in Actors /\ Timer \in Actors /\ Guardian \in Actors
      /\ Invoices \subseteq Actors
  BY DEF Admins, Actors
<1>1. ASSUME NEW a \in Admins, AdminStep(a) PROVE NoUnsentInvoice'
  <2>1. a \in Actors
    BY Zenon, <1>m
  <2>2. CASE admin_take_dispute_action(a)
    BY <2>1, <2>2, SentSteps, SentFrameKeeps DEF admin_take_dispute_action, Unsent, rest
  <2>3. CASE admin_settle_action(a)
    BY <2>1, <2>3, SentSteps, SentFrameKeeps DEF admin_settle_action, CommitSettled, Unsent
  <2>4. CASE admin_cancel_action(a)
    BY <2>1, <2>4, SentSteps, SentFrameKeeps DEF admin_cancel_action, Update, Unsent
  <2> QED
    BY <1>1, <2>2, <2>3, <2>4 DEF AdminStep
<1>2. CASE do_payment(Rpc)
  BY Zenon, <1>m, <1>2, SentSteps, SentFrameKeeps DEF do_payment, Unsent
<1>3. ASSUME NEW h \in Invoices, hold_invoice_paid(h) \/ hold_invoice_canceled(h)
      PROVE  NoUnsentInvoice'
  <2>1. h \in Actors
    BY <1>m
  <2>2. ASSUME NEW s, NEW guard, NEW to, Handle(h, s, guard, to) PROVE SentFrame
    <3>1. CASE UNCHANGED <<copy, pc>>
      BY Zenon, <2>2, <3>1 DEF Handle, SentFrame, rest
    <3>2. CASE Hold(h, row, to)
      BY Zenon, <2>1, <2>2, <3>2, SentSteps DEF Handle, rest, Unsent
    <3> QED
      BY ZenonT(60), <2>2, <3>1, <3>2 DEF Handle
  <2> QED
    BY <1>3, <2>1, <2>2, SentSteps, SentFrameKeeps
    DEF hold_invoice_paid, hold_invoice_canceled, Update, Unsent
<1>4. CASE job_cancel_orders
  BY <1>m, <1>4, SentSteps, SentFrameKeeps DEF job_cancel_orders, Unsent, lnd, rest
<1>5. CASE enforce_escrow_deadline_pass
  BY <1>m, <1>5, SentSteps, SentFrameKeeps
  DEF enforce_escrow_deadline_pass, OpenDispute, FlipToDispute, Update, Unsent, rest
<1> QED
  BY <1>1, <1>2, <1>3, <1>4, <1>5

(***************************************************************************)
(* For any number of hold invoices and every event of the model, unless a  *)
(* call to LND failed or the daemon stopped, an invoice show_hold_invoice  *)
(* created and did not send is in the hands of the take that created it: a *)
(* lost cas_complete_pretrade_take cancels it (util.rs:1606-1614).         *)
(***************************************************************************)
THEOREM NoUnsentInvoiceHolds == Spec => []NoUnsentInvoice
<1>1. Init => NoUnsentInvoice
  BY DEF Init, NoUnsentInvoice
<1>2. TypeOK /\ NoUnsentInvoice /\ [Next]_vars => NoUnsentInvoice'
  <2> SUFFICES ASSUME TypeOK, NoUnsentInvoice, [Next]_vars PROVE NoUnsentInvoice'
    OBVIOUS
  <2>1. ASSUME NEW h \in Invoices,
               SellerPays(h) \/ InvoiceExpires(h) \/ Ages(h) \/ EscrowExpires(h)
        PROVE  NoUnsentInvoice'
    <3>1. UNCHANGED <<pc, copy, faults>>
      BY Zenon, <2>1 DEF SellerPays, InvoiceExpires, Ages, EscrowExpires, rest
    <3>2. \A i \in Invoices : htlc'[i] = "created" => htlc[i] = "created"
      BY <2>1 DEF SellerPays, InvoiceExpires, Ages, EscrowExpires, Move, TypeOK
    <3> QED
      BY <3>1, <3>2 DEF NoUnsentInvoice
  <2>2. ASSUME \/ \E a \in Actors : LndError(a)
               \/ ProbeError
               \/ Restart
        PROVE  NoUnsentInvoice'
    <3>1. faults' = faults + 1
      BY ZenonT(60), <2>2 DEF LndError, ProbeError, Restart
    <3>2. faults \in Nat
      BY TradeAssumption DEF TypeOK
    <3> QED
      BY <3>1, <3>2 DEF NoUnsentInvoice
  <2>3. CASE UNCHANGED vars
    BY <2>3 DEF NoUnsentInvoice, vars, lnd, rest
  <2> QED
    BY <2>1, <2>2, <2>3, MainSent, OthersSent DEF Next
<1> QED
  BY <1>1, <1>2, TypeCorrect, PTL DEF Spec
============================================================================
