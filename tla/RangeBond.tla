------------------------------ MODULE RangeBond ------------------------------
(***************************************************************************)
(* The maker bond of a range order: src/src/app/bond/slash.rs, the hooks   *)
(* that call it (release, cancel, admin settle and cancel, the timeout and *)
(* expiry jobs, the reconciliation sweep) and the bonds table it shares    *)
(* with the payout job of src/src/app/bond/payout.rs.                      *)
(*                                                                         *)
(* One hold invoice backs every slice of the range.  A slice's slash is a  *)
(* child row; the hold invoice is settled once, when the range closes, and *)
(* what no slice consumed is a refund row.  Slices are taken one after the *)
(* other: the release of a slice creates the next one.  Every SQL          *)
(* statement and every LND call is one step.  The trade itself is Trade's  *)
(* subject and is reduced here to the status column; how a row is paid is  *)
(* BondPayout's.                                                           *)
(***************************************************************************)
EXTENDS Integers, FiniteSetsExt

CONSTANTS
  Slices,     \* 1..n: the range root and the remainders it may be split into
  Fiat,       \* fiat_amount each slice is taken for
  MaxFiat,    \* max_amount of the root
  Amount,     \* amount_sats of the maker bond
  Actors,     \* which of the concurrent workers below run
  FaultKinds, \* which of "crash", "lnd", "db", "cltv" may happen
  MaxFaults   \* bound: how many of them

Admins == {"main", "rpc"}
Workers == Admins \cup {"timeout", "expirer", "sweep", "subscriber"}

ASSUME RangeAssumption ==
  /\ Slices \in SUBSET (Nat \ {0}) /\ 1 \in Slices
  /\ \A s \in Slices : Fiat[s] \in Nat \ {0}
  /\ MaxFiat \in Nat \ {0} /\ Amount \in Nat \ {0}
  /\ Actors \subseteq Workers
  /\ FaultKinds \subseteq {"crash", "lnd", "db", "cltv"}
  /\ MaxFaults \in Nat

VARIABLES
  status,      \* status column of each slice's order row
  parent,      \* state column of the maker bond
  share,       \* slashed_share_sats of the maker bond
  htlc,        \* LND's view of its hold invoice
  row, amount, \* state and amount_sats of the child rows (Refund: the remainder)
  job,         \* per worker: its step, its slice, the slashed_share_sats it read
  faults

orders == <<status>>
bond == <<parent, share>>
rows == <<row, amount>>
vars == <<status, parent, share, htlc, row, amount, job, faults>>

Refund == 0
Rows == Slices \cup {Refund}
Open == {"pending", "waiting", "active", "dispute"}
Steps == {"idle", "persist", "persist_slash", "settle", "settle_slash", "remainder",
          "resolve", "insert", "total", "close", "close_cancel", "write",
          "close_settle", "transaction"}

(* The state has its shape.                                                 *)
TypeOK ==
  /\ status \in [Slices -> {"none", "settled", "done"} \cup Open]
  /\ parent \in {"locked", "released", "slashed"}
  /\ share \in Nat
  /\ htlc \in {"held", "settled", "canceled"}
  /\ row \in [Rows -> {"none", "pending-payout", "slashed"}]
  /\ amount \in [Rows -> Nat]
  /\ job \in [Workers -> [step : Steps, slice : Slices, seen : Nat]]
  /\ faults \in 0..MaxFaults

Resting == [step |-> "idle", slice |-> 1, seen |-> 0]

(* The root has just been published with its maker bond locked.             *)
Init ==
  /\ status = [s \in Slices |-> IF s = 1 THEN "pending" ELSE "none"]
  /\ parent = "locked" /\ share = 0 /\ htlc = "held"
  /\ row = [r \in Rows |-> "none"]
  /\ amount = [r \in Rows |-> 0]
  /\ job = [w \in Workers |-> Resting]
  /\ faults = 0

Fault(kind) ==
  /\ kind \in FaultKinds
  /\ faults < MaxFaults
  /\ faults' = faults + 1
At(w, step) == job[w].step = step
Idle(w) == At(w, "idle")
GotoWith(w, step, seen) ==
  job' = [job EXCEPT ![w] = IF step = "idle" THEN Resting
                            ELSE [step |-> step, slice |-> @.slice, seen |-> seen]]
Goto(w, step) == GotoWith(w, step, 0)
Start(w, s, step) ==
  /\ w \in Actors /\ Idle(w)
  /\ job' = [job EXCEPT ![w] = [step |-> step, slice |-> s, seen |-> 0]]
SetStatus(s, new) == status' = [status EXCEPT ![s] = new]

(* SUM(amount_sats) over the slice children; the refund row is excluded.    *)
Slashed == MapThenSumSet(LAMBDA s : amount[s], Slices)
find_child_slashes_for_parent == {s \in Slices : row[s] # "none"}
range_tree_fully_terminal == \A s \in Slices : status[s] \in {"none", "done"}

-----------------------------------------------------------------------------
(* The life of a slice, as far as the maker bond can tell.                  *)

Advance(s, from, new) ==
  /\ status[s] = from
  /\ SetStatus(s, new)
  /\ UNCHANGED <<bond, htlc, rows, job, faults>>

take_sell_action(s) == Idle("main") /\ Advance(s, "pending", "waiting")
hold_invoice_paid(s) == Advance(s, "waiting", "active")
dispute_action(s) == Idle("main") /\ Advance(s, "active", "dispute")
(* The taker is responsible: the order returns to the book, the maker bond  *)
(* is retained.                                                             *)
order_republishes_on_timeout(s) == Idle("timeout") /\ Advance(s, "waiting", "pending")
(* The buyer is paid after the handler that settled the escrow is through   *)
(* with the bond.                                                           *)
payment_success(s) ==
  /\ \A w \in Admins : Idle(w) \/ job[w].slice # s
  /\ Advance(s, "settled", "done")

-----------------------------------------------------------------------------
(* Entry points.  Each reads the order, checks it, and writes it in a later *)
(* step.                                                                    *)

Entry == UNCHANGED <<orders, bond, htlc, rows, faults>>

(* cancel_order_by_maker and the cooperative cancel.                        *)
cancel_order_by_maker(s) ==
  /\ status[s] \in {"waiting", "active"}
  /\ Start("main", s, "persist")
  /\ Entry

(* A pending order is canceled by compare-and-swap.                         *)
cancel_pending_order_from_maker(s) ==
  /\ status[s] = "pending"
  /\ Start("main", s, "close")
  /\ SetStatus(s, "done")
  /\ UNCHANGED <<bond, htlc, rows, faults>>

job_expire_pending_older_orders(s) ==
  /\ status[s] = "pending"
  /\ Start("expirer", s, "persist")
  /\ Entry

(* A slash is refused unless the maker bond is locked.                      *)
validate_bond_resolution(slash) == slash => parent = "locked"

admin_cancel_action(w, s, slash) ==
  /\ w \in Admins
  /\ status[s] = "dispute"
  /\ validate_bond_resolution(slash)
  /\ Start(w, s, IF slash THEN "persist_slash" ELSE "persist")
  /\ Entry

admin_settle_action(w, s, slash) ==
  /\ w \in Admins
  /\ status[s] = "dispute"
  /\ validate_bond_resolution(slash)
  /\ Start(w, s, IF slash THEN "settle_slash" ELSE "settle")
  /\ Entry

(* release_action: the compare-and-swap to settled-hold-invoice, then the   *)
(* remainder.                                                               *)
release_action(s) ==
  /\ status[s] \in {"active", "dispute"}
  /\ Start("main", s, "remainder")
  /\ SetStatus(s, "settled")
  /\ UNCHANGED <<bond, htlc, rows, faults>>

(* job_cancel_orders on a waiting order the maker is responsible for: the   *)
(* bond is slashed before the order is written.                             *)
reconfirm_timeout_eligibility(s) ==
  /\ status[s] = "waiting"
  /\ Start("timeout", s, "resolve")
  /\ Entry

-----------------------------------------------------------------------------
(* Writing the order.                                                       *)

(* A full-row update, whatever the row says by now.                         *)
persist(w) ==
  /\ job[w].step \in {"persist", "persist_slash"}
  /\ SetStatus(job[w].slice, "done")
  /\ Goto(w, IF At(w, "persist") THEN "close" ELSE "resolve")
  /\ UNCHANGED <<bond, htlc, rows, faults>>

(* The timeout job could not publish or write the order: it stays eligible. *)
persist_fails ==
  /\ At("timeout", "persist")
  /\ Fault("db")
  /\ Goto("timeout", "idle")
  /\ UNCHANGED <<orders, bond, htlc, rows>>

settle_persist(w) ==
  /\ job[w].step \in {"settle", "settle_slash"}
  /\ IF status[job[w].slice] = "dispute"
     THEN /\ SetStatus(job[w].slice, "settled")
          /\ Goto(w, IF At(w, "settle") THEN "close" ELSE "resolve")
     ELSE /\ Goto(w, "idle")
          /\ UNCHANGED status
  /\ UNCHANGED <<bond, htlc, rows, faults>>

(* The child order takes what is left of the range and the maker stays      *)
(* committed; without a child the range is over.                            *)
handle_child_order ==
  LET next == job["main"].slice + 1 IN
  /\ At("main", "remainder")
  /\ \/ /\ next \in Slices /\ status[next] = "none"
        /\ SetStatus(next, "pending")
        /\ Goto("main", "idle")
     \/ /\ Goto("main", "close")
        /\ UNCHANGED status
  /\ UNCHANGED <<bond, htlc, rows, faults>>

-----------------------------------------------------------------------------
(* record_maker_slice_slash.                                                *)

AfterSlash(w) == IF w = "timeout" THEN "persist" ELSE "close"

(* The maker bond as this worker read it, if it is still locked.            *)
resolve_slash_target(w) ==
  /\ At(w, "resolve")
  /\ IF parent = "locked" THEN GotoWith(w, "insert", share) ELSE Goto(w, AfterSlash(w))
  /\ UNCHANGED <<orders, bond, htlc, rows, faults>>

(* amount_sats * fiat_amount / max_amount, rounded half up, and no more     *)
(* than the running total leaves.                                           *)
slash_amount(s, slashed) ==
  Min({(2 * Amount * Fiat[s] + MaxFiat) \div (2 * MaxFiat), Max({Amount - slashed, 0})})

Insert(w, s, guard) ==
  IF slash_amount(s, job[w].seen) > 0 /\ guard
  THEN /\ row' = [row EXCEPT ![s] = "pending-payout"]
       /\ amount' = [amount EXCEPT ![s] = slash_amount(s, job[w].seen)]
       /\ Goto(w, "total")
  ELSE /\ Goto(w, AfterSlash(w))
       /\ UNCHANGED rows

\* mutant: the insert does not ask whether the parent is still locked
InsertUnguarded(w) ==
  /\ At(w, "insert")
  /\ Insert(w, job[w].slice, row[job[w].slice] = "none")
  /\ UNCHANGED <<orders, bond, htlc, faults>>

record_maker_slice_slash(w) ==
  /\ At(w, "insert")
  /\ Insert(w, job[w].slice, row[job[w].slice] = "none" /\ parent = "locked")
  /\ UNCHANGED <<orders, bond, htlc, faults>>

slashed_share_sats(w) ==
  /\ At(w, "total")
  /\ share' = IF parent = "locked" THEN Slashed ELSE share
  /\ Goto(w, AfterSlash(w))
  /\ UNCHANGED <<orders, parent, htlc, rows, faults>>

-----------------------------------------------------------------------------
(* resolve_range_maker_bond_at_close.                                       *)

(* The parent and its children are read; only a locked parent is acted on.  *)
close(w) ==
  /\ At(w, "close")
  /\ Goto(w, IF parent # "locked" THEN "idle"
             ELSE IF find_child_slashes_for_parent = {} THEN "close_cancel"
             ELSE "close_settle")
  /\ UNCHANGED <<orders, bond, htlc, rows, faults>>

\* mutant: release_bond takes every cancel error for an invoice already gone
AnyCancelError(w) ==
  /\ At(w, "close_cancel")
  /\ htlc' = IF htlc = "held" THEN "canceled" ELSE htlc
  /\ Goto(w, "write")
  /\ UNCHANGED <<orders, bond, rows, faults>>

(* release_bond: a canceled invoice is already done, a settled one is an    *)
(* error that leaves the row as it is.                                      *)
cancel_hold_invoice(w) ==
  /\ At(w, "close_cancel")
  /\ htlc' = IF htlc = "held" THEN "canceled" ELSE htlc
  /\ Goto(w, IF htlc = "settled" THEN "idle" ELSE "write")
  /\ UNCHANGED <<orders, bond, rows, faults>>

(* release_bond writes Released over the row.                               *)
release_bond(w) ==
  /\ At(w, "write")
  /\ parent' = "released"
  /\ Goto(w, "idle")
  /\ UNCHANGED <<orders, share, htlc, rows, faults>>

(* An invoice that is settled already counts as settled; a canceled one is  *)
(* an error that leaves the parent locked.                                  *)
settle_hold_invoice(w) ==
  /\ At(w, "close_settle")
  /\ htlc' = IF htlc = "held" THEN "settled" ELSE htlc
  /\ Goto(w, IF htlc = "canceled" THEN "idle" ELSE "transaction")
  /\ UNCHANGED <<orders, bond, rows, faults>>

lnd_error(w) ==
  /\ job[w].step \in {"close_cancel", "close_settle"}
  /\ Fault("lnd")
  /\ Goto(w, "idle")
  /\ UNCHANGED <<orders, bond, htlc, rows>>

RefundRow(total) ==
  IF Amount > total
  THEN /\ row' = [row EXCEPT ![Refund] = "pending-payout"]
       /\ amount' = [amount EXCEPT ![Refund] = Amount - total]
  ELSE UNCHANGED rows

(* One transaction: the compare-and-swap of the parent, the children's sum  *)
(* read again, and the refund row.                                          *)
close_transaction(w) ==
  /\ At(w, "transaction")
  /\ IF parent = "locked"
     THEN parent' = "slashed" /\ RefundRow(Slashed)
     ELSE UNCHANGED <<parent, rows>>
  /\ Goto(w, "idle")
  /\ UNCHANGED <<orders, share, htlc, faults>>

\* mutant: the sweep only looks at ranges that recorded a slash
SweepSlashedOnly ==
  /\ parent = "locked"
  /\ range_tree_fully_terminal /\ share > 0
  /\ Start("sweep", 1, "close")
  /\ Entry

(* reconcile_stranded_range_maker_bonds: a parent still locked although the *)
(* whole range is terminal is closed for the root.                          *)
reconcile_stranded_range_maker_bonds ==
  /\ parent = "locked"
  /\ range_tree_fully_terminal
  /\ Start("sweep", 1, "close")
  /\ Entry

(* on_bond_invoice_canceled, from the subscription LND keeps for the bond.  *)
on_bond_invoice_canceled ==
  /\ htlc = "canceled" /\ parent = "locked"
  /\ Start("subscriber", 1, "write")
  /\ Entry

(* The payout job pays a row once its parent is no longer locked.           *)
process_one_bond(r) ==
  /\ row[r] = "pending-payout"
  /\ parent # "locked"
  /\ row' = [row EXCEPT ![r] = "slashed"]
  /\ UNCHANGED <<orders, bond, htlc, amount, job, faults>>

(* The daemon stops: every worker forgets where it was.                     *)
crash ==
  /\ Fault("crash")
  /\ job' = [w \in Workers |-> Resting]
  /\ UNCHANGED <<orders, bond, htlc, rows>>

(* LND cancels a hold invoice whose CLTV expiry is near.                    *)
cltv_expiry ==
  /\ htlc = "held"
  /\ Fault("cltv")
  /\ htlc' = "canceled"
  /\ UNCHANGED <<orders, bond, rows, job>>

-----------------------------------------------------------------------------
Trading ==
  \E s \in Slices :
    take_sell_action(s) \/ hold_invoice_paid(s) \/ dispute_action(s)
    \/ order_republishes_on_timeout(s) \/ payment_success(s)

Hooks ==
  \E s \in Slices :
    \/ cancel_order_by_maker(s) \/ cancel_pending_order_from_maker(s)
    \/ job_expire_pending_older_orders(s) \/ release_action(s)
    \/ reconfirm_timeout_eligibility(s)
    \/ \E w \in Admins, slash \in BOOLEAN :
         admin_cancel_action(w, s, slash) \/ admin_settle_action(w, s, slash)

Writing(w) == persist(w) \/ settle_persist(w)
Slashing(w) == resolve_slash_target(w) \/ record_maker_slice_slash(w) \/ slashed_share_sats(w)
Closing(w) ==
  close(w) \/ cancel_hold_invoice(w) \/ release_bond(w) \/ settle_hold_invoice(w)
  \/ close_transaction(w)

Next ==
  \/ Trading \/ Hooks \/ handle_child_order
  \/ \E w \in Workers : Writing(w) \/ Slashing(w) \/ Closing(w) \/ lnd_error(w)
  \/ reconcile_stranded_range_maker_bonds \/ on_bond_invoice_canceled
  \/ \E r \in Rows : process_one_bond(r)
  \/ persist_fails \/ crash \/ cltv_expiry

Spec == Init /\ [][Next]_vars

(* A handler that has started runs on; the sweep runs every five minutes,   *)
(* the payout job every minute, LND reports a canceled invoice.             *)
Fairness ==
  /\ \A w \in Workers : WF_vars(Writing(w) \/ Slashing(w) \/ Closing(w))
  /\ WF_vars(handle_child_order)
  /\ WF_vars(reconcile_stranded_range_maker_bonds)
  /\ WF_vars(on_bond_invoice_canceled)
  /\ \A r \in Rows : WF_vars(process_one_bond(r))

FairSpec == Spec /\ Fairness

-----------------------------------------------------------------------------
(* slash.rs, resolve_range_maker_bond_at_close: a range bond that was       *)
(* settled is distributed exactly - the slices' shares and the maker's      *)
(* refund add up to the hold invoice - even when a slice is slashed while   *)
(* the range is being closed, or two closes run at once.                    *)
ClosedExactly ==
  parent = "slashed" =>
    /\ htlc = "settled"
    /\ MapThenSumSet(LAMBDA r : amount[r], Rows) = Amount

(* release_bond writes the whole row blindly, from a copy read before its   *)
(* call to LND; it still never overwrites a bond that was settled and       *)
(* distributed.                                                             *)
SlashedIsFinal == [][parent = "slashed" => parent' = "slashed"]_vars

(* reconcile_stranded_range_maker_bonds: whatever failed on the way, a      *)
(* range that is over does not leave its maker bond locked.                 *)
RangeResolved == <>[]range_tree_fully_terminal => <>(parent # "locked")

(* payout.rs: "By the time this module sees a PendingPayout row, the sats   *)
(* are already in Mostro's wallet": a child row is paid only out of a       *)
(* settled hold invoice.                                                    *)
PaidIsBacked == \A r \in Rows : row[r] = "slashed" => htlc = "settled"
==============================================================================
