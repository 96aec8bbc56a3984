------------------------------ MODULE BondSlash ------------------------------
(***************************************************************************)
(* The inline slash and release of the two bonds of a fixed-amount order:  *)
(* apply_bond_resolution, slash_or_release_on_timeout and slash_one of     *)
(* src/src/app/bond/slash.rs, release_bond of src/src/app/bond/flow.rs and *)
(* the handlers and jobs that call them.  A bond's hold invoice is either  *)
(* settled and its row owed to the winner, or canceled and the row         *)
(* released.  Range orders are RangeBond's subject, the window in which a  *)
(* taker bond is locked is TakerBonds', the trade's own escrow Trade's.    *)
(* Every SQL statement and every LND call is one step.                     *)
(***************************************************************************)
EXTENDS Integers, FiniteSets

CONSTANTS
  From,       \* the status the order is in: "waiting" or "active"
  Actors,     \* which of the concurrent workers below run
  Armed,      \* the roles slash_on_waiting_timeout and apply_to cover
  FaultKinds, \* which of "crash", "lnd", "db", "relay", "cltv" may happen
  MaxFaults   \* bound: how many of them, each at most once

Bonds == {"maker", "taker"}
Admins == {"main", "rpc"}
Workers == Admins \cup {"timeout", "sweep", "subscriber"}

VARIABLES
  status,  \* status column of the order row
  duty,    \* whose turn it is in a waiting order
  bond,    \* state column of each bond row
  reason,  \* slashed_reason column
  htlc,    \* LND's view of each bond's hold invoice
  job,     \* per worker: the path it is on, its step and its lists of bonds
  told,    \* bonds whose owner was sent BondSlashed
  faults   \* the kinds of fault that happened

rows == <<bond, reason>>
vars == <<status, duty, bond, reason, htlc, job, told, faults>>

Steps == {"idle", "persist", "list", "slash", "mark", "confirm", "release", "write",
          "close", "close_cancel", "close_write"}
Paths == {"none", "admin_cancel", "admin_settle", "timeout", "release", "cancel",
          "withdraw", "taker_cancel"}

(* The state has its shape.                                                 *)
TypeOK ==
  /\ status \in {"waiting", "active", "dispute", "settled", "pending", "done"}
  /\ duty \in Bonds
  /\ bond \in [Bonds -> {"locked", "released", "pending-payout", "slashed"}]
  /\ reason \in [Bonds -> {"none", "lost-dispute", "timeout"}]
  /\ htlc \in [Bonds -> {"held", "settled", "canceled"}]
  /\ job \in [Workers -> [path : Paths, step : Steps, blamed : SUBSET Bonds,
                          slash : SUBSET Bonds, free : SUBSET Bonds, at : Bonds]]
  /\ told \subseteq Bonds
  /\ faults \subseteq FaultKinds

Resting ==
  [path |-> "none", step |-> "idle", blamed |-> {}, slash |-> {}, free |-> {}, at |-> "maker"]

(* The order is taken and both parties' bonds are locked.                   *)
Init ==
  /\ status = From /\ duty \in (IF From = "waiting" THEN Bonds ELSE {"taker"})
  /\ bond = [b \in Bonds |-> "locked"]
  /\ reason = [b \in Bonds |-> "none"]
  /\ htlc = [b \in Bonds |-> "held"]
  /\ job = [w \in Workers |-> Resting]
  /\ told = {} /\ faults = {}

Fault(kind) ==
  /\ kind \in FaultKinds \ faults
  /\ Cardinality(faults) < MaxFaults
  /\ faults' = faults \cup {kind}
At(w, step) == job[w].step = step
Locked == {b \in Bonds : bond[b] = "locked"}
Start(w, path, step, blamed) ==
  /\ w \in Actors /\ At(w, "idle")
  /\ job' = [job EXCEPT ![w] = [Resting EXCEPT !.path = path, !.step = step, !.blamed = blamed]]

(* Where a path goes once its list of bonds is dealt with, and once the     *)
(* maker bond is closed.                                                    *)
AfterList(path) ==
  CASE path \in {"timeout", "taker_cancel"} -> "persist"
    [] path = "release" -> "idle"
    [] OTHER -> "close"
AfterClose(path) == IF path = "release" THEN "list" ELSE "idle"

Goto(w, step) ==
  job' = [job EXCEPT ![w] =
            IF step = "idle" THEN Resting
            ELSE [Resting EXCEPT !.path = job[w].path, !.step = step, !.blamed = job[w].blamed]]
Turn(w, step, b) == job' = [job EXCEPT ![w].step = step, ![w].at = b]

(* The bonds still to be slashed come first, then those to be released.     *)
Work(w, slash, free) ==
  IF slash \cup free = {} THEN Goto(w, AfterList(job[w].path))
  ELSE job' = [job EXCEPT ![w] = [@ EXCEPT !.step = IF slash # {} THEN "slash" ELSE "release",
                                           !.slash = slash, !.free = free, !.at = "maker"]]

-----------------------------------------------------------------------------
(* The trade, as far as its bonds can tell.                                 *)

Advance(from, new) ==
  /\ status = from
  /\ status' = new
  /\ UNCHANGED <<rows, htlc, job, told, faults>>

(* One party does its part of a waiting order; the other's turn may follow. *)
hold_invoice_paid ==
  /\ \/ Advance("waiting", "waiting") /\ duty' \in Bonds \ {duty}
     \/ Advance("waiting", "active") /\ UNCHANGED duty
dispute_action ==
  /\ "rpc" \in Actors /\ At("main", "idle")
  /\ /\ Advance("active", "dispute") /\ UNCHANGED duty
payment_success ==
  /\ \A w \in Admins : At(w, "idle")
  /\ Advance("settled", "done")
  /\ UNCHANGED duty

-----------------------------------------------------------------------------
(* Entry points.  Each reads the order and checks it.                       *)

Entry == UNCHANGED <<status, duty, rows, htlc, told, faults>>

(* cancel_order_by_maker, the cooperative cancel and, once the order is     *)
(* back on the book, cancel_pending_order_from_maker.                       *)
cancel_action ==
  /\ status \in {"waiting", "active", "pending"}
  /\ Start("main", IF status = "pending" THEN "withdraw" ELSE "cancel", "persist", {})
  /\ Entry

(* The taker backs out of a waiting order, which returns to the book.       *)
cancel_order_by_taker ==
  /\ status = "waiting"
  /\ Start("main", "taker_cancel", "list", {})
  /\ Entry

release_action ==
  /\ status \in {"active", "dispute"}
  /\ Start("main", "release", "close", {})
  /\ status' = "settled"
  /\ UNCHANGED <<duty, rows, htlc, told, faults>>

(* A side that is to be slashed must have a locked bond.                    *)
validate_bond_resolution(blamed) == blamed \subseteq Locked

admin_action(w, path, blamed) ==
  /\ w \in Admins
  /\ status = "dispute"
  /\ validate_bond_resolution(blamed)
  /\ Start(w, path, "persist", blamed)
  /\ Entry

(* job_cancel_orders on a fresh read of an overdue order.                   *)
job_cancel_orders ==
  /\ status = "waiting"
  /\ Start("timeout", "timeout", "list", {duty})
  /\ Entry

(* The reconciliation sweep closes a maker bond whose order is over.        *)
reconcile_stranded_range_maker_bonds ==
  /\ status = "done" /\ bond["maker"] = "locked"
  /\ Start("sweep", "cancel", "close", {})
  /\ Entry

(* on_bond_invoice_canceled, from the subscription LND keeps for the bond.  *)
on_bond_invoice_canceled(b) ==
  /\ htlc[b] = "canceled" /\ bond[b] = "locked"
  /\ "subscriber" \in Actors /\ At("subscriber", "idle")
  /\ job' = [job EXCEPT !["subscriber"] =
               [Resting EXCEPT !.path = "release", !.step = "write", !.free = {b}, !.at = b]]
  /\ Entry

-----------------------------------------------------------------------------
(* order_republishes_on_timeout: the taker is responsible, or has left.     *)
Republishes(w) ==
  job[w].path = "taker_cancel" \/ (job[w].path = "timeout" /\ job[w].blamed = {"taker"})

(* A full-row write of the new status; admin_settle_action's is conditional *)
(* on the dispute.                                                          *)
persist(w) ==
  /\ At(w, "persist")
  /\ IF job[w].path = "admin_settle" /\ status # "dispute"
     THEN Goto(w, "idle") /\ UNCHANGED status
     ELSE /\ status' = CASE job[w].path = "admin_settle" -> "settled"
                         [] Republishes(w) -> "pending"
                         [] OTHER -> "done"
          /\ Goto(w, CASE Republishes(w) -> "idle"
                       [] job[w].path = "timeout" -> "close"
                       [] OTHER -> "list")
  /\ UNCHANGED <<duty, rows, htlc, told, faults>>

Targets(w) ==
  job[w].blamed \cap Locked \cap (IF job[w].path = "timeout" THEN Armed ELSE Bonds)

(* find_active_bonds_for_order: the blamed bonds that are still locked are  *)
(* slashed, the others released; the maker's is kept when it is closed      *)
(* elsewhere or the order returns to the book.                              *)
find_active_bonds_for_order(w) ==
  LET kept == IF job[w].path \in {"release", "cancel", "withdraw"} \/ Republishes(w) THEN {"maker"} ELSE {}
  IN /\ At(w, "list")
     /\ Work(w, Targets(w), Locked \ (Targets(w) \cup kept))
     /\ UNCHANGED <<status, duty, rows, htlc, told, faults>>

\* mutant: a hold invoice that is settled already is an error like any other
SettledIsError(w, b) ==
  /\ At(w, "slash") /\ b \in job[w].slash
  /\ htlc' = [htlc EXCEPT ![b] = IF @ = "held" THEN "settled" ELSE @]
  /\ IF htlc[b] # "held" THEN Turn(w, "confirm", b) ELSE Turn(w, "mark", b)
  /\ UNCHANGED <<status, duty, rows, told, faults>>

(* slash_one: settle first.  An invoice that is settled already will do, a  *)
(* canceled one leaves the row as it is.                                    *)
settle_hold_invoice(w, b) ==
  /\ At(w, "slash") /\ b \in job[w].slash
  /\ htlc' = [htlc EXCEPT ![b] = IF @ = "held" THEN "settled" ELSE @]
  /\ IF htlc[b] = "canceled" THEN Turn(w, "confirm", b) ELSE Turn(w, "mark", b)
  /\ UNCHANGED <<status, duty, rows, told, faults>>

settle_fails(w, b) ==
  /\ At(w, "slash") /\ b \in job[w].slash
  /\ Fault("lnd")
  /\ Turn(w, "confirm", b)
  /\ UNCHANGED <<status, duty, rows, htlc, told>>

Reason(w) == IF job[w].path = "timeout" THEN "timeout" ELSE "lost-dispute"

(* The compare-and-swap Locked -> PendingPayout.                            *)
slash_one(w) ==
  LET b == job[w].at IN
  /\ At(w, "mark")
  /\ IF bond[b] = "locked"
     THEN /\ bond' = [bond EXCEPT ![b] = "pending-payout"]
          /\ reason' = [reason EXCEPT ![b] = Reason(w)]
     ELSE UNCHANGED rows
  /\ Turn(w, "confirm", job[w].at)
  /\ UNCHANGED <<status, duty, htlc, told, faults>>

slash_one_db_error(w) ==
  /\ At(w, "mark")
  /\ Fault("db")
  /\ Turn(w, "confirm", job[w].at)
  /\ UNCHANGED <<status, duty, rows, htlc, told>>

\* mutant: the notice does not wait for the slash to be confirmed
TellAnyway(w) ==
  LET b == job[w].at IN
  /\ At(w, "confirm")
  /\ told' = told \cup {b}
  /\ Work(w, job[w].slash \ {b}, job[w].free)
  /\ UNCHANGED <<status, duty, rows, htlc, faults>>

(* The notice goes out only if the row records this slash.                  *)
slash_reason_recorded(w) ==
  LET b == job[w].at IN
  /\ At(w, "confirm")
  /\ told' = IF reason[b] = Reason(w) THEN told \cup {b} ELSE told
  /\ Work(w, job[w].slash \ {b}, job[w].free)
  /\ UNCHANGED <<status, duty, rows, htlc, faults>>

(* The bonds or the confirmation cannot be read: the timeout job leaves the *)
(* order to its next tick, unless it only meant to release; an admin        *)
(* handler goes on to close the maker's bond.                               *)
read_fails(w) ==
  /\ job[w].step \in {"list", "confirm"}
  /\ Fault("db")
  /\ \/ Goto(w, IF job[w].path \in {"timeout", "release", "taker_cancel"} THEN "idle" ELSE "close")
     \/ /\ job[w].path = "timeout" /\ At(w, "list") /\ Targets(w) = {}
        /\ Goto(w, "persist")
  /\ UNCHANGED <<status, duty, rows, htlc, told>>

(* A handler gives up at an error and never comes to the bonds: the call to *)
(* LND about the escrow failed, which the maker's cancel makes only after   *)
(* the write, or a relay refused one of admin_cancel_action's messages.     *)
handler_fails(w) ==
  /\ \/ /\ At(w, "persist") /\ Fault("lnd")
        /\ job[w].path \in {"admin_cancel", "admin_settle", "taker_cancel"}
                            \cup (IF From = "active" THEN {"cancel"} ELSE {})
     \/ At(w, "list") /\ job[w].path = "cancel" /\ From = "waiting" /\ Fault("lnd")
     \/ At(w, "list") /\ job[w].path = "admin_cancel" /\ Fault("relay")
  /\ Goto(w, "idle")
  /\ UNCHANGED <<status, duty, rows, htlc, told>>

-----------------------------------------------------------------------------
(* release_bond, from the list or for the maker bond at the close: a        *)
(* canceled invoice is already done, a settled one is an error that leaves  *)
(* the row as it is.                                                        *)

Closing(w) == At(w, "close_cancel")
Releasable(w, b) ==
  \/ Closing(w) /\ b = "maker"
  \/ At(w, "release") /\ b \in job[w].free
Skip(w, b) ==
  IF Closing(w) THEN Goto(w, AfterClose(job[w].path)) ELSE Work(w, {}, job[w].free \ {b})

\* mutant: every error of the cancel is taken for an invoice already gone
AnyCancelError(w, b) ==
  /\ Releasable(w, b)
  /\ htlc' = [htlc EXCEPT ![b] = IF @ = "held" THEN "canceled" ELSE @]
  /\ Turn(w, IF Closing(w) THEN "close_write" ELSE "write", b)
  /\ UNCHANGED <<status, duty, rows, told, faults>>

cancel_hold_invoice(w, b) ==
  /\ Releasable(w, b)
  /\ htlc' = [htlc EXCEPT ![b] = IF @ = "held" THEN "canceled" ELSE @]
  /\ IF htlc[b] = "settled" THEN Skip(w, b)
     ELSE Turn(w, IF Closing(w) THEN "close_write" ELSE "write", b)
  /\ UNCHANGED <<status, duty, rows, told, faults>>

cancel_fails(w, b) ==
  /\ Releasable(w, b)
  /\ Fault("lnd")
  /\ Skip(w, b)
  /\ UNCHANGED <<status, duty, rows, htlc, told>>

(* The whole row is written from the copy read before the call to LND.      *)
release_bond(w) ==
  LET b == job[w].at IN
  /\ job[w].step \in {"write", "close_write"}
  /\ bond' = [bond EXCEPT ![b] = "released"]
  /\ reason' = [reason EXCEPT ![b] = "none"]
  /\ IF At(w, "close_write") THEN Goto(w, AfterClose(job[w].path))
     ELSE Work(w, {}, job[w].free \ {b})
  /\ UNCHANGED <<status, duty, htlc, told, faults>>

(* resolve_range_maker_bond_at_close on a fixed order: a maker bond that is *)
(* still locked is released.                                                *)
resolve_range_maker_bond_at_close(w) ==
  /\ At(w, "close")
  /\ Goto(w, IF bond["maker"] = "locked" THEN "close_cancel" ELSE AfterClose(job[w].path))
  /\ UNCHANGED <<status, duty, rows, htlc, told, faults>>

-----------------------------------------------------------------------------
(* The payout job pays a slashed bond to the winner.                        *)
process_one_bond(b) ==
  /\ bond[b] = "pending-payout"
  /\ bond' = [bond EXCEPT ![b] = "slashed"]
  /\ UNCHANGED <<status, duty, reason, htlc, job, told, faults>>

(* The daemon stops: every worker forgets where it was.                     *)
crash ==
  /\ Fault("crash")
  /\ job' = [w \in Workers |-> Resting]
  /\ UNCHANGED <<status, duty, rows, htlc, told>>

(* LND cancels a hold invoice whose CLTV expiry is near.                    *)
cltv_expiry(b) ==
  /\ htlc[b] = "held"
  /\ Fault("cltv")
  /\ htlc' = [htlc EXCEPT ![b] = "canceled"]
  /\ UNCHANGED <<status, duty, rows, job, told>>

Trading == hold_invoice_paid \/ dispute_action \/ payment_success

Hooks ==
  \/ cancel_action \/ cancel_order_by_taker \/ release_action \/ reconcile_stranded_range_maker_bonds
  \/ \E w \in Admins, path \in {"admin_cancel", "admin_settle"}, blamed \in SUBSET Bonds :
       admin_action(w, path, blamed)
  \/ \E b \in Bonds : on_bond_invoice_canceled(b)

Resolving(w) ==
  \/ persist(w) \/ find_active_bonds_for_order(w) \/ slash_one(w) \/ slash_reason_recorded(w)
  \/ release_bond(w) \/ resolve_range_maker_bond_at_close(w)
  \/ \E b \in Bonds : settle_hold_invoice(w, b) \/ cancel_hold_invoice(w, b)

Failing(w) ==
  \/ slash_one_db_error(w) \/ read_fails(w) \/ handler_fails(w)
  \/ \E b \in Bonds : settle_fails(w, b) \/ cancel_fails(w, b)

Next ==
  \/ Trading \/ Hooks \/ job_cancel_orders
  \/ \E w \in Workers : Resolving(w) \/ Failing(w)
  \/ \E b \in Bonds : process_one_bond(b) \/ cltv_expiry(b)
  \/ crash

Spec == Init /\ [][Next]_vars

-----------------------------------------------------------------------------
(* slash_one settles before it marks and release_bond cancels before it     *)
(* writes, from copies read earlier, and admins, jobs and handlers do so at *)
(* once: a bond owed to the winner is money Mostro holds, a released one    *)
(* went back to its owner.                                                  *)
RowFollowsInvoice ==
  \A b \in Bonds :
    /\ bond[b] \in {"pending-payout", "slashed"} => htlc[b] = "settled" /\ reason[b] # "none"
    /\ bond[b] = "released" => htlc[b] = "canceled"

(* slash.rs: "the notice is never untruthful": who was told of a slash has  *)
(* lost the bond, for good.                                                 *)
NoticeIsTrue ==
  \A b \in told : htlc[b] = "settled" /\ bond[b] \in {"pending-payout", "slashed"}

(* job_cancel_orders deals with the bonds before the order, so that a       *)
(* restart half-way is made up for by the next tick: as long as LND and the *)
(* database answer, the job writes the order only once the late party's     *)
(* bond is decided at LND and a slash is recorded, and an order is back on  *)
(* the book only once its taker's bond is decided.                          *)
DecidedBeforeWritten ==
  faults \cap {"lnd", "db"} = {} =>
    /\ status = "pending" => htlc["taker"] # "held"
    /\ At("timeout", "persist") => \A b \in job["timeout"].blamed :
                                     /\ htlc[b] # "held"
                                     /\ htlc[b] = "settled" => bond[b] # "locked"
==============================================================================
