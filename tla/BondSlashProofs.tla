--------------------------- MODULE BondSlashProofs ---------------------------
(***************************************************************************)
(* Proofs about BondSlash, for every set of workers, of armed roles and of *)
(* faults.  RowFollowsInvoice is not inductive: between the call to LND    *)
(* and the write of the row the promise lives in the worker.  SlashInv     *)
(* adds what a worker at "mark" or about to write knows of the invoice,    *)
(* and that a recorded reason belongs to a slashed row.                    *)
(***************************************************************************)
EXTENDS BondSlash, TLAPS

(* Zenon closes most leaves at once; SMT takes those with arithmetic.       *)
USE ZenonT(3), SMTT(60), ZenonT(60)

Jobs == [path : Paths, step : Steps, blamed : SUBSET Bonds,
         slash : SUBSET Bonds, free : SUBSET Bonds, at : Bonds]

(* The steps at which a worker carries a promise about its bond.            *)
Bound == {"mark", "write", "close_write"}

(* slash_one marks what it settled, release_bond writes what it canceled.   *)
WorkersKnow ==
  \A w \in Workers :
    /\ job[w].step = "mark" => htlc[job[w].at] = "settled"
    /\ job[w].step \in {"write", "close_write"} => htlc[job[w].at] = "canceled"

(* Only slash_one records a reason, and only on a row it moves.             *)
ReasonIsSlash ==
  \A b \in Bonds : reason[b] # "none" => bond[b] \in {"pending-payout", "slashed"}

SlashInv == TypeOK /\ WorkersKnow /\ ReasonIsSlash /\ RowFollowsInvoice /\ NoticeIsTrue

(* An invoice that is settled or canceled stays so.                         *)
Decided == \A b \in Bonds : htlc[b] # "held" => htlc'[b] = htlc[b]

(* No worker takes on a promise.                                            *)
Unbound == \A w \in Workers : job'[w] = job[w] \/ job'[w].step \notin Bound

(* The worker w takes one on, at b.                                         *)
BoundAt(w, step, b) ==
  /\ job'[w].step = step /\ job'[w].at = b
  /\ \A v \in Workers \ {w} : job'[v] = job[v]

-----------------------------------------------------------------------------
(* What the helpers of BondSlash do to the jobs.                            *)

(* Resting is a job that is bound by nothing.                               *)
LEMMA RestingIdle == Resting \in Jobs /\ Resting.step = "idle"
  BY DEF Resting, Jobs, Paths, Steps, Bonds

(* Goto moves one worker to the step it names.                              *)
LEMMA GotoUnbound ==
  ASSUME TypeOK, NEW w \in Workers, NEW step \in Steps \ Bound, Goto(w, step)
  PROVE  job' \in [Workers -> Jobs] /\ Unbound
  <1>1. job \in [Workers -> Jobs]
    BY DEF TypeOK, Jobs
  <1> DEFINE new == IF step = "idle" THEN Resting
            ELSE [Resting EXCEPT !.path = job[w].path, !.step = step, !.blamed = job[w].blamed]
  <1>2. new \in Jobs /\ new.step = step
    BY Zenon, <1>1, RestingIdle DEF Jobs, Resting
  <1>3. job' = [job EXCEPT ![w] = new]
    BY DEF Goto
  <1> HIDE DEF new
  <1>4. QED
    BY <1>1, <1>2, <1>3 DEF Unbound

(* Start puts an idle worker on a path.                                     *)
LEMMA StartUnbound ==
  ASSUME TypeOK, NEW w \in Workers, NEW path \in Paths, NEW step \in Steps \ Bound,
         NEW blamed \in SUBSET Bonds, Start(w, path, step, blamed)
  PROVE  job' \in [Workers -> Jobs] /\ Unbound
  <1>1. job \in [Workers -> Jobs]
    BY DEF TypeOK, Jobs
  <1> DEFINE new == [Resting EXCEPT !.path = path, !.step = step, !.blamed = blamed]
  <1>2. new \in Jobs /\ new.step = step
    BY Zenon, RestingIdle DEF Jobs, Resting
  <1>3. job' = [job EXCEPT ![w] = new]
    BY DEF Start
  <1> HIDE DEF new
  <1>4. QED
    BY <1>1, <1>2, <1>3 DEF Unbound

(* Where a list of bonds leads is a step without a promise.                 *)
LEMMA AfterSteps ==
  ASSUME NEW path
  PROVE  AfterList(path) \in Steps \ Bound /\ AfterClose(path) \in Steps \ Bound
  BY DEF AfterList, AfterClose, Steps, Bound

(* Work moves on to the next bond of the list, or past it.                  *)
LEMMA WorkUnbound ==
  ASSUME TypeOK, NEW w \in Workers, NEW slash \in SUBSET Bonds, NEW free \in SUBSET Bonds,
         Work(w, slash, free)
  PROVE  job' \in [Workers -> Jobs] /\ Unbound
  <1>1. job \in [Workers -> Jobs]
    BY DEF TypeOK, Jobs
  <1>2. CASE slash \cup free = {}
    BY <1>2, AfterSteps, GotoUnbound DEF Work
  <1>3. CASE slash \cup free # {}
    <2> DEFINE step == IF slash # {} THEN "slash" ELSE "release"
               new == [job[w] EXCEPT !.step = step, !.slash = slash, !.free = free, !.at = "maker"]
    <2>1. new \in Jobs /\ new.step \notin Bound
      BY ZenonT(60), <1>1 DEF Jobs, Steps, Bound, Bonds
    <2>2. job' = [job EXCEPT ![w] = new]
      BY <1>3 DEF Work
    <2> HIDE DEF new
    <2>3. QED
      BY Zenon, <1>1, <2>1, <2>2 DEF Unbound
  <1>4. QED
    BY <1>2, <1>3

(* Turn takes one worker to a step at one bond.                             *)
LEMMA TurnBound ==
  ASSUME TypeOK, NEW w \in Workers, NEW step \in Steps, NEW b \in Bonds, Turn(w, step, b)
  PROVE  job' \in [Workers -> Jobs] /\ BoundAt(w, step, b)
  <1>1. job \in [Workers -> Jobs]
    BY DEF TypeOK, Jobs
  <1> DEFINE new == [job[w] EXCEPT !.step = step, !.at = b]
  <1>2. new \in Jobs /\ new.step = step /\ new.at = b
    BY Zenon, <1>1 DEF Jobs
  <1>3. job' = [job EXCEPT ![w] = new]
    BY Zenon, <1>1 DEF Turn, Jobs
  <1> HIDE DEF new
  <1>4. QED
    BY <1>1, <1>2, <1>3 DEF BoundAt

-----------------------------------------------------------------------------
(* How the parts of SlashInv pass over a step.                              *)

(* A promise survives a step that takes on none.                            *)
LEMMA KnowUnbound ==
  ASSUME TypeOK, WorkersKnow, Decided, Unbound
  PROVE  WorkersKnow'
  <1>1. \A w \in Workers : job[w].at \in Bonds
    BY DEF TypeOK
  <1>2. QED
    BY <1>1 DEF WorkersKnow, Decided, Unbound, Bound

(* A promise taken on must be true.                                         *)
LEMMA KnowBound ==
  ASSUME TypeOK, WorkersKnow, Decided, NEW w \in Workers, NEW step, NEW b \in Bonds,
         BoundAt(w, step, b),
         step = "mark" => htlc'[b] = "settled",
         step \in {"write", "close_write"} => htlc'[b] = "canceled"
  PROVE  WorkersKnow'
  <1>1. \A v \in Workers : job[v].at \in Bonds
    BY DEF TypeOK
  <1>2. SUFFICES ASSUME NEW v \in Workers
                 PROVE  /\ job'[v].step = "mark" => htlc'[job'[v].at] = "settled"
                        /\ job'[v].step \in {"write", "close_write"} =>
                             htlc'[job'[v].at] = "canceled"
    BY DEF WorkersKnow
  <1>3. CASE v = w
    BY <1>3 DEF BoundAt
  <1>4. CASE v # w
    <2>1. job'[v] = job[v]
      BY <1>4 DEF BoundAt
    <2>2. QED
      BY <1>1, <2>1 DEF WorkersKnow, Decided
  <1>5. QED
    BY <1>3, <1>4

(* What the rows and the notices say survives while they are left alone.    *)
LEMMA RowsKept ==
  ASSUME SlashInv, Decided, UNCHANGED rows, UNCHANGED told
  PROVE  (ReasonIsSlash /\ RowFollowsInvoice /\ NoticeIsTrue)'
  <1>1. told \subseteq Bonds
    BY DEF SlashInv, TypeOK
  <1>2. UNCHANGED <<bond, reason>>
    BY DEF rows
  <1>3. QED
    BY <1>1, <1>2 DEF SlashInv, ReasonIsSlash, RowFollowsInvoice, NoticeIsTrue, Decided

(* The invoices that do not move are decided as they were.                  *)
LEMMA HtlcKept == UNCHANGED htlc => Decided
  BY DEF Decided

(* A fault adds to the faults there may be.                                 *)
LEMMA FaultTyped ==
  ASSUME TypeOK, NEW kind, Fault(kind)
  PROVE  faults' \subseteq FaultKinds
  BY DEF TypeOK, Fault

(* The type of the next state, from the parts that may change.              *)
LEMMA TypeStep ==
  ASSUME TypeOK,
         status' \in {"waiting", "active", "dispute", "settled", "pending", "done"},
         duty' \in Bonds,
         bond' \in [Bonds -> {"locked", "released", "pending-payout", "slashed"}],
         reason' \in [Bonds -> {"none", "lost-dispute", "timeout"}],
         htlc' \in [Bonds -> {"held", "settled", "canceled"}],
         job' \in [Workers -> Jobs],
         told' \subseteq Bonds, faults' \subseteq FaultKinds
  PROVE  TypeOK'
  BY DEF TypeOK, Jobs

(* A step that leaves the rows, the invoices and the notices alone and      *)
(* takes on no promise.                                                     *)
LEMMA QuietStep ==
  ASSUME SlashInv,
         status' \in {"waiting", "active", "dispute", "settled", "pending", "done"},
         duty' \in Bonds, UNCHANGED <<rows, htlc, told>>,
         job' \in [Workers -> Jobs], Unbound, faults' \subseteq FaultKinds
  PROVE  SlashInv'
  <1>1. TypeOK /\ WorkersKnow
    BY DEF SlashInv
  <1>2. Decided /\ UNCHANGED <<bond, reason, htlc, told>>
    BY HtlcKept DEF rows
  <1>3. TypeOK'
    <2>1. /\ bond' \in [Bonds -> {"locked", "released", "pending-payout", "slashed"}]
          /\ reason' \in [Bonds -> {"none", "lost-dispute", "timeout"}]
          /\ htlc' \in [Bonds -> {"held", "settled", "canceled"}]
          /\ told' \subseteq Bonds
      BY <1>1, <1>2 DEF TypeOK
    <2>2. QED
      BY <1>1, <2>1, TypeStep
  <1>4. WorkersKnow'
    BY <1>1, <1>2, KnowUnbound
  <1>5. QED
    BY <1>2, <1>3, <1>4, RowsKept DEF SlashInv
(* A step that may decide an invoice but leaves rows and notices alone.     *)
LEMMA InvoiceStep ==
  ASSUME SlashInv, UNCHANGED <<status, duty, rows, told>>,
         htlc' \in [Bonds -> {"held", "settled", "canceled"}], Decided,
         job' \in [Workers -> Jobs], WorkersKnow', faults' \subseteq FaultKinds
  PROVE  SlashInv'
  <1>1. TypeOK /\ UNCHANGED <<bond, reason, told, status, duty>>
    BY DEF SlashInv, rows
  <1>2. TypeOK'
    <2>1. /\ status' \in {"waiting", "active", "dispute", "settled", "pending", "done"}
          /\ duty' \in Bonds
          /\ bond' \in [Bonds -> {"locked", "released", "pending-payout", "slashed"}]
          /\ reason' \in [Bonds -> {"none", "lost-dispute", "timeout"}]
          /\ told' \subseteq Bonds
      BY <1>1 DEF TypeOK
    <2>2. QED
      BY <1>1, <2>1, TypeStep
  <1>3. QED
    BY <1>1, <1>2, RowsKept DEF SlashInv

-----------------------------------------------------------------------------
(* The actions.                                                             *)

(* The trade moves and the bonds do not.                                    *)
LEMMA TradingKeeps == SlashInv /\ Trading => SlashInv'
  <1> SUFFICES ASSUME SlashInv, Trading
               PROVE  SlashInv'
    OBVIOUS
  <1>1. TypeOK
    BY DEF SlashInv
  <1>2. /\ status' \in {"waiting", "active", "dispute", "settled", "pending", "done"}
        /\ duty' \in Bonds /\ UNCHANGED <<rows, htlc, told, job, faults>>
    BY <1>1 DEF Trading, hold_invoice_paid, dispute_action, payment_success, Advance, TypeOK, Bonds
  <1>3. job' \in [Workers -> Jobs] /\ Unbound /\ faults' \subseteq FaultKinds
    BY <1>1, <1>2 DEF TypeOK, Jobs, Unbound
  <1>4. QED
    BY <1>2, <1>3, QuietStep

(* An entry point only puts its worker on a path.                           *)
LEMMA StartKeeps ==
  ASSUME SlashInv, NEW w \in Workers, NEW path \in Paths, NEW step \in Steps \ Bound,
         NEW blamed \in SUBSET Bonds, Start(w, path, step, blamed),
         status' \in {"waiting", "active", "dispute", "settled", "pending", "done"},
         UNCHANGED <<duty, rows, htlc, told, faults>>
  PROVE  SlashInv'
  <1>1. TypeOK
    BY DEF SlashInv
  <1>2. duty' \in Bonds /\ faults' \subseteq FaultKinds
    BY <1>1 DEF TypeOK
  <1>3. QED
    BY <1>1, <1>2, StartUnbound, QuietStep

(* on_bond_invoice_canceled knows the invoice to be canceled.               *)
LEMMA SubscriberKeeps ==
  ASSUME SlashInv, NEW b \in Bonds, on_bond_invoice_canceled(b)
  PROVE  SlashInv'
  <1>1. TypeOK /\ WorkersKnow /\ job \in [Workers -> Jobs]
    BY DEF SlashInv, TypeOK, Jobs
  <1>2. UNCHANGED <<status, duty, rows, htlc, told, faults>> /\ htlc[b] = "canceled"
    BY DEF on_bond_invoice_canceled, Entry
  <1>3. Decided /\ htlc'[b] = "canceled"
    BY <1>2, HtlcKept
  <1> DEFINE new == [Resting EXCEPT !.path = "release", !.step = "write", !.free = {b}, !.at = b]
  <1>4. new \in Jobs /\ new.step = "write" /\ new.at = b
    BY Zenon, RestingIdle DEF Jobs, Resting, Paths, Steps
  <1>5. job' = [job EXCEPT !["subscriber"] = new] /\ "subscriber" \in Workers
    BY DEF on_bond_invoice_canceled, Workers
  <1> HIDE DEF new
  <1>6. job' \in [Workers -> Jobs] /\ BoundAt("subscriber", "write", b)
    BY <1>1, <1>4, <1>5 DEF BoundAt
  <1>7. WorkersKnow'
    BY <1>1, <1>3, <1>5, <1>6, KnowBound
  <1>8. htlc' \in [Bonds -> {"held", "settled", "canceled"}] /\ faults' \subseteq FaultKinds
    BY <1>1, <1>2 DEF TypeOK
  <1>9. QED
    BY <1>2, <1>3, <1>6, <1>7, <1>8, InvoiceStep

(* The hooks of the handlers, the sweep and the subscription.               *)
LEMMA HooksKeep == SlashInv /\ (Hooks \/ job_cancel_orders) => SlashInv'
  <1> SUFFICES ASSUME SlashInv, Hooks \/ job_cancel_orders
               PROVE  SlashInv'
    OBVIOUS
  <1>0. /\ status \in {"waiting", "active", "dispute", "settled", "pending", "done"}
        /\ duty \in Bonds
    BY DEF SlashInv, TypeOK
  <1>a. {"persist", "list", "close"} \subseteq Steps \ Bound
    BY DEF Steps, Bound
  <1>b. {"main", "rpc", "timeout", "sweep"} \subseteq Workers /\ Admins \subseteq Workers
    BY DEF Workers, Admins
  <1>1. CASE cancel_action
    <2>1. PICK path \in Paths : Start("main", path, "persist", {})
      BY <1>1 DEF cancel_action, Paths
    <2>2. QED
      BY <1>0, <1>1, <1>a, <1>b, <2>1, StartKeeps DEF cancel_action, Entry
  <1>2. CASE cancel_order_by_taker
    BY <1>0, <1>2, <1>a, <1>b, StartKeeps DEF cancel_order_by_taker, Entry, Paths
  <1>3. CASE release_action
    BY <1>3, <1>a, <1>b, StartKeeps DEF release_action, Paths
  <1>4. CASE reconcile_stranded_range_maker_bonds
    BY <1>0, <1>4, <1>a, <1>b, StartKeeps DEF reconcile_stranded_range_maker_bonds, Entry, Paths
  <1>5. CASE \E w \in Admins, path \in {"admin_cancel", "admin_settle"}, blamed \in SUBSET Bonds :
               admin_action(w, path, blamed)
    <2>1. PICK w \in Admins, path \in {"admin_cancel", "admin_settle"}, blamed \in SUBSET Bonds :
               admin_action(w, path, blamed)
      BY <1>5
    <2>2. w \in Workers /\ path \in Paths
      BY <1>b DEF Paths
    <2>3. QED
      BY <1>0, <1>a, <2>1, <2>2, StartKeeps DEF admin_action, Entry
  <1>6. CASE \E b \in Bonds : on_bond_invoice_canceled(b)
    BY <1>6, SubscriberKeeps
  <1>7. CASE job_cancel_orders
    <2>1. Start("timeout", "timeout", "list", {duty}) /\ Entry /\ {duty} \in SUBSET Bonds
      BY <1>0, <1>7 DEF job_cancel_orders
    <2>2. QED
      BY <1>0, <1>a, <1>b, <2>1, StartKeeps DEF Entry, Paths
  <1>8. QED
    BY <1>1, <1>2, <1>3, <1>4, <1>5, <1>6, <1>7 DEF Hooks
(* A worker that moves on without touching rows or invoices.                *)
LEMMA QuietKeeps ==
  ASSUME SlashInv, NEW w \in Workers,
         \/ persist(w) \/ find_active_bonds_for_order(w) \/ resolve_range_maker_bond_at_close(w)
         \/ read_fails(w) \/ handler_fails(w)
  PROVE  SlashInv'
  <1>1. TypeOK
    BY DEF SlashInv
  <1>0. /\ status \in {"waiting", "active", "dispute", "settled", "pending", "done"}
        /\ duty \in Bonds /\ faults \subseteq FaultKinds
    BY <1>1 DEF TypeOK
  <1>a. {"idle", "persist", "list", "close", "close_cancel"} \subseteq Steps \ Bound
    BY DEF Steps, Bound
  <1>2. CASE persist(w)
    <2>1. PICK step \in {"idle", "list", "close"} : Goto(w, step)
      BY <1>2 DEF persist
    <2>2. status' \in {"waiting", "active", "dispute", "settled", "pending", "done"}
      BY <1>0, <1>2 DEF persist
    <2>3. UNCHANGED <<duty, rows, htlc, told, faults>>
      BY <1>2 DEF persist
    <2>4. QED
      BY <1>0, <1>1, <1>a, <2>1, <2>2, <2>3, GotoUnbound, QuietStep
  <1>3. CASE find_active_bonds_for_order(w)
    <2>1. PICK slash \in SUBSET Bonds, free \in SUBSET Bonds : Work(w, slash, free)
      <3>1. PICK kept : Work(w, Targets(w), Locked \ (Targets(w) \cup kept))
        BY Zenon, <1>3 DEF find_active_bonds_for_order
      <3>2. Targets(w) \in SUBSET Bonds /\ Locked \ (Targets(w) \cup kept) \in SUBSET Bonds
        BY DEF Targets, Locked
      <3>3. QED
        BY <3>1, <3>2
    <2>2. UNCHANGED <<status, duty, rows, htlc, told, faults>>
      BY <1>3 DEF find_active_bonds_for_order
    <2>3. QED
      BY <1>0, <1>1, <2>1, <2>2, WorkUnbound, QuietStep
  <1>4. CASE resolve_range_maker_bond_at_close(w)
    <2>1. PICK step \in Steps \ Bound : Goto(w, step)
      BY <1>4, <1>a, AfterSteps DEF resolve_range_maker_bond_at_close
    <2>2. UNCHANGED <<status, duty, rows, htlc, told, faults>>
      BY <1>4 DEF resolve_range_maker_bond_at_close
    <2>3. QED
      BY <1>0, <1>1, <2>1, <2>2, GotoUnbound, QuietStep
  <1>5. CASE read_fails(w)
    <2>1. PICK step \in {"idle", "close", "persist"} : Goto(w, step)
      BY <1>5 DEF read_fails
    <2>2. UNCHANGED <<status, duty, rows, htlc, told>> /\ Fault("db")
      BY <1>5 DEF read_fails
    <2>3. QED
      BY <1>0, <1>1, <1>a, <2>1, <2>2, FaultTyped, GotoUnbound, QuietStep
  <1>6. CASE handler_fails(w)
    <2>1. PICK kind : Fault(kind)
      BY <1>6 DEF handler_fails
    <2>2. UNCHANGED <<status, duty, rows, htlc, told>> /\ Goto(w, "idle")
      BY <1>6 DEF handler_fails
    <2>3. QED
      BY <1>0, <1>1, <1>a, <2>1, <2>2, FaultTyped, GotoUnbound, QuietStep
  <1>7. QED
    BY <1>2, <1>3, <1>4, <1>5, <1>6

(* The next bond, or the step past the list or the close, is no promise.    *)
LEMMA SkipUnbound ==
  ASSUME TypeOK, NEW w \in Workers, NEW b \in Bonds, Skip(w, b)
  PROVE  job' \in [Workers -> Jobs] /\ Unbound
  <1>1. job[w].free \ {b} \in SUBSET Bonds
    BY DEF TypeOK
  <1>2. CASE Closing(w)
    <2>1. Goto(w, AfterClose(job[w].path))
      BY <1>2 DEF Skip
    <2>2. QED
      BY <2>1, AfterSteps, GotoUnbound
  <1>3. CASE ~Closing(w)
    <2>1. Work(w, {}, job[w].free \ {b})
      BY <1>3 DEF Skip
    <2>2. QED
      BY Zenon, <1>1, <2>1, WorkUnbound
  <1>4. QED
    BY <1>2, <1>3

(* The settlement and the cancellation at LND: only a held invoice moves,   *)
(* and the worker goes on to the write only if it moved the right way.      *)
LEMMA InvoiceKeeps ==
  ASSUME SlashInv, NEW w \in Workers, NEW b \in Bonds,
         settle_hold_invoice(w, b) \/ cancel_hold_invoice(w, b)
  PROVE  SlashInv'
  <1>1. TypeOK /\ WorkersKnow /\ htlc \in [Bonds -> {"held", "settled", "canceled"}]
    BY DEF SlashInv, TypeOK
  <1>2. UNCHANGED <<status, duty, rows, told>> /\ faults' \subseteq FaultKinds
    BY <1>1 DEF settle_hold_invoice, cancel_hold_invoice, TypeOK
  <1>a. {"mark", "confirm", "write", "close_write"} \subseteq Steps
    BY DEF Steps
  <1>3. CASE settle_hold_invoice(w, b)
    <2>1. htlc' = [htlc EXCEPT ![b] = IF @ = "held" THEN "settled" ELSE @]
      BY <1>3 DEF settle_hold_invoice
    <2>2. /\ htlc' \in [Bonds -> {"held", "settled", "canceled"}] /\ Decided
          /\ htlc[b] # "canceled" => htlc'[b] = "settled"
      BY <1>1, <2>1 DEF Decided
    <2>3. PICK step \in {"mark", "confirm"} : Turn(w, step, b) /\ (step = "mark" => htlc[b] # "canceled")
      BY <1>3 DEF settle_hold_invoice
    <2>4. job' \in [Workers -> Jobs] /\ BoundAt(w, step, b)
      BY <1>1, <1>a, <2>3, TurnBound
    <2>5. WorkersKnow'
      BY <1>1, <2>2, <2>3, <2>4, KnowBound
    <2>6. QED
      BY <1>2, <2>2, <2>4, <2>5, InvoiceStep
  <1>4. CASE cancel_hold_invoice(w, b)
    <2>1. htlc' = [htlc EXCEPT ![b] = IF @ = "held" THEN "canceled" ELSE @]
      BY <1>4 DEF cancel_hold_invoice
    <2>2. /\ htlc' \in [Bonds -> {"held", "settled", "canceled"}] /\ Decided
          /\ htlc[b] # "settled" => htlc'[b] = "canceled"
      BY <1>1, <2>1 DEF Decided
    <2>3. CASE htlc[b] = "settled"
      <3>1. job' \in [Workers -> Jobs] /\ Unbound
        BY <1>1, <1>4, <2>3, SkipUnbound DEF cancel_hold_invoice
      <3>2. WorkersKnow'
        BY <1>1, <2>2, <3>1, KnowUnbound
      <3>3. QED
        BY <1>2, <2>2, <3>1, <3>2, InvoiceStep
    <2>4. CASE htlc[b] # "settled"
      <3>1. PICK step \in {"write", "close_write"} : Turn(w, step, b)
        BY <1>4, <2>4 DEF cancel_hold_invoice
      <3>2. job' \in [Workers -> Jobs] /\ BoundAt(w, step, b)
        BY <1>1, <1>a, <3>1, TurnBound
      <3>3. WorkersKnow'
        BY <1>1, <2>2, <2>4, <3>1, <3>2, KnowBound
      <3>4. QED
        BY <1>2, <2>2, <3>2, <3>3, InvoiceStep
    <2>5. QED
      BY <2>3, <2>4
  <1>5. QED
    BY <1>3, <1>4
(* The faults, the restart and the end of an HTLC.                          *)
LEMMA FaultsKeep ==
  ASSUME SlashInv, NEW w \in Workers, NEW b \in Bonds,
         \/ settle_fails(w, b) \/ cancel_fails(w, b) \/ slash_one_db_error(w)
         \/ crash \/ cltv_expiry(b)
  PROVE  SlashInv'
  <1>1. TypeOK /\ WorkersKnow /\ job \in [Workers -> Jobs]
    BY DEF SlashInv, TypeOK, Jobs
  <1>0. /\ htlc \in [Bonds -> {"held", "settled", "canceled"}] /\ job[w].at \in Bonds
        /\ status \in {"waiting", "active", "dispute", "settled", "pending", "done"}
        /\ duty \in Bonds
    BY <1>1 DEF TypeOK
  <1>2. faults' \subseteq FaultKinds
    BY <1>1, FaultTyped DEF settle_fails, cancel_fails, slash_one_db_error, crash, cltv_expiry
  <1>3. CASE settle_fails(w, b) \/ slash_one_db_error(w)
    <2>1. PICK c \in Bonds : Turn(w, "confirm", c)
      BY <1>0, <1>3 DEF settle_fails, slash_one_db_error
    <2>2. UNCHANGED <<status, duty, rows, htlc, told>>
      BY <1>3 DEF settle_fails, slash_one_db_error
    <2>3. Decided /\ htlc' \in [Bonds -> {"held", "settled", "canceled"}]
      BY <1>0, <2>2, HtlcKept
    <2>4. job' \in [Workers -> Jobs] /\ BoundAt(w, "confirm", c)
      BY <1>1, <2>1, TurnBound DEF Steps
    <2>5. WorkersKnow'
      BY <1>1, <2>3, <2>4, KnowBound
    <2>6. QED
      BY <1>2, <2>2, <2>3, <2>4, <2>5, InvoiceStep
  <1>4. CASE cancel_fails(w, b)
    <2>1. UNCHANGED <<status, duty, rows, htlc, told>> /\ Skip(w, b)
      BY <1>4 DEF cancel_fails
    <2>2. QED
      BY <1>0, <1>1, <1>2, <2>1, SkipUnbound, QuietStep
  <1>5. CASE crash
    <2>1. job' \in [Workers -> Jobs] /\ Unbound
      BY <1>5, RestingIdle DEF crash, Unbound, Bound
    <2>2. UNCHANGED <<status, duty, rows, htlc, told>>
      BY <1>5 DEF crash
    <2>3. QED
      BY <1>0, <1>2, <2>1, <2>2, QuietStep
  <1>6. CASE cltv_expiry(b)
    <2>1. htlc[b] = "held" /\ htlc' = [htlc EXCEPT ![b] = "canceled"]
      BY <1>6 DEF cltv_expiry
    <2>2. htlc' \in [Bonds -> {"held", "settled", "canceled"}] /\ Decided
      BY <1>0, <2>1 DEF Decided
    <2>3. UNCHANGED <<status, duty, rows, job, told>>
      BY <1>6 DEF cltv_expiry
    <2>4. job' \in [Workers -> Jobs] /\ Unbound
      BY <1>1, <2>3 DEF Unbound
    <2>5. WorkersKnow'
      BY <1>1, <2>2, <2>4, KnowUnbound
    <2>6. QED
      BY <1>2, <2>2, <2>3, <2>4, <2>5, InvoiceStep
  <1>7. QED
    BY <1>3, <1>4, <1>5, <1>6

(* The writes of the rows.  Each is safe by what its worker knows of the    *)
(* invoice.                                                                 *)
LEMMA MarkKeeps ==
  ASSUME SlashInv, NEW w \in Workers, slash_one(w)
  PROVE  SlashInv'
  <1> DEFINE b == job[w].at
  <1>1. TypeOK /\ WorkersKnow /\ b \in Bonds /\ told \subseteq Bonds
    BY DEF SlashInv, TypeOK
  <1>0. /\ bond \in [Bonds -> {"locked", "released", "pending-payout", "slashed"}]
        /\ reason \in [Bonds -> {"none", "lost-dispute", "timeout"}]
    BY <1>1 DEF TypeOK
  <1>2. htlc[b] = "settled" /\ UNCHANGED <<status, duty, htlc, told, faults>>
    BY DEF SlashInv, WorkersKnow, slash_one, At
  <1>3. job' \in [Workers -> Jobs] /\ BoundAt(w, "confirm", b)
    BY <1>1, TurnBound DEF slash_one, Steps
  <1>4. WorkersKnow'
    BY <1>1, <1>2, <1>3, HtlcKept, KnowBound
  <1>5. Reason(w) \in {"lost-dispute", "timeout"}
    BY DEF Reason
  <1>6. CASE bond[b] # "locked"
    <2>1. UNCHANGED rows
      BY <1>6 DEF slash_one
    <2>2. htlc' \in [Bonds -> {"held", "settled", "canceled"}] /\ Decided /\ faults' \subseteq FaultKinds
      BY <1>1, <1>2, HtlcKept DEF TypeOK
    <2>3. QED
      BY <1>2, <1>3, <1>4, <2>1, <2>2, InvoiceStep
  <1>7. CASE bond[b] = "locked"
    <2>1. /\ bond' = [bond EXCEPT ![b] = "pending-payout"]
          /\ reason' = [reason EXCEPT ![b] = Reason(w)]
      BY <1>7 DEF slash_one
    <2>2. TypeOK'
      <3>1. /\ bond' \in [Bonds -> {"locked", "released", "pending-payout", "slashed"}]
            /\ reason' \in [Bonds -> {"none", "lost-dispute", "timeout"}]
        BY Zenon, <1>0, <1>5, <2>1
      <3>2. QED
        BY <1>1, <1>2, <1>3, <3>1 DEF TypeOK, Jobs
    <2>3. \A c \in Bonds : c # b => bond'[c] = bond[c] /\ reason'[c] = reason[c]
      BY <1>0, <2>1
    <2>4. bond'[b] = "pending-payout" /\ reason'[b] # "none"
      BY <1>0, <1>1, <1>5, <2>1
    <2> HIDE DEF b
    <2>5. ReasonIsSlash' /\ RowFollowsInvoice'
      BY <1>2, <2>3, <2>4 DEF SlashInv, ReasonIsSlash, RowFollowsInvoice
    <2>6. NoticeIsTrue'
      BY <1>1, <1>2, <2>3, <2>4 DEF SlashInv, NoticeIsTrue
    <2>7. QED
      BY <1>4, <2>2, <2>5, <2>6 DEF SlashInv
  <1>8. QED
    BY <1>6, <1>7

(* release_bond writes "released" over a row whose invoice it canceled.      *)
LEMMA WriteKeeps ==
  ASSUME SlashInv, NEW w \in Workers, release_bond(w)
  PROVE  SlashInv'
  <1> DEFINE b == job[w].at
  <1>1. TypeOK /\ WorkersKnow /\ b \in Bonds /\ told \subseteq Bonds
    BY DEF SlashInv, TypeOK
  <1>0. /\ bond \in [Bonds -> {"locked", "released", "pending-payout", "slashed"}]
        /\ reason \in [Bonds -> {"none", "lost-dispute", "timeout"}]
    BY <1>1 DEF TypeOK
  <1>2. htlc[b] = "canceled" /\ UNCHANGED <<status, duty, htlc, told, faults>>
    BY DEF SlashInv, WorkersKnow, release_bond
  <1>3. job' \in [Workers -> Jobs] /\ Unbound
    <2>1. job[w].free \ {b} \in SUBSET Bonds
      BY <1>1 DEF TypeOK
    <2>2. CASE At(w, "close_write")
      <3>1. Goto(w, AfterClose(job[w].path))
        BY <2>2 DEF release_bond
      <3>2. QED
        BY <1>1, <3>1, AfterSteps, GotoUnbound
    <2>3. CASE ~At(w, "close_write")
      <3>1. Work(w, {}, job[w].free \ {b})
        BY <2>3 DEF release_bond
      <3>2. QED
        BY <1>1, <2>1, <3>1, WorkUnbound
    <2>4. QED
      BY <2>2, <2>3
  <1>4. WorkersKnow'
    BY <1>1, <1>2, <1>3, HtlcKept, KnowUnbound
  <1>5. /\ bond' = [bond EXCEPT ![b] = "released"]
        /\ reason' = [reason EXCEPT ![b] = "none"]
    BY DEF release_bond
  <1>6. TypeOK'
    <2>1. /\ bond' \in [Bonds -> {"locked", "released", "pending-payout", "slashed"}]
          /\ reason' \in [Bonds -> {"none", "lost-dispute", "timeout"}]
      BY Zenon, <1>0, <1>5
    <2>2. QED
      BY <1>1, <1>2, <1>3, <2>1 DEF TypeOK, Jobs
  <1>7. \A c \in Bonds : c # b => bond'[c] = bond[c] /\ reason'[c] = reason[c]
    BY <1>0, <1>5
  <1>8. bond'[b] = "released" /\ reason'[b] = "none"
    BY <1>0, <1>1, <1>5
  <1> HIDE DEF b
  <1>9. ReasonIsSlash' /\ RowFollowsInvoice'
    BY <1>2, <1>7, <1>8 DEF SlashInv, ReasonIsSlash, RowFollowsInvoice
  <1>10. NoticeIsTrue'
    BY <1>1, <1>2, <1>7 DEF SlashInv, NoticeIsTrue
  <1>11. QED
    BY <1>4, <1>6, <1>9, <1>10 DEF SlashInv
(* A notice goes out for a recorded reason, and only a slashed row has one. *)
LEMMA NoticeKeeps ==
  ASSUME SlashInv, NEW w \in Workers, slash_reason_recorded(w)
  PROVE  SlashInv'
  <1> DEFINE b == job[w].at
  <1>1. TypeOK /\ WorkersKnow /\ b \in Bonds /\ told \subseteq Bonds
    BY DEF SlashInv, TypeOK
  <1>2. UNCHANGED <<status, duty, bond, reason, htlc, faults>>
    BY DEF slash_reason_recorded, rows
  <1>3. job' \in [Workers -> Jobs] /\ Unbound
    <2>1. job[w].slash \ {b} \in SUBSET Bonds /\ job[w].free \in SUBSET Bonds
      BY <1>1 DEF TypeOK
    <2>2. Work(w, job[w].slash \ {b}, job[w].free)
      BY DEF slash_reason_recorded
    <2>3. QED
      BY Zenon, <1>1, <2>1, <2>2, WorkUnbound
  <1>4. WorkersKnow'
    BY <1>1, <1>2, <1>3, HtlcKept, KnowUnbound
  <1>5. \A c \in told' : c \in told \/ (c \in Bonds /\ reason[c] # "none")
    BY <1>1 DEF slash_reason_recorded, Reason
  <1>6. TypeOK'
    BY <1>1, <1>2, <1>3, <1>5 DEF TypeOK, Jobs
  <1>7. ReasonIsSlash' /\ RowFollowsInvoice'
    BY <1>2 DEF SlashInv, ReasonIsSlash, RowFollowsInvoice
  <1>8. NoticeIsTrue'
    BY <1>2, <1>5 DEF SlashInv, ReasonIsSlash, RowFollowsInvoice, NoticeIsTrue
  <1>9. QED
    BY <1>4, <1>6, <1>7, <1>8 DEF SlashInv

(* The payout closes a row that was owed.                                   *)
LEMMA PayoutKeeps ==
  ASSUME SlashInv, NEW b \in Bonds, process_one_bond(b)
  PROVE  SlashInv'
  <1>1. TypeOK /\ WorkersKnow /\ told \subseteq Bonds
    BY DEF SlashInv, TypeOK
  <1>0. bond \in [Bonds -> {"locked", "released", "pending-payout", "slashed"}]
    BY <1>1 DEF TypeOK
  <1>2. /\ bond[b] = "pending-payout" /\ bond' = [bond EXCEPT ![b] = "slashed"]
        /\ UNCHANGED <<status, duty, reason, htlc, job, told, faults>>
    BY DEF process_one_bond
  <1>3. /\ \A c \in Bonds : c # b => bond'[c] = bond[c]
        /\ bond'[b] = "slashed"
        /\ bond' \in [Bonds -> {"locked", "released", "pending-payout", "slashed"}]
    BY <1>0, <1>2
  <1>4. TypeOK' /\ WorkersKnow'
    BY <1>1, <1>2, <1>3 DEF TypeOK, WorkersKnow
  <1>5. ReasonIsSlash' /\ RowFollowsInvoice'
    BY <1>2, <1>3 DEF SlashInv, ReasonIsSlash, RowFollowsInvoice
  <1>6. NoticeIsTrue'
    BY <1>1, <1>2, <1>3 DEF SlashInv, NoticeIsTrue
  <1>7. QED
    BY <1>4, <1>5, <1>6 DEF SlashInv

(* The order is taken and both bonds are held.  The fragment holds for the  *)
(* two statuses a taken order may be in.                                    *)
LEMMA InitEstablishes == From \in {"waiting", "active"} /\ Init => SlashInv
  <1> SUFFICES ASSUME From \in {"waiting", "active"}, Init
               PROVE  SlashInv
    OBVIOUS
  <1>1. job = [w \in Workers |-> Resting] /\ Resting \in Jobs /\ Resting.step = "idle"
    BY RestingIdle DEF Init
  <1>2. duty \in Bonds
    BY DEF Init, Bonds
  <1>3. TypeOK
    BY <1>1, <1>2 DEF Init, TypeOK, Jobs
  <1>4. WorkersKnow
    BY <1>1 DEF WorkersKnow
  <1>5. ReasonIsSlash /\ RowFollowsInvoice /\ NoticeIsTrue
    BY DEF Init, ReasonIsSlash, RowFollowsInvoice, NoticeIsTrue
  <1>6. QED
    BY <1>3, <1>4, <1>5 DEF SlashInv

(* SlashInv is inductive.                                                   *)
LEMMA NextPreserves == SlashInv /\ [Next]_vars => SlashInv'
  <1> SUFFICES ASSUME SlashInv, [Next]_vars
               PROVE  SlashInv'
    OBVIOUS
  <1>1. CASE Trading
    BY <1>1, TradingKeeps
  <1>2. CASE Hooks \/ job_cancel_orders
    BY <1>2, HooksKeep
  <1>3. ASSUME NEW w \in Workers, Resolving(w)
        PROVE  SlashInv'
    BY <1>3, QuietKeeps, MarkKeeps, NoticeKeeps, WriteKeeps, InvoiceKeeps DEF Resolving
  <1>4. ASSUME NEW w \in Workers, Failing(w)
        PROVE  SlashInv'
    <2>1. "maker" \in Bonds
      BY DEF Bonds
    <2>2. QED
      BY <1>4, <2>1, QuietKeeps, FaultsKeep DEF Failing
  <1>5. ASSUME NEW b \in Bonds, process_one_bond(b) \/ cltv_expiry(b) \/ crash
        PROVE  SlashInv'
    <2>1. "main" \in Workers
      BY DEF Workers, Admins
    <2>2. QED
      BY <1>5, <2>1, PayoutKeeps, FaultsKeep
  <1>6. CASE crash
    <2>1. "maker" \in Bonds
      BY DEF Bonds
    <2>2. QED
      BY <1>5, <1>6, <2>1
  <1>7. CASE UNCHANGED vars
    <2>1. UNCHANGED <<status, duty, bond, reason, htlc, job, told, faults>>
      BY <1>7 DEF vars
    <2>2. QED
      BY <2>1 DEF SlashInv, TypeOK, WorkersKnow, ReasonIsSlash, RowFollowsInvoice, NoticeIsTrue
  <1>8. QED
    BY <1>1, <1>2, <1>3, <1>4, <1>5, <1>6, <1>7 DEF Next

(* Whoever works on the bonds, and whatever fails, the rows never say       *)
(* something else than LND: a bond owed to the winner was settled, and a    *)
(* released one was canceled (slash_one, release_bond).                     *)
THEOREM RowFollowsInvoiceHolds ==
  ASSUME From \in {"waiting", "active"}
  PROVE  Spec => []RowFollowsInvoice
  <1>1. Init => SlashInv
    BY InitEstablishes
  <1>2. SlashInv => RowFollowsInvoice
    BY DEF SlashInv
  <1>3. QED
    BY <1>1, <1>2, NextPreserves, PTL DEF Spec

(* Nobody is sent BondSlashed about a bond that was not, or is no longer,   *)
(* slashed (apply_bond_resolution, slash_or_release_on_timeout).            *)
THEOREM NoticeIsTrueHolds ==
  ASSUME From \in {"waiting", "active"}
  PROVE  Spec => []NoticeIsTrue
  <1>1. Init => SlashInv
    BY InitEstablishes
  <1>2. SlashInv => NoticeIsTrue
    BY DEF SlashInv
  <1>3. QED
    BY <1>1, <1>2, NextPreserves, PTL DEF Spec

-----------------------------------------------------------------------------
(* DecidedBeforeWritten.  What job_cancel_orders and the taker's cancel     *)
(* write about the order rests on the bonds they have dealt with on the     *)
(* way: DecideInv says, for each step of those two paths, which bonds are   *)
(* decided already and which are still on the worker's lists.               *)

(* The bond is decided at LND, and a slash is recorded.                     *)
Done(b) == htlc[b] # "held" /\ (htlc[b] = "settled" => bond[b] # "locked")

PathKnows(w) ==
  /\ job[w].path = "timeout" => "timeout" \in Actors
  /\ w = "timeout" /\ job[w].step # "idle" => job[w].path = "timeout"
  /\ job[w].path = "taker_cancel" =>
       /\ job[w].blamed = {} /\ job[w].slash = {}
       /\ job[w].step \in {"list", "release", "write", "persist"}

TimeoutKnows(w) ==
  job[w].path = "timeout" =>
    /\ job[w].step \in {"slash", "mark", "confirm"} =>
         \A b \in job[w].blamed : b \in job[w].slash \/ Done(b)
    /\ job[w].step = "confirm" => Done(job[w].at)
    /\ job[w].step \in {"release", "write", "persist"} => \A b \in job[w].blamed : Done(b)

TakerCancelKnows(w) ==
  job[w].path = "taker_cancel" =>
    /\ job[w].step \in {"release", "write"} => "taker" \in job[w].free \/ htlc["taker"] # "held"
    /\ job[w].step = "persist" => htlc["taker"] # "held"

(* LND and the database have answered every call.                           *)
Answered == faults \cap {"lnd", "db"} = {}

Knows(w) == PathKnows(w) /\ (Answered => TimeoutKnows(w) /\ TakerCancelKnows(w))

PendingKnows == Answered /\ status = "pending" => htlc["taker"] # "held"

DecideInv == SlashInv /\ PendingKnows /\ \A w \in Workers : Knows(w)

(* What no step undoes: an invoice is decided once, a bond is locked once,  *)
(* a fault is not forgotten.                                                *)
Forward ==
  /\ Decided
  /\ \A b \in Bonds : bond[b] # "locked" => bond'[b] # "locked"
  /\ faults \subseteq faults'

(* The workers other than w stay where they are.                            *)
Alone(w) == \A v \in Workers \ {w} : job'[v] = job[v]

(* What Goto, Work and Turn make of the job.                                *)
LEMMA GotoJob ==
  ASSUME TypeOK, NEW w \in Workers, NEW step \in Steps, Goto(w, step)
  PROVE  /\ Alone(w) /\ job'[w].step = step /\ job'[w].slash = {}
         /\ step = "idle" => job'[w].path = "none"
         /\ step # "idle" => job'[w].path = job[w].path /\ job'[w].blamed = job[w].blamed
  <1>1. job \in [Workers -> Jobs]
    BY DEF TypeOK, Jobs
  <1> DEFINE new == IF step = "idle" THEN Resting
            ELSE [Resting EXCEPT !.path = job[w].path, !.step = step, !.blamed = job[w].blamed]
  <1>2. /\ new.step = step /\ new.slash = {}
        /\ step = "idle" => new.path = "none"
        /\ step # "idle" => new.path = job[w].path /\ new.blamed = job[w].blamed
    BY <1>1 DEF Resting
  <1>3. job' = [job EXCEPT ![w] = new]
    BY DEF Goto
  <1> HIDE DEF new
  <1>4. QED
    BY <1>1, <1>2, <1>3 DEF Alone

LEMMA WorkJob ==
  ASSUME TypeOK, NEW w \in Workers, NEW slash \in SUBSET Bonds, NEW free \in SUBSET Bonds,
         Work(w, slash, free)
  PROVE  /\ Alone(w) /\ job'[w].slash = slash
         /\ slash \cup free # {} =>
              /\ job'[w].path = job[w].path /\ job'[w].blamed = job[w].blamed
              /\ job'[w].free = free
              /\ job'[w].step = IF slash # {} THEN "slash" ELSE "release"
         /\ slash \cup free = {} =>
              /\ job'[w].step = AfterList(job[w].path)
              /\ job'[w].step = "idle" => job'[w].path = "none"
              /\ job'[w].step # "idle" =>
                   job'[w].path = job[w].path /\ job'[w].blamed = job[w].blamed
  <1>1. job \in [Workers -> Jobs]
    BY DEF TypeOK, Jobs
  <1>2. CASE slash \cup free = {}
    <2>1. Goto(w, AfterList(job[w].path)) /\ AfterList(job[w].path) \in Steps
      BY <1>2, AfterSteps DEF Work
    <2>2. slash = {}
      BY <1>2
    <2>3. QED
      BY <1>2, <2>1, <2>2, GotoJob
  <1>3. CASE slash \cup free # {}
    <2> DEFINE step == IF slash # {} THEN "slash" ELSE "release"
               new == [job[w] EXCEPT !.step = step, !.slash = slash, !.free = free, !.at = "maker"]
    <2>1. /\ new.step = step /\ new.slash = slash /\ new.free = free
          /\ new.path = job[w].path /\ new.blamed = job[w].blamed
      BY <1>1 DEF Jobs
    <2>2. job' = [job EXCEPT ![w] = new]
      BY <1>3 DEF Work
    <2> HIDE DEF new
    <2>3. QED
      BY <1>1, <1>3, <2>1, <2>2 DEF Alone
  <1>4. QED
    BY <1>2, <1>3

LEMMA TurnJob ==
  ASSUME TypeOK, NEW w \in Workers, NEW step \in Steps, NEW b \in Bonds, Turn(w, step, b)
  PROVE  /\ Alone(w) /\ job'[w].step = step /\ job'[w].at = b
         /\ job'[w].path = job[w].path /\ job'[w].blamed = job[w].blamed
         /\ job'[w].slash = job[w].slash /\ job'[w].free = job[w].free
  <1>1. job \in [Workers -> Jobs]
    BY DEF TypeOK, Jobs
  <1> DEFINE new == [job[w] EXCEPT !.step = step, !.at = b]
  <1>2. /\ new.step = step /\ new.at = b
        /\ new.path = job[w].path /\ new.blamed = job[w].blamed
        /\ new.slash = job[w].slash /\ new.free = job[w].free
    BY <1>1 DEF Jobs
  <1>3. job' = [job EXCEPT ![w] = new]
    BY Zenon, <1>1 DEF Turn, Jobs
  <1> HIDE DEF new
  <1>4. QED
    BY <1>1, <1>2, <1>3 DEF Alone

(* A decided bond stays decided.                                            *)
LEMMA DoneStays ==
  ASSUME TypeOK, Forward, NEW b \in Bonds
  PROVE  /\ Done(b) => Done(b)'
         /\ htlc[b] # "held" => htlc'[b] # "held"
         /\ Answered' => Answered
  BY DEF TypeOK, Forward, Decided, Done, Answered

(* What a worker knows survives the steps of the others.                    *)
LEMMA StillKnows ==
  ASSUME TypeOK, Forward, NEW w \in Workers, job'[w] = job[w], Knows(w)
  PROVE  Knows(w)'
  <1>1. /\ "taker" \in Bonds /\ job[w].at \in Bonds /\ job[w].blamed \subseteq Bonds
    BY DEF TypeOK, Bonds
  <1>2. PathKnows(w)'
    BY DEF Knows, PathKnows
  <1>3. ASSUME Answered'
        PROVE  TimeoutKnows(w)' /\ TakerCancelKnows(w)'
    <2>1. Answered /\ TimeoutKnows(w) /\ TakerCancelKnows(w)
      BY <1>1, <1>3, DoneStays DEF Knows
    <2>2. \A b \in Bonds : (Done(b) => Done(b)') /\ (htlc[b] # "held" => htlc'[b] # "held")
      BY DoneStays
    <2>3. TimeoutKnows(w)'
      BY <1>1, <2>1, <2>2 DEF TimeoutKnows
    <2>4. TakerCancelKnows(w)'
      BY <1>1, <2>1, <2>2 DEF TakerCancelKnows
    <2>5. QED
      BY <2>3, <2>4
  <1>4. QED
    BY <1>2, <1>3 DEF Knows

(* One worker's step, from what it knows afterwards.                        *)
LEMMA OneStep ==
  ASSUME DecideInv, SlashInv', Forward, NEW w \in Workers, Alone(w), Knows(w)',
         Answered' /\ status' = "pending" /\ status # "pending" => htlc'["taker"] # "held"
  PROVE  DecideInv'
  <1>1. TypeOK /\ "taker" \in Bonds
    BY DEF DecideInv, SlashInv, Bonds
  <1>2. \A v \in Workers : Knows(v)'
    BY <1>1, StillKnows DEF Alone, DecideInv
  <1>3. PendingKnows'
    BY <1>1, DoneStays DEF DecideInv, PendingKnows
  <1>4. QED
    BY <1>2, <1>3 DEF DecideInv

(* Every step only goes forward: only held invoices move, only Locked rows  *)
(* leave Locked.                                                            *)
LEMMA StepForward == SlashInv /\ Next => Forward
  <1> SUFFICES ASSUME SlashInv, Next
               PROVE  Forward
    OBVIOUS
  <1>1. TypeOK
    BY DEF SlashInv
  <1>0. /\ bond \in [Bonds -> {"locked", "released", "pending-payout", "slashed"}]
        /\ htlc \in [Bonds -> {"held", "settled", "canceled"}]
        /\ \A w \in Workers : job[w].at \in Bonds
    BY <1>1 DEF TypeOK
  <1>2. CASE Trading \/ Hooks \/ job_cancel_orders
    <2>1. UNCHANGED <<rows, htlc, faults>>
      BY Zenon, <1>2 DEF Trading, hold_invoice_paid, dispute_action, payment_success, Advance,
         Hooks,
           cancel_action, cancel_order_by_taker, release_action, admin_action, Entry,
           reconcile_stranded_range_maker_bonds, on_bond_invoice_canceled, job_cancel_orders
    <2>2. QED
      BY Zenon, <2>1 DEF Forward, Decided, rows
  <1>3. ASSUME NEW w \in Workers, Resolving(w)
        PROVE  Forward
    <2>1. CASE \/ persist(w) \/ find_active_bonds_for_order(w) \/ slash_reason_recorded(w)
               \/ resolve_range_maker_bond_at_close(w)
      <3>1. UNCHANGED <<rows, htlc, faults>>
        BY <2>1 DEF persist, find_active_bonds_for_order, slash_reason_recorded,
             resolve_range_maker_bond_at_close
      <3>2. QED
        BY <3>1 DEF Forward, Decided, rows
    <2>2. CASE slash_one(w)
      BY <1>0, <2>2 DEF slash_one, Forward, Decided, rows
    <2>3. CASE release_bond(w)
      BY <1>0, <2>3 DEF release_bond, Forward, Decided
    <2>4. ASSUME NEW b \in Bonds, settle_hold_invoice(w, b) \/ cancel_hold_invoice(w, b)
          PROVE  Forward
      BY <1>0, <2>4 DEF settle_hold_invoice, cancel_hold_invoice, Forward, Decided, rows
    <2>5. QED
      BY <1>3, <2>1, <2>2, <2>3, <2>4 DEF Resolving
  <1>4. ASSUME NEW w \in Workers, Failing(w)
        PROVE  Forward
    <2>1. UNCHANGED <<rows, htlc>> /\ faults \subseteq faults'
      BY <1>4 DEF Failing, slash_one_db_error, read_fails, handler_fails, settle_fails,
           cancel_fails, Fault
    <2>2. QED
      BY <2>1 DEF Forward, Decided, rows
  <1>5. ASSUME NEW b \in Bonds, process_one_bond(b) \/ cltv_expiry(b)
        PROVE  Forward
    BY <1>0, <1>5 DEF process_one_bond, cltv_expiry, Forward, Decided, rows, Fault
  <1>6. CASE crash
    BY <1>6 DEF crash, Forward, Decided, rows, Fault
  <1>7. QED
    BY <1>2, <1>3, <1>4, <1>5, <1>6 DEF Next

(* A worker that is idle, or on a path without a promise, knows enough.     *)
LEMMA FreeKnows ==
  ASSUME NEW w \in Workers, job'[w].path \notin {"timeout", "taker_cancel"},
         w = "timeout" => job'[w].step = "idle"
  PROVE  Knows(w)'
  BY DEF Knows, PathKnows, TimeoutKnows, TakerCancelKnows

(* Entry points.                                                            *)
LEMMA StartDecides ==
  ASSUME DecideInv, SlashInv', Forward, NEW w \in Workers, NEW path \in Paths,
         NEW step \in Steps, NEW blamed \in SUBSET Bonds, Start(w, path, step, blamed),
         status' # "pending" \/ status' = status,
         step \in {"persist", "list", "close"},
         path = "timeout" => step = "list",
         path = "taker_cancel" => step = "list" /\ blamed = {},
         w = "timeout" <=> path = "timeout"
  PROVE  DecideInv'
  <1>1. TypeOK /\ job \in [Workers -> Jobs]
    BY DEF DecideInv, SlashInv, TypeOK, Jobs
  <1> DEFINE new == [Resting EXCEPT !.path = path, !.step = step, !.blamed = blamed]
  <1>2. new.path = path /\ new.step = step /\ new.blamed = blamed /\ new.slash = {}
    BY DEF Resting
  <1>3. job' = [job EXCEPT ![w] = new] /\ w \in Actors
    BY DEF Start
  <1> HIDE DEF new
  <1>4. Alone(w) /\ job'[w] = new
    BY <1>1, <1>3 DEF Alone
  <1>5. Knows(w)'
    BY <1>2, <1>3, <1>4 DEF Knows, PathKnows, TimeoutKnows, TakerCancelKnows
  <1>6. QED
    BY <1>4, <1>5, OneStep

LEMMA EntriesDecide ==
  ASSUME DecideInv, SlashInv', Forward, Trading \/ Hooks \/ job_cancel_orders
  PROVE  DecideInv'
  <1>1. TypeOK /\ duty \in Bonds
    BY DEF DecideInv, SlashInv, TypeOK
  <1>a. {"persist", "list", "close"} \subseteq Steps /\ {} \in SUBSET Bonds
    BY DEF Steps
  <1>b. /\ {"main", "rpc", "timeout", "sweep", "subscriber"} \subseteq Workers
        /\ Admins \subseteq Workers /\ "timeout" \notin Admins
    BY DEF Workers, Admins
  <1>2. CASE Trading
    <2>1. UNCHANGED job /\ (status' # "pending")
      BY <1>2 DEF Trading, hold_invoice_paid, dispute_action, payment_success, Advance
    <2>2. Alone("main") /\ Knows("main")'
      BY <1>1, <1>b, <2>1, StillKnows DEF Alone, DecideInv
    <2>3. QED
      BY <1>b, <2>1, <2>2, OneStep
  <1>3. CASE cancel_action
    <2>1. PICK path \in {"withdraw", "cancel"} : Start("main", path, "persist", {})
      BY <1>3 DEF cancel_action
    <2>2. UNCHANGED status /\ path \in Paths
      BY <1>3 DEF cancel_action, Entry, Paths
    <2>3. QED
      BY <1>a, <1>b, <2>1, <2>2, StartDecides
  <1>4. CASE cancel_order_by_taker
    BY <1>4, <1>a, <1>b, StartDecides DEF cancel_order_by_taker, Entry, Paths
  <1>5. CASE release_action
    BY <1>5, <1>a, <1>b, StartDecides DEF release_action, Paths
  <1>6. CASE reconcile_stranded_range_maker_bonds
    BY <1>6, <1>a, <1>b, StartDecides DEF reconcile_stranded_range_maker_bonds, Entry, Paths
  <1>7. ASSUME NEW w \in Admins, NEW path \in {"admin_cancel", "admin_settle"},
               NEW blamed \in SUBSET Bonds, admin_action(w, path, blamed)
        PROVE  DecideInv'
    <2>1. w \in Workers /\ w # "timeout" /\ path \in Paths
      BY <1>b DEF Paths
    <2>2. QED
      BY <1>7, <1>a, <2>1, StartDecides DEF admin_action, Entry
  <1>8. ASSUME NEW b \in Bonds, on_bond_invoice_canceled(b)
        PROVE  DecideInv'
    <2> DEFINE new == [Resting EXCEPT !.path = "release", !.step = "write", !.free = {b}, !.at = b]
    <2>1. new.path = "release"
      BY DEF Resting
    <2>2. job' = [job EXCEPT !["subscriber"] = new] /\ UNCHANGED status
      BY <1>8 DEF on_bond_invoice_canceled, Entry
    <2> HIDE DEF new
    <2>3. Alone("subscriber") /\ job'["subscriber"] = new
      BY <1>1, <1>b, <2>2 DEF Alone, TypeOK
    <2>4. Knows("subscriber")'
      BY <1>b, <2>1, <2>3, FreeKnows
    <2>5. QED
      BY <1>b, <2>2, <2>3, <2>4, OneStep
  <1>9. CASE job_cancel_orders
    <2>1. /\ Start("timeout", "timeout", "list", {duty}) /\ UNCHANGED status
          /\ {duty} \in SUBSET Bonds /\ "timeout" \in Paths
      BY <1>1, <1>9 DEF job_cancel_orders, Entry, Paths
    <2>2. QED
      BY <1>a, <1>b, <2>1, StartDecides
  <1>10. QED
    BY <1>2, <1>3, <1>4, <1>5, <1>6, <1>7, <1>8, <1>9 DEF Hooks

(* The order is written: the job and the taker's cancel put it back on the  *)
(* book only from "persist".                                                *)
LEMMA PersistDecides ==
  ASSUME DecideInv, SlashInv', Forward, NEW w \in Workers, persist(w)
  PROVE  DecideInv'
  <1>1. TypeOK /\ Knows(w) /\ UNCHANGED <<bond, htlc, faults>> /\ job[w].step = "persist"
    BY DEF DecideInv, SlashInv, persist, At, rows
  <1>2. PICK step \in {"idle", "list", "close"} :
          /\ Goto(w, step)
          /\ job[w].path = "taker_cancel" => step = "idle"
          /\ job[w].path = "timeout" => step \in {"idle", "close"}
          /\ status' = "pending" /\ status # "pending" => Republishes(w)
    BY DEF persist, Republishes
  <1>3. /\ Alone(w) /\ job'[w].step = step /\ job'[w].slash = {}
        /\ step = "idle" => job'[w].path = "none"
        /\ step # "idle" => job'[w].path = job[w].path /\ job'[w].blamed = job[w].blamed
    BY <1>1, <1>2, GotoJob DEF Steps
  <1>4. Knows(w)'
    BY <1>1, <1>2, <1>3 DEF Knows, PathKnows, TimeoutKnows, TakerCancelKnows
  <1>5. ASSUME Answered', status' = "pending", status # "pending"
        PROVE  htlc'["taker"] # "held"
    <2>1. Answered /\ Republishes(w)
      BY <1>1, <1>2, <1>5 DEF Answered
    <2>2. CASE job[w].path = "taker_cancel"
      BY <1>1, <2>1, <2>2 DEF Knows, TakerCancelKnows
    <2>3. CASE job[w].path = "timeout" /\ job[w].blamed = {"taker"}
      BY Zenon, <1>1, <2>1, <2>3 DEF Knows, TimeoutKnows, Done
    <2>4. QED
      BY <2>1, <2>2, <2>3 DEF Republishes
  <1>6. QED
    BY <1>3, <1>4, <1>5, OneStep

(* A list of bonds is worked off: what is left on it, or decided, is all    *)
(* the path cares about.                                                    *)
LEMMA WorkDecides ==
  ASSUME DecideInv, SlashInv', Forward, UNCHANGED status,
         NEW w \in Workers, NEW slash \in SUBSET Bonds, NEW free \in SUBSET Bonds,
         Work(w, slash, free), job[w].step # "idle",
         Answered' /\ job[w].path = "timeout" =>
           \A b \in job[w].blamed : b \in slash \/ Done(b)',
         job[w].path = "taker_cancel" => slash = {},
         Answered' /\ job[w].path = "taker_cancel" =>
           "taker" \in free \/ htlc'["taker"] # "held"
  PROVE  DecideInv'
  <1>1. TypeOK /\ PathKnows(w)
    BY DEF DecideInv, SlashInv, Knows
  <1>2. /\ Alone(w) /\ job'[w].slash = slash
        /\ slash \cup free # {} =>
             /\ job'[w].path = job[w].path /\ job'[w].blamed = job[w].blamed
             /\ job'[w].free = free
             /\ job'[w].step = IF slash # {} THEN "slash" ELSE "release"
        /\ slash \cup free = {} =>
             /\ job'[w].step = AfterList(job[w].path)
             /\ job'[w].step = "idle" => job'[w].path = "none"
             /\ job'[w].step # "idle" =>
                  job'[w].path = job[w].path /\ job'[w].blamed = job[w].blamed
    BY Zenon, <1>1, WorkJob
  <1>3. job[w].path \in {"timeout", "taker_cancel"} => AfterList(job[w].path) = "persist"
    BY DEF AfterList
  <1>4. PathKnows(w)'
    BY <1>1, <1>2, <1>3 DEF PathKnows
  <1>5. ASSUME Answered'
        PROVE  TimeoutKnows(w)' /\ TakerCancelKnows(w)'
    <2>1. TimeoutKnows(w)'
      BY <1>2, <1>3, <1>5 DEF TimeoutKnows
    <2>2. TakerCancelKnows(w)'
      BY <1>2, <1>3, <1>5 DEF TakerCancelKnows
    <2>3. QED
      BY <2>1, <2>2
  <1>6. QED
    BY <1>2, <1>4, <1>5, OneStep DEF Knows

(* The bonds are listed.  A bond that is not locked is decided, by          *)
(* RowFollowsInvoice; the blamed ones that are locked are to be slashed.    *)
LEMMA ListDecides ==
  ASSUME "timeout" \in Actors => Bonds \subseteq Armed,
         DecideInv, SlashInv', Forward, NEW w \in Workers, find_active_bonds_for_order(w)
  PROVE  DecideInv'
  <1>1. /\ TypeOK /\ RowFollowsInvoice /\ Knows(w)
        /\ UNCHANGED <<status, bond, htlc, faults>> /\ job[w].step = "list"
    BY DEF DecideInv, SlashInv, find_active_bonds_for_order, At, rows
  <1>0. /\ job[w].blamed \subseteq Bonds /\ "taker" \in Bonds
        /\ bond \in [Bonds -> {"locked", "released", "pending-payout", "slashed"}]
    BY <1>1 DEF TypeOK, Bonds
  <1>2. PICK kept \in SUBSET Bonds :
          /\ Work(w, Targets(w), Locked \ (Targets(w) \cup kept))
          /\ job[w].path = "taker_cancel" => kept = {"maker"}
    BY Zenon DEF find_active_bonds_for_order, Republishes, Bonds
  <1>3. Targets(w) \in SUBSET Bonds /\ Locked \ (Targets(w) \cup kept) \in SUBSET Bonds
    BY DEF Targets, Locked
  <1>4. \A b \in Bonds : b \notin Locked => Done(b)'
    BY <1>0, <1>1 DEF Locked, RowFollowsInvoice, Done
  <1>5. job[w].path = "timeout" => \A b \in job[w].blamed : b \in Targets(w) \/ Done(b)'
    BY <1>0, <1>1, <1>4 DEF Targets, Knows, PathKnows
  <1>6. job[w].path = "taker_cancel" =>
          /\ Targets(w) = {}
          /\ "taker" \in Locked \ (Targets(w) \cup kept) \/ htlc'["taker"] # "held"
    BY <1>0, <1>1, <1>2, <1>4 DEF Targets, Knows, PathKnows, Done
  <1>7. QED
    BY Zenon, <1>1, <1>2, <1>3, <1>5, <1>6, WorkDecides

(* One bond is dealt with on the way.                                       *)
LEMMA MarkDecides ==
  ASSUME DecideInv, SlashInv', Forward, NEW w \in Workers, slash_one(w)
  PROVE  DecideInv'
  <1>0. PICK b \in Bonds : b = job[w].at
    BY DEF DecideInv, SlashInv, TypeOK
  <1>1. /\ TypeOK /\ WorkersKnow /\ Knows(w) /\ UNCHANGED <<status, htlc, faults>>
        /\ job[w].step = "mark" /\ Turn(w, "confirm", b)
        /\ bond \in [Bonds -> {"locked", "released", "pending-payout", "slashed"}]
        /\ job[w].blamed \subseteq Bonds
    BY <1>0 DEF DecideInv, SlashInv, TypeOK, slash_one, At
  <1>2. Done(b)'
    BY <1>0, <1>1 DEF slash_one, Done, WorkersKnow, rows
  <1>3. /\ Alone(w) /\ job'[w].step = "confirm" /\ job'[w].at = b
        /\ job'[w].path = job[w].path /\ job'[w].blamed = job[w].blamed
        /\ job'[w].slash = job[w].slash
    BY <1>1, TurnJob DEF Steps
  <1>4. \A c \in Bonds : Done(c) => Done(c)'
    BY Zenon, <1>1, DoneStays
  <1>5. Knows(w)'
    BY <1>1, <1>2, <1>3, <1>4 DEF Knows, PathKnows, TimeoutKnows, TakerCancelKnows, Answered
  <1>6. QED
    BY <1>1, <1>3, <1>5, OneStep

LEMMA NoticeDecides ==
  ASSUME DecideInv, SlashInv', Forward, NEW w \in Workers, slash_reason_recorded(w)
  PROVE  DecideInv'
  <1> DEFINE b == job[w].at
  <1>1. /\ TypeOK /\ Knows(w) /\ UNCHANGED <<status, bond, htlc, faults>>
        /\ job[w].step = "confirm" /\ Work(w, job[w].slash \ {b}, job[w].free)
        /\ job[w].slash \ {b} \in SUBSET Bonds /\ job[w].free \in SUBSET Bonds
        /\ job[w].blamed \subseteq Bonds
    BY Zenon DEF DecideInv, SlashInv, TypeOK, slash_reason_recorded, At, rows
  <1>2. \A c \in Bonds : Done(c) => Done(c)'
    BY Zenon, <1>1, DoneStays
  <1>3. Answered' /\ job[w].path = "timeout" =>
          \A c \in job[w].blamed : c \in job[w].slash \ {b} \/ Done(c)'
    BY Zenon, <1>1, <1>2 DEF Knows, TimeoutKnows, Answered
  <1>4. job[w].path # "taker_cancel"
    BY <1>1 DEF Knows, PathKnows
  <1> HIDE DEF b
  <1>5. QED
    BY <1>1, <1>3, <1>4, WorkDecides

(* slash_one settles: the invoice is settled and about to be marked, or was *)
(* canceled before.                                                         *)
LEMMA SettleDecides ==
  ASSUME DecideInv, SlashInv', Forward, NEW w \in Workers, NEW b \in Bonds,
         settle_hold_invoice(w, b)
  PROVE  DecideInv'
  <1>1. /\ TypeOK /\ Knows(w) /\ UNCHANGED <<status, bond, faults>> /\ job[w].step = "slash"
        /\ htlc \in [Bonds -> {"held", "settled", "canceled"}] /\ job[w].blamed \subseteq Bonds
    BY DEF DecideInv, SlashInv, TypeOK, settle_hold_invoice, At, rows
  <1>2. PICK step \in {"mark", "confirm"} :
          Turn(w, step, b) /\ (step = "confirm" => htlc[b] = "canceled" /\ htlc'[b] = "canceled")
    BY <1>1 DEF settle_hold_invoice
  <1>3. /\ Alone(w) /\ job'[w].step = step /\ job'[w].at = b
        /\ job'[w].path = job[w].path /\ job'[w].blamed = job[w].blamed
        /\ job'[w].slash = job[w].slash
    BY <1>1, <1>2, TurnJob DEF Steps
  <1>4. \A c \in Bonds : Done(c) => Done(c)'
    BY <1>1, DoneStays
  <1>5. step = "confirm" => Done(b)'
    BY Zenon, <1>2 DEF Done
  <1>6. Knows(w)'
    BY <1>1, <1>2, <1>3, <1>4, <1>5 DEF Knows, PathKnows, TimeoutKnows, TakerCancelKnows, Answered
  <1>7. QED
    BY <1>1, <1>3, <1>6, OneStep

(* The list is worked off without slashing: release_bond and its errors.    *)
LEMMA SkipDecides ==
  ASSUME DecideInv, SlashInv', Forward, NEW w \in Workers, NEW b \in Bonds,
         UNCHANGED status, Releasable(w, b), Skip(w, b),
         Answered' => htlc'[b] # "held"
  PROVE  DecideInv'
  <1>1. /\ TypeOK /\ Knows(w) /\ job[w].free \ {b} \in SUBSET Bonds
        /\ job[w].blamed \subseteq Bonds /\ {} \in SUBSET Bonds /\ "taker" \in Bonds
    BY Zenon DEF DecideInv, SlashInv, TypeOK, Bonds
  <1>2. \A c \in Bonds : /\ Done(c) => Done(c)'
                         /\ htlc[c] # "held" => htlc'[c] # "held"
                         /\ Answered' => Answered
    BY Zenon, <1>1, DoneStays
  <1>3. CASE Closing(w)
    <2>1. /\ Goto(w, AfterClose(job[w].path)) /\ AfterClose(job[w].path) \in Steps
          /\ job[w].path = "timeout" => AfterClose(job[w].path) = "idle"
          /\ job[w].path # "taker_cancel" /\ (w = "timeout" => job[w].path = "timeout")
      BY Zenon, <1>1, <1>3, AfterSteps DEF Skip, AfterClose, Closing, At, Knows, PathKnows
    <2>2. Alone(w) /\ Knows(w)'
      BY <1>1, <2>1, GotoJob, FreeKnows
    <2>3. QED
      BY Zenon, <2>2, OneStep
  <1>4. CASE ~Closing(w)
    <2>1. Work(w, {}, job[w].free \ {b}) /\ job[w].step = "release"
      BY <1>4 DEF Skip, Releasable, At
    <2>5. Answered => /\ job[w].path = "timeout" => \A c \in job[w].blamed : Done(c)
                      /\ job[w].path = "taker_cancel" =>
                           "taker" \in job[w].free \/ htlc["taker"] # "held"
      BY <1>1, <2>1 DEF Knows, TimeoutKnows, TakerCancelKnows
    <2>2. Answered' /\ job[w].path = "timeout" => \A c \in job[w].blamed : c \in {} \/ Done(c)'
      BY <1>1, <1>2, <2>5
    <2>3. Answered' /\ job[w].path = "taker_cancel" =>
            "taker" \in job[w].free \ {b} \/ htlc'["taker"] # "held"
      BY <1>1, <1>2, <2>5
    <2>4. QED
      BY <1>1, <2>1, <2>2, <2>3, WorkDecides
  <1>5. QED
    BY <1>3, <1>4

LEMMA CancelDecides ==
  ASSUME DecideInv, SlashInv', Forward, NEW w \in Workers, NEW b \in Bonds,
         cancel_hold_invoice(w, b)
  PROVE  DecideInv'
  <1>1. /\ TypeOK /\ Knows(w) /\ UNCHANGED <<status, bond, faults>>
        /\ htlc \in [Bonds -> {"held", "settled", "canceled"}] /\ job[w].blamed \subseteq Bonds
        /\ Releasable(w, b) /\ "taker" \in Bonds
    BY DEF DecideInv, SlashInv, TypeOK, cancel_hold_invoice, rows, Bonds
  <1>2. CASE htlc[b] = "settled"
    <2>1. Skip(w, b) /\ htlc'[b] # "held"
      BY Zenon, <1>1, <1>2 DEF cancel_hold_invoice
    <2>2. QED
      BY <1>1, <2>1, SkipDecides
  <1>3. CASE htlc[b] # "settled"
    <2>1. PICK step \in {"write", "close_write"} :
            /\ Turn(w, step, b)
            /\ step = "write" => job[w].step = "release"
            /\ step = "close_write" => job[w].step = "close_cancel"
      BY Zenon, <1>1, <1>3 DEF cancel_hold_invoice, Releasable, Closing, At
    <2>2. /\ Alone(w) /\ job'[w].step = step
          /\ job'[w].path = job[w].path /\ job'[w].blamed = job[w].blamed
          /\ job'[w].slash = job[w].slash /\ job'[w].free = job[w].free
      BY <1>1, <2>1, TurnJob DEF Steps
    <2>3. \A c \in Bonds : /\ Done(c) => Done(c)'
                           /\ htlc[c] # "held" => htlc'[c] # "held"
      BY Zenon, <1>1, DoneStays
    <2>4. PathKnows(w)'
      BY Zenon, <1>1, <2>1, <2>2 DEF Knows, PathKnows
    <2>5. Answered' => TimeoutKnows(w)' /\ TakerCancelKnows(w)'
      <3>1. Answered' => Answered
        BY <1>1 DEF Answered
      <3>2. Answered => TimeoutKnows(w)'
        BY Zenon, <1>1, <2>1, <2>2, <2>3 DEF Knows, TimeoutKnows
      <3>3. Answered => TakerCancelKnows(w)'
        BY Zenon, <1>1, <2>1, <2>2, <2>3 DEF Knows, PathKnows, TakerCancelKnows
      <3>4. QED
        BY <3>1, <3>2, <3>3
    <2>6. QED
      BY Zenon, <1>1, <2>2, <2>4, <2>5, OneStep DEF Knows
  <1>4. QED
    BY <1>2, <1>3

(* The released row is written.                                             *)
LEMMA WriteDecides ==
  ASSUME DecideInv, SlashInv', Forward, NEW w \in Workers, release_bond(w)
  PROVE  DecideInv'
  <1>0. PICK b \in Bonds : b = job[w].at
    BY DEF DecideInv, SlashInv, TypeOK
  <1>1. /\ TypeOK /\ WorkersKnow /\ Knows(w) /\ UNCHANGED <<status, htlc, faults>>
        /\ htlc[b] = "canceled" /\ job[w].free \ {b} \in SUBSET Bonds
        /\ job[w].blamed \subseteq Bonds /\ {} \in SUBSET Bonds /\ "taker" \in Bonds
    BY <1>0 DEF DecideInv, SlashInv, TypeOK, WorkersKnow, release_bond, Bonds
  <1>2. \A c \in Bonds : /\ Done(c) => Done(c)'
                         /\ htlc[c] # "held" => htlc'[c] # "held"
    BY <1>1, DoneStays
  <1>3. CASE At(w, "close_write")
    <2>1. /\ Goto(w, AfterClose(job[w].path)) /\ AfterClose(job[w].path) \in Steps
          /\ job[w].path = "timeout" => AfterClose(job[w].path) = "idle"
          /\ job[w].path # "taker_cancel" /\ (w = "timeout" => job[w].path = "timeout")
      BY <1>1, <1>3, AfterSteps DEF release_bond, AfterClose, At, Knows, PathKnows
    <2>2. Alone(w) /\ Knows(w)'
      BY <1>1, <2>1, GotoJob, FreeKnows
    <2>3. QED
      BY Zenon, <1>1, <2>2, OneStep
  <1>4. CASE ~At(w, "close_write")
    <2>1. Work(w, {}, job[w].free \ {b}) /\ job[w].step = "write"
      BY <1>0, <1>4 DEF release_bond, At
    <2>5. Answered' => Answered
      BY Zenon, <1>1 DEF Answered
    <2>6. Answered /\ job[w].path = "timeout" => \A c \in job[w].blamed : Done(c)
      BY Zenon, <1>1, <2>1 DEF Knows, TimeoutKnows
    <2>2. Answered' /\ job[w].path = "timeout" => \A c \in job[w].blamed : c \in {} \/ Done(c)'
      BY <1>1, <1>2, <2>5, <2>6
    <2>3. Answered' /\ job[w].path = "taker_cancel" =>
            "taker" \in job[w].free \ {b} \/ htlc'["taker"] # "held"
      BY <1>1, <1>2, <2>1 DEF Knows, TakerCancelKnows, Answered
    <2>4. QED
      BY <1>1, <2>1, <2>2, <2>3, WorkDecides
  <1>5. QED
    BY <1>3, <1>4

(* The maker's bond is closed, if it is still locked.                       *)
LEMMA CloseDecides ==
  ASSUME DecideInv, SlashInv', Forward, NEW w \in Workers, resolve_range_maker_bond_at_close(w)
  PROVE  DecideInv'
  <1>1. /\ TypeOK /\ Knows(w) /\ UNCHANGED status /\ job[w].step = "close"
    BY DEF DecideInv, SlashInv, resolve_range_maker_bond_at_close, At
  <1>2. PICK step \in Steps :
          Goto(w, step) /\ (job[w].path = "timeout" => step \in {"idle", "close_cancel"})
    BY AfterSteps DEF resolve_range_maker_bond_at_close, AfterClose, Steps
  <1>3. /\ Alone(w) /\ job'[w].step = step
        /\ step = "idle" => job'[w].path = "none"
        /\ step # "idle" => job'[w].path = job[w].path /\ job'[w].blamed = job[w].blamed
    BY Zenon, <1>1, <1>2, GotoJob
  <1>4. Knows(w)'
    BY <1>1, <1>2, <1>3 DEF Knows, PathKnows, TimeoutKnows, TakerCancelKnows
  <1>5. QED
    BY <1>1, <1>3, <1>4, OneStep

(* A call fails.  After an error of LND or the database nothing more is     *)
(* promised; a relay's error only ends the handler.                         *)
LEMMA FailingDecides ==
  ASSUME DecideInv, SlashInv', Forward, NEW w \in Workers, Failing(w)
  PROVE  DecideInv'
  <1>1. /\ TypeOK /\ Knows(w) /\ UNCHANGED status /\ job[w].at \in Bonds
    BY DEF DecideInv, SlashInv, TypeOK, Failing, slash_one_db_error, read_fails, handler_fails,
         settle_fails, cancel_fails
  <1>2. CASE handler_fails(w)
    <2>1. Goto(w, "idle") /\ "idle" \in Steps
      BY Zenon, <1>2 DEF handler_fails, Steps
    <2>2. Alone(w) /\ Knows(w)'
      BY Zenon, <1>1, <2>1, GotoJob, FreeKnows
    <2>3. QED
      BY Zenon, <1>1, <2>2, OneStep
  <1>3. CASE read_fails(w)
    <2>1. PICK step \in {"idle", "close", "persist"} :
            Goto(w, step) /\ (job[w].path = "taker_cancel" => step = "idle")
      BY <1>3 DEF read_fails
    <2>2. ~Answered' /\ job[w].step # "idle"
      BY <1>3 DEF read_fails, Fault, Answered
    <2>3. /\ Alone(w) /\ job'[w].step = step
          /\ step = "idle" => job'[w].path = "none"
          /\ step # "idle" => job'[w].path = job[w].path
      BY <1>1, <2>1, GotoJob DEF Steps
    <2>4. Knows(w)'
      BY <1>1, <2>1, <2>2, <2>3 DEF Knows, PathKnows
    <2>5. QED
      BY <1>1, <2>3, <2>4, OneStep
  <1>4. ASSUME NEW b \in Bonds, slash_one_db_error(w) \/ settle_fails(w, b)
        PROVE  DecideInv'
    <2>1. PICK c \in Bonds : Turn(w, "confirm", c)
      BY <1>1, <1>4 DEF slash_one_db_error, settle_fails
    <2>2. ~Answered' /\ job[w].step \in {"mark", "slash"}
      BY <1>4 DEF slash_one_db_error, settle_fails, Fault, Answered, At
    <2>3. Alone(w) /\ job'[w].path = job[w].path
      BY Zenon, <1>1, <2>1, TurnJob DEF Steps
    <2>4. Knows(w)'
      BY <1>1, <2>2, <2>3 DEF Knows, PathKnows
    <2>5. QED
      BY <1>1, <2>3, <2>4, OneStep
  <1>5. ASSUME NEW b \in Bonds, cancel_fails(w, b)
        PROVE  DecideInv'
    <2>1. Releasable(w, b) /\ Skip(w, b) /\ ~Answered'
      BY <1>5 DEF cancel_fails, Fault, Answered
    <2>2. QED
      BY <1>1, <2>1, SkipDecides
  <1>6. "maker" \in Bonds
    BY DEF Bonds
  <1>7. QED
    BY <1>2, <1>3, <1>4, <1>5, <1>6 DEF Failing

(* DecideInv is inductive.                                                  *)
LEMMA DecideNext ==
  ASSUME "timeout" \in Actors => Bonds \subseteq Armed, DecideInv, [Next]_vars
  PROVE  DecideInv'
  <1>1. SlashInv /\ TypeOK /\ "main" \in Workers
    BY DEF DecideInv, SlashInv, Workers, Admins
  <1>2. SlashInv'
    BY <1>1, NextPreserves
  <1>3. CASE UNCHANGED vars
    <2>1. Forward /\ UNCHANGED <<status, job>>
      BY <1>3 DEF vars, Forward, Decided
    <2>2. Alone("main") /\ Knows("main")'
      BY <1>1, <2>1, StillKnows DEF Alone, DecideInv
    <2>3. QED
      BY <1>1, <1>2, <2>1, <2>2, OneStep
  <1>4. CASE Next
    <2>1. Forward
      BY <1>1, <1>4, StepForward
    <2>2. CASE Trading \/ Hooks \/ job_cancel_orders
      BY <1>2, <2>1, <2>2, EntriesDecide
    <2>3. ASSUME NEW w \in Workers, Resolving(w)
          PROVE  DecideInv'
      BY <1>2, <2>1, <2>3, PersistDecides, ListDecides, MarkDecides, NoticeDecides, WriteDecides,
         CloseDecides, SettleDecides, CancelDecides DEF Resolving
    <2>4. ASSUME NEW w \in Workers, Failing(w)
          PROVE  DecideInv'
      BY <1>2, <2>1, <2>4, FailingDecides
    <2>5. ASSUME NEW b \in Bonds, process_one_bond(b) \/ cltv_expiry(b)
          PROVE  DecideInv'
      <3>1. UNCHANGED <<status, job>>
        BY <2>5 DEF process_one_bond, cltv_expiry
      <3>2. Alone("main") /\ Knows("main")'
        BY <1>1, <2>1, <3>1, StillKnows DEF Alone, DecideInv
      <3>3. QED
        BY <1>1, <1>2, <2>1, <3>1, <3>2, OneStep
    <2>6. CASE crash
      <3>1. UNCHANGED status /\ \A w \in Workers : job'[w] = Resting
        BY <2>6 DEF crash
      <3>2. Resting.path = "none" /\ Resting.step = "idle"
        BY DEF Resting
      <3>3. \A w \in Workers : Knows(w)'
        BY <3>1, <3>2, FreeKnows
      <3>4. PendingKnows'
        BY <1>1, <2>1, <3>1, DoneStays DEF DecideInv, PendingKnows, Bonds
      <3>5. QED
        BY <1>2, <3>3, <3>4 DEF DecideInv
    <2>7. QED
      BY <1>4, <2>2, <2>3, <2>4, <2>5, <2>6 DEF Next
  <1>5. QED
    BY <1>3, <1>4

LEMMA DecideInit == From \in {"waiting", "active"} /\ Init => DecideInv
  <1> SUFFICES ASSUME From \in {"waiting", "active"}, Init
               PROVE  DecideInv
    OBVIOUS
  <1>1. SlashInv
    BY InitEstablishes
  <1>2. \A w \in Workers : job[w] = Resting
    BY DEF Init
  <1>3. Resting.path = "none" /\ Resting.step = "idle"
    BY DEF Resting
  <1>4. \A w \in Workers : Knows(w)
    BY <1>2, <1>3 DEF Knows, PathKnows, TimeoutKnows, TakerCancelKnows
  <1>5. PendingKnows
    BY DEF Init, PendingKnows
  <1>6. QED
    BY <1>1, <1>4, <1>5 DEF DecideInv

LEMMA DecideImplies == DecideInv => DecidedBeforeWritten
  <1> SUFFICES ASSUME DecideInv, Answered
               PROVE  /\ status = "pending" => htlc["taker"] # "held"
                      /\ At("timeout", "persist") => \A b \in job["timeout"].blamed : Done(b)
    BY DEF DecidedBeforeWritten, Answered, Done
  <1>1. Knows("timeout") /\ PendingKnows
    BY DEF DecideInv, Workers
  <1>2. QED
    BY <1>1 DEF Knows, PathKnows, TimeoutKnows, PendingKnows, At

(* When slash_on_waiting_timeout covers both roles and as long as LND and   *)
(* the database answer, job_cancel_orders writes the order only once the    *)
(* late party's bond is decided and a slash is recorded, and an order is    *)
(* back on the book only once its taker's bond is decided                   *)
(* (job_cancel_orders, cancel_order_by_taker).                              *)
THEOREM DecidedBeforeWrittenHolds ==
  ASSUME From \in {"waiting", "active"}, "timeout" \in Actors => Bonds \subseteq Armed
  PROVE  Spec => []DecidedBeforeWritten
  <1>1. Init => DecideInv
    BY DecideInit
  <1>2. DecideInv /\ [Next]_vars => DecideInv'
    BY DecideNext
  <1>3. QED
    BY <1>1, <1>2, DecideImplies, PTL DEF Spec
==============================================================================
