-------------------------- MODULE BondPayoutProofs --------------------------
(***************************************************************************)
(* Proofs about BondPayout, for any number of debts, invoices, retries and *)
(* faults.  The job works on copies of the rows while the main loop writes *)
(* them; PayInv says what stays true of a copy, and what each step of the  *)
(* job has learnt of the payment it works on.                              *)
(***************************************************************************)
EXTENDS BondPayout, TLAPS

(* Zenon closes most leaves at once; SMT takes those with arithmetic.       *)
USE ZenonT(3), SMTT(60), ZenonT(60)

Live == {"in-flight", "succeeded"}

Typed ==
  /\ state \in [Debts -> {"pending-payout", "slashed", "forfeited", "failed"}]
  /\ invoice \in [Debts -> Invoices \cup {None}]
  /\ owner \in [Invoices -> Debts \cup {None}]
  /\ payment \in [Invoices -> {"none", "in-flight", "succeeded", "failed"}]
  /\ job \in [step : Steps \cup {"idle"}, debt : Debts \cup {None}]
  /\ DOMAIN copies \subseteq Debts

(* A payment that was or may still be made is of the invoice its debt has.  *)
LiveIsAccepted ==
  \A i \in Invoices : payment[i] \in Live => owner[i] \in Debts /\ invoice[owner[i]] = i

OwnerAgrees == \A d \in Debts : invoice[d] # None => owner[invoice[d]] = d

(* An invoice the main loop is about to store belongs to no debt yet.       *)
MessageFree ==
  message # NoMessage =>
    message.debt \in Debts /\ message.invoice \in Invoices /\ owner[message.invoice] = None

(* A copied row is still pending, and still has the invoice it was copied   *)
(* with.                                                                    *)
CopiesKnow ==
  \A d \in DOMAIN copies :
    /\ state[d] = "pending-payout"
    /\ copies[d].invoice \in Invoices \cup {None}
    /\ copies[d].invoice # None => invoice[d] = copies[d].invoice

(* What the job knows at its step.                                          *)
JobKnows ==
  job.step # "idle" =>
    /\ job.debt \in DOMAIN copies
    /\ job.step \notin {"forfeit", "finalize", "request", "enqueue"} =>
         copies[job.debt].invoice # None
    /\ job.step \in {"terminal", "rearm", "give_up"} =>
         payment[copies[job.debt].invoice] = "failed"
    /\ job.step = "slash" => payment[copies[job.debt].invoice] = "succeeded"
    /\ job.step = "finalize" => job.debt \in NodeOnly

Promises == NoPaymentLeft /\ AcceptedNotForfeited /\ SlashedIsPaid

PayInv ==
  /\ Typed /\ LiveIsAccepted /\ OwnerAgrees /\ MessageFree /\ CopiesKnow /\ JobKnows
  /\ Promises

(* What the job does not change when it only moves.                         *)
Rows == <<state, invoice, owner, payment, message>>

-----------------------------------------------------------------------------
(* The invoices, debts and None are told apart.                             *)
LEMMA Distinct == None \notin Invoices /\ None \notin Debts
  BY DebtAssumption

(* Goto moves the job within its debt.                                      *)
LEMMA GotoMoves ==
  ASSUME PayInv, NEW step, Goto(step)
  PROVE  job' = [step |-> step, debt |-> job.debt] /\ UNCHANGED copies
  BY DEF Goto, PayInv, Typed

(* Done leaves the debt it was at.                                          *)
LEMMA DoneMoves ==
  ASSUME PayInv, Done
  PROVE  /\ job'.step = "idle" /\ job' \in [step : Steps \cup {"idle"}, debt : Debts \cup {None}]
         /\ DOMAIN copies' = DOMAIN copies \ {job.debt}
         /\ \A d \in DOMAIN copies' : copies'[d] = copies[d]
  BY DEF Done, Idle

(* The job moves on within its debt and changes nothing else.               *)
LEMMA GotoKeeps ==
  ASSUME PayInv, NEW step \in Steps, Goto(step), UNCHANGED Rows, job.step # "idle",
         step \notin {"forfeit", "finalize", "request", "enqueue"} =>
           copies[job.debt].invoice # None,
         step \in {"terminal", "rearm", "give_up"} => payment[copies[job.debt].invoice] = "failed",
         step = "slash" => payment[copies[job.debt].invoice] = "succeeded",
         step # "finalize"
  PROVE  PayInv'
  <1>1. job' = [step |-> step, debt |-> job.debt] /\ UNCHANGED copies
    BY GotoMoves
  <1>2. UNCHANGED <<state, invoice, owner, payment, message>>
    BY DEF Rows
  <1>3. job.debt \in DOMAIN copies
    BY DEF PayInv, JobKnows
  <1>4. JobKnows'
    BY <1>1, <1>2, <1>3 DEF JobKnows
  <1>5. Typed'
    BY <1>1, <1>2, <1>3 DEF PayInv, Typed
  <1>6. LiveIsAccepted' /\ OwnerAgrees' /\ MessageFree' /\ CopiesKnow'
    BY <1>1, <1>2 DEF PayInv, LiveIsAccepted, OwnerAgrees, MessageFree, CopiesKnow
  <1>7. Promises'
    BY <1>2 DEF PayInv, Promises, NoPaymentLeft, AcceptedNotForfeited, SlashedIsPaid
  <1>8. QED
    BY <1>4, <1>5, <1>6, <1>7 DEF PayInv

(* The job is through with its debt, of which it may have written the row.  *)
LEMMA DoneKeeps ==
  ASSUME PayInv, Done, UNCHANGED <<owner, payment, message>>,
         state' \in [Debts -> {"pending-payout", "slashed", "forfeited", "failed"}],
         invoice' \in [Debts -> Invoices \cup {None}],
         \A d \in Debts : d # job.debt => state'[d] = state[d] /\ invoice'[d] = invoice[d],
         LiveIsAccepted', OwnerAgrees', Promises'
  PROVE  PayInv'
  <1>1. /\ job'.step = "idle" /\ job' \in [step : Steps \cup {"idle"}, debt : Debts \cup {None}]
        /\ DOMAIN copies' = DOMAIN copies \ {job.debt}
        /\ \A d \in DOMAIN copies' : copies'[d] = copies[d]
    BY DoneMoves
  <1>2. DOMAIN copies \subseteq Debts
    BY DEF PayInv, Typed
  <1>3. Typed'
    BY <1>1, <1>2 DEF PayInv, Typed
  <1>4. CopiesKnow'
    BY <1>1, <1>2 DEF PayInv, CopiesKnow
  <1>5. JobKnows' /\ MessageFree'
    BY <1>1 DEF PayInv, JobKnows, MessageFree
  <1>6. QED
    BY <1>3, <1>4, <1>5 DEF PayInv

(* The job is through with its debt and wrote nothing.                      *)
LEMMA DoneQuiet ==
  ASSUME PayInv, Done, UNCHANGED Rows
  PROVE  PayInv'
  <1>1. UNCHANGED <<state, invoice, owner, payment, message>>
    BY DEF Rows
  <1>2. LiveIsAccepted' /\ OwnerAgrees'
    BY <1>1 DEF PayInv, LiveIsAccepted, OwnerAgrees
  <1>3. Promises'
    BY <1>1 DEF PayInv, Promises, NoPaymentLeft, AcceptedNotForfeited, SlashedIsPaid
  <1>4. QED
    BY <1>1, <1>2, <1>3, DoneKeeps DEF PayInv, Typed

-----------------------------------------------------------------------------
LEMMA InitKeeps == Init => PayInv
  <1> SUFFICES ASSUME Init PROVE PayInv
    OBVIOUS
  <1>1. DOMAIN copies = {}
    BY DEF Init
  <1>2. Typed
    BY <1>1 DEF Init, Typed, Idle
  <1>3. LiveIsAccepted /\ OwnerAgrees /\ MessageFree /\ JobKnows
    BY Distinct DEF Init, LiveIsAccepted, OwnerAgrees, MessageFree, JobKnows, Live, Idle
  <1>4. CopiesKnow
    BY <1>1 DEF CopiesKnow
  <1>5. Promises
    BY DEF Init, Promises, NoPaymentLeft, AcceptedNotForfeited, SlashedIsPaid
  <1>6. QED
    BY <1>2, <1>3, <1>4, <1>5 DEF PayInv

(* The copies are taken afresh.                                             *)
LEMMA CycleKeeps == PayInv /\ run_bond_payout_cycle => PayInv'
  <1> SUFFICES ASSUME PayInv, run_bond_payout_cycle PROVE PayInv'
    OBVIOUS
  <1>1. UNCHANGED <<state, invoice, owner, payment, message, job>> /\ job.step = "idle"
    BY DEF run_bond_payout_cycle, columns, lnd, Outside, Idle
  <1>2. /\ DOMAIN copies' = {d \in Debts : Pending(d)}
        /\ \A d \in DOMAIN copies' : copies'[d].invoice = invoice[d]
    BY DEF run_bond_payout_cycle
  <1>3. CopiesKnow'
    BY <1>1, <1>2 DEF CopiesKnow, Pending, PayInv, Typed
  <1>4. Typed'
    BY <1>1, <1>2 DEF PayInv, Typed
  <1>5. LiveIsAccepted' /\ OwnerAgrees' /\ MessageFree' /\ JobKnows'
    BY <1>1 DEF PayInv, LiveIsAccepted, OwnerAgrees, MessageFree, JobKnows
  <1>6. Promises'
    BY <1>1 DEF PayInv, Promises, NoPaymentLeft, AcceptedNotForfeited, SlashedIsPaid
  <1>7. QED
    BY <1>3, <1>4, <1>5, <1>6 DEF PayInv

(* A copy is dropped, or its arm is entered with what the arm needs.        *)
LEMMA ProcessKeeps ==
  ASSUME NEW d \in Debts, PayInv, process_one_bond(d) PROVE PayInv'
  <1>1. UNCHANGED <<state, invoice, owner, payment, message>> /\ d \in DOMAIN copies
    BY DEF process_one_bond, columns, lnd, Outside
  <1>2. LiveIsAccepted' /\ OwnerAgrees' /\ MessageFree'
    BY <1>1 DEF PayInv, LiveIsAccepted, OwnerAgrees, MessageFree
  <1>3. Promises'
    BY <1>1 DEF PayInv, Promises, NoPaymentLeft, AcceptedNotForfeited, SlashedIsPaid
  <1>4. CASE Arm(d) = None
    <2>1. /\ UNCHANGED job /\ job.step = "idle"
          /\ DOMAIN copies' = DOMAIN copies \ {d}
          /\ \A e \in DOMAIN copies' : copies'[e] = copies[e]
      BY <1>4 DEF process_one_bond, Idle
    <2>2. Typed' /\ JobKnows'
      BY <1>1, <2>1 DEF PayInv, Typed, JobKnows
    <2>3. CopiesKnow'
      BY <1>1, <2>1 DEF PayInv, CopiesKnow
    <2>4. QED
      BY <1>2, <1>3, <2>2, <2>3 DEF PayInv
  <1>5. CASE Arm(d) # None
    <2>1. job' = [step |-> Arm(d), debt |-> d] /\ UNCHANGED copies
      BY <1>5 DEF process_one_bond
    <2>2. /\ Arm(d) \in {"forfeit", "finalize", "request", "lookup", "persist"}
          /\ Arm(d) = "finalize" => d \in NodeOnly
          /\ Arm(d) \in {"lookup", "persist"} => copies[d].invoice # None
      BY <1>5 DEF Arm
    <2>3. Typed' /\ CopiesKnow'
      BY <1>1, <2>1, <2>2 DEF PayInv, Typed, CopiesKnow, Steps
    <2>4. JobKnows'
      BY <1>1, <2>1, <2>2 DEF JobKnows
    <2>5. QED
      BY <1>2, <1>3, <2>3, <2>4 DEF PayInv
  <1>6. QED
    BY <1>4, <1>5

(* The steps that end a debt without touching its invoice.                  *)
LEMMA ForfeitKeeps == PayInv /\ forfeit_bond => PayInv'
  <1> SUFFICES ASSUME PayInv, forfeit_bond PROVE PayInv'
    OBVIOUS
  <1>1. /\ UNCHANGED <<invoice, owner, payment, message>> /\ Done
        /\ job.debt \in Debts
        /\ state' = IF Pending(job.debt) /\ invoice[job.debt] = None
                    THEN Set(state, job.debt, "forfeited") ELSE state
    BY DEF forfeit_bond, At, lnd, Outside, PayInv, JobKnows, Typed
  <1>2. /\ state' \in [Debts -> {"pending-payout", "slashed", "forfeited", "failed"}]
        /\ \A d \in Debts : d # job.debt => state'[d] = state[d]
    BY <1>1 DEF Set, PayInv, Typed
  <1>3. LiveIsAccepted' /\ OwnerAgrees'
    BY <1>1 DEF PayInv, LiveIsAccepted, OwnerAgrees
  <1>4. \A d \in Debts : state'[d] = "forfeited" => state[d] = "forfeited" \/ invoice[d] = None
    BY <1>1 DEF Set, PayInv, Typed
  <1>5. \A d \in Debts : state'[d] # "forfeited" => state'[d] = state[d]
    BY <1>1 DEF Set, PayInv, Typed
  <1>6. NoPaymentLeft'
    BY <1>1, <1>4, <1>5, Distinct
    DEF PayInv, Typed, LiveIsAccepted, Live, Promises, NoPaymentLeft
  <1>7. AcceptedNotForfeited' /\ SlashedIsPaid'
    BY <1>1, <1>4, <1>5 DEF PayInv, Promises, AcceptedNotForfeited, SlashedIsPaid
  <1>8. QED
    BY <1>1, <1>2, <1>3, <1>6, <1>7, DoneKeeps DEF PayInv, Typed, Promises

(* A debt is closed: nothing is owed, or its invoice was paid.              *)
LEMMA CloseKeeps ==
  ASSUME PayInv, Done, UNCHANGED <<invoice, owner, payment, message>>, job.step # "idle",
         state' = IF Pending(job.debt) THEN Set(state, job.debt, "slashed") ELSE state,
         job.debt \in NodeOnly \/ payment[copies[job.debt].invoice] = "succeeded",
         job.debt \in NodeOnly \/ copies[job.debt].invoice # None
  PROVE  PayInv'
  <1>1. job.debt \in DOMAIN copies /\ job.debt \in Debts
    BY DEF PayInv, JobKnows, Typed
  <1>2. /\ state' \in [Debts -> {"pending-payout", "slashed", "forfeited", "failed"}]
        /\ \A d \in Debts : d # job.debt => state'[d] = state[d]
        /\ state'[job.debt] \in {"slashed", state[job.debt]}
    BY <1>1 DEF Set, PayInv, Typed
  <1>3. LiveIsAccepted' /\ OwnerAgrees'
    BY DEF PayInv, LiveIsAccepted, OwnerAgrees
  <1>4. NoPaymentLeft' /\ AcceptedNotForfeited'
    BY <1>2 DEF PayInv, Promises, NoPaymentLeft, AcceptedNotForfeited
  <1>5. job.debt \in NodeOnly
        \/ \E i \in Invoices : owner[i] = job.debt /\ payment[i] = "succeeded"
    BY <1>1 DEF PayInv, CopiesKnow, OwnerAgrees
  <1>6. SlashedIsPaid'
    BY <1>2, <1>5 DEF PayInv, Promises, SlashedIsPaid
  <1>7. QED
    BY <1>2, <1>3, <1>4, <1>6, DoneKeeps DEF PayInv, Typed, Promises

LEMMA FinalizeKeeps == PayInv /\ finalize_node_only => PayInv'
  BY CloseKeeps DEF finalize_node_only, At, lnd, Outside, PayInv, JobKnows

LEMMA SlashKeeps == PayInv /\ slash_after_success => PayInv'
  <1> SUFFICES ASSUME PayInv, slash_after_success PROVE PayInv'
    OBVIOUS
  <1>1. /\ UNCHANGED <<invoice, owner, payment, message>> /\ Done
        /\ job.step = "slash"
        /\ payment[copies[job.debt].invoice] = "succeeded" /\ copies[job.debt].invoice # None
    BY DEF slash_after_success, At, lnd, Outside, PayInv, JobKnows
  <1>2. CASE state' = IF Pending(job.debt) THEN Set(state, job.debt, "slashed") ELSE state
    BY <1>1, <1>2, CloseKeeps
  <1>3. CASE UNCHANGED state
    BY <1>1, <1>3, DoneQuiet DEF Rows
  <1>4. QED
    BY <1>2, <1>3 DEF slash_after_success

-----------------------------------------------------------------------------
(* The steps that only move the job, or write columns the promises do not   *)
(* mention.                                                                 *)
LEMMA RequestKeeps == PayInv /\ (request_payout_invoice \/ enqueue_order_msg) => PayInv'
  <1> SUFFICES ASSUME PayInv, request_payout_invoice \/ enqueue_order_msg PROVE PayInv'
    OBVIOUS
  <1>1. UNCHANGED Rows /\ job.step # "idle" /\ (Done \/ Goto("enqueue"))
    BY Zenon DEF request_payout_invoice, enqueue_order_msg, At, Rows, columns, lnd, Outside
  <1>2. QED
    BY <1>1, DoneQuiet, GotoKeeps DEF Steps

LEMMA LookupKeeps == PayInv /\ lookup_payment_status => PayInv'
  <1> SUFFICES ASSUME PayInv, lookup_payment_status PROVE PayInv'
    OBVIOUS
  <1>1. UNCHANGED Rows /\ job.step = "lookup"
    BY DEF lookup_payment_status, At, Rows, columns, lnd, Outside
  <1>2. copies[job.debt].invoice # None /\ copies[job.debt].invoice \in Invoices
    BY <1>1 DEF PayInv, JobKnows, CopiesKnow
  <1> DEFINE status == payment[copies[job.debt].invoice]
  <1>3. status \in {"none", "in-flight", "succeeded", "failed"}
    BY <1>2 DEF PayInv, Typed
  <1>4. \/ Done
        \/ Goto("persist")
        \/ status = "succeeded" /\ Goto("slash")
        \/ status = "failed" /\ Goto("terminal")
    BY <1>3 DEF lookup_payment_status, Verdict
  <1>5. QED
    BY <1>1, <1>2, <1>4, DoneQuiet, GotoKeeps DEF Steps

LEMMA PersistKeeps == PayInv /\ persist_payment_hash => PayInv'
  <1> SUFFICES ASSUME PayInv, persist_payment_hash PROVE PayInv'
    OBVIOUS
  <1>1. UNCHANGED Rows /\ job.step = "persist" /\ (Done \/ Goto("send"))
    BY DEF persist_payment_hash, At, Rows, lnd, Outside
  <1>2. copies[job.debt].invoice # None
    BY <1>1 DEF PayInv, JobKnows
  <1>3. QED
    BY <1>1, <1>2, DoneQuiet, GotoKeeps DEF Steps

LEMMA VerdictKeeps == PayInv /\ classify_send_verdict => PayInv'
  <1> SUFFICES ASSUME PayInv, classify_send_verdict PROVE PayInv'
    OBVIOUS
  <1>1. UNCHANGED Rows /\ job.step = "verdict"
    BY DEF classify_send_verdict, At, Rows, columns, lnd, Outside
  <1>2. copies[job.debt].invoice # None
    BY <1>1 DEF PayInv, JobKnows
  <1> DEFINE status == payment[copies[job.debt].invoice]
  <1>3. \/ Goto("indeterminate")
        \/ status = "succeeded" /\ Goto("slash")
        \/ status = "failed" /\ Goto("terminal")
    BY DEF classify_send_verdict
  <1>4. QED
    BY <1>1, <1>2, <1>3, GotoKeeps DEF Steps

LEMMA FailureKeeps == PayInv /\ on_send_payment_failure => PayInv'
  <1> SUFFICES ASSUME PayInv, on_send_payment_failure PROVE PayInv'
    OBVIOUS
  <1>1. UNCHANGED Rows /\ job.step \in {"terminal", "indeterminate"}
    BY DEF on_send_payment_failure, At, Rows, lnd, Outside
  <1>2. \/ Done
        \/ job.step = "terminal" /\ (Goto("rearm") \/ Goto("give_up"))
    <2> DEFINE bumped == IF copies[job.debt].attempts < MaxRetries
                           THEN copies[job.debt].attempts + 1 ELSE MaxRetries
               exhausted == bumped = MaxRetries
    <2>1. IF AfterFailure(exhausted) = None THEN Done ELSE Goto(AfterFailure(exhausted))
      BY DEF on_send_payment_failure
    <2>2. exhausted \in BOOLEAN
      OBVIOUS
    <2> HIDE DEF exhausted
    <2>3. CASE ~exhausted \/ job.step = "indeterminate"
      BY <1>1, <2>1, <2>2, <2>3 DEF AfterFailure, At
    <2>4. CASE exhausted /\ job.step = "terminal" /\ ~expired
      BY <2>1, <2>2, <2>4 DEF AfterFailure, At
    <2>5. CASE exhausted /\ job.step = "terminal" /\ expired
      BY <2>1, <2>2, <2>5 DEF AfterFailure, At
    <2>6. QED
      BY <1>1, <2>2, <2>3, <2>4, <2>5
  <1>3. job.step = "terminal" =>
          copies[job.debt].invoice # None /\ payment[copies[job.debt].invoice] = "failed"
    BY DEF PayInv, JobKnows
  <1>4. QED
    BY <1>1, <1>2, <1>3, DoneQuiet, GotoKeeps DEF Steps

(* A payment starts: it is of the invoice the row still has, and the debt   *)
(* is pending.                                                              *)
LEMMA SendKeeps == PayInv /\ send_payment => PayInv'
  <1> SUFFICES ASSUME PayInv, send_payment PROVE PayInv'
    OBVIOUS
  <1> DEFINE i == copies[job.debt].invoice
  <1>1. /\ UNCHANGED <<state, invoice, owner, message>> /\ job.step = "send"
        /\ Goto("verdict") \/ Goto("indeterminate")
    BY DEF send_payment, At, columns, lnd, Outside
  <1>2. /\ job.debt \in DOMAIN copies /\ job.debt \in Debts /\ i # None /\ i \in Invoices
        /\ state[job.debt] = "pending-payout" /\ invoice[job.debt] = i /\ owner[i] = job.debt
    BY <1>1 DEF PayInv, JobKnows, CopiesKnow, Typed, OwnerAgrees
  <1>3. CASE UNCHANGED payment
    BY <1>1, <1>2, <1>3, GotoKeeps DEF Rows, Steps
  <1>4. CASE payment' = Set(payment, i, "in-flight") /\ payment[i] \in {"none", "failed"}
    <2>1. PICK step \in {"verdict", "indeterminate"} : Goto(step)
      BY <1>1
    <2>2. job' = [step |-> step, debt |-> job.debt] /\ UNCHANGED copies
      BY <2>1, GotoMoves
    <2> HIDE DEF i
    <2>3. /\ payment' \in [Invoices -> {"none", "in-flight", "succeeded", "failed"}]
          /\ \A k \in Invoices : k # i => payment'[k] = payment[k]
          /\ payment'[i] = "in-flight"
      BY <1>2, <1>4 DEF Set, PayInv, Typed
    <2>4. Typed'
      BY <1>1, <1>2, <2>1, <2>2, <2>3 DEF PayInv, Typed, Steps
    <2>5. LiveIsAccepted'
      BY <1>1, <1>2, <2>3 DEF PayInv, LiveIsAccepted
    <2>6. OwnerAgrees' /\ MessageFree' /\ CopiesKnow'
      BY <1>1, <2>2 DEF PayInv, OwnerAgrees, MessageFree, CopiesKnow
    <2>7. JobKnows'
      BY <1>2, <2>1, <2>2 DEF JobKnows, i
    <2>8. NoPaymentLeft'
      BY <1>1, <1>2, <2>3 DEF PayInv, Promises, NoPaymentLeft
    <2>9. AcceptedNotForfeited' /\ SlashedIsPaid'
      BY <1>1, <1>4, <2>3 DEF PayInv, Promises, AcceptedNotForfeited, SlashedIsPaid
    <2>10. QED
      BY <2>4, <2>5, <2>6, <2>7, <2>8, <2>9 DEF PayInv, Promises
  <1>5. QED
    BY <1>3, <1>4 DEF send_payment, lnd

-----------------------------------------------------------------------------
(* The invoice LND could not pay leaves its row.                            *)
LEMMA RearmKeeps == PayInv /\ rearm => PayInv'
  <1> SUFFICES ASSUME PayInv, rearm PROVE PayInv'
    OBVIOUS
  <1> DEFINE i == copies[job.debt].invoice
  <1>1. UNCHANGED <<state, owner, payment, message>> /\ job.step = "rearm" /\ Done
    BY DEF rearm, At, lnd, Outside
  <1>2. /\ job.debt \in DOMAIN copies /\ job.debt \in Debts /\ i \in Invoices
        /\ state[job.debt] = "pending-payout" /\ invoice[job.debt] = i
        /\ payment[i] = "failed"
    BY <1>1 DEF PayInv, JobKnows, CopiesKnow, Typed
  <1>3. invoice' = Set(invoice, job.debt, None)
    BY <1>2 DEF rearm, Pending
  <1>4. /\ invoice' \in [Debts -> Invoices \cup {None}] /\ invoice'[job.debt] = None
        /\ \A d \in Debts : d # job.debt => invoice'[d] = invoice[d]
    BY <1>2, <1>3 DEF Set, PayInv, Typed
  <1> HIDE DEF i
  <1>5. LiveIsAccepted'
    BY <1>1, <1>2, <1>4 DEF PayInv, LiveIsAccepted, Live
  <1>6. OwnerAgrees'
    BY <1>1, <1>4 DEF PayInv, OwnerAgrees
  <1>7. Promises'
    BY <1>1, <1>2, <1>4
    DEF PayInv, Promises, NoPaymentLeft, AcceptedNotForfeited, SlashedIsPaid
  <1>8. QED
    BY <1>1, <1>4, <1>5, <1>6, <1>7, DoneKeeps DEF PayInv, Typed

(* A debt is given up: its only invoice is one LND could not pay.           *)
LEMMA GiveUpKeeps == PayInv /\ give_up => PayInv'
  <1> SUFFICES ASSUME PayInv, give_up PROVE PayInv'
    OBVIOUS
  <1> DEFINE i == copies[job.debt].invoice
  <1>1. UNCHANGED <<invoice, owner, payment, message>> /\ job.step = "give_up" /\ Done
    BY DEF give_up, At, lnd, Outside
  <1>2. /\ job.debt \in DOMAIN copies /\ job.debt \in Debts /\ i \in Invoices
        /\ state[job.debt] = "pending-payout" /\ invoice[job.debt] = i
        /\ payment[i] = "failed"
    BY <1>1 DEF PayInv, JobKnows, CopiesKnow, Typed
  <1>3. state' = Set(state, job.debt, "failed")
    BY <1>2 DEF give_up, Pending
  <1>4. /\ state' \in [Debts -> {"pending-payout", "slashed", "forfeited", "failed"}]
        /\ state'[job.debt] = "failed"
        /\ \A d \in Debts : d # job.debt => state'[d] = state[d]
    BY <1>2, <1>3 DEF Set, PayInv, Typed
  <1> HIDE DEF i
  <1>5. LiveIsAccepted' /\ OwnerAgrees'
    BY <1>1 DEF PayInv, LiveIsAccepted, OwnerAgrees
  <1>6. NoPaymentLeft'
    BY <1>1, <1>2, <1>4 DEF PayInv, LiveIsAccepted, Live, Promises, NoPaymentLeft
  <1>7. AcceptedNotForfeited' /\ SlashedIsPaid'
    BY <1>1, <1>4 DEF PayInv, Promises, AcceptedNotForfeited, SlashedIsPaid
  <1>8. QED
    BY <1>1, <1>4, <1>5, <1>6, <1>7, DoneKeeps DEF PayInv, Typed, Promises

-----------------------------------------------------------------------------
(* The winner, time, LND and restarts.                                      *)
LEMMA AddKeeps ==
  ASSUME NEW i \in Invoices, PayInv, add_bond_invoice_action(i) PROVE PayInv'
  <1>1. UNCHANGED <<state, invoice, owner, payment, copies, job>>
    BY DEF add_bond_invoice_action, columns, lnd
  <1>2. MessageFree'
    BY <1>1 DEF add_bond_invoice_action, find_recoverable_bond_for_recipient, MessageFree
  <1>3. Typed' /\ LiveIsAccepted' /\ OwnerAgrees' /\ CopiesKnow' /\ JobKnows'
    BY <1>1 DEF PayInv, Typed, LiveIsAccepted, OwnerAgrees, CopiesKnow, JobKnows
  <1>4. Promises'
    BY <1>1 DEF PayInv, Promises, NoPaymentLeft, AcceptedNotForfeited, SlashedIsPaid
  <1>5. QED
    BY <1>2, <1>3, <1>4 DEF PayInv

(* An invoice is stored on a pending row without one, or on a row given up. *)
LEMMA ApplyKeeps == PayInv /\ apply_payout_invoice => PayInv'
  <1> SUFFICES ASSUME PayInv, apply_payout_invoice PROVE PayInv'
    OBVIOUS
  <1> DEFINE d == message.debt
             i == message.invoice
  <1>1. /\ UNCHANGED <<payment, copies, job>> /\ message' = NoMessage
        /\ d \in Debts /\ i \in Invoices /\ owner[i] = None
    BY DEF apply_payout_invoice, lnd, PayInv, MessageFree
  <1>2. \/ UNCHANGED <<state, invoice, owner>>
        \/ /\ state[d] = "pending-payout" /\ invoice[d] = None /\ UNCHANGED state
           /\ invoice' = Set(invoice, d, i) /\ owner' = Set(owner, i, d)
        \/ /\ state[d] = "failed" /\ state' = Set(state, d, "pending-payout")
           /\ invoice' = Set(invoice, d, i) /\ owner' = Set(owner, i, d)
    BY DEF apply_payout_invoice, Pending
  <1> HIDE DEF d, i
  <1>3. MessageFree'
    BY <1>1 DEF MessageFree
  <1>4. CASE UNCHANGED <<state, invoice, owner>>
    <2>1. Typed' /\ LiveIsAccepted' /\ OwnerAgrees' /\ CopiesKnow' /\ JobKnows'
      BY <1>1, <1>4 DEF PayInv, Typed, LiveIsAccepted, OwnerAgrees, CopiesKnow, JobKnows
    <2>2. Promises'
      BY <1>1, <1>4
      DEF PayInv, Promises, NoPaymentLeft, AcceptedNotForfeited, SlashedIsPaid
    <2>3. QED
      BY <1>3, <2>1, <2>2 DEF PayInv
  <1>5. CASE /\ \/ state[d] = "pending-payout" /\ invoice[d] = None /\ UNCHANGED state
                \/ state[d] = "failed" /\ state' = Set(state, d, "pending-payout")
             /\ invoice' = Set(invoice, d, i) /\ owner' = Set(owner, i, d)
    <2>1. /\ state' \in [Debts -> {"pending-payout", "slashed", "forfeited", "failed"}]
          /\ state'[d] = "pending-payout" /\ \A e \in Debts : e # d => state'[e] = state[e]
      BY <1>1, <1>5 DEF Set, PayInv, Typed
    <2>2. /\ invoice' \in [Debts -> Invoices \cup {None}]
          /\ invoice'[d] = i /\ \A e \in Debts : e # d => invoice'[e] = invoice[e]
      BY <1>1, <1>5 DEF Set, PayInv, Typed
    <2>3. /\ owner' \in [Invoices -> Debts \cup {None}]
          /\ owner'[i] = d /\ \A k \in Invoices : k # i => owner'[k] = owner[k]
      BY <1>1, <1>5 DEF Set, PayInv, Typed
    <2>4. Typed' /\ JobKnows'
      BY <1>1, <2>1, <2>2, <2>3 DEF PayInv, Typed, JobKnows
    <2>5. payment[i] \notin Live
      BY <1>1, Distinct DEF PayInv, LiveIsAccepted
    <2>6. \A k \in Invoices : owner[k] = d => payment[k] \notin Live
      <3>1. CASE state[d] = "failed"
        BY <1>1, <3>1 DEF PayInv, Promises, NoPaymentLeft, Live
      <3>2. CASE invoice[d] = None
        BY <1>1, <3>2, Distinct DEF PayInv, LiveIsAccepted
      <3>3. QED
        BY <1>5, <3>1, <3>2
    <2>7. LiveIsAccepted'
      BY <1>1, <2>2, <2>3, <2>5, <2>6 DEF PayInv, LiveIsAccepted
    <2>8. OwnerAgrees'
      BY <1>1, <2>2, <2>3, Distinct DEF PayInv, OwnerAgrees, Typed
    <2>9. CopiesKnow'
      BY <1>1, <1>5, <2>1, <2>2 DEF PayInv, CopiesKnow, Typed
    <2>10. NoPaymentLeft' /\ AcceptedNotForfeited'
      BY <1>1, <2>1, <2>2, <2>3 DEF PayInv, Promises, NoPaymentLeft, AcceptedNotForfeited
    <2>11. SlashedIsPaid'
      BY <1>1, <2>1, <2>3, Distinct DEF PayInv, Promises, SlashedIsPaid
    <2>12. QED
      BY <1>3, <2>4, <2>7, <2>8, <2>9, <2>10, <2>11 DEF PayInv, Promises
  <1>6. QED
    BY <1>2, <1>4, <1>5

(* Steps that leave rows, copies, job and payments alone.                   *)
LEMMA WindowKeeps ==
  PayInv /\ (claim_window_elapses \/ \E d \in Debts : invoice_window_elapses(d)) => PayInv'
  <1> SUFFICES ASSUME PayInv,
                      claim_window_elapses \/ \E d \in Debts : invoice_window_elapses(d)
               PROVE  PayInv'
    OBVIOUS
  <1>1. UNCHANGED <<state, invoice, owner, payment, message, copies, job>>
    BY Zenon DEF claim_window_elapses, invoice_window_elapses, columns, lnd, Outside
  <1>2. Typed' /\ LiveIsAccepted' /\ OwnerAgrees' /\ MessageFree' /\ CopiesKnow' /\ JobKnows'
    BY <1>1 DEF PayInv, Typed, LiveIsAccepted, OwnerAgrees, MessageFree, CopiesKnow, JobKnows
  <1>3. Promises'
    BY <1>1 DEF PayInv, Promises, NoPaymentLeft, AcceptedNotForfeited, SlashedIsPaid
  <1>4. QED
    BY <1>2, <1>3 DEF PayInv

LEMMA ResolveKeeps ==
  ASSUME NEW i \in Invoices, PayInv, Resolving(i) PROVE PayInv'
  <1>1. /\ UNCHANGED <<state, invoice, owner, message, copies, job>>
        /\ payment[i] = "in-flight"
        /\ payment' = Set(payment, i, "succeeded") \/ payment' = Set(payment, i, "failed")
    BY DEF Resolving, payment_resolves, columns, Outside
  <1>2. /\ payment' \in [Invoices -> {"none", "in-flight", "succeeded", "failed"}]
        /\ \A k \in Invoices : k # i => payment'[k] = payment[k]
        /\ payment'[i] \in {"succeeded", "failed"}
    BY <1>1 DEF Set, PayInv, Typed
  <1>3. Typed' /\ OwnerAgrees' /\ MessageFree' /\ CopiesKnow'
    BY <1>1, <1>2 DEF PayInv, Typed, OwnerAgrees, MessageFree, CopiesKnow
  <1>4. LiveIsAccepted'
    BY <1>1, <1>2 DEF PayInv, LiveIsAccepted, Live
  <1>5. JobKnows'
    BY <1>1, <1>2 DEF PayInv, JobKnows, CopiesKnow
  <1>6. NoPaymentLeft'
    BY <1>1, <1>2 DEF PayInv, Promises, NoPaymentLeft
  <1>7. AcceptedNotForfeited' /\ SlashedIsPaid'
    BY <1>1, <1>2 DEF PayInv, Promises, AcceptedNotForfeited, SlashedIsPaid
  <1>8. QED
    BY <1>3, <1>4, <1>5, <1>6, <1>7 DEF PayInv, Promises

(* A restart forgets the copies, the job's step and the message.            *)
LEMMA RestartKeeps == PayInv /\ (crash \/ extend_claim_window) => PayInv'
  <1> SUFFICES ASSUME PayInv, crash \/ extend_claim_window PROVE PayInv'
    OBVIOUS
  <1>1. /\ UNCHANGED <<state, invoice, owner, payment>>
        /\ DOMAIN copies' = {} /\ job' = Idle /\ message' = NoMessage
    BY DEF crash, extend_claim_window, Restarted, columns, lnd
  <1>2. Typed' /\ LiveIsAccepted' /\ OwnerAgrees' /\ MessageFree' /\ CopiesKnow' /\ JobKnows'
    BY <1>1 DEF PayInv, Typed, LiveIsAccepted, OwnerAgrees, MessageFree, CopiesKnow, JobKnows, Idle
  <1>3. Promises'
    BY <1>1 DEF PayInv, Promises, NoPaymentLeft, AcceptedNotForfeited, SlashedIsPaid
  <1>4. QED
    BY <1>2, <1>3 DEF PayInv

LEMMA StutterKeeps == PayInv /\ UNCHANGED vars => PayInv'
  <1> SUFFICES ASSUME PayInv, UNCHANGED vars PROVE PayInv'
    OBVIOUS
  <1>1. UNCHANGED <<state, invoice, owner, payment, message, copies, job>>
    BY DEF vars
  <1>2. Typed' /\ LiveIsAccepted' /\ OwnerAgrees' /\ MessageFree' /\ CopiesKnow' /\ JobKnows'
    BY <1>1 DEF PayInv, Typed, LiveIsAccepted, OwnerAgrees, MessageFree, CopiesKnow, JobKnows
  <1>3. Promises'
    BY <1>1 DEF PayInv, Promises, NoPaymentLeft, AcceptedNotForfeited, SlashedIsPaid
  <1>4. QED
    BY <1>2, <1>3 DEF PayInv

-----------------------------------------------------------------------------
LEMMA NextKeeps == PayInv /\ [Next]_vars => PayInv'
  BY CycleKeeps, ProcessKeeps, ForfeitKeeps, FinalizeKeeps, RequestKeeps, LookupKeeps,
     PersistKeeps, SendKeeps, VerdictKeeps, SlashKeeps, FailureKeeps, RearmKeeps, GiveUpKeeps,
     AddKeeps, ApplyKeeps, WindowKeeps, ResolveKeeps, RestartKeeps, StutterKeeps
  DEF Next, Working

LEMMA Invariance == Spec => []PayInv
  BY InitKeeps, NextKeeps, PTL DEF Spec

(* The reconciliation of pay_counterparty and on_send_payment_failure's     *)
(* kinds of failure: for any number of debts, invoices, retries and faults, *)
(* at most one invoice accepted for a debt is paid or can still be paid.    *)
THEOREM PaidAtMostOnceHolds == Spec => []PaidAtMostOnce
  <1>1. PayInv => PaidAtMostOnce
    BY DEF PaidAtMostOnce, PayInv, LiveIsAccepted, Live
  <1>2. QED
    BY <1>1, Invariance, PTL

(* forfeit_bond, give_up and apply_payout_invoice: a debt that was written  *)
(* off has no payment made or still possible, and an invoice acknowledged   *)
(* to the winner is never discarded by a forfeit.                           *)
THEOREM NotWrittenOffWhilePaidHolds == Spec => []NotWrittenOffWhilePaid
  <1>1. PayInv => NotWrittenOffWhilePaid
    BY DEF PayInv, Promises, NotWrittenOffWhilePaid
  <1>2. QED
    BY <1>1, Invariance, PTL

(* slash_after_success: a debt with a counterparty share is closed only     *)
(* when LND has paid an invoice accepted for that debt.                     *)
THEOREM SlashedIsPaidHolds == Spec => []SlashedIsPaid
  <1>1. PayInv => SlashedIsPaid
    BY DEF PayInv, Promises
  <1>2. QED
    BY <1>1, Invariance, PTL
=============================================================================
