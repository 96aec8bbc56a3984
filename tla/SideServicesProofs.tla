------------------------- MODULE SideServicesProofs -------------------------
(***************************************************************************)
(* Proofs about components beside the trade: DevFee and Intake, as the     *)
(* instances of SideServices, and RangeBond.  Each is for the component's  *)
(* own specification and for any value of its constants.                   *)
(***************************************************************************)
EXTENDS RangeBond, SideServices, TLAPS

(* Zenon closes most leaves at once; SMT takes those with arithmetic.       *)
USE ZenonT(3), SMTT(60), ZenonT(60)

-----------------------------------------------------------------------------
(***************************************************************************)
(* DevFee.                                                                 *)
(***************************************************************************)

(* A payment that was or may still be made is the one the order names.      *)
LiveIsStored ==
  \A f \in Fee!Fees : fee_payment[f] \in {"in-flight", "succeeded"} => fee_hash = f

(* What the job knows at the steps that write the columns or send.          *)
FeeStepKnows ==
  /\ fee_step \in {"resolve", "store", "release"} => fee_hash = Fee!Marker
  /\ fee_step = "store" => fee_issued \in Fee!Fees
  /\ fee_step \in {"send", "wait", "success",
       "timeout"} => fee_issued \in Fee!Fees /\ fee_hash = fee_issued
  /\ fee_step \in {"mark", "timeout_mark",
       "success"} => Fee!Real /\ fee_payment[fee_hash] = "succeeded"
  /\ fee_step \in {"clear", "timeout_clear"} => Fee!Real /\ fee_payment[fee_hash] = "failed"
  /\ fee_step \in {"mark", "send"} => ~fee_paid

(* The audit event follows the flag.                                        *)
AuditIsPaid == fee_audited = 1 => fee_paid

FeeInv == Fee!TypeOK /\ LiveIsStored /\ FeeStepKnows /\ AuditIsPaid /\ Fee!PaidFeeIsReal

(* The marker and the empty column are no invoices.                         *)
LEMMA NotFees ==
  ASSUME FeeInvoices \in Nat
  PROVE  Fee!Null \notin Fee!Fees /\ Fee!Marker \notin Fee!Fees /\ Fee!Fees \subseteq Nat
  BY DEF Fee!Null, Fee!Marker, Fee!Fees

(* A fault is counted within its bound.                                     *)
LEMMA FeeFaultCounted ==
  ASSUME MaxFeeFaults \in Nat, fee_faults \in 0..MaxFeeFaults, NEW kind, Fee!Fault(kind)
  PROVE  fee_faults' \in 0..MaxFeeFaults
  BY DEF Fee!Fault

(* The status a phase acts on is LND's, or unknown.                         *)
LEMMA FeeCheckedStatus ==
  ASSUME MaxFeeFaults \in Nat, Fee!TypeOK, Fee!Real, NEW outcome, Fee!Checked(outcome)
  PROVE  /\ fee_faults' \in 0..MaxFeeFaults
         /\ outcome \in {"succeeded", "failed"} => fee_payment[fee_hash] = outcome
  <1>1. fee_faults \in 0..MaxFeeFaults
    BY DEF Fee!TypeOK
  <1>2. fee_faults' \in 0..MaxFeeFaults
    BY <1>1, FeeFaultCounted DEF Fee!Checked
  <1>3. outcome \in {"succeeded", "failed"} => outcome = Fee!check_dev_fee_payment_status
    BY DEF Fee!Checked
  <1>4. outcome \in {"succeeded", "failed"} => fee_payment[fee_hash] = outcome
    BY <1>3 DEF Fee!check_dev_fee_payment_status
  <1>5. QED
    BY <1>2, <1>4

(* A phase that finds the fee paid or failed knows the payment to be.       *)
LEMMA FeeOutcomeKnows ==
  ASSUME MaxFeeFaults \in Nat, Fee!TypeOK, Fee!Real,
         NEW marking, NEW clearing, NEW otherwise, Fee!Outcome(marking, clearing, otherwise)
  PROVE  /\ fee_faults' \in 0..MaxFeeFaults
         /\ \/ fee_step' = marking /\ fee_payment[fee_hash] = "succeeded"
            \/ fee_step' = clearing /\ fee_payment[fee_hash] = "failed"
            \/ fee_step' = otherwise
  <1>1. PICK outcome \in {"unknown", "in-flight", "succeeded", "failed"} :
           /\ Fee!Checked(outcome)
           /\ fee_step' = CASE outcome = "succeeded" -> marking
                        [] outcome = "failed"    -> clearing
                        [] OTHER                -> otherwise
    BY DEF Fee!Outcome
  <1>2. /\ fee_faults' \in 0..MaxFeeFaults
        /\ outcome \in {"succeeded", "failed"} => fee_payment[fee_hash] = outcome
    BY <1>1, FeeCheckedStatus
  <1>3. CASE outcome = "succeeded"
    BY <1>1, <1>2, <1>3
  <1>4. CASE outcome = "failed"
    BY <1>1, <1>2, <1>4
  <1>5. CASE outcome \notin {"succeeded", "failed"}
    BY <1>1, <1>2, <1>5
  <1>6. QED
    BY <1>3, <1>4, <1>5

-----------------------------------------------------------------------------
FeeBounds == FeeInvoices \in Nat /\ MaxFeeFaults \in Nat
FeePlain == {"cleanup", "verify", "recover", "claim", "sleep"}
FeeCycle == FeePlain \cup {"mark", "clear", "resolve", "release", "store", "send", "wait",
  "success",
                     "timeout", "timeout_mark", "timeout_clear"}

(* At a plain step the job relies on nothing.                               *)
LEMMA FeePlainKnows == fee_step' \in FeePlain => FeeStepKnows'
  BY DEF FeePlain, FeeStepKnows

(* Only the step and the count of faults change.                            *)
LEMMA FeeMoveKeeps ==
  ASSUME FeeInv, UNCHANGED <<fee_hash, fee_stale, fee_paid, fee_confirmed, fee_audited, fee_issued,
                             fee_payment>>,
         fee_step' \in FeeCycle, fee_faults' \in 0..MaxFeeFaults, FeeStepKnows'
  PROVE  FeeInv'
  <1>1. UNCHANGED <<fee_stale, fee_paid, fee_confirmed>>
    OBVIOUS
  <1>2. Fee!TypeOK'
    <2>1. (fee_stale \in BOOLEAN /\ fee_paid \in BOOLEAN /\ fee_confirmed \in BOOLEAN)'
      BY <1>1, Zenon DEF FeeInv, Fee!TypeOK
    <2>2. QED
      BY <2>1 DEF FeeInv, Fee!TypeOK, FeeCycle, FeePlain
  <1>3. LiveIsStored' /\ AuditIsPaid' /\ Fee!PaidFeeIsReal'
    BY DEF FeeInv, LiveIsStored, AuditIsPaid, Fee!PaidFeeIsReal, Fee!Real
  <1>4. QED
    BY <1>2, <1>3 DEF FeeInv

(* A failing database statement leaves the columns and ends the phase.      *)
LEMMA FeeDbFailsKeeps ==
  ASSUME FeeBounds, FeeInv, NEW next \in FeePlain, Fee!DbFails(next)
  PROVE  FeeInv'
  <1>1. fee_faults' \in 0..MaxFeeFaults
    BY FeeFaultCounted DEF Fee!DbFails, FeeBounds, FeeInv, Fee!TypeOK
  <1>2. fee_step' \in FeePlain /\ UNCHANGED <<fee_hash, fee_stale, fee_paid, fee_confirmed,
                                              fee_audited, fee_issued, fee_payment>>
    BY DEF Fee!DbFails
  <1>3. QED
    BY <1>1, <1>2, FeePlainKnows, FeeMoveKeeps DEF FeeCycle

(* The hash column is emptied or marked while no payment lives.             *)
LEMMA FeeColumnKeeps ==
  ASSUME FeeBounds, FeeInv, fee_hash' \in {Fee!Null, Fee!Marker}, ~fee_paid',
         \A f \in Fee!Fees : fee_payment[f] \notin {"in-flight", "succeeded"},
         fee_stale' \in BOOLEAN, ~fee_paid,
         UNCHANGED <<fee_confirmed, fee_audited, fee_issued, fee_payment, fee_faults>>,
         fee_step' \in FeeCycle, FeeStepKnows', fee_paid' \in BOOLEAN
  PROVE  FeeInv'
  <1>1. Fee!TypeOK'
    <2>1. (fee_confirmed \in BOOLEAN)'
      BY Zenon DEF FeeInv, Fee!TypeOK
    <2>2. QED
      BY <2>1 DEF FeeInv, Fee!TypeOK, FeeCycle, FeePlain
  <1>2. LiveIsStored' /\ Fee!PaidFeeIsReal'
    BY DEF LiveIsStored, Fee!PaidFeeIsReal
  <1>3. AuditIsPaid'
    BY DEF FeeInv, AuditIsPaid
  <1>4. QED
    BY <1>1, <1>2, <1>3 DEF FeeInv

(* A marked or empty column means that no payment lives and none is paid.   *)
LEMMA FeeColumnFree ==
  ASSUME FeeBounds, FeeInv, fee_hash \in {Fee!Null,
    Fee!Marker} \/ (Fee!Real /\ fee_payment[fee_hash] = "failed")
  PROVE  ~fee_paid /\ \A f \in Fee!Fees : fee_payment[f] \notin {"in-flight", "succeeded"}
  <1>1. Fee!Null \notin Fee!Fees /\ Fee!Marker \notin Fee!Fees
    BY NotFees DEF FeeBounds
  <1>2. ~fee_paid
    BY <1>1 DEF FeeInv, Fee!PaidFeeIsReal, Fee!Real
  <1>3. \A f \in Fee!Fees : fee_payment[f] \notin {"in-flight", "succeeded"}
    BY <1>1 DEF FeeInv, LiveIsStored, Fee!Real
  <1>4. QED
    BY <1>2, <1>3

-----------------------------------------------------------------------------
(* The steps that only look: verification, recovery, the invoice, the wait. *)
LEMMA FeeLookingKeeps ==
  ASSUME FeeBounds, FeeInv,
         \/ Fee!recover_partial_payments \/ Fee!resolve_dev_fee_invoice \/ Fee!wait_for_result
         \/ Fee!handle_payment_timeout \/ Fee!run_dev_fee_cycle
  PROVE  FeeInv'
  <1>1. Fee!TypeOK /\ FeeStepKnows /\ fee_faults \in 0..MaxFeeFaults
          /\ fee_issued \in 0..FeeInvoices
    BY DEF FeeInv, Fee!TypeOK
  <1>2. CASE Fee!recover_partial_payments
    <2>0. UNCHANGED <<fee_hash, fee_stale, fee_paid, fee_confirmed, fee_audited, fee_issued,
                      fee_payment>>
      BY <1>2 DEF Fee!recover_partial_payments
    <2>1. CASE ~fee_paid /\ Fee!Real
      <3>1. Fee!Outcome("mark", "clear", "claim")
        BY <1>2, <2>1 DEF Fee!recover_partial_payments
      <3>2. /\ fee_faults' \in 0..MaxFeeFaults
            /\ \/ fee_step' = "mark" /\ fee_payment[fee_hash] = "succeeded"
               \/ fee_step' = "clear" /\ fee_payment[fee_hash] = "failed"
               \/ fee_step' = "claim"
        BY <1>1, <2>1, <3>1, FeeOutcomeKnows DEF FeeBounds
      <3>3. FeeStepKnows' /\ fee_step' \in FeeCycle
        BY <2>0, <2>1, <3>2 DEF FeeStepKnows, Fee!Real, FeeCycle, FeePlain
      <3>4. QED
        BY <2>0, <3>2, <3>3, FeeMoveKeeps
    <2>2. CASE ~(~fee_paid /\ Fee!Real)
      <3>1. fee_step' = "claim" /\ UNCHANGED fee_faults
        BY <1>2, <2>2 DEF Fee!recover_partial_payments
      <3>2. QED
        BY <1>1, <2>0, <3>1, FeePlainKnows, FeeMoveKeeps DEF FeePlain, FeeCycle
    <2>3. QED
      BY <2>1, <2>2
  <1>3. CASE Fee!resolve_dev_fee_invoice
    <2>1. UNCHANGED <<fee_hash, fee_stale, fee_paid, fee_confirmed, fee_audited,
                      fee_payment>> /\ fee_hash = Fee!Marker
      BY <1>1, <1>3 DEF Fee!resolve_dev_fee_invoice, FeeStepKnows
    <2>2. fee_faults' \in 0..MaxFeeFaults
      BY <1>1, <1>3, FeeFaultCounted DEF Fee!resolve_dev_fee_invoice, FeeBounds
    <2>3. \/ fee_step' = "store" /\ fee_issued' \in Fee!Fees
          \/ fee_step' = "release" /\ fee_issued' = fee_issued
      BY <1>1, <1>3 DEF Fee!resolve_dev_fee_invoice, Fee!Fees, FeeBounds
    <2>4. fee_issued' \in 0..FeeInvoices
      BY <1>1, <2>3 DEF Fee!Fees, FeeBounds
    <2>5. FeeStepKnows'
      BY <2>1, <2>3 DEF FeeStepKnows
    <2>6. Fee!TypeOK'
      <3>1. (fee_stale \in BOOLEAN /\ fee_paid \in BOOLEAN /\ fee_confirmed \in BOOLEAN)'
        BY <1>1, <2>1, Zenon DEF Fee!TypeOK
      <3>2. QED
        BY <1>1, <2>1, <2>2, <2>3, <2>4, <3>1 DEF Fee!TypeOK
    <2>7. LiveIsStored' /\ AuditIsPaid' /\ Fee!PaidFeeIsReal'
      BY <2>1 DEF FeeInv, LiveIsStored, AuditIsPaid, Fee!PaidFeeIsReal, Fee!Real
    <2>8. QED
      BY <2>5, <2>6, <2>7 DEF FeeInv
  <1>4. CASE Fee!wait_for_result
    <2>1. UNCHANGED <<fee_hash, fee_stale, fee_paid, fee_confirmed, fee_audited, fee_issued,
                      fee_payment, fee_faults>>
      BY <1>4 DEF Fee!wait_for_result
    <2>2. fee_issued \in Fee!Fees /\ fee_hash = fee_issued
      BY <1>1, <1>4 DEF Fee!wait_for_result, FeeStepKnows
    <2>3. \/ fee_step' = "success" /\ fee_payment[fee_issued] = "succeeded"
          \/ fee_step' \in {"timeout", "sleep"}
      BY <1>4 DEF Fee!wait_for_result
    <2>4. FeeStepKnows' /\ fee_step' \in FeeCycle
      BY <2>1, <2>2, <2>3 DEF FeeStepKnows, Fee!Real, FeeCycle, FeePlain
    <2>5. QED
      BY <1>1, <2>1, <2>4, FeeMoveKeeps
  <1>5. CASE Fee!handle_payment_timeout
    <2>0. UNCHANGED <<fee_hash, fee_stale, fee_paid, fee_confirmed, fee_audited, fee_issued,
                      fee_payment>>
      BY <1>5 DEF Fee!handle_payment_timeout
    <2>1. Fee!Real
      BY <1>1, <1>5 DEF Fee!handle_payment_timeout, FeeStepKnows, Fee!Real
    <2>2. /\ fee_faults' \in 0..MaxFeeFaults
          /\ \/ fee_step' = "timeout_mark" /\ fee_payment[fee_hash] = "succeeded"
             \/ fee_step' = "timeout_clear" /\ fee_payment[fee_hash] = "failed"
             \/ fee_step' = "sleep"
      BY <1>1, <1>5, <2>1, FeeOutcomeKnows DEF Fee!handle_payment_timeout, FeeBounds
    <2>3. FeeStepKnows' /\ fee_step' \in FeeCycle
      BY <2>0, <2>1, <2>2 DEF FeeStepKnows, Fee!Real, FeeCycle, FeePlain
    <2>4. QED
      BY <2>0, <2>2, <2>3, FeeMoveKeeps
  <1>6. CASE Fee!run_dev_fee_cycle
    BY <1>1, <1>6, FeePlainKnows, FeeMoveKeeps DEF Fee!run_dev_fee_cycle, FeePlain, FeeCycle
  <1>7. QED
    BY <1>2, <1>3, <1>4, <1>5, <1>6
(* The steps that empty or claim the column do so while nothing lives.      *)
LEMMA FeeClaimingKeeps ==
  ASSUME FeeBounds, FeeInv,
         \/ Fee!cleanup_stale_pending_markers \/ Fee!clear_hash \/ Fee!try_claim_order_for_dev_fee
         \/ Fee!release_pending_claim
  PROVE  FeeInv'
  <1>1. Fee!TypeOK /\ FeeStepKnows /\ fee_faults \in 0..MaxFeeFaults
    BY DEF FeeInv, Fee!TypeOK
  <1>b. fee_stale \in BOOLEAN /\ fee_paid \in BOOLEAN
    BY <1>1, Zenon DEF Fee!TypeOK
  <1>2. CASE Fee!cleanup_stale_pending_markers
    <2>1. fee_step' = "verify" /\ UNCHANGED <<fee_stale, fee_confirmed, fee_audited, fee_issued,
                                              fee_payment, fee_faults>>
      BY <1>2 DEF Fee!cleanup_stale_pending_markers
    <2>2. CASE fee_hash = Fee!Marker /\ fee_stale
      <3>1. fee_hash' = Fee!Null /\ fee_paid' = FALSE
        BY <1>2, <2>2 DEF Fee!cleanup_stale_pending_markers
      <3>2. ~fee_paid /\ \A f \in Fee!Fees : fee_payment[f] \notin {"in-flight", "succeeded"}
        BY <2>2, FeeColumnFree
      <3>3. QED
        BY Zenon, <1>b, <2>1, <3>1, <3>2, FeePlainKnows, FeeColumnKeeps DEF FeePlain, FeeCycle
    <2>3. CASE ~(fee_hash = Fee!Marker /\ fee_stale)
      <3>1. UNCHANGED <<fee_hash, fee_paid>>
        BY <1>2, <2>3 DEF Fee!cleanup_stale_pending_markers
      <3>2. QED
        BY <1>1, <2>1, <3>1, FeePlainKnows, FeeMoveKeeps DEF FeePlain, FeeCycle
    <2>4. QED
      BY <2>2, <2>3
  <1>3. CASE Fee!clear_hash
    <2>1. ~fee_paid /\ \A f \in Fee!Fees : fee_payment[f] \notin {"in-flight", "succeeded"}
      BY <1>1, <1>3, FeeColumnFree DEF Fee!clear_hash, FeeStepKnows
    <2>2. PICK next \in FeePlain :
            \/ /\ fee_hash' = Fee!Null /\ fee_step' = next
               /\ UNCHANGED <<fee_stale, fee_paid, fee_confirmed, fee_audited, fee_issued,
                              fee_payment, fee_faults>>
            \/ Fee!DbFails(next)
      BY <1>3 DEF Fee!clear_hash, FeePlain
    <2>3. CASE fee_hash' = Fee!Null /\ fee_step' = next
               /\ UNCHANGED <<fee_stale, fee_paid, fee_confirmed, fee_audited, fee_issued,
                              fee_payment, fee_faults>>
      BY <1>b, <2>1, <2>3, FeePlainKnows, FeeColumnKeeps DEF FeeCycle
    <2>4. QED
      BY <2>2, <2>3, FeeDbFailsKeeps
  <1>4. CASE Fee!try_claim_order_for_dev_fee
    <2>1. UNCHANGED <<fee_paid, fee_confirmed, fee_audited, fee_issued, fee_payment, fee_faults>>
      BY <1>4 DEF Fee!try_claim_order_for_dev_fee
    <2>2. CASE ~fee_paid /\ fee_hash = Fee!Null
      <3>1. fee_hash' = Fee!Marker /\ fee_stale' = FALSE /\ fee_step' = "resolve"
        BY <1>4, <2>2 DEF Fee!try_claim_order_for_dev_fee
      <3>2. \A f \in Fee!Fees : fee_payment[f] \notin {"in-flight", "succeeded"}
        BY <2>2, FeeColumnFree
      <3>3. FeeStepKnows'
        BY <3>1 DEF FeeStepKnows
      <3>4. QED
        BY Zenon, <1>b, <2>1, <2>2, <3>1, <3>2, <3>3, FeeColumnKeeps DEF FeeCycle
    <2>3. CASE ~(~fee_paid /\ fee_hash = Fee!Null)
      <3>1. fee_step' = "sleep" /\ UNCHANGED <<fee_hash, fee_stale>>
        BY <1>4, <2>3 DEF Fee!try_claim_order_for_dev_fee
      <3>2. QED
        BY <1>1, <2>1, <3>1, FeePlainKnows, FeeMoveKeeps DEF FeePlain, FeeCycle
    <2>4. QED
      BY <2>2, <2>3
  <1>5. CASE Fee!release_pending_claim
    <2>1. fee_hash = Fee!Marker
      BY <1>1, <1>5 DEF Fee!release_pending_claim, FeeStepKnows
    <2>2. ~fee_paid /\ \A f \in Fee!Fees : fee_payment[f] \notin {"in-flight", "succeeded"}
      BY <2>1, FeeColumnFree
    <2>3. \/ /\ fee_hash' = Fee!Null /\ fee_step' = "sleep"
             /\ UNCHANGED <<fee_stale, fee_paid, fee_confirmed, fee_audited, fee_issued,
                            fee_payment, fee_faults>>
          \/ Fee!DbFails("sleep")
      BY <1>5, <2>1 DEF Fee!release_pending_claim
    <2>4. CASE fee_hash' = Fee!Null /\ fee_step' = "sleep"
               /\ UNCHANGED <<fee_stale, fee_paid, fee_confirmed, fee_audited, fee_issued,
                              fee_payment, fee_faults>>
      BY <1>b, <2>2, <2>4, FeePlainKnows, FeeColumnKeeps DEF FeePlain, FeeCycle
    <2>5. QED
      BY <2>3, <2>4, FeeDbFailsKeeps DEF FeePlain
  <1>6. QED
    BY <1>2, <1>3, <1>4, <1>5

(* The hash is stored over the marker, while nothing lives; the one payment *)
(* that is sent is the one the column names.                                *)
LEMMA FeeSendingKeeps ==
  ASSUME FeeBounds, FeeInv, Fee!store_payment_hash \/ Fee!send_dev_fee_payment
  PROVE  FeeInv'
  <1>1. Fee!TypeOK /\ FeeStepKnows /\ fee_faults \in 0..MaxFeeFaults
    BY DEF FeeInv, Fee!TypeOK
  <1>b. fee_stale \in BOOLEAN /\ fee_paid \in BOOLEAN /\ fee_confirmed \in BOOLEAN
    BY <1>1, Zenon DEF Fee!TypeOK
  <1>2. CASE Fee!store_payment_hash
    <2>1. fee_hash = Fee!Marker /\ fee_issued \in Fee!Fees
      BY <1>1, <1>2 DEF Fee!store_payment_hash, FeeStepKnows
    <2>2. ~fee_paid /\ \A f \in Fee!Fees : fee_payment[f] \notin {"in-flight", "succeeded"}
      BY <2>1, FeeColumnFree
    <2>3. CASE Fee!DbFails("release")
      <3>1. /\ UNCHANGED <<fee_hash, fee_stale, fee_paid, fee_confirmed, fee_audited, fee_issued,
                           fee_payment>>
            /\ fee_step' = "release" /\ fee_faults' \in 0..MaxFeeFaults
        BY <1>1, <2>3, FeeFaultCounted DEF Fee!DbFails, FeeBounds
      <3>2. FeeStepKnows'
        BY <2>1, <3>1 DEF FeeStepKnows
      <3>3. QED
        BY <3>1, <3>2, FeeMoveKeeps DEF FeeCycle
    <2>4. CASE ~Fee!DbFails("release")
      <3>1. /\ fee_hash' = fee_issued /\ fee_step' \in {"send", "sleep"}
            /\ UNCHANGED <<fee_stale, fee_paid, fee_confirmed, fee_audited, fee_issued,
                           fee_payment>>
        BY <1>2, <2>4 DEF Fee!store_payment_hash
      <3>2. fee_faults' \in 0..MaxFeeFaults
        BY <1>1, <1>2, <2>4, FeeFaultCounted DEF Fee!store_payment_hash, FeeBounds
      <3>b. (fee_stale \in BOOLEAN /\ fee_paid \in BOOLEAN /\ fee_confirmed \in BOOLEAN)'
        BY <1>b, <3>1, Zenon
      <3>3. Fee!TypeOK'
        BY <1>1, <2>1, <3>1, <3>2, <3>b DEF Fee!TypeOK
      <3>4. FeeStepKnows'
        BY <2>1, <2>2, <3>1 DEF FeeStepKnows
      <3>5. LiveIsStored' /\ Fee!PaidFeeIsReal'
        BY <2>2, <3>1 DEF LiveIsStored, Fee!PaidFeeIsReal
      <3>6. AuditIsPaid'
        BY <3>1 DEF FeeInv, AuditIsPaid
      <3>7. QED
        BY <3>3, <3>4, <3>5, <3>6 DEF FeeInv
    <2>5. QED
      BY <2>3, <2>4
  <1>3. CASE Fee!send_dev_fee_payment
    <2>1. fee_issued \in Fee!Fees /\ fee_hash = fee_issued /\ ~fee_paid
      BY <1>1, <1>3 DEF Fee!send_dev_fee_payment, FeeStepKnows
    <2>2. /\ UNCHANGED <<fee_hash, fee_stale, fee_paid, fee_confirmed, fee_audited, fee_issued>>
          /\ fee_step' \in {"wait", "sleep"}
      BY <1>3 DEF Fee!send_dev_fee_payment
    <2>3. fee_faults' \in 0..MaxFeeFaults
      BY <1>1, <1>3, FeeFaultCounted DEF Fee!send_dev_fee_payment, FeeBounds
    <2>4. fee_payment' \in {fee_payment, [fee_payment EXCEPT ![fee_issued] = "in-flight"]}
      BY <1>3 DEF Fee!send_dev_fee_payment
    <2>b. (fee_stale \in BOOLEAN /\ fee_paid \in BOOLEAN /\ fee_confirmed \in BOOLEAN)'
      BY <1>b, <2>2, Zenon
    <2>5. Fee!TypeOK'
      BY <1>1, <2>1, <2>2, <2>3, <2>4, <2>b DEF Fee!TypeOK
    <2>6. FeeStepKnows'
      BY <2>1, <2>2 DEF FeeStepKnows
    <2>7. LiveIsStored' /\ Fee!PaidFeeIsReal' /\ AuditIsPaid'
      BY <1>1, <2>1, <2>2, <2>4 DEF FeeInv, Fee!TypeOK, LiveIsStored, Fee!PaidFeeIsReal, AuditIsPaid
    <2>8. QED
      BY <2>5, <2>6, <2>7 DEF FeeInv
  <1>4. QED
    BY <1>2, <1>3
(* The flag is set for a payment that succeeded.                            *)
LEMMA FeeMarkingKeeps ==
  ASSUME FeeBounds, FeeInv,
    Fee!mark_paid \/ Fee!handle_payment_success \/ Fee!mark_paid_after_timeout
  PROVE  FeeInv'
  <1>1. Fee!TypeOK /\ FeeStepKnows /\ fee_faults \in 0..MaxFeeFaults /\ fee_audited \in 0..1
    BY DEF FeeInv, Fee!TypeOK
  <1>b. fee_stale \in BOOLEAN /\ fee_paid \in BOOLEAN /\ fee_confirmed \in BOOLEAN
    BY <1>1, Zenon DEF Fee!TypeOK
  <1>2. CASE Fee!DbFails("claim") \/ Fee!DbFails("sleep")
    BY <1>2, FeeDbFailsKeeps DEF FeePlain
  <1>3. CASE ~(Fee!DbFails("claim") \/ Fee!DbFails("sleep"))
    <2>1. Fee!Real /\ fee_payment[fee_hash] = "succeeded"
      BY <1>1 DEF Fee!mark_paid, Fee!handle_payment_success, Fee!mark_paid_after_timeout,
         FeeStepKnows
    <2>2. UNCHANGED <<fee_hash, fee_stale, fee_issued, fee_payment>> /\ fee_step' \in {"claim",
            "sleep"}
      BY <1>1, <1>3 DEF Fee!mark_paid, Fee!handle_payment_success, Fee!mark_paid_after_timeout,
         FeeStepKnows
    <2>3. fee_faults' \in 0..MaxFeeFaults
      BY <1>1, <1>3, FeeFaultCounted
         DEF Fee!mark_paid, Fee!handle_payment_success, Fee!mark_paid_after_timeout, FeeBounds
    <2>4. /\ fee_paid' = TRUE \/ UNCHANGED fee_paid
          /\ fee_confirmed' = TRUE
      BY <1>3, Zenon DEF Fee!mark_paid, Fee!handle_payment_success, Fee!mark_paid_after_timeout
    <2>5. fee_paid' \in BOOLEAN /\ fee_confirmed' \in BOOLEAN /\ fee_stale' \in BOOLEAN
      BY <1>b, <2>2, <2>4, Zenon
    <2>6. fee_audited' \in 0..1 /\ AuditIsPaid'
      <3>1. ~fee_paid => fee_audited = 0
        BY <1>1 DEF FeeInv, AuditIsPaid
      <3>2. CASE Fee!mark_paid
        <4>1. ~fee_paid /\ fee_audited' = fee_audited + 1 /\ fee_paid' = TRUE
          BY <1>1, <1>3, <3>2 DEF Fee!mark_paid, FeeStepKnows
        <4>2. QED
          BY <3>1, <4>1 DEF AuditIsPaid
      <3>3. CASE Fee!handle_payment_success
        <4>1. fee_paid' = TRUE /\ fee_audited' = IF fee_paid THEN fee_audited ELSE fee_audited + 1
          BY <1>3, <3>3 DEF Fee!handle_payment_success
        <4>2. QED
          BY <1>1, <3>1, <4>1 DEF AuditIsPaid
      <3>4. CASE Fee!mark_paid_after_timeout
        <4>1. fee_audited' = fee_audited /\ (fee_paid' = TRUE \/ UNCHANGED fee_paid)
          BY <1>3, <3>4 DEF Fee!mark_paid_after_timeout
        <4>2. QED
          BY <1>1, <4>1 DEF FeeInv, AuditIsPaid
      <3>5. QED
        BY <3>2, <3>3, <3>4
    <2>7. Fee!TypeOK'
      BY <1>1, <2>2, <2>3, <2>5, <2>6 DEF Fee!TypeOK
    <2>8. FeeStepKnows'
      BY <2>2, FeePlainKnows DEF FeePlain
    <2>9. LiveIsStored' /\ Fee!PaidFeeIsReal'
      BY <2>1, <2>2 DEF FeeInv, LiveIsStored, Fee!PaidFeeIsReal, Fee!Real
    <2>10. QED
      BY <2>6, <2>7, <2>8, <2>9 DEF FeeInv
  <1>4. QED
    BY <1>2, <1>3

(* The in-memory set, the clock, a restart and LND leave the column alone.  *)
LEMMA FeeOutsideKeeps ==
  ASSUME FeeBounds, FeeInv,
         \/ Fee!verify_confirmed_orders \/ Fee!marker_ages \/ Fee!crash
         \/ \E f \in Fee!Fees : Fee!Resolving(f)
  PROVE  FeeInv'
  <1>1. Fee!TypeOK /\ FeeStepKnows /\ fee_faults \in 0..MaxFeeFaults
    BY DEF FeeInv, Fee!TypeOK
  <1>b. fee_stale \in BOOLEAN /\ fee_paid \in BOOLEAN /\ fee_confirmed \in BOOLEAN
    BY <1>1, Zenon DEF Fee!TypeOK
  <1>2. CASE Fee!verify_confirmed_orders \/ Fee!marker_ages \/ Fee!crash
    <2>1. UNCHANGED <<fee_hash, fee_paid, fee_audited, fee_issued, fee_payment>>
      BY <1>2 DEF Fee!verify_confirmed_orders, Fee!marker_ages, Fee!crash
    <2>2. fee_step' = fee_step \/ fee_step' \in FeePlain
      BY <1>2 DEF Fee!verify_confirmed_orders, Fee!marker_ages, Fee!crash, FeePlain
    <2>3. fee_stale' \in BOOLEAN /\ fee_paid' \in BOOLEAN
      BY <1>b, <1>2, <2>1, Zenon DEF Fee!verify_confirmed_orders, Fee!marker_ages, Fee!crash
    <2>4. fee_confirmed' \in BOOLEAN
      <3>1. CASE Fee!verify_confirmed_orders
        <4>1. \/ \E outcome \in {"unknown", "in-flight", "succeeded", "failed"} :
                   fee_confirmed' = (outcome = "succeeded")
              \/ UNCHANGED fee_confirmed
          BY <3>1, Zenon DEF Fee!verify_confirmed_orders
        <4>2. QED
          BY <1>b, <4>1, Zenon
      <3>2. CASE Fee!marker_ages
        BY <1>b, <3>2, Zenon DEF Fee!marker_ages
      <3>3. CASE Fee!crash
        BY <3>3, Zenon DEF Fee!crash
      <3>4. QED
        BY <1>2, <3>1, <3>2, <3>3
    <2>5. fee_faults' \in 0..MaxFeeFaults
      <3>1. CASE Fee!verify_confirmed_orders
        BY <1>1, <3>1, FeeCheckedStatus DEF Fee!verify_confirmed_orders, FeeBounds
      <3>2. CASE Fee!marker_ages
        BY <1>1, <3>2 DEF Fee!marker_ages
      <3>3. CASE Fee!crash
        BY <1>1, <3>3, FeeFaultCounted DEF Fee!crash, FeeBounds
      <3>4. QED
        BY <1>2, <3>1, <3>2, <3>3
    <2>6. Fee!TypeOK'
      BY <1>1, <2>1, <2>2, <2>3, <2>4, <2>5 DEF Fee!TypeOK, FeePlain
    <2>7. FeeStepKnows'
      BY <1>1, <2>1, <2>2, FeePlainKnows DEF FeeStepKnows, Fee!Real
    <2>8. LiveIsStored' /\ Fee!PaidFeeIsReal' /\ AuditIsPaid'
      BY <2>1 DEF FeeInv, LiveIsStored, Fee!PaidFeeIsReal, AuditIsPaid, Fee!Real
    <2>9. QED
      BY <2>6, <2>7, <2>8 DEF FeeInv
  <1>3. CASE \E f \in Fee!Fees : Fee!Resolving(f)
    <2>1. PICK f \in Fee!Fees, outcome \in {"succeeded", "failed"} :
            Fee!payment_resolves(f, outcome)
      BY <1>3 DEF Fee!Resolving
    <2>2. /\ fee_payment[f] = "in-flight" /\ fee_payment' = [fee_payment EXCEPT ![f] = outcome]
          /\ UNCHANGED <<fee_hash, fee_stale, fee_paid, fee_confirmed, fee_audited, fee_issued,
                         fee_step, fee_faults>>
      BY <2>1 DEF Fee!payment_resolves
    <2>3. fee_payment \in [Fee!Fees -> {"none", "in-flight", "succeeded", "failed"}]
      BY <1>1 DEF Fee!TypeOK
    <2>4. /\ fee_payment' \in [Fee!Fees -> {"none", "in-flight", "succeeded", "failed"}]
          /\ \A g \in Fee!Fees : fee_payment[g] # "in-flight" => fee_payment'[g] = fee_payment[g]
          /\ \A g \in Fee!Fees : fee_payment'[g] \in {"in-flight", "succeeded"} =>
                               fee_payment[g] \in {"in-flight", "succeeded"}
      BY <2>2, <2>3
    <2>b. (fee_stale \in BOOLEAN /\ fee_paid \in BOOLEAN /\ fee_confirmed \in BOOLEAN)'
      BY <1>b, <2>2, Zenon
    <2>5. Fee!TypeOK'
      BY <1>1, <2>2, <2>4, <2>b DEF Fee!TypeOK
    <2>6. FeeStepKnows'
      BY <1>1, <2>2, <2>4 DEF FeeStepKnows, Fee!Real
    <2>7. LiveIsStored' /\ AuditIsPaid'
      BY <2>2, <2>4 DEF FeeInv, LiveIsStored, AuditIsPaid
    <2>8. Fee!PaidFeeIsReal'
      BY <2>2, <2>4 DEF FeeInv, Fee!PaidFeeIsReal, Fee!Real
    <2>9. QED
      BY <2>5, <2>6, <2>7, <2>8 DEF FeeInv
  <1>4. QED
    BY <1>2, <1>3

(* A completed order owes its fee and names no payment.                     *)
LEMMA FeeInitEstablishes == FeeBounds /\ Fee!Init => FeeInv
  <1> SUFFICES ASSUME FeeBounds, Fee!Init
               PROVE  FeeInv
    OBVIOUS
  <1>1. fee_stale \in BOOLEAN /\ fee_paid \in BOOLEAN /\ fee_confirmed \in BOOLEAN
    BY Zenon DEF Fee!Init
  <1>2. Fee!TypeOK
    BY <1>1 DEF Fee!Init, Fee!TypeOK, FeeBounds
  <1>3. LiveIsStored /\ FeeStepKnows /\ AuditIsPaid /\ Fee!PaidFeeIsReal
    BY DEF Fee!Init, LiveIsStored, FeeStepKnows, AuditIsPaid, Fee!PaidFeeIsReal
  <1>4. QED
    BY <1>2, <1>3 DEF FeeInv

(* FeeInv is inductive.                                                     *)
LEMMA FeeNextPreserves == FeeBounds /\ FeeInv /\ [Fee!Next]_feeVars => FeeInv'
  <1> SUFFICES ASSUME FeeBounds, FeeInv, [Fee!Next]_feeVars
               PROVE  FeeInv'
    OBVIOUS
  <1>1. CASE Fee!Phases
    BY <1>1, FeeLookingKeeps, FeeClaimingKeeps, FeeSendingKeeps, FeeMarkingKeeps,
       FeeOutsideKeeps DEF Fee!Phases
  <1>2. CASE Fee!marker_ages \/ Fee!crash \/ \E f \in Fee!Fees : Fee!Resolving(f)
    BY <1>2, FeeOutsideKeeps
  <1>3. CASE UNCHANGED feeVars
    <2>1. /\ UNCHANGED <<fee_hash, fee_stale, fee_paid, fee_confirmed, fee_audited, fee_issued,
                         fee_payment>>
          /\ UNCHANGED <<fee_step, fee_faults>>
      BY <1>3 DEF feeVars
    <2>2. FeeStepKnows' /\ fee_step' \in FeeCycle /\ fee_faults' \in 0..MaxFeeFaults
      BY <2>1 DEF FeeInv, FeeStepKnows, Fee!Real, Fee!TypeOK, FeeCycle, FeePlain
    <2>3. QED
      BY <2>1, <2>2, FeeMoveKeeps
  <1>4. QED
    BY <1>1, <1>2, <1>3 DEF Fee!Next

(* However often the fee is resolved, whatever LND, the database and the    *)
(* address do, and wherever the daemon stops: the fee of an order is never  *)
(* paid twice, nor sent while an earlier payment may still succeed.         *)
THEOREM FeePaidAtMostOnceHolds ==
  ASSUME FeeInvoices \in Nat, MaxFeeFaults \in Nat
  PROVE  Fee!Spec => []FeePaidAtMostOnce
  <1>1. FeeBounds
    BY DEF FeeBounds
  <1>2. Fee!Init => FeeInv
    BY <1>1, FeeInitEstablishes
  <1>3. FeeInv /\ [Fee!Next]_(Fee!vars) => FeeInv'
    BY <1>1, FeeNextPreserves DEF Fee!vars, feeVars
  <1>4. FeeInv => FeePaidAtMostOnce
    BY DEF FeePaidAtMostOnce, FeeInv, LiveIsStored, Fee!FeePaidAtMostOnce
  <1>5. QED
    BY <1>2, <1>3, <1>4, PTL DEF Fee!Spec

(* An order marked as having paid its fee names a payment LND completed     *)
(* (mark_paid, handle_payment_success, mark_paid_after_timeout).            *)
THEOREM PaidFeeIsRealHolds ==
  ASSUME FeeInvoices \in Nat, MaxFeeFaults \in Nat
  PROVE  Fee!Spec => []Fee!PaidFeeIsReal
  <1>1. FeeBounds
    BY DEF FeeBounds
  <1>2. Fee!Init => FeeInv
    BY <1>1, FeeInitEstablishes
  <1>3. FeeInv /\ [Fee!Next]_(Fee!vars) => FeeInv'
    BY <1>1, FeeNextPreserves DEF Fee!vars, feeVars
  <1>4. FeeInv => Fee!PaidFeeIsReal
    BY DEF FeeInv
  <1>5. QED
    BY <1>2, <1>3, <1>4, PTL DEF Fee!Spec

-----------------------------------------------------------------------------
(***************************************************************************)
(* Intake.                                                                 *)
(***************************************************************************)

(* The guard remembers an event for as long as it is fresh, wherever in the *)
(* skew the sender's clock is.                                              *)
IntakeFits ==
  /\ Freshness \in Nat /\ WindowSecs \in Nat /\ MaxSkew \in Nat /\ MaxIndex \in Nat
  /\ MaxSkew + Freshness <= WindowSecs

IntakeIndices == {Gate!NoUser} \cup 0..MaxIndex

IntakeTyped ==
  /\ published \in [Events -> Gate!Contents \cup {Gate!Unsent}]
  /\ created \in [Events -> Gate!Old..MaxSkew]
  /\ seen \in [Events -> {Gate!Never} \cup 0..WindowSecs]
  /\ last_trade_index \in IntakeIndices
  /\ handled \in [Events -> 0..2]
  /\ used \in [1..MaxIndex -> 0..2]
  /\ zeroed \in BOOLEAN

(* While the daemon runs, an event that was handled is too old to be taken  *)
(* again, or is in the guard and was recorded no earlier than it was made.  *)
IntakeGuarded ==
  \A e \in Events :
    /\ published[e] = Gate!Unsent => handled[e] = 0
    /\ handled[e] # 0 /\ ~restarted =>
         created[e] = Gate!Old \/ (seen[e] # Gate!Never /\ created[e] + seen[e] <= MaxSkew)

(* The counter is at or past every index that was spent.                    *)
IntakePassed == \A i \in 1..MaxIndex : used[i] # 0 /\ ~zeroed => i <= last_trade_index

IntakeInv == IntakeTyped /\ IntakeGuarded /\ IntakePassed /\ Gate!HandledOnce /\ Gate!IndexSpentOnce

-----------------------------------------------------------------------------
(* An event that was handled before is not handled again.                   *)
LEMMA IntakeRepeatRefused ==
  ASSUME IntakeFits, IntakeInv, NEW e \in Events, handled[e] # 0, ~restarted
  PROVE  Gate!check_and_record(e) \/ created[e] < -Freshness
  <1>1. created[e] \in Gate!Old..MaxSkew /\ seen[e] \in {Gate!Never} \cup 0..WindowSecs
    BY DEF IntakeInv, IntakeTyped
  <1>2. created[e] = Gate!Old \/ seen[e] # Gate!Never
    BY DEF IntakeInv, IntakeGuarded
  <1>3. QED
    BY <1>1, <1>2 DEF Gate!Old, Gate!Never, Gate!check_and_record, IntakeFits

(* What an event that passes the index check does to the counter and to the *)
(* indices.                                                                 *)
LEMMA IntakeIndexStep ==
  ASSUME IntakeFits, IntakeInv, NEW m \in Gate!Contents, NEW counter \in IntakeIndices,
         Gate!check_trade_index(m, counter), Gate!update_user_trade_index(m, counter)
  PROVE  /\ last_trade_index' \in IntakeIndices /\ zeroed' \in BOOLEAN
         /\ used' \in [1..MaxIndex -> 0..2]
         /\ IntakePassed' /\ Gate!IndexSpentOnce'
  <1>1. /\ last_trade_index \in IntakeIndices /\ used \in [1..MaxIndex -> 0..2]
        /\ IntakePassed /\ Gate!IndexSpentOnce
    BY DEF IntakeInv, IntakeTyped
  <1>b. zeroed \in BOOLEAN
    BY Zenon DEF IntakeInv, IntakeTyped
  <1>2. \/ m.action = "trade" /\ m.index \in 0..MaxIndex /\ ~m.private
        \/ m.action = "trade" /\ m.index = Gate!NoIndex /\ m.private
        \/ m.action = "other" /\ m.index = Gate!NoIndex
    BY Zenon DEF Gate!Contents
  <1>3. CASE m.index = Gate!NoIndex
    <2>1. counter = last_trade_index
      BY <1>2, <1>3 DEF Gate!check_trade_index
    <2>2. last_trade_index' = last_trade_index /\ UNCHANGED used
      BY <1>2, <1>3, <2>1 DEF Gate!update_user_trade_index, Gate!NoIndex, IntakeFits
    <2>3. zeroed' = zeroed
      <3>1. m.index # 0
        BY <1>3 DEF Gate!NoIndex
      <3>2. QED
        BY <1>b, <3>1, Zenon DEF Gate!update_user_trade_index
    <2>4. QED
      BY <1>1, <1>b, <2>2, <2>3 DEF IntakePassed, Gate!IndexSpentOnce
  <1>4. CASE m.index \in 0..MaxIndex
    <2>0. m.action = "trade" /\ ~m.private
      BY <1>2, <1>4 DEF Gate!NoIndex, IntakeFits
    <2>1. CASE last_trade_index' = counter /\ UNCHANGED <<used, zeroed>>
      <3>1. counter = last_trade_index \/ (last_trade_index = Gate!NoUser /\ counter = m.index)
        BY <1>4, <2>0 DEF Gate!check_trade_index
      <3>2. last_trade_index' \in IntakeIndices /\ last_trade_index <= last_trade_index'
        BY <1>1, <1>4, <2>1, <3>1 DEF IntakeIndices, Gate!NoUser, IntakeFits
      <3>3. IntakePassed'
        BY <1>1, <2>1, <3>2 DEF IntakePassed, IntakeIndices, Gate!NoUser, IntakeFits
      <3>4. QED
        BY <1>1, <1>b, <2>1, <3>2, <3>3 DEF Gate!IndexSpentOnce
    <2>2. CASE ~(last_trade_index' = counter /\ UNCHANGED <<used, zeroed>>)
      <3>1. /\ last_trade_index' = IF m.private \/ counter = Gate!NoUser THEN counter ELSE m.index
            /\ used' = IF m.index >= 1 THEN [used EXCEPT ![m.index] = Gate!Add1(@)] ELSE used
        BY <2>2 DEF Gate!update_user_trade_index
      <3>2. zeroed' = (zeroed \/ m.index = 0)
        BY <2>2, Zenon DEF Gate!update_user_trade_index
      <3>3. counter # Gate!NoUser /\ (m.index >= 1 => m.index > last_trade_index)
        BY <1>1, <1>4, <2>0 DEF Gate!check_trade_index, Gate!InvalidTradeIndex, IntakeIndices,
           Gate!NoUser, Gate!NoIndex, IntakeFits
      <3>4. last_trade_index' = m.index
        BY <2>0, <3>1, <3>3
      <3>5. zeroed' \in BOOLEAN /\ (~zeroed' => ~zeroed /\ m.index # 0)
        BY <1>b, <3>2, Zenon
      <3>6. last_trade_index' \in IntakeIndices
        BY <1>4, <3>4 DEF IntakeIndices
      <3>7. CASE m.index = 0
        <4>1. used' = used /\ zeroed'
          BY <1>4, <3>1, <3>5, <3>7 DEF IntakeFits
        <4>2. QED
          BY <1>1, <3>5, <3>6, <4>1 DEF IntakePassed, Gate!IndexSpentOnce
      <3>8. CASE m.index # 0
        <4>1. m.index \in 1..MaxIndex /\ m.index > last_trade_index
          BY <1>4, <3>3, <3>8 DEF IntakeFits
        <4>2. used' = [used EXCEPT ![m.index] = Gate!Add1(@)]
          BY <3>1, <4>1 DEF IntakeFits
        <4>3. /\ used' \in [1..MaxIndex -> 0..2]
              /\ \A i \in 1..MaxIndex : i # m.index => used'[i] = used[i]
              /\ used'[m.index] = Gate!Add1(used[m.index])
          BY <1>1, <4>1, <4>2 DEF Gate!Add1
        <4>4. ~zeroed => used[m.index] = 0
          BY <1>1, <4>1 DEF IntakePassed, IntakeIndices, Gate!NoUser, IntakeFits
        <4>5. IntakePassed'
          BY <1>1, <3>4, <3>5, <4>1, <4>3 DEF IntakePassed, IntakeIndices, Gate!NoUser, IntakeFits
        <4>6. Gate!IndexSpentOnce'
          BY <1>1, <3>5, <4>1, <4>3, <4>4 DEF Gate!IndexSpentOnce, Gate!Add1
        <4>7. QED
          BY <3>5, <3>6, <4>3, <4>5, <4>6
      <3>9. QED
        BY <3>7, <3>8
    <2>3. QED
      BY <2>1, <2>2
  <1>5. QED
    BY <1>2, <1>3, <1>4

-----------------------------------------------------------------------------
(* The handler runs for an event the guard did not know.                    *)
LEMMA IntakeAcceptKeeps ==
  ASSUME IntakeFits, IntakeInv, NEW e \in Events, Gate!accept_event(e)
  PROVE  IntakeInv'
  <1>1. /\ published \in [Events -> Gate!Contents \cup {Gate!Unsent}]
        /\ created \in [Events -> Gate!Old..MaxSkew]
        /\ seen \in [Events -> {Gate!Never} \cup 0..WindowSecs]
        /\ handled \in [Events -> 0..2]
    BY DEF IntakeInv, IntakeTyped
  <1>2. /\ seen' = [seen EXCEPT ![e] = 0] /\ UNCHANGED <<published, created, restarted>>
        /\ published[e] # Gate!Unsent /\ published[e] \in Gate!Contents
    BY <1>1 DEF Gate!accept_event
  <1>3. /\ seen' \in [Events -> {Gate!Never} \cup 0..WindowSecs]
        /\ seen'[e] = 0 /\ \A d \in Events : d # e => seen'[d] = seen[d]
    BY <1>1, <1>2 DEF IntakeFits
  <1>4. created[e] + seen'[e] <= MaxSkew /\ seen'[e] # Gate!Never
    <2>1. created[e] \in Gate!Old..MaxSkew
      BY <1>1
    <2>2. QED
      BY <1>3, <2>1 DEF Gate!Old, Gate!Never, IntakeFits
  <1>5. CASE UNCHANGED <<last_trade_index, used, zeroed, handled>>
    <2>1. IntakeGuarded'
      <3>1. ASSUME NEW d \in Events
            PROVE  /\ published[d] = Gate!Unsent => handled[d] = 0
                   /\ handled[d] # 0 /\ ~restarted =>
                        created[d] = Gate!Old \/ (seen'[d] # Gate!Never
                          /\ created[d] + seen'[d] <= MaxSkew)
        <4>1. CASE d = e
          BY <1>2, <1>4, <4>1
        <4>2. CASE d # e
          BY <1>3, <4>2 DEF IntakeInv, IntakeGuarded
        <4>3. QED
          BY <4>1, <4>2
      <3>2. QED
        BY <1>2, <1>5, <3>1 DEF IntakeGuarded
    <2>2. IntakeTyped'
      <3>1. zeroed' \in BOOLEAN
        BY <1>5, Zenon DEF IntakeInv, IntakeTyped
      <3>2. QED
        BY <1>2, <1>3, <1>5, <3>1 DEF IntakeInv, IntakeTyped
    <2>3. IntakePassed' /\ Gate!HandledOnce' /\ Gate!IndexSpentOnce'
      BY <1>2, <1>5 DEF IntakeInv, IntakePassed, Gate!HandledOnce, Gate!IndexSpentOnce
    <2>4. QED
      BY <2>1, <2>2, <2>3 DEF IntakeInv
  <1>6. CASE ~UNCHANGED <<last_trade_index, used, zeroed, handled>>
    <2>1. /\ ~Gate!check_and_record(e) /\ created[e] >= -Freshness
          /\ handled' = [handled EXCEPT ![e] = Gate!Add1(@)]
      BY <1>6 DEF Gate!accept_event
    <2>2. PICK counter \in IntakeIndices :
            /\ Gate!check_trade_index(published[e], counter)
            /\ Gate!update_user_trade_index(published[e], counter)
      BY <1>6 DEF Gate!accept_event, IntakeIndices
    <2>3. /\ last_trade_index' \in IntakeIndices /\ zeroed' \in BOOLEAN
          /\ used' \in [1..MaxIndex -> 0..2]
          /\ IntakePassed' /\ Gate!IndexSpentOnce'
      BY <1>2, <2>2, IntakeIndexStep
    <2>4. ~restarted => handled[e] = 0
      <3>1. created[e] \in Gate!Old..MaxSkew
        BY <1>1
      <3>2. QED
        BY <2>1, <3>1, IntakeRepeatRefused DEF Gate!Old, IntakeFits
    <2>5. /\ handled' \in [Events -> 0..2]
          /\ handled'[e] = Gate!Add1(handled[e]) /\ \A d \in Events : d # e =>
               handled'[d] = handled[d]
      BY <1>1, <2>1 DEF Gate!Add1
    <2>6. IntakeTyped'
      BY <1>1, <1>2, <1>3, <2>3, <2>5 DEF IntakeTyped
    <2>7. Gate!HandledOnce'
      <3>1. Gate!Add1(handled[e]) = 2 => restarted
        BY <2>4 DEF Gate!Add1
      <3>2. \A d \in Events : handled[d] = 2 => restarted
        BY Zenon DEF IntakeInv, Gate!HandledOnce
      <3>3. \A d \in Events : handled'[d] = 2 => restarted
        BY Zenon, <2>5, <3>1, <3>2
      <3>4. QED
        BY Zenon, <1>2, <3>3 DEF Gate!HandledOnce
    <2>8. IntakeGuarded'
      <3>1. ASSUME NEW d \in Events
            PROVE  /\ published[d] = Gate!Unsent => handled'[d] = 0
                   /\ handled'[d] # 0 /\ ~restarted =>
                        created[d] = Gate!Old \/ (seen'[d] # Gate!Never
                          /\ created[d] + seen'[d] <= MaxSkew)
        <4>1. CASE d = e
          BY Zenon, <1>2, <1>4, <4>1
        <4>2. CASE d # e
          BY Zenon, <1>3, <2>5, <4>2 DEF IntakeInv, IntakeGuarded
        <4>3. QED
          BY Zenon, <4>1, <4>2
      <3>2. QED
        BY Zenon, <1>2, <3>1 DEF IntakeGuarded
    <2>9. QED
      BY <2>3, <2>6, <2>7, <2>8 DEF IntakeInv
  <1>7. QED
    BY <1>5, <1>6

(* A second passes: entry and event age together, until the entry is        *)
(* dropped, and then the event is too old.                                  *)
LEMMA IntakeTickKeeps ==
  ASSUME IntakeFits, IntakeInv, Gate!tick
  PROVE  IntakeInv'
  <1>1. /\ created \in [Events -> Gate!Old..MaxSkew]
        /\ seen \in [Events -> {Gate!Never} \cup 0..WindowSecs]
    BY DEF IntakeInv, IntakeTyped
  <1>2. UNCHANGED <<published, last_trade_index, handled, used, zeroed, restarted>>
    BY DEF Gate!tick
  <1>3. /\ created' = [e \in Events |-> IF created[e] = Gate!Old THEN Gate!Old ELSE created[e] - 1]
        /\ seen' = [e \in Events |->
                      IF seen[e] \in {Gate!Never, WindowSecs} THEN Gate!Never ELSE seen[e] + 1]
    BY DEF Gate!tick
  <1>4. ASSUME NEW e \in Events
        PROVE  /\ created'[e] \in Gate!Old..MaxSkew /\ seen'[e] \in {Gate!Never} \cup 0..WindowSecs
               /\ created[e] = Gate!Old \/ (seen[e] # Gate!Never
                    /\ created[e] + seen[e] <= MaxSkew) =>
                    created'[e] = Gate!Old \/ (seen'[e] # Gate!Never
                      /\ created'[e] + seen'[e] <= MaxSkew)
    <2>1. created[e] \in Gate!Old..MaxSkew /\ seen[e] \in {Gate!Never} \cup 0..WindowSecs
      BY <1>1
    <2>2. /\ created'[e] = IF created[e] = Gate!Old THEN Gate!Old ELSE created[e] - 1
          /\ seen'[e] = IF seen[e] \in {Gate!Never, WindowSecs} THEN Gate!Never ELSE seen[e] + 1
      BY <1>3
    <2>3. QED
      BY <2>1, <2>2 DEF Gate!Old, Gate!Never, IntakeFits
  <1>5. /\ created' \in [Events -> Gate!Old..MaxSkew]
        /\ seen' \in [Events -> {Gate!Never} \cup 0..WindowSecs]
    BY <1>3, <1>4
  <1>6. IntakeTyped'
    <2>1. zeroed' \in BOOLEAN
      BY <1>2, Zenon DEF IntakeInv, IntakeTyped
    <2>2. QED
      BY <1>2, <1>5, <2>1 DEF IntakeInv, IntakeTyped
  <1>7. IntakeGuarded'
    BY <1>2, <1>4 DEF IntakeInv, IntakeGuarded
  <1>8. IntakePassed' /\ Gate!HandledOnce' /\ Gate!IndexSpentOnce'
    BY <1>2 DEF IntakeInv, IntakePassed, Gate!HandledOnce, Gate!IndexSpentOnce
  <1>9. QED
    BY <1>6, <1>7, <1>8 DEF IntakeInv

(* An event is published once, before it is handled.                        *)
LEMMA IntakePublishKeeps ==
  ASSUME IntakeFits, IntakeInv, NEW e \in Events, NEW m \in Gate!Contents, NEW at \in {-Freshness,
    MaxSkew},
         Gate!publish(e, m, at)
  PROVE  IntakeInv'
  <1>1. /\ published \in [Events -> Gate!Contents \cup {Gate!Unsent}]
             /\ created \in [Events -> Gate!Old..MaxSkew]
    BY DEF IntakeInv, IntakeTyped
  <1>2. /\ published[e] = Gate!Unsent /\ published' = [published EXCEPT ![e] = m]
        /\ created' = [created EXCEPT ![e] = at]
        /\ UNCHANGED <<seen, last_trade_index, handled, used, zeroed, restarted>>
    BY DEF Gate!publish
  <1>3. at \in Gate!Old..MaxSkew
    BY DEF Gate!Old, IntakeFits
  <1>4. /\ published' \in [Events -> Gate!Contents \cup {Gate!Unsent}]
             /\ created' \in [Events -> Gate!Old..MaxSkew]
        /\ \A d \in Events : d # e => published'[d] = published[d] /\ created'[d] = created[d]
    BY <1>1, <1>2, <1>3
  <1>5. handled[e] = 0
    BY <1>2 DEF IntakeInv, IntakeGuarded
  <1>6. IntakeTyped'
    <2>1. zeroed' \in BOOLEAN
      BY ZenonT(60), <1>2 DEF IntakeInv, IntakeTyped
    <2>2. QED
      BY <1>2, <1>4, <2>1 DEF IntakeInv, IntakeTyped
  <1>7. IntakeGuarded'
    BY <1>2, <1>4, <1>5 DEF IntakeInv, IntakeGuarded
  <1>8. IntakePassed' /\ Gate!HandledOnce' /\ Gate!IndexSpentOnce'
    BY <1>2 DEF IntakeInv, IntakePassed, Gate!HandledOnce, Gate!IndexSpentOnce
  <1>9. QED
    BY <1>6, <1>7, <1>8 DEF IntakeInv

(* The refresh of the keys touches nothing else; a restart empties the      *)
(* guard, and is remembered.                                                *)
LEMMA IntakeOthersKeep ==
  ASSUME IntakeFits, IntakeInv,
    Gate!job_refresh_active_pubkeys \/ Gate!install_spam_gate \/ UNCHANGED intakeVars
  PROVE  IntakeInv'
  <1>1. UNCHANGED <<published, created, last_trade_index, handled, used, zeroed>>
    BY DEF Gate!job_refresh_active_pubkeys, Gate!install_spam_gate, intakeVars
  <1>2. \/ UNCHANGED <<seen, restarted>>
        \/ restarted' /\ seen' = [e \in Events |-> Gate!Never]
    BY DEF Gate!job_refresh_active_pubkeys, Gate!install_spam_gate, intakeVars
  <1>3. seen' \in [Events -> {Gate!Never} \cup 0..WindowSecs]
    BY <1>2 DEF IntakeInv, IntakeTyped
  <1>4. IntakeTyped'
    <2>1. zeroed' \in BOOLEAN
      BY <1>1, Zenon DEF IntakeInv, IntakeTyped
    <2>2. QED
      BY <1>1, <1>3, <2>1 DEF IntakeInv, IntakeTyped
  <1>5. IntakeGuarded'
    BY <1>1, <1>2 DEF IntakeInv, IntakeGuarded
  <1>6. IntakePassed' /\ Gate!HandledOnce' /\ Gate!IndexSpentOnce'
    BY <1>1, <1>2 DEF IntakeInv, IntakePassed, Gate!HandledOnce, Gate!IndexSpentOnce
  <1>7. QED
    BY <1>4, <1>5, <1>6 DEF IntakeInv

(* Nothing is published, nothing handled.                                   *)
LEMMA IntakeInitEstablishes == IntakeFits /\ Gate!Init => IntakeInv
  <1> SUFFICES ASSUME IntakeFits, Gate!Init
               PROVE  IntakeInv
    OBVIOUS
  <1>1. zeroed \in BOOLEAN
    BY Zenon DEF Gate!Init
  <1>2. IntakeTyped
    BY <1>1 DEF Gate!Init, IntakeTyped, IntakeIndices, Gate!Old, IntakeFits
  <1>3. IntakeGuarded /\ IntakePassed /\ Gate!HandledOnce /\ Gate!IndexSpentOnce
    BY DEF Gate!Init, IntakeGuarded, IntakePassed, Gate!HandledOnce, Gate!IndexSpentOnce
  <1>4. QED
    BY <1>2, <1>3 DEF IntakeInv

(* IntakeInv is inductive.                                                  *)
LEMMA IntakeNextPreserves == IntakeFits /\ IntakeInv /\ [Gate!Next]_intakeVars => IntakeInv'
  BY IntakeAcceptKeeps, IntakeTickKeeps, IntakePublishKeeps, IntakeOthersKeep DEF Gate!Next

(* However often relays deliver an event, and wherever within the skew the  *)
(* sender's clock is: while the daemon runs its handler runs once, for      *)
(* every window that covers freshness and skew (accept_event, ReplayGuard). *)
THEOREM HandledOnceHolds ==
  ASSUME Freshness \in Nat, WindowSecs \in Nat, MaxSkew \in Nat, MaxIndex \in Nat,
         MaxSkew + Freshness <= WindowSecs
  PROVE  Gate!Spec => []HandledOnce
  <1>1. IntakeFits
    BY DEF IntakeFits
  <1>2. Gate!Init => IntakeInv
    BY <1>1, IntakeInitEstablishes
  <1>3. IntakeInv /\ [Gate!Next]_(Gate!vars) => IntakeInv'
    BY <1>1, IntakeNextPreserves DEF Gate!vars, intakeVars
  <1>4. IntakeInv => HandledOnce
    BY DEF IntakeInv, HandledOnce
  <1>5. QED
    BY <1>2, <1>3, <1>4, PTL DEF Gate!Spec

(* A trade index is spent on one order, over restarts and replays, as long  *)
(* as none is accepted under index 0 (check_trade_index,                    *)
(* update_user_trade_index).                                                *)
THEOREM IndexSpentOnceHolds ==
  ASSUME Freshness \in Nat, WindowSecs \in Nat, MaxSkew \in Nat, MaxIndex \in Nat,
         MaxSkew + Freshness <= WindowSecs
  PROVE  Gate!Spec => []IndexSpentOnce
  <1>1. IntakeFits
    BY DEF IntakeFits
  <1>2. Gate!Init => IntakeInv
    BY <1>1, IntakeInitEstablishes
  <1>3. IntakeInv /\ [Gate!Next]_(Gate!vars) => IntakeInv'
    BY <1>1, IntakeNextPreserves DEF Gate!vars, intakeVars
  <1>4. IntakeInv => IndexSpentOnce
    BY DEF IntakeInv, IndexSpentOnce
  <1>5. QED
    BY <1>2, <1>3, <1>4, PTL DEF Gate!Spec

-----------------------------------------------------------------------------
(***************************************************************************)
(* RangeBond, for every range, every set of workers and every number of    *)
(* faults.  release_bond overwrites the maker bond's row without looking;  *)
(* that it never overwrites a slashed one follows from RangeInv: a worker  *)
(* about to write canceled the hold invoice, a worker about to run the     *)
(* closing transaction settled it, and LND does only one of them.          *)
(***************************************************************************)
JobsTyped == job = [w \in Workers |-> job[w]]
InvoiceTyped == htlc \in {"held", "settled", "canceled"}

(* What a worker knows of the hold invoice when it writes the row.          *)
WorkersKnow ==
  \A w \in Workers :
    /\ job[w].step = "write" => htlc = "canceled"
    /\ job[w].step = "transaction" => htlc = "settled"

(* The maker bond's row says what LND did.                                  *)
ParentFollowsInvoice ==
  /\ parent = "slashed" => htlc = "settled"
  /\ parent = "released" => htlc = "canceled"

RangeInv == JobsTyped /\ InvoiceTyped /\ WorkersKnow /\ ParentFollowsInvoice

(* A hold invoice that is settled or canceled stays so.                     *)
Decided == htlc \in {"settled", "canceled"} => htlc' = htlc

Bound == {"write", "transaction"}

(* What every step must do.                                                 *)
Kept == RangeInv' /\ (parent = "slashed" => parent' = "slashed")

(* Only w moves.                                                            *)
Moves(w, step) ==
  /\ JobsTyped'
  /\ job'[w].step = step
  /\ \A v \in Workers \ {w} : job'[v] = job[v]

-----------------------------------------------------------------------------
(* The helpers move one worker to the step they name.                       *)
LEMMA GotoMoves ==
  ASSUME JobsTyped, NEW w \in Workers, NEW step, NEW found, GotoWith(w, step, found)
  PROVE  Moves(w, step)
  <1> DEFINE new == IF step = "idle" THEN Resting
                    ELSE [step |-> step, slice |-> job[w].slice, seen |-> found]
  <1>1. new.step = step
    BY DEF Resting
  <1>2. job' = [job EXCEPT ![w] = new]
    BY DEF GotoWith
  <1> HIDE DEF new
  <1>3. QED
    BY <1>1, <1>2 DEF Moves, JobsTyped

(* So do the entry points.                                                  *)
LEMMA StartMoves ==
  ASSUME JobsTyped, NEW w \in Workers, NEW s, NEW step, Start(w, s, step)
  PROVE  Moves(w, step)
  <1> DEFINE new == [step |-> step, slice |-> s, seen |-> 0]
  <1>1. new.step = step
    OBVIOUS
  <1>2. job' = [job EXCEPT ![w] = new]
    BY DEF Start
  <1> HIDE DEF new
  <1>3. QED
    BY <1>1, <1>2 DEF Moves, JobsTyped

(* A move keeps what the workers know, if the mover's new step is true.     *)
LEMMA MovesKnow ==
  ASSUME RangeInv, Decided, NEW w \in Workers, NEW step, Moves(w, step),
         step = "write" => htlc' = "canceled",
         step = "transaction" => htlc' = "settled"
  PROVE  JobsTyped' /\ WorkersKnow'
  <1>1. ASSUME NEW v \in Workers
        PROVE  /\ job'[v].step = "write" => htlc' = "canceled"
               /\ job'[v].step = "transaction" => htlc' = "settled"
    <2>1. CASE v = w
      BY <2>1 DEF Moves
    <2>2. CASE v # w
      <3>1. job'[v] = job[v]
        BY <2>2 DEF Moves
      <3>2. QED
        BY <3>1 DEF RangeInv, WorkersKnow, Decided
    <2>3. QED
      BY <2>1, <2>2
  <1>2. QED
    BY <1>1 DEF WorkersKnow, Moves

(* A move that leaves the bond and its invoice alone.                       *)
LEMMA QuietMove ==
  ASSUME RangeInv, NEW w \in Workers, NEW step, Moves(w, step), step \notin Bound,
         UNCHANGED <<parent, htlc>>
  PROVE  Kept
  <1>1. Decided
    BY DEF Decided
  <1>2. JobsTyped' /\ WorkersKnow'
    BY <1>1, MovesKnow DEF Bound
  <1>3. QED
    BY <1>2 DEF Kept, RangeInv, InvoiceTyped, ParentFollowsInvoice

(* The same, when no worker moves.                                          *)
LEMMA StillStep ==
  ASSUME RangeInv, UNCHANGED <<job, parent, htlc>>
  PROVE  Kept
  BY DEF Kept, RangeInv, JobsTyped, InvoiceTyped, WorkersKnow, ParentFollowsInvoice

-----------------------------------------------------------------------------
(* The trade does not touch the bond.                                       *)
LEMMA TradingKeeps ==
  ASSUME RangeInv, Trading
  PROVE  Kept
  <1>1. UNCHANGED <<job, parent, htlc>>
    BY Zenon DEF Trading, take_sell_action, hold_invoice_paid, dispute_action,
           order_republishes_on_timeout, payment_success, Advance, bond
  <1>2. QED
    BY <1>1, StillStep

(* An entry point puts its worker on a path.                                *)
LEMMA HooksKeep ==
  ASSUME RangeInv, Hooks \/ reconcile_stranded_range_maker_bonds
  PROVE  Kept
  <1>1. {"main", "rpc", "timeout", "expirer", "sweep"} \subseteq Workers /\ Admins \subseteq Workers
    BY DEF Workers, Admins
  <1>2. UNCHANGED <<parent, htlc>>
    BY DEF Hooks, cancel_order_by_maker, cancel_pending_order_from_maker,
           job_expire_pending_older_orders, release_action, reconfirm_timeout_eligibility,
           admin_cancel_action, admin_settle_action, reconcile_stranded_range_maker_bonds,
           Entry, bond
  <1>3. PICK w \in Workers, s \in Slices, step \in Steps \ Bound : Start(w, s, step)
    <2>1. CASE reconcile_stranded_range_maker_bonds
      BY <1>1, <2>1, RangeAssumption DEF reconcile_stranded_range_maker_bonds, Steps, Bound
    <2>2. CASE Hooks
      <3>1. PICK s \in Slices :
              \/ cancel_order_by_maker(s) \/ cancel_pending_order_from_maker(s)
              \/ job_expire_pending_older_orders(s) \/ release_action(s)
              \/ reconfirm_timeout_eligibility(s)
              \/ \E w \in Admins, slash \in BOOLEAN :
                   admin_cancel_action(w, s, slash) \/ admin_settle_action(w, s, slash)
        BY <2>2 DEF Hooks
      <3>2. CASE cancel_order_by_maker(s)
        BY <1>1, <3>2 DEF cancel_order_by_maker, Steps, Bound
      <3>3. CASE cancel_pending_order_from_maker(s)
        BY <1>1, <3>3 DEF cancel_pending_order_from_maker, Steps, Bound
      <3>4. CASE job_expire_pending_older_orders(s)
        BY <1>1, <3>4 DEF job_expire_pending_older_orders, Steps, Bound
      <3>5. CASE release_action(s)
        BY <1>1, <3>5 DEF release_action, Steps, Bound
      <3>6. CASE reconfirm_timeout_eligibility(s)
        BY <1>1, <3>6 DEF reconfirm_timeout_eligibility, Steps, Bound
      <3>7. CASE \E w \in Admins, slash \in BOOLEAN :
                   admin_cancel_action(w, s, slash) \/ admin_settle_action(w, s, slash)
        <4>1. PICK w \in Admins, slash \in BOOLEAN :
                   admin_cancel_action(w, s, slash) \/ admin_settle_action(w, s, slash)
          BY <3>7
        <4>2. CASE admin_cancel_action(w, s, slash)
          BY <1>1, <4>2 DEF admin_cancel_action, Steps, Bound
        <4>3. CASE admin_settle_action(w, s, slash)
          BY <1>1, <4>3 DEF admin_settle_action, Steps, Bound
        <4>4. QED
          BY <4>1, <4>2, <4>3
      <3>8. QED
        BY <3>1, <3>2, <3>3, <3>4, <3>5, <3>6, <3>7
    <2>3. QED
      BY <2>1, <2>2
  <1>4. QED
    BY <1>2, <1>3, StartMoves, QuietMove DEF RangeInv

(* Writing orders, recording slashes and the reads of the close.            *)
LEMMA WorkKeeps ==
  ASSUME RangeInv, NEW w \in Workers,
         Writing(w) \/ Slashing(w) \/ close(w) \/ lnd_error(w)
  PROVE  Kept
  <1>1. UNCHANGED <<parent, htlc>>
    BY Zenon DEF Writing, Slashing, persist, settle_persist, resolve_slash_target,
           record_maker_slice_slash, slashed_share_sats, close, lnd_error, bond
  <1>2. PICK step \in Steps \ Bound : \E found : GotoWith(w, step, found)
    BY Zenon DEF Writing, Slashing, persist, settle_persist, resolve_slash_target,
           record_maker_slice_slash, Insert, slashed_share_sats, close, lnd_error, AfterSlash,
           Goto, Steps, Bound
  <1>3. QED
    BY <1>1, <1>2, GotoMoves, QuietMove DEF RangeInv

(* The remainder, and the job that could not write.                         *)
LEMMA RemainderKeeps ==
  ASSUME RangeInv, handle_child_order \/ persist_fails
  PROVE  Kept
  <1>1. UNCHANGED <<parent, htlc>>
    BY Zenon DEF handle_child_order, persist_fails, bond
  <1>2. PICK w \in Workers, step \in Steps \ Bound : GotoWith(w, step, 0)
    BY DEF handle_child_order, persist_fails, Goto, Steps, Bound, Workers, Admins
  <1>3. QED
    BY <1>1, <1>2, GotoMoves, QuietMove DEF RangeInv

(* The calls to LND decide a held invoice, and the worker goes on to write  *)
(* only what it decided.                                                    *)
LEMMA InvoiceKeeps ==
  ASSUME RangeInv, NEW w \in Workers, cancel_hold_invoice(w) \/ settle_hold_invoice(w)
  PROVE  Kept
  <1>1. UNCHANGED parent /\ Decided
    BY DEF cancel_hold_invoice, settle_hold_invoice, bond, Decided
  <1>2. PICK step \in {"idle", "write", "transaction"} :
          /\ Goto(w, step)
          /\ step = "write" => htlc' = "canceled"
          /\ step = "transaction" => htlc' = "settled"
    BY DEF cancel_hold_invoice, settle_hold_invoice, RangeInv, InvoiceTyped
  <1>3. JobsTyped' /\ WorkersKnow'
    BY <1>1, <1>2, GotoMoves, MovesKnow DEF Goto, RangeInv
  <1>4. InvoiceTyped'
    BY DEF cancel_hold_invoice, settle_hold_invoice, RangeInv, InvoiceTyped
  <1>5. QED
    BY <1>1, <1>3, <1>4 DEF Kept, RangeInv, ParentFollowsInvoice, Decided

(* The writes of the maker bond's row.                                      *)
LEMMA ParentKeeps ==
  ASSUME RangeInv, NEW w \in Workers, release_bond(w) \/ close_transaction(w)
  PROVE  Kept
  <1>1. UNCHANGED htlc /\ Goto(w, "idle")
    BY DEF release_bond, close_transaction
  <1>2. Decided
    BY <1>1 DEF Decided
  <1>3. JobsTyped' /\ WorkersKnow'
    BY <1>1, <1>2, GotoMoves, MovesKnow DEF Goto, RangeInv
  <1>4. CASE release_bond(w)
    <2>1. htlc = "canceled" /\ parent' = "released"
      BY <1>4 DEF release_bond, At, RangeInv, WorkersKnow
    <2>2. QED
      BY <1>1, <1>3, <2>1 DEF Kept, RangeInv, InvoiceTyped, ParentFollowsInvoice
  <1>5. CASE close_transaction(w)
    <2>1. htlc = "settled" /\ (parent' = "slashed" \/ parent' = parent)
      BY <1>5 DEF close_transaction, At, RangeInv, WorkersKnow
    <2>2. QED
      BY <1>1, <1>3, <2>1 DEF Kept, RangeInv, InvoiceTyped, ParentFollowsInvoice
  <1>6. QED
    BY <1>4, <1>5

(* The subscription, the payout, a restart and the end of the HTLC.         *)
LEMMA OutsideKeeps ==
  ASSUME RangeInv,
         \/ on_bond_invoice_canceled \/ (\E r \in Rows : process_one_bond(r))
         \/ crash \/ cltv_expiry
  PROVE  Kept
  <1>1. CASE on_bond_invoice_canceled
    <2>1. htlc = "canceled" /\ UNCHANGED <<parent, htlc>> /\ Start("subscriber", 1, "write")
      BY <1>1 DEF on_bond_invoice_canceled, Entry, bond
    <2>2. "subscriber" \in Workers /\ Decided
      BY <2>1 DEF Workers, Decided
    <2>3. Moves("subscriber", "write")
      BY <2>1, <2>2, StartMoves DEF RangeInv
    <2>4. JobsTyped' /\ WorkersKnow'
      BY <2>1, <2>2, <2>3, MovesKnow
    <2>5. QED
      BY <2>1, <2>4 DEF Kept, RangeInv, InvoiceTyped, ParentFollowsInvoice
  <1>2. CASE \E r \in Rows : process_one_bond(r)
    <2>1. UNCHANGED <<job, parent, htlc>>
      BY <1>2 DEF process_one_bond, bond
    <2>2. QED
      BY <2>1, StillStep
  <1>3. CASE crash
    <2>1. job' = [w \in Workers |-> Resting] /\ UNCHANGED <<parent, htlc>>
      BY <1>3 DEF crash, bond
    <2>2. JobsTyped' /\ WorkersKnow'
      BY <2>1 DEF JobsTyped, WorkersKnow, Resting
    <2>3. QED
      BY <2>1, <2>2 DEF Kept, RangeInv, InvoiceTyped, ParentFollowsInvoice
  <1>4. CASE cltv_expiry
    <2>1. htlc = "held" /\ htlc' = "canceled" /\ UNCHANGED <<job, parent>>
      BY <1>4 DEF cltv_expiry, bond
    <2>2. QED
      BY <2>1 DEF Kept, RangeInv, JobsTyped, InvoiceTyped, WorkersKnow, ParentFollowsInvoice
  <1>5. QED
    BY <1>1, <1>2, <1>3, <1>4

(* The bond is locked and its invoice held.                                 *)
LEMMA InitEstablishes == Init => RangeInv
  BY DEF Init, RangeInv, JobsTyped, InvoiceTyped, WorkersKnow, ParentFollowsInvoice, Resting

(* Every step keeps RangeInv and a slashed row.                             *)
LEMMA NextKeeps == RangeInv /\ [Next]_vars => Kept
  <1> SUFFICES ASSUME RangeInv, [Next]_vars
               PROVE  Kept
    OBVIOUS
  <1>1. CASE Trading
    BY <1>1, TradingKeeps
  <1>2. CASE Hooks \/ reconcile_stranded_range_maker_bonds
    BY <1>2, HooksKeep
  <1>3. CASE handle_child_order \/ persist_fails
    BY <1>3, RemainderKeeps
  <1>4. ASSUME NEW w \in Workers, Writing(w) \/ Slashing(w) \/ Closing(w) \/ lnd_error(w)
        PROVE  Kept
    BY <1>4, WorkKeeps, InvoiceKeeps, ParentKeeps DEF Closing
  <1>5. CASE on_bond_invoice_canceled \/ (\E r \in Rows : process_one_bond(r))
             \/ crash \/ cltv_expiry
    BY <1>5, OutsideKeeps
  <1>6. CASE UNCHANGED vars
    BY <1>6, StillStep DEF vars
  <1>7. QED
    BY <1>1, <1>2, <1>3, <1>4, <1>5, <1>6 DEF Next

(* resolve_range_maker_bond_at_close from several workers at once, with     *)
(* failures and restarts anywhere: a maker bond that was settled and        *)
(* distributed is never overwritten by a release decided on an older read.  *)
THEOREM SlashedIsFinalHolds == Spec => SlashedIsFinal
  <1>1. RangeInv /\ [Next]_vars => RangeInv'
    BY NextKeeps DEF Kept
  <1>2. RangeInv /\ [Next]_vars => [parent = "slashed" => parent' = "slashed"]_vars
    BY NextKeeps DEF Kept
  <1>3. QED
    BY <1>1, <1>2, InitEstablishes, PTL DEF Spec, SlashedIsFinal

(* The maker bond's row never says something else than LND: it is slashed   *)
(* only with the money in Mostro's wallet, released only with the money     *)
(* back at the maker's.                                                     *)
THEOREM ParentFollowsInvoiceHolds == Spec => []ParentFollowsInvoice
  <1>1. RangeInv /\ [Next]_vars => RangeInv'
    BY NextKeeps DEF Kept
  <1>2. RangeInv => ParentFollowsInvoice
    BY DEF RangeInv
  <1>3. QED
    BY <1>1, <1>2, InitEstablishes, PTL DEF Spec
=============================================================================
