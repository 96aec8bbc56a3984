---------------------------- MODULE PayoutProofs ----------------------------
EXTENDS Payout, TLAPS

(* Zenon closes most leaves at once; SMT takes those with arithmetic.       *)
USE ZenonT(3), SMTT(60), ZenonT(60)

Settled == status = "settled-hold-invoice"
Stale(c) == c.at + Grace <= now

\* a background task that may still send, or act on the failure of, its claim
Holds(t) ==
  t \in Tasks /\ pc[t] \in {"queued", "sending", "streaming", "errored", "rearm"}

(* Which steps each kind of actor can be at; an actor at work has a claim.  *)
ActorSteps ==
  /\ \A t \in Tasks : pc[t] \notin {"lookup", "pre"}
  /\ pc[Reconciler] \notin {"queued", "sending", "streaming", "errored"}
  /\ \A a \in Actors : pc[a] # "idle" => claim[a] \in Claims

(* Nothing of the payout exists before the escrow is settled.               *)
NothingBeforeSettle ==
  status = "fiat-sent" =>
    /\ payout = NoClaim
    /\ wire = {}
    /\ \A h \in Hashes : lnd[h] = "none"
    /\ \A a \in Actors : pc[a] = "idle"
    /\ \A c \in Callers : caller[c] = Idle

(* At most one task holds the current claim, and a request carrying it was  *)
(* sent by that task, once.                                                 *)
OneHolder ==
  Settled => \A s, t \in Tasks :
    Holds(s) /\ Holds(t) /\ claim[s] = payout /\ claim[t] = payout => s = t
OneRequest ==
  Settled => \A r \in wire : r.claim = payout =>
    /\ \A t \in Tasks : Holds(t) /\ claim[t] = payout => pc[t] = "sending" /\ r.task = t
    /\ \A q \in wire : q.claim = payout => q = r

(* A token that is not the current claim is older than the grace window.    *)
OthersAreStale ==
  Settled =>
    /\ \A t \in Tasks : Holds(t) => claim[t] = payout \/ Stale(claim[t])
    /\ \A r \in wire : r.claim = payout \/ Stale(r.claim)
ReconcilesStale ==
  pc[Reconciler] \in {"lookup", "pre", "rearm"} => Stale(claim[Reconciler])

(* The current claim is about to be re-armed only if its payment is dead.   *)
RearmsDead ==
  Settled => \A a \in Actors :
    pc[a] \in {"pre", "rearm"} /\ claim[a] = payout => ~Live(payout.hash)

FinalizesPaid ==
  \A a \in Actors :
    /\ pc[a] = "finalize" => lnd[claim[a].hash] = "succeeded"
    /\ pc[a] = "clear" => status = "success"

(* After success a request LND could still register is the paid one's.      *)
LateRequests ==
  status = "success" => \A r \in wire :
    lnd[r.claim.hash] = "succeeded" \/ Stale(r.claim)

IInv ==
  /\ TypeOK /\ ActorSteps /\ NothingBeforeSettle
  /\ OneHolder /\ OneRequest /\ OthersAreStale /\ ReconcilesStale
  /\ RearmsDead /\ FinalizesPaid /\ LateRequests
  /\ LivePaymentHasClaim /\ NoDoublePayout /\ SuccessMeansPaid
-----------------------------------------------------------------------------
(* Initially the inductive invariant holds.                                 *)
LEMMA InitIInv == Init => IInv
<1> SUFFICES ASSUME Init PROVE IInv
  OBVIOUS
<1> USE ConstAssumption
    DEF Init, Actors, Callers, Settled, Live, Holds
<1>1. TypeOK
  BY Zenon DEF TypeOK, Claims, Snapshots, Zero, Idle, PayStates, PcStates
<1>2. ActorSteps /\ NothingBeforeSettle
  BY DEF ActorSteps, NothingBeforeSettle
<1>3. OneHolder /\ OneRequest /\ OthersAreStale /\ RearmsDead /\ LateRequests
  BY DEF OneHolder, OneRequest, OthersAreStale, RearmsDead, LateRequests
<1>4. ReconcilesStale /\ FinalizesPaid
  BY DEF ReconcilesStale, FinalizesPaid
<1>5. LivePaymentHasClaim /\ NoDoublePayout /\ SuccessMeansPaid
  BY DEF LivePaymentHasClaim, NoDoublePayout, SuccessMeansPaid
<1> QED BY <1>1, <1>2, <1>3, <1>4, <1>5 DEF IInv

(* Every step keeps the types, and the steps and claims of the actors.      *)
LEMMA TypeStep ==
  ASSUME TypeOK, ActorSteps, [Next]_vars
  PROVE  TypeOK' /\ ActorSteps'
<1> USE ConstAssumption, TimingAssumption, BudgetAssumption
    DEF TypeOK, ActorSteps, Actors, Callers, Claims, Snapshots, Zero, Idle,
        Requests, PayStates, PcStates, Goto, Stop, Fault, RowSnap
<1>1. CASE Settle BY <1>1 DEF Settle, Run, row, actors, bounds, clock
<1>2. CASE RetryTick BY <1>2 DEF RetryTick, Run, row, actors, bounds, clock
<1>3. ASSUME NEW c \in Callers, ResolveFails(c) PROVE TypeOK' /\ ActorSteps'
  BY <1>3 DEF ResolveFails, Return, check_failure_retries, count_failed_payment,
              actors, bounds, clock
<1>4. ASSUME NEW c \in Callers, ConnectFails(c) PROVE TypeOK' /\ ActorSteps'
  BY <1>4 DEF ConnectFails, Return, row, actors, clock
<1>5. ASSUME NEW c \in Callers, Claim(c) PROVE TypeOK' /\ ActorSteps'
  BY <1>5 DEF Claim, Return, claim_order_payout, bounds
<1>7. ASSUME NEW i \in Invoices, pay_new_invoice(i) PROVE TypeOK' /\ ActorSteps'
  <2>1. UNCHANGED <<status, payout, failed_payment, caller, actors, wire, lnd,
                    clock, faults>>
    BY <1>7 DEF pay_new_invoice
  <2>2. asked' \in BOOLEAN BY <1>7, Zenon DEF pay_new_invoice
  <2>3. buyer_invoice' = i /\ payment_attempts' = 0 /\ swaps' = swaps + 1
    BY <1>7, Zenon DEF pay_new_invoice
  <2> QED BY <2>1, <2>2, <2>3 DEF actors, clock
<1>8. ASSUME NEW t \in Tasks, TouchLost(t) PROVE TypeOK' /\ ActorSteps'
  BY <1>8 DEF TouchLost, row, clock, bounds
<1>9. ASSUME NEW t \in Tasks, Heartbeat(t) PROVE TypeOK' /\ ActorSteps'
  BY <1>9 DEF Heartbeat, touch_order_payout_claim, bounds
<1>10. ASSUME NEW t \in Tasks, Dispatch(t) PROVE TypeOK' /\ ActorSteps'
  BY <1>10 DEF Dispatch, touch_order_payout_claim, bounds
<1>11. ASSUME NEW t \in Tasks, TaskGivesUp(t) PROVE TypeOK' /\ ActorSteps'
  BY <1>11 DEF TaskGivesUp, row, clock
<1>12. ASSUME NEW t \in Tasks, classify_dispatch(t) PROVE TypeOK' /\ ActorSteps'
  <2>1. UNCHANGED <<row, asked, caller, wire, lnd, clock, bounds>>
    BY <1>12 DEF classify_dispatch
  <2>2. CASE Stop(t) BY <2>1, <2>2 DEF row, clock, bounds
  <2>3. CASE Goto(t, "rearm") /\ pc[t] = "errored"
    BY <2>1, <2>3 DEF row, clock, bounds
  <2> QED BY <1>12, <2>2, <2>3 DEF classify_dispatch
<1>13. ASSUME NEW r \in wire, LndRegister(r) PROVE TypeOK' /\ ActorSteps'
  BY <1>13 DEF LndRegister, Answer, Sender, row, actors, clock
<1>14. ASSUME NEW r \in wire, LndRejectsDuplicate(r) PROVE TypeOK' /\ ActorSteps'
  BY <1>14 DEF LndRejectsDuplicate, Answer, Sender, row, actors, clock, bounds
<1>15. ASSUME NEW r \in wire, RequestLost(r) PROVE TypeOK' /\ ActorSteps'
  BY <1>15 DEF RequestLost, Answer, Sender, row, actors, clock
<1>16. ASSUME NEW h \in Hashes, LndSettles(h) PROVE TypeOK' /\ ActorSteps'
  BY <1>16 DEF LndSettles, Deliver, row, clock, bounds
<1>17. ASSUME NEW h \in Hashes, LndFails(h) PROVE TypeOK' /\ ActorSteps'
  BY <1>17 DEF LndFails, Deliver, row, clock, bounds
<1>18. CASE ReconcilePick
  BY <1>18 DEF ReconcilePick, find_inflight_payouts, row, clock, bounds
<1>19. CASE reconcile_inflight_payout
  <2> DEFINE Rest == UNCHANGED <<row, asked, caller, wire, lnd, clock, bounds>>
  <2>1. CASE Goto(Reconciler, "finalize") /\ Rest
    BY <1>19, <2>1 DEF reconcile_inflight_payout, row, clock, bounds
  <2>2. CASE Stop(Reconciler) /\ Rest
    BY <2>2 DEF row, clock, bounds
  <2>3. CASE Goto(Reconciler, "pre") /\ Rest
    BY <1>19, <2>3 DEF reconcile_inflight_payout, row, clock, bounds
  <2> QED BY <1>19, <2>1, <2>2, <2>3 DEF reconcile_inflight_payout
<1>20. CASE ReadPre BY <1>20 DEF ReadPre, row, clock, bounds
<1>21. ASSUME NEW a \in Actors, Rearm(a) PROVE TypeOK' /\ ActorSteps'
  <2>1. CASE fail_order_payout(claim[a]) /\ Goto(a, "book")
    BY <1>21, <2>1 DEF Rearm, fail_order_payout, clock, bounds
  <2>2. CASE Stop(a) /\ UNCHANGED <<payout, failed_payment>>
    BY <1>21, <2>2 DEF Rearm, clock, bounds
  <2> QED BY <1>21, <2>1, <2>2 DEF Rearm
<1>22. ASSUME NEW a \in Actors, Book(a) PROVE TypeOK' /\ ActorSteps'
  BY <1>22 DEF Book, check_failure_retries, count_failed_payment, clock, bounds
<1>23. ASSUME NEW a \in Actors, payment_success(a) PROVE TypeOK' /\ ActorSteps'
  BY <1>23 DEF payment_success, clock, bounds
<1>24. ASSUME NEW a \in Actors, Clear(a) PROVE TypeOK' /\ ActorSteps'
  BY <1>24 DEF Clear, clear_order_payout, clock, bounds
<1>25. ASSUME NEW a \in Actors, ActorErrs(a) PROVE TypeOK' /\ ActorSteps'
  BY <1>25 DEF ActorErrs, row, clock
<1>26. CASE Crash BY <1>26 DEF Crash, row, clock
<1>27. CASE Tick BY <1>27 DEF Tick, row, actors, bounds
<1>28. CASE UNCHANGED vars BY <1>28 DEF vars, row, actors, bounds, clock
<1> QED
  BY ZenonT(60), <1>1, <1>2, <1>3, <1>4, <1>5, <1>7, <1>8, <1>9, <1>10, <1>11, <1>12,
     <1>13, <1>14, <1>15, <1>16, <1>17, <1>18, <1>19, <1>20, <1>21, <1>22,
     <1>23, <1>24, <1>25, <1>26, <1>27, <1>28 DEF Next

-----------------------------------------------------------------------------
Safe ==
  /\ OneHolder /\ OneRequest /\ OthersAreStale /\ ReconcilesStale
  /\ RearmsDead /\ FinalizesPaid /\ LateRequests
  /\ LivePaymentHasClaim /\ NoDoublePayout /\ SuccessMeansPaid

(* Before the escrow is settled only Settle can happen.                     *)
LEMMA NothingBeforeStep ==
  ASSUME IInv, [Next]_vars
  PROVE  NothingBeforeSettle'
<1> SUFFICES ASSUME status' = "fiat-sent" PROVE NothingBeforeSettle'
  BY DEF NothingBeforeSettle
<1>1. CASE UNCHANGED vars
  BY <1>1 DEF vars, row, actors, IInv, NothingBeforeSettle
<1>2. CASE Next
  <2>1. status = "fiat-sent"
    BY Zenon, <1>2
    DEF Next, Settle, RetryTick, ResolveFails, ConnectFails, Claim,
        pay_new_invoice, TouchLost, Heartbeat, Dispatch, TaskGivesUp,
        classify_dispatch, LndRegister, LndRejectsDuplicate, RequestLost,
        LndSettles, LndFails, ReconcilePick, reconcile_inflight_payout, ReadPre,
        Rearm, Book, payment_success, Clear, ActorErrs, Crash, Tick, row
  <2>2. Settle \/ Crash \/ Tick
    BY Zenon, <1>2, <2>1
    DEF Next, RetryTick, ResolveFails, ConnectFails, Claim,
        pay_new_invoice, TouchLost, Heartbeat, Dispatch, TaskGivesUp,
        classify_dispatch, LndSettles, LndFails, ReconcilePick,
        reconcile_inflight_payout, ReadPre, Rearm, Book, payment_success, Clear,
        ActorErrs, IInv, NothingBeforeSettle, find_failed_payment,
        find_inflight_payouts, Actors
  <2> QED
    BY <2>1, <2>2
    DEF Settle, Crash, Tick, row, actors, IInv, NothingBeforeSettle
<1> QED
  BY <1>1, <1>2

(* An actor that stops, or is left with its bookkeeping only, disturbs      *)
(* nothing.                                                                 *)
LEMMA QuietStep ==
  ASSUME IInv, UNCHANGED <<status, payout, wire, lnd, now>>,
         \A a \in Actors : \/ pc'[a] = pc[a] /\ claim'[a] = claim[a]
                           \/ pc'[a] \in {"idle", "book"}
  PROVE  Safe'
<1> USE DEF IInv, Actors, Holds, Settled, Stale, Live
<1>1. OneHolder' BY DEF OneHolder
<1>2. OneRequest' BY DEF OneRequest
<1>3. OthersAreStale' BY DEF OthersAreStale
<1>4. ReconcilesStale' BY DEF ReconcilesStale
<1>5. RearmsDead' BY DEF RearmsDead
<1>6. FinalizesPaid' BY DEF FinalizesPaid
<1>7. LateRequests' BY DEF LateRequests
<1>8. LivePaymentHasClaim' BY DEF LivePaymentHasClaim
<1>9. NoDoublePayout' BY DEF NoDoublePayout
<1>10. SuccessMeansPaid' BY DEF SuccessMeansPaid
<1> QED BY <1>1, <1>2, <1>3, <1>4, <1>5, <1>6, <1>7, <1>8, <1>9, <1>10 DEF Safe

(* The claim: every older token is stale, so none equals the new one.       *)
LEMMA ClaimStep ==
  ASSUME IInv, NEW c \in Callers, Claim(c)
  PROVE  Safe'
<1> USE ConstAssumption, TimingAssumption
    DEF IInv, Actors, Holds, Settled, Stale, Live
<1>1. PICK h \in Hashes, t \in Tasks :
        /\ pc[t] = "idle" /\ payout = NoClaim /\ status = "settled-hold-invoice"
        /\ payout' = [hash |-> h, at |-> now]
        /\ pc' = [pc EXCEPT ![t] = "queued"]
        /\ claim' = [claim EXCEPT ![t] = payout']
  BY Zenon DEF Claim, claim_order_payout
<1>2. UNCHANGED <<status, wire, lnd, now>>
  BY DEF Claim
<1>3. \A a \in Tasks : Holds(a) => claim[a] # payout'
  BY <1>1 DEF OthersAreStale, TypeOK, ActorSteps, Claims
<1>4. \A r \in wire : r.claim # payout'
  BY <1>1 DEF OthersAreStale, TypeOK, Requests, Claims
<1>5. \A a \in Tasks : (Holds(a))' <=> Holds(a) \/ a = t
  BY <1>1 DEF TypeOK
<1>6. \A a \in Actors : a # t => pc'[a] = pc[a] /\ claim'[a] = claim[a]
  BY <1>1 DEF TypeOK
<1>7. pc'[t] = "queued" /\ claim'[t] = payout'
  BY <1>1 DEF TypeOK
<1>8. OneHolder' BY <1>1, <1>2, <1>3, <1>5, <1>6, <1>7 DEF OneHolder
<1>9. OneRequest' BY <1>1, <1>2, <1>4 DEF OneRequest
<1>10. OthersAreStale' BY <1>1, <1>2, <1>5, <1>6, <1>7 DEF OthersAreStale, TypeOK, ActorSteps,
     Requests
<1>11. ReconcilesStale' BY <1>1, <1>2, <1>6 DEF ReconcilesStale
<1>12. RearmsDead'
  BY <1>1, <1>2, <1>3, <1>6, <1>7 DEF RearmsDead, ReconcilesStale, ActorSteps, Claims
<1>13. FinalizesPaid' BY <1>1, <1>2, <1>6, <1>7 DEF FinalizesPaid
<1>14. LateRequests' BY <1>1, <1>2 DEF LateRequests
<1>15. LivePaymentHasClaim' BY <1>1, <1>2 DEF LivePaymentHasClaim
<1>16. NoDoublePayout' BY <1>2 DEF NoDoublePayout
<1>17. SuccessMeansPaid' BY <1>2 DEF SuccessMeansPaid
<1> QED BY <1>8, <1>9, <1>10, <1>11, <1>12, <1>13, <1>14, <1>15, <1>16, <1>17 DEF Safe

(* Re-stamping the claim, and the dispatch that follows the last stamp: no  *)
(* other task and no request can carry the new token.                       *)
LEMMA TouchStep ==
  ASSUME IInv, NEW t \in Tasks, Heartbeat(t) \/ Dispatch(t)
  PROVE  Safe'
<1> USE ConstAssumption, TimingAssumption
    DEF IInv, Actors, Holds, Settled, Stale, Live
<1>1. /\ pc[t] = "queued" /\ payout = claim[t] /\ payout \in Claims
      /\ status = "settled-hold-invoice"
      /\ payout' = [hash |-> payout.hash, at |-> now]
      /\ claim' = [claim EXCEPT ![t] = payout']
      /\ UNCHANGED <<status, lnd, now>>
  BY DEF Heartbeat, Dispatch, touch_order_payout_claim, ActorSteps
<1>2. \/ UNCHANGED <<pc, wire>>
      \/ /\ pc' = [pc EXCEPT ![t] = "sending"]
         /\ wire' = wire \cup {[task |-> t, claim |-> payout']}
  BY <1>1 DEF Heartbeat, Dispatch, touch_order_payout_claim, TypeOK
<1>3. /\ pc'[t] \in {"queued", "sending"} /\ claim'[t] = payout'
      /\ \A a \in Actors : a # t => pc'[a] = pc[a] /\ claim'[a] = claim[a]
  BY <1>1, <1>2 DEF TypeOK
<1>4. \A a \in Tasks : Holds(a) /\ a # t => claim[a] # payout /\ claim[a] # payout'
  BY <1>1 DEF OneHolder, OthersAreStale, TypeOK, ActorSteps, Claims
<1>5. \A r \in wire : r.claim # payout /\ r.claim # payout'
  BY <1>1 DEF OneRequest, OthersAreStale, TypeOK, Requests, Claims
<1>6. OneHolder' BY <1>1, <1>3, <1>4 DEF OneHolder
<1>7. OneRequest'
  BY <1>1, <1>2, <1>3, <1>4, <1>5 DEF OneRequest, TypeOK
<1>8. OthersAreStale' BY <1>1, <1>2, <1>3, <1>4, <1>5 DEF OthersAreStale
<1>9. ReconcilesStale' BY <1>1, <1>3 DEF ReconcilesStale
<1>10. RearmsDead'
  BY <1>1, <1>3, <1>4 DEF RearmsDead, ReconcilesStale, ActorSteps, Claims
<1>11. FinalizesPaid' BY <1>1, <1>3 DEF FinalizesPaid
<1>12. LateRequests' BY <1>1 DEF LateRequests
<1>13. LivePaymentHasClaim'
  BY <1>1 DEF LivePaymentHasClaim, TypeOK, Claims
<1>14. NoDoublePayout' BY <1>1 DEF NoDoublePayout
<1>15. SuccessMeansPaid' BY <1>1 DEF SuccessMeansPaid
<1> QED BY <1>6, <1>7, <1>8, <1>9, <1>10, <1>11, <1>12, <1>13, <1>14, <1>15 DEF Safe

(* A request LND registers carries the current claim, and nothing is being  *)
(* paid at that time: this is the step a double payout would take.          *)
LEMMA RegisterIsClaimed ==
  ASSUME IInv, NEW r \in wire, LndRegister(r)
  PROVE  /\ Settled /\ r.claim = payout /\ ~Stale(r.claim)
         /\ \A h \in Hashes : ~Live(h)
<1> USE TimingAssumption DEF IInv, Stale
<1>1. r.claim \in Claims BY DEF TypeOK, Requests
<1>2. ~Stale(r.claim)
  BY <1>1 DEF LndRegister, TypeOK, Claims
<1>3. Settled
  BY <1>2 DEF LndRegister, Live, LateRequests, NothingBeforeSettle, TypeOK, Settled
<1>4. r.claim = payout
  BY <1>2, <1>3 DEF OthersAreStale
<1> QED
  BY <1>1, <1>2, <1>3, <1>4 DEF LndRegister, LivePaymentHasClaim, Settled

(* LND registering a payment keeps the inductive invariant.                *)
LEMMA RegisterStep ==
  ASSUME IInv, NEW r \in wire, LndRegister(r)
  PROVE  Safe'
<1> USE ConstAssumption DEF IInv, Actors, Holds, Settled, Stale, Live
<1>1. /\ Settled /\ r.claim = payout /\ ~Stale(r.claim)
      /\ \A h \in Hashes : ~Live(h)
  BY RegisterIsClaimed
<1>2. /\ lnd' = [lnd EXCEPT ![r.claim.hash] = "in_flight"]
      /\ wire' = wire \ {r}
      /\ UNCHANGED <<status, payout, claim, now>>
  BY DEF LndRegister, row, clock, Answer, Goto, actors
<1>3. \A a \in Actors :
        pc'[a] = pc[a] \/ (pc[a] = "sending" /\ pc'[a] \in {"streaming", "errored"})
  BY DEF LndRegister, Answer, Sender, Goto, actors, TypeOK
<1>4. OneHolder' BY <1>1, <1>2, <1>3 DEF OneHolder
<1>5. OneRequest' BY <1>1, <1>2 DEF OneRequest
<1>6. OthersAreStale' BY <1>1, <1>2, <1>3 DEF OthersAreStale
<1>7. ReconcilesStale' BY <1>1, <1>2, <1>3 DEF ReconcilesStale
<1>8. RearmsDead'
  BY <1>1, <1>2, <1>3 DEF RearmsDead, OneRequest, ReconcilesStale, ActorSteps
<1>9. FinalizesPaid'
  BY <1>1, <1>2, <1>3 DEF FinalizesPaid, TypeOK, ActorSteps, Claims
<1>10. LateRequests' BY <1>1, <1>2 DEF LateRequests
<1>11. LivePaymentHasClaim'
  BY <1>1, <1>2 DEF LivePaymentHasClaim, TypeOK, Requests, Claims
<1>12. NoDoublePayout' BY <1>1, <1>2 DEF NoDoublePayout, TypeOK
<1>13. SuccessMeansPaid' BY <1>1, <1>2 DEF SuccessMeansPaid
<1> QED BY <1>4, <1>5, <1>6, <1>7, <1>8, <1>9, <1>10, <1>11, <1>12, <1>13 DEF Safe

(* A request that is refused or lost leaves the wire; its sender, if still  *)
(* there, looks the payment up.                                             *)
LEMMA AnswerStep ==
  ASSUME IInv, NEW r \in wire, LndRejectsDuplicate(r) \/ RequestLost(r)
  PROVE  Safe'
<1> USE ConstAssumption DEF IInv, Actors, Holds, Settled, Stale, Live
<1>1. /\ wire' = wire \ {r}
      /\ UNCHANGED <<status, payout, claim, now, lnd>>
  BY DEF LndRejectsDuplicate, RequestLost, row, clock, Answer, Goto, actors
<1>2. \A a \in Actors :
        \/ pc'[a] = pc[a]
        \/ /\ pc[a] = "sending" /\ pc'[a] = "errored"
           /\ claim[a] = r.claim
  BY DEF LndRejectsDuplicate, RequestLost, Answer, Sender, Goto, actors, TypeOK
<1>3. OneHolder' BY <1>1, <1>2 DEF OneHolder
<1>4. OneRequest'
  <2> SUFFICES ASSUME Settled', NEW q \in wire', q.claim = payout'
               PROVE  /\ \A t \in Tasks : Holds(t)' /\ claim'[t] = payout' =>
                                            pc'[t] = "sending" /\ q.task = t
                      /\ \A p \in wire' : p.claim = payout' => p = q
    BY DEF OneRequest
  <2>1. Settled /\ q \in wire /\ q # r /\ q.claim = payout
    BY <1>1
  <2>2. r.claim # payout
    BY <2>1 DEF OneRequest
  <2>3. \A t \in Tasks : claim[t] = payout => pc'[t] = pc[t]
    BY <1>2, <2>2
  <2> QED
    BY <1>1, <2>1, <2>3 DEF OneRequest
<1>5. OthersAreStale' BY <1>1, <1>2 DEF OthersAreStale
<1>6. ReconcilesStale' BY <1>1, <1>2 DEF ReconcilesStale
<1>7. RearmsDead' BY <1>1, <1>2 DEF RearmsDead
<1>8. FinalizesPaid' BY <1>1, <1>2 DEF FinalizesPaid
<1>9. LateRequests' BY <1>1 DEF LateRequests
<1>10. LivePaymentHasClaim' BY <1>1 DEF LivePaymentHasClaim
<1>11. NoDoublePayout' BY <1>1 DEF NoDoublePayout
<1>12. SuccessMeansPaid' BY <1>1 DEF SuccessMeansPaid
<1> QED BY <1>3, <1>4, <1>5, <1>6, <1>7, <1>8, <1>9, <1>10, <1>11, <1>12 DEF Safe

(* The end of a payment.                                                    *)
LEMMA OutcomeStep ==
  ASSUME IInv, NEW h \in Hashes, LndSettles(h) \/ LndFails(h)
  PROVE  Safe'
<1> USE ConstAssumption DEF IInv, Actors, Holds, Settled, Stale, Live
<1>1. UNCHANGED <<status, payout, claim, now, wire>>
  BY DEF LndSettles, LndFails, row, clock
<1>2. /\ lnd[h] = "in_flight" /\ lnd'[h] \in {"succeeded", "failed"}
      /\ \A g \in Hashes : g # h => lnd'[g] = lnd[g]
  BY DEF LndSettles, LndFails, TypeOK
<1>3. \A a \in Actors :
        \/ pc'[a] = pc[a]
        \/ /\ pc[a] = "streaming" /\ claim[a].hash = h
           /\ pc'[a] = IF lnd'[h] = "succeeded" THEN "finalize" ELSE "rearm"
  BY <1>2 DEF LndSettles, LndFails, Deliver, TypeOK
<1>4. OneHolder' BY <1>1, <1>3 DEF OneHolder
<1>5. OneRequest' BY <1>1, <1>3 DEF OneRequest
<1>6. OthersAreStale' BY <1>1, <1>3 DEF OthersAreStale
<1>7. ReconcilesStale' BY <1>1, <1>3 DEF ReconcilesStale, ActorSteps
<1>8. RearmsDead'
  BY <1>1, <1>2, <1>3 DEF RearmsDead, TypeOK, ActorSteps, Claims, PayStates
<1>9. FinalizesPaid'
  BY <1>1, <1>2, <1>3 DEF FinalizesPaid, ActorSteps, Claims
<1>10. LateRequests' BY Zenon, <1>1, <1>2 DEF LateRequests, TypeOK, Requests, Claims
<1>11. LivePaymentHasClaim' BY Zenon, <1>1, <1>2 DEF LivePaymentHasClaim
<1>12. NoDoublePayout' BY Zenon, <1>2 DEF NoDoublePayout
<1>13. SuccessMeansPaid' BY Zenon, <1>1, <1>2 DEF SuccessMeansPaid
<1> QED BY <1>4, <1>5, <1>6, <1>7, <1>8, <1>9, <1>10, <1>11, <1>12, <1>13 DEF Safe

(* Steps in which one actor learns an outcome and moves on.                 *)
LEMMA LearnStep ==
  ASSUME IInv, NEW a \in Actors, UNCHANGED <<status, payout, wire, lnd, now>>,
         \A b \in Actors : b # a => pc'[b] = pc[b] /\ claim'[b] = claim[b],
         \/ /\ a = Reconciler /\ pc'[a] = "lookup"
            /\ claim'[a] \in Claims /\ Stale(claim'[a])
         \/ /\ claim'[a] = claim[a] /\ pc'[a] = "finalize"
            /\ lnd[claim[a].hash] = "succeeded"
         \/ /\ claim'[a] = claim[a] /\ pc[a] \in {"errored", "lookup", "pre"}
            /\ pc'[a] \in {"pre", "rearm"}
            /\ pc[a] = "errored" => a # Reconciler /\ pc'[a] = "rearm"
            /\ pc[a] # "errored" => a = Reconciler
            /\ pc[a] = "pre" \/ ~Live(claim[a].hash)
  PROVE  Safe'
<1> USE ConstAssumption DEF IInv, Actors, Holds, Settled, Stale, Live
<1>1. OneHolder' BY DEF OneHolder
<1>2. OneRequest' BY DEF OneRequest
<1>3. OthersAreStale' BY DEF OthersAreStale
<1>4. ReconcilesStale' BY DEF ReconcilesStale
<1>5. RearmsDead' BY DEF RearmsDead
<1>6. FinalizesPaid' BY DEF FinalizesPaid
<1>7. LateRequests' BY DEF LateRequests
<1>8. LivePaymentHasClaim' BY DEF LivePaymentHasClaim
<1>9. NoDoublePayout' BY DEF NoDoublePayout
<1>10. SuccessMeansPaid' BY Zenon DEF SuccessMeansPaid
<1> QED BY <1>1, <1>2, <1>3, <1>4, <1>5, <1>6, <1>7, <1>8, <1>9, <1>10 DEF Safe

(* Releasing the current claim after a failure: its payment is dead, and    *)
(* whoever else knows the token learned it a grace window ago.              *)
LEMMA RearmStep ==
  ASSUME IInv, NEW a \in Actors, Rearm(a), payout = claim[a]
  PROVE  Safe'
<1> USE ConstAssumption DEF IInv, Actors, Holds, Settled, Stale, Live
<1>1. /\ pc[a] = "rearm" /\ payout \in Claims
      /\ payout' = NoClaim
      /\ pc' = [pc EXCEPT ![a] = "book"]
      /\ UNCHANGED <<status, wire, lnd, now, claim>>
  BY DEF Rearm, fail_order_payout, Goto, clock, ActorSteps
<1>2. \A b \in Actors : b # a => pc'[b] = pc[b]
  BY <1>1 DEF TypeOK
<1>3. pc'[a] = "book" BY <1>1 DEF TypeOK
<1>4. \A b \in Actors : pc[b] # "idle" => claim[b] # NoClaim
  BY DEF ActorSteps
<1>5. OneHolder' BY <1>1, <1>2, <1>3, <1>4 DEF OneHolder
<1>6. OneRequest' BY <1>1 DEF OneRequest, TypeOK, Requests
<1>7. OthersAreStale'
  BY <1>1, <1>2, <1>3 DEF OthersAreStale, OneHolder, OneRequest, ReconcilesStale
<1>8. ReconcilesStale' BY <1>1, <1>2, <1>3 DEF ReconcilesStale
<1>9. RearmsDead' BY <1>1, <1>2, <1>3, <1>4 DEF RearmsDead
<1>10. FinalizesPaid' BY <1>1, <1>2, <1>3 DEF FinalizesPaid
<1>11. LateRequests' BY <1>1 DEF LateRequests
<1>12. LivePaymentHasClaim' BY <1>1 DEF LivePaymentHasClaim, RearmsDead
<1>13. NoDoublePayout' BY <1>1 DEF NoDoublePayout
<1>14. SuccessMeansPaid' BY <1>1 DEF SuccessMeansPaid
<1> QED BY Zenon, <1>5, <1>6, <1>7, <1>8, <1>9, <1>10, <1>11, <1>12, <1>13, <1>14 DEF Safe

(* The order closes on a payment LND settled; any request still young is    *)
(* for that same payment.                                                   *)
LEMMA SuccessStep ==
  ASSUME IInv, NEW a \in Actors, payment_success(a) \/ Clear(a)
  PROVE  Safe'
<1> USE ConstAssumption DEF IInv, Actors, Holds, Settled, Stale, Live
<1>1. /\ pc[a] \in {"finalize", "clear"} /\ status' = "success"
      /\ claim[a] \in Claims
      /\ UNCHANGED <<wire, lnd, now>>
  BY DEF payment_success, Clear, clock, NothingBeforeSettle, TypeOK, ActorSteps,
         FinalizesPaid
<1>2. \A b \in Actors :
        \/ pc'[b] = pc[b] /\ claim'[b] = claim[b]
        \/ pc'[b] \in {"idle", "clear"}
  BY DEF payment_success, Clear, Goto, Stop, TypeOK
<1>3. status = "success" \/ lnd[claim[a].hash] = "succeeded"
  BY Zenon, <1>1 DEF FinalizesPaid
<1>4. status = "success" \/ status = "settled-hold-invoice"
  BY <1>1 DEF NothingBeforeSettle, TypeOK
<1>5. LateRequests'
  <2> SUFFICES ASSUME NEW r \in wire
               PROVE lnd[r.claim.hash] = "succeeded" \/ Stale(r.claim)
    BY <1>1 DEF LateRequests
  <2>1. CASE status = "success" BY <2>1 DEF LateRequests
  <2>2. CASE status = "settled-hold-invoice"
    <3>1. lnd[claim[a].hash] = "succeeded" /\ payout.hash = claim[a].hash
      BY <1>1, <1>3, <2>2 DEF LivePaymentHasClaim, Claims
    <3> QED BY <2>2, <3>1 DEF OthersAreStale
  <2> QED BY <1>4, <2>1, <2>2
<1>6. SuccessMeansPaid' BY Zenon, <1>1, <1>3 DEF SuccessMeansPaid, Claims
<1>7. OneHolder' /\ OneRequest' /\ OthersAreStale' /\ RearmsDead' /\ LivePaymentHasClaim'
  BY Zenon, <1>1 DEF OneHolder, OneRequest, OthersAreStale, RearmsDead, LivePaymentHasClaim
<1>8. ReconcilesStale' BY Zenon, <1>1, <1>2 DEF ReconcilesStale
<1>9. FinalizesPaid' BY <1>1, <1>2 DEF FinalizesPaid
<1>10. NoDoublePayout' BY <1>1 DEF NoDoublePayout
<1> QED BY <1>5, <1>6, <1>7, <1>8, <1>9, <1>10 DEF Safe

(* Time passes: stale tokens stay stale.                                    *)
LEMMA TickStep ==
  ASSUME IInv, Tick
  PROVE  Safe'
<1> USE TimingAssumption DEF IInv, Actors, Holds, Settled, Live
<1>1. now' = now + 1 /\ UNCHANGED <<status, payout, pc, claim, wire, lnd>>
  BY DEF Tick, row, actors
<1>2. \A c \in Claims : Stale(c) => Stale(c)'
  BY <1>1 DEF Stale, Claims, TypeOK
<1>3. OneHolder' /\ OneRequest' BY <1>1 DEF OneHolder, OneRequest
<1>4. OthersAreStale'
  BY Zenon, <1>1, <1>2 DEF OthersAreStale, ActorSteps, TypeOK, Requests
<1>5. ReconcilesStale' BY Zenon, <1>1, <1>2 DEF ReconcilesStale, ActorSteps
<1>6. LateRequests' BY <1>1, <1>2 DEF LateRequests, TypeOK, Requests
<1>7. RearmsDead' /\ FinalizesPaid' BY <1>1 DEF RearmsDead, FinalizesPaid
<1>8. LivePaymentHasClaim' /\ NoDoublePayout' /\ SuccessMeansPaid'
  BY <1>1 DEF LivePaymentHasClaim, NoDoublePayout, SuccessMeansPaid
<1> QED BY <1>3, <1>4, <1>5, <1>6, <1>7, <1>8 DEF Safe

(* Settling the escrow starts from a clean slate.                           *)
LEMMA SettleStep ==
  ASSUME IInv, Settle
  PROVE  Safe'
<1> USE ConstAssumption DEF IInv, Actors, Holds, Settled, Live
<1>1. /\ status = "fiat-sent" /\ status' = "settled-hold-invoice"
      /\ UNCHANGED <<payout, pc, claim, wire, lnd, now>>
  BY DEF Settle, actors, clock
<1>2. /\ wire = {} /\ \A h \in Hashes : lnd[h] = "none"
      /\ \A a \in Actors : pc[a] = "idle"
  BY <1>1 DEF NothingBeforeSettle
<1>3. OneHolder' /\ OneRequest' /\ OthersAreStale' /\ RearmsDead' /\ LateRequests'
  BY <1>1, <1>2 DEF OneHolder, OneRequest, OthersAreStale, RearmsDead, LateRequests
<1>4. ReconcilesStale' /\ FinalizesPaid'
  BY <1>1, <1>2 DEF ReconcilesStale, FinalizesPaid
<1>5. LivePaymentHasClaim' /\ NoDoublePayout' /\ SuccessMeansPaid'
  BY <1>1, <1>2 DEF LivePaymentHasClaim, NoDoublePayout, SuccessMeansPaid
<1> QED BY <1>3, <1>4, <1>5 DEF Safe

-----------------------------------------------------------------------------
(* The inductive step, one case per action of Payout.                       *)
LEMMA NextIInv == IInv /\ [Next]_vars => IInv'
<1> SUFFICES ASSUME IInv, [Next]_vars PROVE IInv'
  OBVIOUS
<1>1. TypeOK' /\ ActorSteps'
  BY TypeStep DEF IInv
<1>2. NothingBeforeSettle'
  BY NothingBeforeStep
<1>3. Safe'
  <2> DEFINE Quiet == /\ UNCHANGED <<status, payout, wire, lnd, now>>
                      /\ \A a \in Actors : \/ pc'[a] = pc[a] /\ claim'[a] = claim[a]
                                           \/ pc'[a] \in {"idle", "book"}
  <2> USE DEF Goto, Stop, row, actors, clock
  <2>0. Quiet => Safe' BY QuietStep
  <2>T. pc \in [Actors -> PcStates] /\ claim \in [Actors -> Claims \cup {NoClaim}]
    BY DEF IInv, TypeOK
  <2>1. CASE Settle BY <2>1, SettleStep
  <2>2. CASE RetryTick BY Zenon, <2>0, <2>2 DEF RetryTick
  <2>3. ASSUME NEW c \in Callers, ResolveFails(c) \/ ConnectFails(c)
        PROVE  Safe'
    BY <2>0, <2>3 DEF ResolveFails, ConnectFails
  <2>4. ASSUME NEW c \in Callers, Claim(c) PROVE Safe'
    BY Zenon, <2>4, ClaimStep
  <2>5. ASSUME NEW i \in Invoices, pay_new_invoice(i) PROVE Safe'
    BY Zenon, <2>0, <2>5 DEF pay_new_invoice
  <2>6. ASSUME NEW t \in Tasks, TouchLost(t) \/ TaskGivesUp(t) PROVE Safe'
    <3>1. Quiet BY <2>6, <2>T DEF TouchLost, TaskGivesUp, Actors
    <3> QED BY <2>0, <3>1
  <2>7. ASSUME NEW t \in Tasks, Heartbeat(t) \/ Dispatch(t) PROVE Safe'
    BY <2>7, TouchStep
  <2>8. ASSUME NEW t \in Tasks, classify_dispatch(t) PROVE Safe'
    <3>1. UNCHANGED <<status, payout, wire, lnd, now>> /\ pc[t] = "errored"
      BY <2>8 DEF classify_dispatch
    <3>2. CASE Stop(t)
      <4>1. Quiet BY <2>T, <3>1, <3>2 DEF Actors
      <4> QED BY <2>0, <4>1
    <3>3. CASE Goto(t, "rearm") /\ ~Live(claim[t].hash)
      BY <2>T, <3>1, <3>3, LearnStep, ConstAssumption DEF Actors
    <3> QED BY <2>8, <3>2, <3>3 DEF classify_dispatch
  <2>9. ASSUME NEW r \in wire, LndRegister(r) PROVE Safe'
    BY <2>9, RegisterStep
  <2>10. ASSUME NEW r \in wire, LndRejectsDuplicate(r) \/ RequestLost(r) PROVE Safe'
    BY <2>10, AnswerStep
  <2>11. ASSUME NEW h \in Hashes, LndSettles(h) \/ LndFails(h) PROVE Safe'
    BY Zenon, <2>11, OutcomeStep
  <2>12. CASE ReconcilePick
    <3>1. payout \in Claims /\ payout.at <= now - Grace
      BY <2>12 DEF ReconcilePick, find_inflight_payouts, IInv, TypeOK
    <3>2. Stale(payout)
      BY <3>1, TimingAssumption DEF Stale, Claims, IInv, TypeOK
    <3>3. /\ UNCHANGED <<status, payout, wire, lnd, now>>
          /\ pc'[Reconciler] = "lookup" /\ claim'[Reconciler] = payout
          /\ \A b \in Actors : b # Reconciler => pc'[b] = pc[b] /\ claim'[b] = claim[b]
      BY Zenon, <2>12, <2>T DEF ReconcilePick, Actors
    <3> QED BY Zenon, <3>1, <3>2, <3>3, LearnStep DEF Actors
  <2>13. CASE reconcile_inflight_payout
    <3>1. UNCHANGED <<status, payout, wire, lnd, now>> /\ pc[Reconciler] = "lookup"
      BY Zenon, <2>13 DEF reconcile_inflight_payout
    <3>2. CASE Stop(Reconciler)
      <4>1. Quiet BY Zenon, <2>T, <3>1, <3>2 DEF Actors
      <4> QED BY <2>0, <4>1
    <3>3. CASE Goto(Reconciler, "finalize") /\ lnd[claim[Reconciler].hash] = "succeeded"
      BY Zenon, <2>T, <3>1, <3>3, LearnStep DEF Actors
    <3>4. CASE Goto(Reconciler, "pre") /\ ~Live(claim[Reconciler].hash)
      BY Zenon, <2>T, <3>1, <3>4, LearnStep DEF Actors
    <3> QED BY Zenon, <2>13, <3>2, <3>3, <3>4 DEF reconcile_inflight_payout
  <2>14. CASE ReadPre
    BY <2>14, <2>T, LearnStep DEF ReadPre, Actors
  <2>15. ASSUME NEW a \in Actors, Rearm(a) PROVE Safe'
    <3>1. CASE payout = claim[a] BY <2>15, <3>1, RearmStep
    <3>2. CASE payout # claim[a]
      <4>1. Stop(a) /\ UNCHANGED <<status, payout, wire, lnd, now>>
        BY <2>15, <3>2 DEF Rearm, fail_order_payout
      <4>2. Quiet BY <2>T, <4>1
      <4> QED BY <2>0, <4>2
    <3> QED BY <3>1, <3>2
  <2>16. ASSUME NEW a \in Actors, Book(a) \/ ActorErrs(a) PROVE Safe'
    <3>1. Stop(a) /\ UNCHANGED <<status, payout, wire, lnd, now>>
      BY <2>16 DEF Book, ActorErrs
    <3>2. Quiet BY <2>T, <3>1
    <3> QED BY <2>0, <3>2
  <2>17. ASSUME NEW a \in Actors, payment_success(a) \/ Clear(a) PROVE Safe'
    BY <2>17, SuccessStep
  <2>18. CASE Crash
    <3>1. Quiet BY <2>18 DEF Crash
    <3> QED BY <2>0, <3>1
  <2>19. CASE Tick BY <2>19, TickStep
  <2>20. CASE UNCHANGED vars
    <3>1. Quiet BY <2>20 DEF vars
    <3> QED BY <2>0, <3>1
  <2> QED
    BY <2>1, <2>2, <2>3, <2>4, <2>5, <2>6, <2>7, <2>8, <2>9, <2>10, <2>11, <2>12,
       <2>13, <2>14, <2>15, <2>16, <2>17, <2>18, <2>19, <2>20 DEF Next
<1> QED BY <1>1, <1>2, <1>3 DEF IInv, Safe

(* IInv holds in every reachable state of the payout, for any number of     *)
(* tasks, invoices, faults and swaps.                                       *)
THEOREM Invariance == Spec => []IInv
  BY InitIInv, NextIInv, PTL DEF Spec

(* The variables of Payout keep their types.                                *)
THEOREM TypeCorrect == Spec => []TypeOK
<1>1. IInv => TypeOK BY DEF IInv
<1> QED BY Invariance, <1>1, PTL

(* No escrow is ever paid out twice: LND is never paying, or has paid, two  *)
(* invoices for one order.                                                  *)
THEOREM NeverPaidTwice == Spec => []NoDoublePayout
<1>1. IInv => NoDoublePayout BY DEF IInv
<1> QED BY Invariance, <1>1, PTL

(* A payment LND may still complete is the claimed one while the order is   *)
(* settled.                                                                 *)
THEOREM LiveIsClaimed == Spec => []LivePaymentHasClaim
<1>1. IInv => LivePaymentHasClaim BY DEF IInv
<1> QED BY Invariance, <1>1, PTL

(* An order closes as success only after LND has paid the buyer.            *)
THEOREM SuccessIsPaid == Spec => []SuccessMeansPaid
<1>1. IInv => SuccessMeansPaid BY DEF IInv
<1> QED BY Invariance, <1>1, PTL

-----------------------------------------------------------------------------
(* Only five actions change the order's status or LND's payments.           *)
LEMMA OtherSteps ==
  ASSUME [Next]_vars
  PROVE  \/ Settle
         \/ \E r \in wire : LndRegister(r)
         \/ \E h \in Hashes : LndSettles(h) \/ LndFails(h)
         \/ \E a \in Actors : payment_success(a)
         \/ UNCHANGED <<status, lnd>>
  BY Zenon
  DEF Next, vars, RetryTick, ResolveFails, ConnectFails, Claim,
      pay_new_invoice, TouchLost, Heartbeat, Dispatch, TaskGivesUp,
      classify_dispatch, LndRejectsDuplicate, RequestLost, ReconcilePick,
      reconcile_inflight_payout, ReadPre, Rearm, Book, Clear, ActorErrs, Crash,
      Tick, row

(* Every step of the payout is a step of PayOnce or leaves it unchanged.    *)
LEMMA RefineStep ==
  ASSUME IInv, [Next]_vars
  PROVE  [Promise!Next]_(Promise!promise)
<1> DEFINE paying == {h \in Hashes : lnd[h] = "in_flight"}
           paid == {h \in Hashes : lnd[h] = "succeeded"}
<1> USE DEF Promise!Next, Promise!promise
<1>1. CASE Settle
  <2>1. Promise!SettleEscrow BY <1>1 DEF Settle, Promise!SettleEscrow
  <2> QED BY <2>1
<1>2. ASSUME NEW r \in wire, LndRegister(r) PROVE Promise!Next
  <2>1. /\ Settled /\ \A h \in Hashes : ~Live(h)
    BY <1>2, RegisterIsClaimed
  <2>2. r.claim.hash \in Hashes BY DEF IInv, TypeOK, Requests, Claims
  <2>3. /\ lnd' = [lnd EXCEPT ![r.claim.hash] = "in_flight"] /\ status' = status
    BY <1>2 DEF LndRegister, row
  <2>4. paying = {} /\ paid = {} BY <2>1 DEF Live
  <2>5. paying' = {r.claim.hash} /\ paid' = {}
    BY <2>1, <2>2, <2>3 DEF Live, IInv, TypeOK
  <2>6. Promise!Pay(r.claim.hash)
    BY <2>1, <2>3, <2>4, <2>5 DEF Promise!Pay, Settled
  <2> QED BY <2>2, <2>6
<1>3. ASSUME NEW h \in Hashes, LndSettles(h) PROVE Promise!Next
  <2>1. /\ lnd[h] = "in_flight" /\ lnd' = [lnd EXCEPT ![h] = "succeeded"]
        /\ status' = status
    BY <1>3 DEF LndSettles, row
  <2>2. \A g \in Hashes : g # h => ~Live(g)
    BY <2>1 DEF IInv, NoDoublePayout, Live
  <2>3. paying = {h} /\ paying' = {} /\ paid' = {h}
    BY <2>1, <2>2 DEF Live, IInv, TypeOK
  <2>4. Promise!PaymentSettles BY <2>1, <2>3 DEF Promise!PaymentSettles
  <2> QED BY <2>4
<1>4. ASSUME NEW h \in Hashes, LndFails(h) PROVE Promise!Next
  <2>1. /\ lnd[h] = "in_flight" /\ lnd' = [lnd EXCEPT ![h] = "failed"]
        /\ status' = status
    BY <1>4 DEF LndFails, row
  <2>2. \A g \in Hashes : g # h => ~Live(g)
    BY <2>1 DEF IInv, NoDoublePayout, Live
  <2>3. paying' = {} /\ paid' = paid
    BY <2>1, <2>2 DEF Live, IInv, TypeOK
  <2>4. Promise!PaymentFails BY <2>1, <2>3 DEF Promise!PaymentFails
  <2> QED BY <2>4
<1>5. ASSUME NEW a \in Actors, payment_success(a)
      PROVE  [Promise!Next]_(Promise!promise)
  <2>1. lnd' = lnd BY <1>5 DEF payment_success
  <2>2. CASE status = "settled-hold-invoice"
    <3>1. claim[a].hash \in Hashes /\ lnd[claim[a].hash] = "succeeded"
      BY <1>5 DEF payment_success, IInv, ActorSteps, FinalizesPaid, Claims
    <3>2. status' = "success" BY <1>5, <2>2 DEF payment_success
    <3>3. Promise!Close BY <2>1, <2>2, <3>1, <3>2 DEF Promise!Close
    <3> QED BY <3>3
  <2>3. CASE status # "settled-hold-invoice"
    BY <1>5, <2>1, <2>3 DEF payment_success
  <2> QED BY <2>2, <2>3
<1>6. CASE UNCHANGED <<status, lnd>> BY <1>6
<1> QED BY <1>1, <1>2, <1>3, <1>4, <1>5, <1>6, OtherSteps

(* The payout implements PayOnce: whatever the jobs, tasks and restarts do, *)
(* one invoice at a time is paid, none after one has gone through, and the  *)
(* order closes only then.                                                  *)
THEOREM Refinement == Spec => PaysOnce
<1>1. Init => Promise!Init
  BY DEF Init, Promise!Init
<1> QED BY <1>1, RefineStep, Invariance, PTL DEF Spec, PaysOnce, Promise!Spec

-----------------------------------------------------------------------------
(* Bookkeeping that spends the retry budget asks the buyer.                 *)
LEMMA BookingAsks ==
  ASSUME NEW s \in Snapshots, check_failure_retries(s), asked \in BOOLEAN
  PROVE  ExhaustedBuyerIsAsked'
<1> DEFINE n == count_failed_payment(s)
<1>1. payment_attempts' = n.attempts
  BY DEF check_failure_retries
<1>2. asked' = (asked \/ (s.attempts # 0 /\ n.attempts >= Retries))
  BY DEF check_failure_retries
<1>3. s.attempts = 0 => ~(n.attempts >= Retries)
  BY BudgetAssumption DEF Snapshots, count_failed_payment
<1> QED BY <1>1, <1>2, <1>3, Zenon DEF ExhaustedBuyerIsAsked

(* An order whose retry budget is spent always has a request for a new      *)
(* invoice out to its buyer.                                                *)
THEOREM ExhaustedIsAsked == Spec => []ExhaustedBuyerIsAsked
<1>1. Init => ExhaustedBuyerIsAsked
  BY BudgetAssumption DEF Init, ExhaustedBuyerIsAsked
<1>2. ASSUME IInv, ExhaustedBuyerIsAsked, [Next]_vars PROVE ExhaustedBuyerIsAsked'
  <2>1. ASSUME NEW c \in Callers, ResolveFails(c) PROVE ExhaustedBuyerIsAsked'
    <3>1. caller[c].snap \in Snapshots /\ asked \in BOOLEAN
      BY <1>2, <2>1 DEF ResolveFails, IInv, TypeOK
    <3>2. check_failure_retries(caller[c].snap) BY <2>1 DEF ResolveFails
    <3> QED BY <3>1, <3>2, BookingAsks
  <2>2. ASSUME NEW a \in Actors, Book(a) PROVE ExhaustedBuyerIsAsked'
    <3>1. snap[a] \in Snapshots /\ asked \in BOOLEAN
      BY <1>2 DEF IInv, TypeOK
    <3>2. check_failure_retries(snap[a]) BY <2>2 DEF Book
    <3> QED BY <3>1, <3>2, BookingAsks
  <2>3. ASSUME NEW i \in Invoices, pay_new_invoice(i) PROVE ExhaustedBuyerIsAsked'
    <3>1. payment_attempts' = 0 BY <2>3, Zenon DEF pay_new_invoice
    <3> QED BY <3>1, BudgetAssumption DEF ExhaustedBuyerIsAsked
  <2>4. CASE UNCHANGED <<payment_attempts, asked>>
    BY <1>2, <2>4 DEF ExhaustedBuyerIsAsked
  <2>5. \/ \E c \in Callers : ResolveFails(c)
        \/ \E a \in Actors : Book(a)
        \/ \E i \in Invoices : pay_new_invoice(i)
        \/ UNCHANGED <<payment_attempts, asked>>
    BY <1>2, Zenon
    DEF Next, vars, Settle, RetryTick, ConnectFails, Claim, TouchLost,
        Heartbeat, Dispatch, TaskGivesUp, classify_dispatch, LndRegister,
        LndRejectsDuplicate, RequestLost, LndSettles, LndFails, ReconcilePick,
        reconcile_inflight_payout, ReadPre, Rearm, payment_success, Clear,
        ActorErrs, Crash, Tick, row
  <2> QED BY <2>1, <2>2, <2>3, <2>4, <2>5
<1> QED BY <1>1, <1>2, Invariance, PTL DEF Spec
=============================================================================
