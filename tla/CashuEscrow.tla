---------------------------- MODULE CashuEscrow ----------------------------
(***************************************************************************)
(* The Cashu escrow: a take that asks the seller for a 2-of-3 token,       *)
(* src/src/util.rs (show_cashu_escrow_request), the seller's submission,   *)
(* src/src/app/add_cashu_escrow.rs, the validation of the token,           *)
(* src/src/cashu/mod.rs, and the expiry job, the one job that writes       *)
(* orders beside the main loop in this mode.  The orders share their trade *)
(* keys, as the protocol allows.                                           *)
(***************************************************************************)
EXTENDS Integers, FiniteSets

CONSTANTS
  Orders,
  None,
  Floor,      \* escrow_locktime_days
  FaultKinds, \* which of "crash", "publish" may happen
  MaxFaults   \* bound: how many of them

VARIABLES
  row,       \* order rows: status, whether the taker's key is set, escrow token
  late,      \* orders past expires_at
  job,       \* what the main loop is doing
  expirer,   \* orders the expiry job has read and not yet written
  informed,  \* orders whose buyer has been told to send fiat
  clobbered, \* history: orders the expiry job wrote after they had left pending
  faults

vars == <<row, late, job, expirer, informed, clobbered, faults>>

Keys == {"buyer", "seller", "mostro", "other"}
Amount == 2 \* of every order

(* The token.  Conditions hold for every proof of it; double_tags is a      *)
(* secret with a repeated standard tag, repeated a proof that occurs twice. *)

Genuine(id) ==
  [id |-> id, kind |-> "P2PK", double_tags |-> FALSE, sig_flag |-> "inputs",
   n_sigs |-> 2, signers |-> {"buyer", "seller", "mostro"}, locktime |-> Floor,
   refund |-> {"seller"}, n_sigs_refund |-> 0, mint |-> "ours", unit |-> "sat",
   repeated |-> FALSE, value |-> Amount, issued |-> TRUE, spent |-> FALSE]

(* What sellers may submit (the bound on tokens): two tokens of the agreed  *)
(* terms, and the first of them with one term changed at a time.            *)
KeySets == {Keys, {}, {"seller"}, {"buyer", "seller"}, {"other", "seller", "mostro"}}
Variants(t) ==
  {[t EXCEPT !.kind = "HTLC"], [t EXCEPT !.double_tags = TRUE], [t EXCEPT !.sig_flag = "all"],
   [t EXCEPT !.mint = "theirs"], [t EXCEPT !.unit = "msat"], [t EXCEPT !.repeated = TRUE],
   [t EXCEPT !.value = 2 * Amount], [t EXCEPT !.value = 2 * Amount, !.repeated = TRUE],
   [t EXCEPT !.issued = FALSE], [t EXCEPT !.spent = TRUE]}
  \cup {[t EXCEPT !.locktime = l] : l \in {0, Floor - 1, Floor + 1}}
  \cup {[t EXCEPT !.n_sigs = n] : n \in {1, 3}}
  \cup {[t EXCEPT !.n_sigs_refund = n] : n \in {1, 2}}
  \cup {[t EXCEPT !.signers = s] : s \in KeySets}
  \cup {[t EXCEPT !.refund = s] : s \in KeySets}
Tokens == {Genuine(1), Genuine(2)} \cup Variants(Genuine(1))

Fresh == [status |-> "pending", taken |-> FALSE, token |-> None]
Rows == [status : {"pending", "waiting-payment", "active", "expired"}, taken : BOOLEAN,
         token : Tokens \cup {None}]
Idle == [step |-> "idle", order |-> None, token |-> None, copy |-> Fresh]

(* The state has its shape.                                                 *)
TypeOK ==
  /\ row \in [Orders -> Rows]
  /\ late \in SUBSET Orders /\ expirer \in SUBSET late
  /\ job \in [step : {"idle", "claim", "write", "lock", "refetch", "persist", "notify"},
              order : Orders \cup {None}, token : Tokens \cup {None}, copy : Rows]
  /\ informed \in SUBSET Orders /\ clobbered \in SUBSET late
  /\ faults \in 0..MaxFaults

Init ==
  /\ row = [o \in Orders |-> Fresh]
  /\ late = {} /\ job = Idle /\ expirer = {} /\ informed = {} /\ clobbered = {}
  /\ faults = 0

At(step) == job.step = step
Goto(step) == job' = [job EXCEPT !.step = step]
Fault(kind) ==
  /\ kind \in FaultKinds
  /\ faults < MaxFaults
  /\ faults' = faults + 1

-----------------------------------------------------------------------------
\* mutant: the refund keys are not compared
AnyRefund(t) ==
  /\ ~t.double_tags /\ t.kind = "P2PK" /\ t.sig_flag = "inputs"
  /\ t.n_sigs = 2 /\ t.signers = {"buyer", "seller", "mostro"}
  /\ t.locktime # 0 /\ t.n_sigs_refund \in {0, 1}

verify_2of3_condition(t) ==
  /\ ~t.double_tags                                   \* reject_duplicate_standard_tags
  /\ t.kind = "P2PK"
  /\ t.sig_flag = "inputs"
  /\ t.n_sigs = 2
  /\ t.signers = {"buyer", "seller", "mostro"}
  /\ t.locktime # 0
  /\ t.refund = {"seller"}
  /\ t.n_sigs_refund \in {0, 1}                       \* absent means 1

verify_escrow_conditions(t) == verify_2of3_condition(t) /\ t.locktime >= Floor

reject_duplicate_proofs(t) == ~t.repeated
verify_token_dleq(t) == t.issued /\ t.unit = "sat"
check_state(t) == ~t.spent

verify_escrow_token(t) ==
  /\ verify_escrow_conditions(t)
  /\ t.mint = "ours"
  /\ reject_duplicate_proofs(t)
  /\ t.unit = "sat" /\ t.value = Amount
  /\ verify_token_dleq(t)
  /\ check_state(t)

(* NUT-11 (external): who can redeem a token on a day.  With repeated tags  *)
(* the mint may follow either one; SIG_ALL signatures fix outputs in        *)
(* advance.                                                                 *)
Spendable(t, signatures, day) ==
  \/ Cardinality(signatures \cap t.signers) >= t.n_sigs /\ t.sig_flag = "inputs"
  \/ /\ t.locktime # 0 /\ day > t.locktime
     /\ \/ t.refund = {}
        \/ Cardinality(signatures \cap t.refund) >= IF t.n_sigs_refund = 0 THEN 1 ELSE t.n_sigs_refund
  \/ t.double_tags \/ t.kind # "P2PK"

(* What the mint pays for it: a proof counts once.                          *)
Worth(t) ==
  CASE t.spent \/ ~t.issued \/ t.mint # "ours" \/ t.unit # "sat" -> 0
    [] t.repeated -> t.value \div 2
    [] OTHER -> t.value

-----------------------------------------------------------------------------
(* The take.                                                                *)

take_sell_action(o) ==
  /\ At("idle")
  /\ row[o].status = "pending" /\ o \notin late       \* is_order_take_window_closed
  /\ job' = [Idle EXCEPT !.step = "claim", !.order = o, !.copy = row[o]]
  /\ UNCHANGED <<row, late, expirer, informed, clobbered, faults>>

claim_order_status ==
  /\ At("claim")
  /\ IF row[job.order].status = "pending" /\ row[job.order].token = None
     THEN /\ row' = [row EXCEPT ![job.order].status = "waiting-payment"]
          /\ Goto("write")
     ELSE job' = Idle /\ UNCHANGED row
  /\ UNCHANGED <<late, expirer, informed, clobbered, faults>>

(* The whole row is written from the copy read before the claim.  A failed  *)
(* publish returns with the claim made.                                     *)
show_cashu_escrow_request ==
  /\ At("write")
  /\ \/ /\ row' = [row EXCEPT ![job.order] =
                     [job.copy EXCEPT !.status = "waiting-payment", !.taken = TRUE]]
        /\ UNCHANGED faults
     \/ Fault("publish") /\ UNCHANGED row
  /\ job' = Idle
  /\ UNCHANGED <<late, expirer, informed, clobbered>>

-----------------------------------------------------------------------------
(* The submission.                                                          *)

cashu_escrow_token_in_use(o, t) == \E other \in Orders \ {o} : row[other].token = t

\* mutant: an order that is no longer waiting is always refused
ReplayRefused(o, t) ==
  /\ At("idle")
  /\ row[o].taken /\ row[o].status = "waiting-payment"
  /\ ~cashu_escrow_token_in_use(o, t) /\ verify_escrow_token(t)
  /\ job' = [Idle EXCEPT !.step = "lock", !.order = o, !.token = t, !.copy = row[o]]
  /\ UNCHANGED <<row, late, expirer, informed, clobbered, faults>>

(* Steps 1 to 7.  The replay of a submission that was accepted only sends   *)
(* the notifications again; what does not pass is answered with a reason.   *)
add_cashu_escrow_action(o, t) ==
  /\ At("idle")
  /\ row[o].taken
  /\ \/ /\ row[o].status = "active" /\ row[o].token = t
        /\ informed' = informed \cup {o}
        /\ UNCHANGED job
     \/ /\ row[o].status = "waiting-payment"
        /\ ~cashu_escrow_token_in_use(o, t)
        /\ verify_escrow_token(t)
        /\ job' = [Idle EXCEPT !.step = "lock", !.order = o, !.token = t, !.copy = row[o]]
        /\ UNCHANGED informed
  /\ UNCHANGED <<row, late, expirer, clobbered, faults>>

(* A zero-row result is only answered (classify_zero_row_cas).              *)
update_order_cashu_escrow ==
  /\ At("lock")
  /\ IF /\ row[job.order].status = "waiting-payment" /\ row[job.order].token = None
        /\ ~cashu_escrow_token_in_use(job.order, job.token)
     THEN /\ row' = [row EXCEPT ![job.order].status = "active", ![job.order].token = job.token]
          /\ Goto("refetch")
     ELSE job' = Idle /\ UNCHANGED row
  /\ UNCHANGED <<late, expirer, informed, clobbered, faults>>

refetch ==
  /\ At("refetch")
  /\ job' = [job EXCEPT !.step = "persist", !.copy = row[job.order]]
  /\ UNCHANGED <<row, late, expirer, informed, clobbered, faults>>

(* update_order_event publishes the copy as active and returns it so.       *)
persist_event ==
  /\ At("persist")
  /\ \/ row' = [row EXCEPT ![job.order] = [job.copy EXCEPT !.status = "active"]] /\ UNCHANGED faults
     \/ Fault("publish") /\ UNCHANGED row
  /\ Goto("notify")
  /\ UNCHANGED <<late, expirer, informed, clobbered>>

notify_escrow_locked ==
  /\ At("notify")
  /\ informed' = informed \cup {job.order}
  /\ job' = Idle
  /\ UNCHANGED <<row, late, expirer, clobbered, faults>>

-----------------------------------------------------------------------------
expires_at(o) ==
  /\ o \notin late
  /\ late' = late \cup {o}
  /\ UNCHANGED <<row, job, expirer, informed, clobbered, faults>>

find_order_by_date ==
  /\ expirer = {}
  /\ expirer' = {o \in late : row[o].status = "pending"}
  /\ expirer' # {}
  /\ UNCHANGED <<row, late, job, informed, clobbered, faults>>

(* Another whole-row write from a copy.                                     *)
job_expire_pending_older_orders(o) ==
  /\ o \in expirer
  /\ expirer' = expirer \ {o}
  /\ row' = [row EXCEPT ![o] = [Fresh EXCEPT !.status = "expired"]]
  /\ clobbered' = IF row[o].status = "pending" THEN clobbered ELSE clobbered \cup {o}
  /\ UNCHANGED <<late, job, informed, faults>>

(* Messages still queued are lost.                                          *)
crash ==
  /\ Fault("crash")
  /\ job' = Idle /\ expirer' = {}
  /\ informed' \in SUBSET informed
  /\ UNCHANGED <<row, late, clobbered>>

Handling ==
  \/ claim_order_status \/ show_cashu_escrow_request \/ update_order_cashu_escrow
  \/ refetch \/ persist_event \/ notify_escrow_locked

(* The seller sends the accepted token again.                               *)
Resubmit(o) == row[o].token # None /\ add_cashu_escrow_action(o, row[o].token)

Next ==
  \/ \E o \in Orders : take_sell_action(o) \/ expires_at(o) \/ job_expire_pending_older_orders(o)
  \/ \E o \in Orders, t \in Tokens : add_cashu_escrow_action(o, t)
  \/ Handling \/ find_order_by_date \/ crash

Spec == Init /\ [][Next]_vars

(* The main loop finishes a message, a seller who is not told of the lock   *)
(* repeats the submission, and the expiry job ends its pass.                *)
FairSpec ==
  /\ Spec
  /\ WF_vars(Handling)
  /\ \A o \in Orders : WF_vars(Resubmit(o)) /\ WF_vars(job_expire_pending_older_orders(o))

-----------------------------------------------------------------------------
Kept(o) == o \notin clobbered \cup expirer

(* An active order's token does what the trade needs: it escrows no other   *)
(* order (db.rs: "unique across orders"), it is worth the amount, until the *)
(* floor exactly two of buyer, seller and Mostro can redeem it, and after   *)
(* its locktime the seller alone can.  What the handler checks is compared  *)
(* with what the mint would allow.                                          *)
EscrowIsSound ==
  \A o \in Orders : row[o].status = "active" /\ Kept(o) =>
    LET t == row[o].token IN
    /\ t # None /\ Worth(t) = Amount
    /\ \A p \in Orders \ {o} : row[p].token # t
    /\ \A s \in SUBSET Keys : Spendable(t, s, Floor) <=> Cardinality(s \ {"other"}) >= 2
    /\ \A s \in SUBSET Keys : Spendable(t, s, t.locktime + 1) <=>
         "seller" \in s \/ Cardinality(s \ {"other"}) >= 2

(* add_cashu_escrow.rs: "a crash between the commit and the send queue      *)
(* cannot strand the trade with a funded escrow and an uninformed buyer",   *)
(* given that the seller repeats a submission that is not acknowledged.     *)
Informed == \A o \in Orders : row[o].status = "active" /\ Kept(o) => o \in informed
BuyerInformed == []<>Informed
=============================================================================
