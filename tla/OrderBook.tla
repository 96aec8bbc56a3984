----------------------------- MODULE OrderBook -----------------------------
(***************************************************************************)
(* The public order book: how the kind-38383 event of one order follows    *)
(* the order's row, src/src/util.rs (the stamp registry, the failed-publish*)
(* queue, update_order_event_stamped, the CAS-miss repair) and the         *)
(* reconciler of src/src/scheduler.rs.  A replaceable event has no         *)
(* transaction with the row: a handler stamps, sends and only then         *)
(* persists with a compare-and-swap, and the one that loses the swap       *)
(* publishes the winner's state again.                                     *)
(*                                                                         *)
(* Concurrent parties: the main loop (a maker's cancel), the subscriber of *)
(* a taker's bond (the resumed take), the reconciler.  Each lock section,  *)
(* SQL statement and relay round trip is one step.                         *)
(***************************************************************************)
EXTENDS Integers

CONSTANTS
  Relays,
  QuietSecs,     \* ORDERBOOK_QUIESCENT_SECS
  MaxAttempts,   \* MAX_ORDERBOOK_REPUBLISH_ATTEMPTS
  FaultKinds,    \* which of "relay", "db" may happen
  MaxFaults      \* bound: how many of them

(* Times are seconds from now, so that a second passing takes one off each; *)
(* beyond the quiet window they are all equally old.                        *)
VARIABLES
  status,      \* status column of the order row
  last_ts, generation, \* ORDERBOOK_REGISTRY
  queue,       \* PENDING_ORDERBOOK_REPUBLISH: the order's entry, or NoEntry
  relay,       \* the event each relay keeps: created_at and advertised status
  job,         \* what each worker is doing
  given_up,    \* the last publication was abandoned (attempt cap, database error)
  faults

vars == <<status, last_ts, generation, queue, relay, job, given_up, faults>>

Handlers == {"main", "subscriber"}
Workers == Handlers \cup {"reconciler"}
PRETRADE_STATUSES == {"pending", "waiting-taker-bond"}
Statuses == PRETRADE_STATUSES \cup {"waiting-buyer-invoice", "canceled"}
Times == -QuietSecs..(4 + 2 * MaxFaults) \* bound: the stamps of one second
NoEntry == [generation |-> 0, attempts |-> 0]
Resting == [step |-> "idle", status |-> "pending", at |-> 0, generation |-> 0,
            entry |-> NoEntry]

(* The state has its shape.                                                 *)
TypeOK ==
  /\ status \in Statuses
  /\ last_ts \in Times /\ generation \in Nat
  /\ queue \in [generation : Nat, attempts : 0..MaxAttempts]
  /\ relay \in [Relays -> [at : Times, status : {"pending", "in-progress", "canceled"}]]
  /\ job \in [Workers -> [step : {"idle", "stamp", "send", "persist", "reload", "repair",
                                  "repair_send", "republish"},
                          status : Statuses, at : Times, generation : Nat,
                          entry : [generation : Nat, attempts : 0..MaxAttempts]]]
  /\ given_up \in BOOLEAN
  /\ faults \in 0..MaxFaults

(* A sell order, published a moment ago; a taker may be about to lock a     *)
(* bond.                                                                    *)
Init ==
  /\ status \in PRETRADE_STATUSES
  /\ last_ts = 0 /\ generation = 1
  /\ queue = NoEntry
  /\ relay = [r \in Relays |-> [at |-> 0, status |-> "pending"]]
  /\ job = [w \in Workers |-> Resting]
  /\ given_up = FALSE
  /\ faults = 0

At(w, step) == job[w].step = step
Goto(w, step) == job' = [job EXCEPT ![w].step = step]
Rest(w) == job' = [job EXCEPT ![w] = Resting]
Larger(m, n) == IF m < n THEN n ELSE m
Fault(kind) ==
  /\ kind \in FaultKinds
  /\ faults < MaxFaults
  /\ faults' = faults + 1

(* create_status_tags: the bucket a status is advertised under.             *)
create_status_tags(s) ==
  CASE s \in PRETRADE_STATUSES -> "pending"
    [] s = "waiting-buyer-invoice" -> "in-progress"
    [] s = "canceled" -> "canceled"

-----------------------------------------------------------------------------
(* The registry and the queue.                                              *)

monotonic_created_at(candidate) == Larger(candidate, last_ts + 1)

stamp_locked(w, candidate, step) ==
  LET effective == monotonic_created_at(candidate) IN
  /\ last_ts' = effective
  /\ generation' = generation + 1
  /\ job' = [job EXCEPT ![w].at = effective, ![w].generation = generation + 1,
                        ![w].step = step]

mark_orderbook_publish_failed_at(entry, gen) ==
  [generation |-> Larger(entry.generation, gen), attempts |-> entry.attempts + 1]

\* mutant: an entry the reconciler has drained is not put back
DropDrained(entry, drained) == entry

requeue_orderbook_publish_failure(entry, drained) ==
  [generation |-> Larger(entry.generation, drained.generation),
   attempts |-> Larger(entry.attempts, drained.attempts)]

clear_orderbook_publish_failure_up_to(entry, gen) ==
  IF entry.generation <= gen THEN NoEntry ELSE entry

-----------------------------------------------------------------------------
(* update_order_event_stamped: stamp, then send to every relay.             *)

(* NIP-01 (external): a relay keeps the newest revision, and of two with    *)
(* the same created_at the one with the lowest id.                          *)
Keeps(r, w) ==
  LET sent == [at |-> job[w].at, status |-> create_status_tags(job[w].status)] IN
  CASE sent.at > relay[r].at -> {sent}
    [] sent.at = relay[r].at -> {sent, relay[r]}
    [] OTHER -> {relay[r]}
Revisions(w) == UNION {Keeps(r, w) \cup {relay[r]} : r \in Relays}

(* A relay that refuses, and one whose answer is late, are both in          *)
(* output.failed.                                                           *)
send_event(w, next) ==
  \/ /\ \E kept \in [Relays -> Revisions(w)] :
          (\A r \in Relays : kept[r] \in Keeps(r, w)) /\ relay' = kept
     /\ queue' = clear_orderbook_publish_failure_up_to(queue, job[w].generation)
     /\ given_up' = (given_up /\ job[w].at # last_ts)
     /\ next
     /\ UNCHANGED <<status, last_ts, generation, faults>>
  \/ /\ Fault("relay")
     /\ \E kept \in [Relays -> Revisions(w)] :
          (\A r \in Relays : kept[r] \in Keeps(r, w) \cup {relay[r]}) /\ relay' = kept
     /\ queue' = mark_orderbook_publish_failed_at(queue, job[w].generation)
     /\ next
     /\ UNCHANGED <<status, last_ts, generation, given_up>>

Begin(w, target) ==
  /\ At(w, "idle")
  /\ status \in PRETRADE_STATUSES
  /\ job' = [job EXCEPT ![w].step = "stamp", ![w].status = target]
  /\ UNCHANGED <<status, last_ts, generation, queue, relay, given_up, faults>>

cancel_pending_order_from_maker == Begin("main", "canceled")
resume_take_after_bond == Begin("subscriber", "waiting-buyer-invoice")

stamp_orderbook_event(w) ==
  /\ At(w, "stamp")
  /\ stamp_locked(w, 0, "send")
  /\ UNCHANGED <<status, queue, relay, given_up, faults>>

update_order_event(w) == At(w, "send") /\ send_event(w, Goto(w, "persist"))

\* mutant: the loser of the swap leaves its event on the relays
MissUnrepaired(w) ==
  /\ At(w, "persist")
  /\ status' = IF status \in PRETRADE_STATUSES THEN job[w].status ELSE status
  /\ Rest(w)
  /\ UNCHANGED <<last_ts, generation, queue, relay, given_up, faults>>

(* A database error leaves the event on the relays and the row as it was.   *)
cas_pretrade_order_status(w) ==
  /\ At(w, "persist")
  /\ \/ /\ status \in PRETRADE_STATUSES
        /\ status' = job[w].status
        /\ Rest(w)
        /\ UNCHANGED <<given_up, faults>>
     \/ /\ status \notin PRETRADE_STATUSES
        /\ job' = [job EXCEPT ![w] = [Resting EXCEPT !.step = "reload"]]
        /\ UNCHANGED <<status, given_up, faults>>
     \/ Fault("db") /\ given_up' = TRUE /\ Rest(w) /\ UNCHANGED status
  /\ UNCHANGED <<last_ts, generation, queue, relay>>

republish_winning_state_after_cas_miss(w) ==
  /\ w \in Handlers /\ At(w, "reload")
  /\ \/ job' = [job EXCEPT ![w].step = "repair", ![w].status = status] /\ UNCHANGED <<given_up, faults>>
     \/ Fault("db") /\ given_up' = TRUE /\ Rest(w)
  /\ UNCHANGED <<status, last_ts, generation, queue, relay>>

repair_timestamp(w) ==
  /\ At(w, "repair")
  /\ stamp_locked(w, 1, "repair_send")
  /\ UNCHANGED <<status, queue, relay, given_up, faults>>

update_order_event_with_created_at(w) == At(w, "repair_send") /\ send_event(w, Rest(w))

-----------------------------------------------------------------------------
(* reconcile_orderbook_once: drain the entry, read the row, put the entry   *)
(* back, then publish if the order has been quiet.                          *)

take_failed_orderbook_publishes ==
  /\ At("reconciler", "idle") /\ queue # NoEntry
  /\ IF queue.attempts >= MaxAttempts
     THEN given_up' = TRUE /\ UNCHANGED job
     ELSE /\ job' = [job EXCEPT !["reconciler"].step = "reload", !["reconciler"].entry = queue]
          /\ UNCHANGED given_up
  /\ queue' = NoEntry
  /\ UNCHANGED <<status, last_ts, generation, relay, faults>>

reconcile_orderbook_once ==
  /\ At("reconciler", "reload")
  /\ queue' = requeue_orderbook_publish_failure(queue, job["reconciler"].entry)
  /\ \/ /\ job' = [job EXCEPT !["reconciler"].step = "republish", !["reconciler"].status = status,
                              !["reconciler"].at = 0]
        /\ UNCHANGED faults
     \/ Fault("db") /\ Rest("reconciler")
  /\ UNCHANGED <<status, last_ts, generation, relay, given_up>>

(* The last branch: the ratings or the tags could not be built.             *)
try_stamp_orderbook_event_quiescent ==
  /\ At("reconciler", "republish")
  /\ \/ 0 < last_ts + QuietSecs /\ Rest("reconciler") /\ UNCHANGED <<last_ts, generation, queue, faults>>
     \/ /\ 0 >= last_ts + QuietSecs
        /\ stamp_locked("reconciler", 0, "repair_send")
        /\ UNCHANGED <<queue, faults>>
     \/ /\ Fault("db")
        /\ queue' = mark_orderbook_publish_failed_at(queue, job["reconciler"].entry.generation)
        /\ Rest("reconciler")
        /\ UNCHANGED <<last_ts, generation>>
  /\ UNCHANGED <<status, relay, given_up>>

(* ORDERBOOK_QUIESCENT_SECS outlasts a handler's gap between stamp and      *)
(* persist (a relay timeout and a write) together with the reconciler's     *)
(* between its read and its stamp (one more read, a second here).           *)
tick ==
  LET Older(t) == Larger(t - 1, -QuietSecs) IN
  /\ \A w \in Handlers : job[w].step \in {"send", "persist"} => job[w].at > 2 - QuietSecs
  /\ \A w \in Workers : At(w, "repair_send") => job[w].at > 1 - QuietSecs
  /\ At("reconciler", "republish") => job["reconciler"].at = 0
  /\ last_ts' = Older(last_ts)
  /\ relay' = [r \in Relays |-> [relay[r] EXCEPT !.at = Older(@)]]
  /\ job' = [w \in Workers |->
               IF job[w].step \in {"send", "persist", "repair_send", "republish"}
               THEN [job[w] EXCEPT !.at = Older(@)] ELSE job[w]]
  /\ UNCHANGED <<status, generation, queue, given_up, faults>>

-----------------------------------------------------------------------------
Handling(w) ==
  \/ stamp_orderbook_event(w) \/ update_order_event(w) \/ cas_pretrade_order_status(w)
  \/ republish_winning_state_after_cas_miss(w) \/ repair_timestamp(w)

Publishing(w) == update_order_event_with_created_at(w)

Reconciling ==
  \/ take_failed_orderbook_publishes \/ reconcile_orderbook_once
  \/ try_stamp_orderbook_event_quiescent

Next ==
  \/ cancel_pending_order_from_maker \/ resume_take_after_bond
  \/ \E w \in Handlers : Handling(w)
  \/ \E w \in Workers : Publishing(w)
  \/ Reconciling \/ tick

Spec == Init /\ [][Next]_vars

(* A handler finishes, every worker's send returns, the reconciler keeps    *)
(* running and the clock goes on.                                           *)
FairSpec ==
  /\ Spec
  /\ \A w \in Handlers : WF_vars(Handling(w))
  /\ \A w \in Workers : WF_vars(Publishing(w))
  /\ WF_vars(Reconciling) /\ WF_vars(tick)

-----------------------------------------------------------------------------
Follows == \A r \in Relays : relay[r].status = create_status_tags(status)

(* With no publication under way and none queued, every relay advertises    *)
(* the row's status: racing transitions, refused and late sends and the     *)
(* repair leave nothing behind ("the orderbook converges", util.rs:915).    *)
BookFollowsRow ==
  (\A w \in Workers : At(w, "idle")) /\ queue = NoEntry /\ ~given_up => Follows

(* A book left behind by a refused publish is brought up to date, unless    *)
(* the reconciler has used its attempts or the database failed.             *)
BookConverges == <>[](Follows \/ given_up)
=============================================================================
