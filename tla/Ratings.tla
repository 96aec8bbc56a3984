------------------------------- MODULE Ratings -------------------------------
(***************************************************************************)
(* Ratings after a trade (app/rate_user.rs): the Rate message, the         *)
(* transaction that claims the rater's flag and adds to the other party's  *)
(* aggregate, the public rating event it queues, and the job that flushes  *)
(* the queue.  The payout task finishes the order meanwhile: a seller may  *)
(* rate before it does.  The daemon may restart between any two steps.     *)
(***************************************************************************)
EXTENDS Integers, FiniteSets

CONSTANTS
  Orders,     \* released orders
  Users,      \* identity keys
  PartyOf,    \* PartyOf[o][side]: who traded on that side of the order
  Private,    \* <<o, side>>: that party traded in full-privacy mode
  MaxFaults,  \* bound: restarts and failed sends
  None

Sides == {"buyer", "seller"}
Other(side) == IF side = "buyer" THEN "seller" ELSE "buyer"
Votes == Orders \X Sides   \* a vote: the order and the side that casts it

VARIABLES
  status,     \* status of each order
  sent_rate,  \* the sides whose *_sent_rate flag is set in the order row
  task,       \* the payout task of each order: None or the row it has read
  reviews,    \* total_reviews of each user row
  handler,    \* the Rate message being handled: None or [vote, pc]
  queue,      \* queue_order_rate: rating events [vote, key, about]
  flush,      \* job_update_rate_events: "sleep", "sending" or "clearing"
  relays,     \* rating events published
  faults

vars == <<status, sent_rate, task, reviews, handler, queue, flush, relays, faults>>

Rated(vote) == PartyOf[vote[1]][Other(vote[2])]

-----------------------------------------------------------------------------
(* The payout of a settled order: the task has read the row, and on the    *)
(* payment's success writes status alone.                                  *)
do_payment(o) ==
  /\ status[o] = "settled-hold-invoice" /\ task[o] = None
  /\ task' = [task EXCEPT ![o] = [sent_rate |-> sent_rate[o]]]
  /\ UNCHANGED <<status, sent_rate, reviews, handler, queue, flush, relays, faults>>

(* Mutant: the whole row is written from the copy the task has read.       *)
WholeRow(o) ==
  /\ task[o] # None
  /\ status' = [status EXCEPT ![o] = "success"]
  /\ sent_rate' = [sent_rate EXCEPT ![o] = task[o].sent_rate]
  /\ task' = [task EXCEPT ![o] = None]
  /\ UNCHANGED <<reviews, handler, queue, flush, relays, faults>>

payment_success(o) ==
  /\ task[o] # None
  /\ status' = [status EXCEPT ![o] = "success"]
  /\ task' = [task EXCEPT ![o] = None]
  /\ UNCHANGED <<sent_rate, reviews, handler, queue, flush, relays, faults>>

-----------------------------------------------------------------------------
(* The checks of the handler on the order it has read: a buyer rates a     *)
(* finished order, a seller also one that is settled; once per side; no    *)
(* vote for a party in full-privacy mode.                                  *)
MayRate(vote) ==
  \/ status[vote[1]] = "success"
  \/ status[vote[1]] = "settled-hold-invoice" /\ vote[2] = "seller"

update_user_reputation_action(vote) ==
  /\ handler = None
  /\ MayRate(vote)
  /\ vote[2] \notin sent_rate[vote[1]]
  /\ <<vote[1], Other(vote[2])>> \notin Private
  /\ handler' = [vote |-> vote, pc |-> "claim"]
  /\ UNCHANGED <<status, sent_rate, task, reviews, queue, flush, relays, faults>>

(* One transaction: the flag is claimed and the aggregate written, or both *)
(* are rolled back.                                                        *)
claim_order_rating_flag ==
  /\ handler # None /\ handler.pc = "claim"
  /\ LET vote == handler.vote
     IN \/ /\ IF MayRate(vote) /\ vote[2] \notin sent_rate[vote[1]]
              THEN /\ sent_rate' = [sent_rate EXCEPT ![vote[1]] = @ \cup {vote[2]}]
                   /\ reviews' = [reviews EXCEPT ![Rated(vote)] = @ + 1]
                   /\ handler' = [handler EXCEPT !.pc = "event"]
              ELSE /\ handler' = None
                   /\ UNCHANGED <<sent_rate, reviews>>
           /\ UNCHANGED faults
        \/ /\ faults < MaxFaults
           /\ faults' = faults + 1
           /\ handler' = None
           /\ UNCHANGED <<sent_rate, reviews>>
  /\ UNCHANGED <<status, task, queue, flush, relays>>

(* prepare_variables_for_vote: the trade key the event is filed under.     *)
counterpart_trade_pubkey(vote) == vote

(* The event waits for the write lock while the flush reads the queue; if  *)
(* it gets the lock between the read and the clear, it is never sent.      *)
update_user_rating_event ==
  /\ handler # None /\ handler.pc = "event"
  /\ flush # "sending"
  /\ LET vote == handler.vote
     IN queue' = queue \cup {[vote |-> vote, key |-> counterpart_trade_pubkey(vote),
                              about |-> Rated(vote)]}
  /\ handler' = None
  /\ UNCHANGED <<status, sent_rate, task, reviews, flush, relays, faults>>

-----------------------------------------------------------------------------
(* The job sends every event under the read lock, drops it, and clears     *)
(* under the write lock whatever the queue then holds.                     *)
flush_read ==
  /\ flush = "sleep"
  /\ flush' = "sending"
  /\ UNCHANGED <<status, sent_rate, task, reviews, handler, queue, relays, faults>>

flush_send ==
  /\ flush = "sending"
  /\ flush' = "clearing"
  /\ \/ relays' = relays \cup queue /\ UNCHANGED faults
     \/ /\ faults < MaxFaults
        /\ faults' = faults + 1
        /\ \E e \in queue : relays' = relays \cup (queue \ {e})
  /\ UNCHANGED <<status, sent_rate, task, reviews, handler, queue>>

flush_clear ==
  /\ flush = "clearing"
  /\ flush' = "sleep"
  /\ queue' = {}
  /\ UNCHANGED <<status, sent_rate, task, reviews, handler, relays, faults>>

(* A restart ends every task; what was queued or about to be is gone.      *)
restart ==
  /\ faults < MaxFaults
  /\ faults' = faults + 1
  /\ handler' = None /\ queue' = {} /\ flush' = "sleep"
  /\ task' = [o \in Orders |-> None]
  /\ UNCHANGED <<status, sent_rate, reviews, relays>>

Init ==
  /\ status = [o \in Orders |-> "settled-hold-invoice"]
  /\ sent_rate = [o \in Orders |-> {}]
  /\ task = [o \in Orders |-> None]
  /\ reviews = [u \in Users |-> 0]
  /\ handler = None
  /\ queue = {}
  /\ flush = "sleep"
  /\ relays = {}
  /\ faults = 0

Handling == claim_order_rating_flag \/ update_user_rating_event
Flushing == flush_read \/ flush_send \/ flush_clear

Next ==
  \/ \E o \in Orders : do_payment(o) \/ payment_success(o)
  \/ \E vote \in Votes : update_user_reputation_action(vote)
  \/ Handling \/ Flushing \/ restart

Spec == Init /\ [][Next]_vars

-----------------------------------------------------------------------------
(* The state has its shape.                                                *)
TypeOK ==
  /\ status \in [Orders -> {"settled-hold-invoice", "success"}]
  /\ sent_rate \in [Orders -> SUBSET Sides]
  /\ reviews \in [Users -> 0..Cardinality(Votes)]
  /\ handler \in {None} \cup [vote : Votes, pc : {"claim", "event"}]
  /\ queue \cup relays \subseteq [vote : Votes, key : Votes, about : Users]
  /\ flush \in {"sleep", "sending", "clearing"}

(* Every user's aggregate counts exactly the votes whose flag is set: a    *)
(* party rates the other once per trade, although the payout task finishes *)
(* the order from an older copy of the row, messages are re-sent and the   *)
(* daemon restarts (rate_user.rs:127-173).                                 *)
CountedOnce ==
  \A u \in Users : reviews[u] =
    Cardinality({vote \in Votes : vote[2] \in sent_rate[vote[1]] /\ Rated(vote) = u})

(* "Find the counterpart public key" (rate_user.rs:22): the rating of a    *)
(* user is published under the trade key that user has in the order.       *)
PublishedUnderRated ==
  \A e \in queue \cup relays : e.about = PartyOf[e.key[1]][e.key[2]]
=============================================================================
