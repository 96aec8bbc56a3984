---------------------------- MODULE PeerServices ----------------------------
(***************************************************************************)
(* Services that deal with the daemon's peers: the outgoing messages, the  *)
(* Cashu escrows, the ratings and the price providers, under names that do *)
(* not clash.  They share no state that their properties are about.        *)
(***************************************************************************)
EXTENDS Integers

CONSTANTS
  Nothing, \* no token, no vote
  Queues, Messages, MaxFailures, SendRetries,                \* of Outbox
  CashuOrders, Floor, CashuFaultKinds, MaxCashuFaults,       \* of CashuEscrow
  RatedOrders, Users, PartyOf, Private, MaxRatingFaults,     \* of Ratings
  Providers, Interval, Threshold, Base, Cap, Width, MaxCount \* of PriceHealth

VARIABLES
  queue, retries, turn, pushed, failures, sent, lost,
  row, late, cashu_job, expirer, informed, clobbered, cashu_faults,
  rated_status, sent_rate, task, reviews, handler, rate_queue, flush, rate_relays,
  rating_faults,
  consecutive_failures, open_for, sleep, answering, unpolled

outboxVars == <<queue, retries, turn, pushed, failures, sent, lost>>
cashuVars == <<row, late, cashu_job, expirer, informed, clobbered, cashu_faults>>
ratingVars == <<rated_status, sent_rate, task, reviews, handler, rate_queue, flush,
                rate_relays, rating_faults>>
breakerVars == <<consecutive_failures, open_for, sleep, answering, unpolled>>

Out == INSTANCE Outbox WITH MaxRetries <- SendRetries

Cashu == INSTANCE CashuEscrow WITH
  None <- Nothing, Orders <- CashuOrders, FaultKinds <- CashuFaultKinds,
  MaxFaults <- MaxCashuFaults, job <- cashu_job, faults <- cashu_faults

Rate == INSTANCE Ratings WITH
  None <- Nothing, Orders <- RatedOrders, MaxFaults <- MaxRatingFaults,
  status <- rated_status, queue <- rate_queue, relays <- rate_relays,
  faults <- rating_faults

Breaker == INSTANCE PriceHealth

-----------------------------------------------------------------------------
(* send_messages keeps each queue's order, whatever is pushed during a      *)
(* send, and gives a message up only after its own four failures.           *)
GivenUpAfterFour == Out!GivenUpAfterFour

(* verify_escrow_token, cashu_escrow_token_in_use: what an active order     *)
(* holds escrows no other order, is worth its amount and is redeemable by   *)
(* exactly the pairs of parties the trade needs.                            *)
EscrowIsSound == Cashu!EscrowIsSound

(* update_user_reputation_action: a user's aggregate counts exactly the     *)
(* votes cast, each once.                                                   *)
CountedOnce == Rate!CountedOnce

(* record_failure: after the threshold a provider stays out for the base    *)
(* cooldown at least, and for the capped cooldown at most.                  *)
BackoffHolds == Breaker!BackoffHolds
=============================================================================
