---------------------------- MODULE SideServices ----------------------------
(***************************************************************************)
(* Services beside the trade itself: the fee, the order book and the       *)
(* intake, under names that do not clash.  They share no state that their  *)
(* properties are about.                                                   *)
(***************************************************************************)
EXTENDS Integers

CONSTANTS
  FeeInvoices, FeeFaultKinds, MaxFeeFaults,                      \* of DevFee
  Relays, QuietSecs, MaxAttempts, BookFaultKinds, MaxBookFaults, \* of OrderBook
  Events, Freshness, WindowSecs, MaxSkew, MaxIndex               \* of Intake

VARIABLES
  fee_hash, fee_stale, fee_paid, fee_confirmed, fee_audited, fee_issued, fee_payment,
  fee_step, fee_faults,
  book_status, last_ts, generation, book_queue, relay, book_job, given_up, book_faults,
  published, created, seen, known, last_trade_index, handled, used, zeroed, restarted

feeVars == <<fee_hash, fee_stale, fee_paid, fee_confirmed, fee_audited, fee_issued,
             fee_payment, fee_step, fee_faults>>
bookVars == <<book_status, last_ts, generation, book_queue, relay, book_job, given_up,
              book_faults>>
intakeVars == <<published, created, seen, known, last_trade_index, handled, used, zeroed,
                restarted>>

Fee == INSTANCE DevFee WITH
  MaxInvoices <- FeeInvoices, FaultKinds <- FeeFaultKinds, MaxFaults <- MaxFeeFaults,
  hash <- fee_hash, stale <- fee_stale, paid <- fee_paid, confirmed <- fee_confirmed,
  audited <- fee_audited, issued <- fee_issued, payment <- fee_payment, step <- fee_step,
  faults <- fee_faults

Book == INSTANCE OrderBook WITH
  FaultKinds <- BookFaultKinds, MaxFaults <- MaxBookFaults,
  status <- book_status, queue <- book_queue, job <- book_job, faults <- book_faults

Gate == INSTANCE Intake WITH message <- published

-----------------------------------------------------------------------------
(* dev_fee.rs: the fee of an order is paid at most once, whatever is        *)
(* retried, times out or crashes.                                           *)
FeePaidAtMostOnce == Fee!FeePaidAtMostOnce

(* util.rs: with no publication under way and none queued, every relay      *)
(* shows the row's status.                                                  *)
BookFollowsRow == Book!BookFollowsRow

(* check_and_record: an event reaches its handler once, until a restart.    *)
HandledOnce == Gate!HandledOnce

(* check_trade_index: an index is spent once, unless index 0 set the        *)
(* counter back.                                                            *)
IndexSpentOnce == Gate!IndexSpentOnce
=============================================================================
