# TLA+ models of the Mostro daemon

Mostro (`src/`) coordinates peer-to-peer bitcoin/fiat trades over Nostr. It
escrows the seller's sats in an LND hold invoice, keeps its state in SQLite, and
can require anti-abuse bonds, which are hold invoices too. This directory models
the parts where several tasks of the daemon, LND and the users act on the same
rows, model-checks them on small instances with TLC and proves the main safety
properties for all instances with TLAPS. `PROJECT.json` maps each definition to
the lines it models and lists runs, mutants, hazards, findings and theorems.

## The system

One task, the main event loop, handles user messages one at a time. Around it
run: one subscriber task per LND invoice, the scheduler's jobs, one background
task per dispatched payout with a watcher of its own, and the admin RPC server.
They share the database and nothing else, and each of them awaits between the
statements of a handler. A row is written in two ways: by a targeted `UPDATE ...
WHERE` that re-checks what it relies on (a compare-and-swap), or by
`order.update(pool)`, which writes back every column of a copy read earlier.
Most of what can go wrong sits between a read and such a write.

| part | source | module | proofs |
|---|---|---|---|
| buyer payout | `app/release.rs`, `app/add_invoice.rs`, `db.rs`, `scheduler.rs` | `Payout`, `PayOnce` | `PayoutProofs` |
| taker-bond window | `app/bond/flow.rs`, `app/cancel.rs`, `app/take_*.rs`, `scheduler.rs` | `TakerBonds` | `TakerBondsProofs` |
| order and trade escrow | `flow.rs`, `app/take_*.rs`, `app/add_invoice.rs`, `app/fiat_sent.rs`, `app/release.rs`, `app/cancel.rs`, `app/dispute.rs`, `app/admin_*.rs`, `scheduler.rs`, `util.rs`, `db.rs`, `main.rs` | `Trade` | `TradeProofs` |
| slash and release of a fixed order's bonds | `app/bond/slash.rs`, `app/bond/flow.rs`, `app/admin_*.rs`, `app/cancel.rs`, `scheduler.rs` | `BondSlash` | `BondSlashProofs` |
| maker bond of a range | `app/bond/slash.rs`, `app/bond/db.rs`, `app/bond/math.rs`, `app/release.rs` | `RangeBond` | `SideServicesProofs` |
| bond payout queue | `app/bond/payout.rs` | `BondPayout` | `BondPayoutProofs` |
| development fee | `app/dev_fee.rs` | `DevFee` | `SideServicesProofs` |
| order book on the relays | `util.rs`, `nip33.rs`, `scheduler.rs` | `OrderBook` | |
| outgoing messages | `config/mod.rs`, `scheduler.rs` | `Outbox` | `PeerServicesProofs` |
| Cashu escrow | `app/add_cashu_escrow.rs`, `cashu/mod.rs`, `util.rs`, `db.rs` | `CashuEscrow` | `PeerServicesProofs` |
| message intake | `app.rs`, `spam_gate.rs`, `db.rs` | `Intake` | `SideServicesProofs` |
| ratings | `app/rate_user.rs`, `scheduler.rs` | `Ratings` | `PeerServicesProofs` |
| prices | `price/manager.rs`, `price/aggregate.rs`, `price/store.rs`, `price/provider.rs`, `price/providers/nostr.rs` | `PriceRelay`, `PriceHealth` | `PeerServicesProofs` (`PriceHealth`) |

An order's life passes through them in turn. `TakerBonds` ends where `Trade`
begins (an order without bonds starts in `Trade`), `Trade` ends each settled trade
with a call of `do_payment`, which is where `Payout` begins, and what `BondSlash`
or `RangeBond` slashes is a debt of `BondPayout`. `BondSlash` and `RangeBond`
reduce the trade to the order's status, `Trade` counts the calls of `do_payment`:
each module keeps of its neighbours what its own properties read.

Three modules put components side by side. `MCResolutions` holds the scenarios of a
trade's resolution over `Trade` and `BondSlash`, with `ResolutionsProofs` for what is
proved of them. `SideServices` instantiates `DevFee`, `OrderBook` and `Intake`;
`PeerServices` instantiates `Outbox`, `CashuEscrow`, `Ratings` and `PriceHealth`;
`Services` extends both and `BondPayout` and adds `PriceRelay`.

## Payout

Models what follows the settlement of the seller's hold invoice, for one order.
`do_payment` claims the payout in the row (`payout_payment_hash` plus a time that
serves as token), and a background task waits for a send permit, touching the
claim as a heartbeat, then sends the payment and watches its status stream. The
retry job calls `do_payment` again for rows flagged `failed_payment`; the
reconcile job asks LND about claims older than the grace window. The buyer may be
asked for another invoice, and a Lightning address resolves to a new invoice on
every attempt.

State: the row's columns (`status`, `buyer_invoice`, `payout`, `failed_payment`,
`payment_attempts`), `asked`, the two callers of `do_payment` before the claim,
the step, token and row copy of every task and of the reconciler, the requests
on their way to LND (`wire`), LND's payment records (`lnd`) and the clock. Each
SQL statement and each LND call is a step of its own.

`PayOnce` is the promise: an order's payout is at most one payment at a time and
at most one that succeeds, and the order closes only after it. `PaysOnce` states
that `Payout` implements it.

Assumptions. An RPC error means LND has decided on the request by the time the
lookup is answered. A request older than `RegisterDelay` never registers, and
`RegisterDelay < Grace`, which is what the grace window is for. The AddInvoice
message and the row write of `check_failure_retries` are one step. Payout invoices
are not shared between orders. `Retries >= 2`.

## TakerBonds

Models the window in which takers of one published order post bonds: `Take`,
bond creation and subscription (`request_taker_bond`), the handler of an accepted
bond (`on_bond_invoice_accepted`: lock by compare-and-swap, release the losers,
promote the taker, resume the take), the handler of a canceled bond, the maker's
and the takers' pre-trade cancels, the expiry job and restarts. The window ends
when the order reaches a trade status (waiting-payment and waiting-buyer-invoice
are one status, "trade"), or is canceled or expired.

State: `status` and `taker` of the order row, the state of each bond row and of
its invoice at LND, the live subscribers and their queued updates, and for each
worker (main loop, expiry job, one handler per bond) its step, the bonds it still
has to release and the bond it has canceled at LND but not yet written.

Assumptions. An accepted bond HTLC does not reach its CLTV timeout within the
window. Creating the trade hold invoice and its compare-and-swap are one step
here. A lost invoice stream is replaced only at restart, as in the code.

## Trade

Models one order row and the hold invoices that escrow it, from the take to the
resolution. Five kinds of actor work on the row: the main loop (user and solver
messages), the gRPC server (the same solver actions, beside the main loop), one
subscriber per hold invoice, the timeout job `job_cancel_orders` and the
escrow-deadline guardian. Each reads the row into `copy`, talks to LND and writes
back, and `pc` says where it is; every statement and every LND call is a step.
The write is the code's: `Update` puts the whole copy back (`order.update(pool)`),
`Store` with a changed `row` is a write of named columns, `CommitSettled` and
`cas_complete_pretrade_take` are the compare-and-swaps.

State: `row` (the columns a decision reads), the dispute row's status and whether
it names a solver, what LND knows of each invoice (`htlc`, from created to settled
or canceled), the `age` of an accepted HTLC (0, past half the guard window, within
the margin of its CLTV expiry), live subscriptions and their undelivered updates,
and `payments`, the calls of `do_payment` per invoice. The constant `Events`
selects what may happen in an instance, so that a run can hold some actors still.

Abstractions and assumptions. Amounts, quotes, fees, messages, relay events, range
remainders and the bond effects of these handlers are left out. One solver
identity stands for all who may act on the dispute. Half the guard window is
hours, so no handler that started before it still runs at its end (`Quiet` in
`Ages`). An LND call that fails has done nothing. The message to the seller and
the subscription follow the take's compare-and-swap in the same step. A restart
drops every handler and subscribes what `find_held_invoices` returns, and LND then
sends each invoice's state.

## BondSlash

Models the maker's and the taker's bond of a fixed-amount order from the moment a
handler or job ends the trade: `apply_bond_resolution` after a solver's decision on
either channel, `slash_or_release_on_timeout` in the timeout job, the releases of
release, cooperative cancel, the maker's and the taker's own cancel, the sweep, and
the subscriber that sees an HTLC returned. `slash_one` is settle, mark (a
compare-and-swap with the reason) and notice; `release_bond` is cancel and a blind
write of the whole row. A worker's `job` is its path, its step and the bonds it has
listed, so a list read before another worker's write is stale, as in the code.
`handler_fails` is the early return of a handler: an escrow call to LND that fails
before the order is written (solver, cooperative and taker cancels) or after it
(maker's cancel), and a relay that refuses a message of `admin_cancel_action`.

Two comments of the code promise more than it does. `scheduler.rs:574` says a failed
settle defers the cancel to the next tick, but `slash_one` swallows the error and
the order is written. `slash.rs:347` says a failed settle leaves the bond for an
admin retry, but the close hook of the same handler releases a maker bond and the
retry finds no dispute. Both are in the model; `DecidedBeforeWritten` is stated for
the case where LND and the database answer.

## RangeBond

One hold invoice backs every slice of a range order. A slice's slash inserts a child
row for its share; when the range is over, the close hook or the sweep settles the
invoice and adds the maker's refund, or releases it when nothing was slashed. The
module keeps the order rows' statuses, the parent row, the child rows with their
amounts, the invoice, and each worker's step and snapshot of the children. The
shares are the code's arithmetic (`slashed_share_sats`, clamped to what is left).

## BondPayout

The rows in pending-payout and the job that pays them. The job copies every pending
row at the start of a cycle and works on the copies, one statement or LND call a
step, while the main loop stores the winner's invoices and LND settles or fails
payments at any time. Debts owed to one winner on one order with one amount are the
case in which an invoice could reach the wrong debt. An invoice is submitted once:
one sent again for another debt would close that debt by the first payment.

## The other services

`DevFee`: the four phases of the fee cycle on one order. The only record of a fee
payment is the `dev_fee_payment_hash` column, which holds nothing, a claim marker or
a payment hash; every address resolution gives a new invoice, so LND does not
recognise a second payment. `OrderBook`: the replaceable event of one order against
its row: stamp, send, then compare-and-swap; the loser of the swap publishes the
winner's state again, a refused publish is queued for the reconciler, and relays
keep the newest timestamp. `Outbox`: the queues of outgoing messages, one flushing
task, one retry counter a queue. `CashuEscrow`: a take that claims the order, the
seller's token, its validation against what a mint would let the three keys spend,
the compare-and-swap, the replayed submission, the expiry job. `Intake`:
`accept_event` with freshness, replay guard, known keys, proof of work and the trade
index, for events delivered any number of times. `Ratings`: the vote's transaction,
the rating event and the flush, against the payout task that finishes the order
from an older copy. `PriceRelay`: aggregation, fallback and republication over nodes
that read each other's events; a price is its age. `PriceHealth`: the circuit
breaker, its doubling cooldown at a small integer width, and the price job.

## Runs

| run | checks | shows |
|---|---|---|
| `payout_safe` | `NoDoublePayout`, `ExhaustedBuyerIsAsked`, `PaysOnce` | two invoices, one replaced by the buyer or each resolved from a Lightning address with a fault at any step: never both paid; refinement of `PayOnce` |
| `payout_live` | `ClaimResolved` | a claimed payout ends in success or with the buyer asked |
| `payout_strand` | `SettledResolved` (violated) | a failure between settlement and claim leaves an order no job finds |
| `bond_window` | `OneLockedTaker`, `ReleasedIsReturned`, `RaceResumesLocked`, `CanceledIsFinal`, `HeldIsReleased` | two takers race to lock, with the maker's cancel, expiry and two faults; or cancel their takes over a restart, and no held bond is left behind |
| `bond_expiry` | `ExpirySparesTakes` (violated) | the expiry job overwrites a take with its older copy of the row |
| `trade_resolve` | `PaysSettledOnce`, `OneInitiator`, `ResolutionsPay`, `ResolutionsAgree`, `MessagesKeepBacking`, `GuardianEnforces`; `RowFollowsInvoice`, `NoticeIsTrue`, `DecidedBeforeWritten` | every way a trade is resolved, for the escrow and for the bonds |
| `trade_waiting` | `NoUnsentInvoice`, `WaitingEnds` | takes, cancels (of a buy order), timeouts and expiry over two invoices |
| `trade_gone` | `CanceledNotSettled` (violated) | the guardian takes a settled escrow for one that is gone |
| `range_close` | `ClosedExactly`, `SlashedIsFinal`, `RangeResolved` | a range bond is divided exactly, once, and not left locked, over up to two faults |
| `range_backed` | `PaidIsBacked` (violated) | a slice slashed while the sweep releases the bond is paid from the node's own funds |
| `services` | `BondPayout`: `PaidAtMostOnce`, `NotWrittenOffWhilePaid`, `SlashedIsPaid`, `DebtsResolved`; `DevFee`: `FeePaidAtMostOnce`, `FeeRecorded`; `OrderBook`: `BookFollowsRow`, `BookConverges`; `Outbox`: `GivenUpAfterFour`; `CashuEscrow`: `EscrowIsSound`, `BuyerInformed`; `Intake`: `HandledOnce`, `IndexSpentOnce`; `Ratings`: `CountedOnce`; `PriceRelay`: `ServedIsRecent`, `FallbackIsExact`; `PriceHealth`: `BackoffHolds` | each service alone, under the faults it handles |
| `rate_key` | `PublishedUnderRated` (violated) | a rating event is filed under the key of the party who voted |

The five violated properties are statements of the repository's own comments,
quoted in the `findings`. Every module also states its `TypeOK`; it holds on these
instances and no run spends a property on it.

Four runs hold several instances side by side. A variable (`scenario`, `service`)
is set in the initial state and never changes, so each behaviour is one of a single
instance with its own constants and fairness. `trade_resolve` has five: every
resolution but the deadline, the same without gRPC, the guardian, and the two
instances of `BondSlash` (solvers on two channels; the timeout job on an overdue
order). `range_close` has four (two faults beside the timeout job, two beside the
expiry job, both jobs without faults, both solver channels with one). `services` has
nine, one for each service of `Services`; they touch no common state that their
properties are about.

Some properties hold only without some events, and the runs say which.
`CanceledNotSettled` fails with the guardian (`trade_gone`; `ResolutionsAgree` is the
same without it). `SettledIsPaid` (`ResolutionsPay`) fails over a restart between
settlement and compare-and-swap: the order keeps its status and a second release
fails at LND. `EscrowBacked` (`MessagesKeepBacking`) fails when a solver cancels over
gRPC while step 1 of a cooperative cancel holds an older copy. That a late payment
event may revive a canceled order is conceded in `flow.rs:22-23`. `HandledOnce` is
stated up to a restart, which empties the replay guard, and `IndexSpentOnce` up to
an order under index 0, which sets the counter back. `EscrowIsSound` and
`BuyerInformed` leave out orders the expiry job has overwritten. That
every counted vote is published is not claimed: an event pushed between the flush's
two locks is lost, as `Ratings` models.

Model checking showed more hazards that are real in the code and that no run states
as a property; the `hazards` give the lines. A taker's cancel that overlaps the
acceptance of the same taker's bond lets the take go on without a bond. A bond
requested while the order expires locks and is never released. A stop between the
two writes of `dispute_action` leaves a dispute order without a dispute row. The
timeout job resets an order that went active after the job reconfirmed it. A
full-row write of a copy read between the two writes of `hold_invoice_paid` erases
`invoice_held_at` and hides the order from the guardian. The guardian may also
write dispute over a cooperative cancel that committed during its pass. A stop or a
database error after a solver's settle leaves a settled bond behind a Locked row. A
development fee whose hash is stored and whose payment never reached LND is skipped
for ever.

Bounds. Payout: two hashes, two tasks and the reconciler suffice for a stale task
to meet a newer claim; `Grace = 1`, `RegisterDelay = 0` keep the order of events
(the view in `MCPayout` identifies states whose tokens have the same ages). One
fault reaches every error path; a second only repeats it after recovery. Bonds:
two bonds make a winner and a loser; the same properties were also checked with a
third bond, of a returning taker, and one crash (22 million states for safety,
2 million for liveness), too long for a kept run. Trade: one
invoice where the question is about one escrow, two where an order is retaken
after a reset (with symmetry where only safety is checked); one fault, as above.
`WaitingEnds` was also checked on one invoice with an LND error or a restart, and on
a sell order with cancels, which `trade_waiting` leaves to the jobs (`MCTradeWaiting`).
`BondSlash`: the two bonds an order has, two solver channels or the timeout job with
a handler, the sweep and the subscriber, one fault of each instance's kinds. Range:
two slices of half the range, so that one may be slashed while the other closes, a
bond of 4 sats that divides exactly, and one or two faults. Bond payout: three debts, one with
no counterparty share, two invoices, a budget of two attempts and one fault, so that
an invoice is exhausted, asked for again and replaced. Fee: three invoices and two
faults. Order book: two relays, two transitions and the reconciler, two faults.
Outbox: two queues, three messages and five failures, enough to give one up and
fail the next. Cashu: two orders and tokens that differ in amount, keys, threshold, locktime
and refund key. Intake: two events and two indices, `WindowSecs = Freshness +
MaxSkew`, the tightest that is sound. Prices: one node with direct providers and one
without; breaker: three bits of cooldown arithmetic, so that the shift overflows.
Deadlock checking is off where the modelled part of a trade ends.

Fairness. Weak fairness of each task's next step (tokio polls every ready task)
and of the scheduler's jobs (they loop on a timer). In `Payout` also of time, of
LND's answer to a request, and of the end of every HTLC (its CLTV expires at the
latest). Users are never assumed to act, and in `TakerBonds` and `Trade` neither is
LND; in `BondPayout` and `DevFee` it resolves a payment in flight. One exception:
`BuyerInformed` assumes that a seller who got no answer repeats the submission, as
the comment it checks does. `Outbox`, `Intake`,
`Ratings`, `PriceRelay` and `PriceHealth` have safety properties only and no
fairness. Faults are not fair.

## Proofs

`PayoutProofs` proves `TypeOK`, `NoDoublePayout`, `LivePaymentHasClaim`,
`SuccessMeansPaid`, `ExhaustedBuyerIsAsked` and the refinement of `PayOnce`, for
any numbers of tasks, hashes, retries, faults and swaps, from the named
assumptions on the constants. `NoDoublePayout` is not inductive: the invariant
adds that at most one task holds the current claim and at most one request on the
wire carries it (`OneHolder`, `OneRequest`); that any other token, of a task, of a
request or of the reconciler, is older than the grace window, hence too old for
LND to register (`OthersAreStale`, `ReconcilesStale`); that whoever is about to
release the current claim has seen its payment dead (`RearmsDead`); and that what
is finalized was paid (`FinalizesPaid`, `LateRequests`).

`TakerBondsProofs` proves `TypeOK`, `OneLockedTaker`, `ReleasedIsReturned` and
`CanceledIsFinal`. The inductive invariant adds what each worker's step says about
the rows: a bond a worker has freed is canceled at LND, an order the main loop is
enumerating for its cancel is canceled already, a bond being requested has no
row yet.

It also proves `RaceResumesLocked` of `MCBonds`, in whose race no taker cancels (with a
taker's cancel the column may be cleared under a resuming handler). `WindowInv` adds
that, until the window ends, a Locked bond is held by LND and listed for release by
nobody; that only a bond never paid, or one that lost to a Locked bond, is released; and
that the handler on its way into the trade owns the Locked bond.

`TradeProofs` proves, for any set of invoices and any number of faults:

- `TypeOK`, and `PaysSettledOnce` with every event allowed. `PayInv` adds that whoever
  is past a successful settle holds an invoice that is settled and unpaid, and that no
  two actors hold the same one.
- `CanceledNotSettled` without pre-trade cancels, timeouts and the guardian, with
  restarts. `CancelInv` adds that every row or copy that says canceled, or whose holder
  is about to write it, names an invoice LND has canceled, and that a canceled invoice
  stays so.
- `OneInitiator` without pre-trade cancels and timeouts but with the guardian.
  `FlagsInv` says of the row and of every copy that a disputed one has exactly one flag
  and a pending, waiting, active or fiat-sent one has none, and what the steps that
  change the status know of their copy.
- `SettledIsPaid` without pre-trade cancels, timeouts, the guardian and restarts.
  `LiveInv` says what each step may rely on although others write meanwhile: whose
  invoice a copy holds and what LND made of it (`Stands`), that LND's payment is told
  once (`PaidOnce`), and which statuses go with which invoice (`Escrowed`).
- `EscrowBacked` without these events and without the admin RPC. `HeldInv` adds that
  the money is at LND from the moment its payment is noted until the main loop, which
  runs one resolution at a time, settles it or refunds it and writes the cancel.
- `NoUnsentInvoice` with every event allowed; it is inductive with `TypeOK`.

`BondSlashProofs` proves `RowFollowsInvoice` and `NoticeIsTrue` for every set of
workers, armed roles and faults, from an order that is waiting or active. Between
LND's answer and the write the promise lives in the worker: `SlashInv` adds that who
is about to mark a slash has a settled invoice, who is about to write a release a
canceled one, and that a recorded reason belongs to a slashed row.
`DecidedBeforeWritten` is proved for the same instances, provided the timeout job finds
both roles armed. `DecideInv` adds what a worker on the timeout's or the taker's path
has decided by the step it is at, as long as LND and the database have answered.

`ResolutionsProofs` proves the safety invariants of `trade_resolve` for its composed
specification. `TradeInv` is the conjunction of the invariants of `TradeProofs` in the
scenarios that move the trade, `BondsInv` is `DecideInv` of the instance of `BondSlash`
that the scenario runs. The set of invoices and the LND errors are arbitrary; the
`Events` of the configuration leave out the same events as the theorem it uses.

`BondPayoutProofs` proves `PaidAtMostOnce`, `NotWrittenOffWhilePaid` and
`SlashedIsPaid`, for any number of debts, invoices, retries, sends and faults. `PayInv`
adds that a payment that was or may still be made is of the invoice its debt's row
holds (`LiveIsAccepted`, `OwnerAgrees`), that the copies of a cycle are still pending
and still have the invoice they were copied with although the main loop writes the rows
meanwhile (`CopiesKnow`), that an invoice about to be stored belongs to no debt
(`MessageFree`), and what each step of the job has learnt from LND (`JobKnows`).

`SideServicesProofs` proves properties of three components, each for its own
specification.

- `RangeBond`: the action property `SlashedIsFinal` and that the parent row follows the
  invoice, for any number of slices. `RangeInv` adds what a worker holding the parent
  knows: at the release's write the invoice is canceled, at the closing transaction it
  is settled; a decided invoice stays so.
- `DevFee`: `FeePaidAtMostOnce` and `PaidFeeIsReal` for any number of invoices and
  faults. `FeeInv` says that a live payment is the one the hash column names and what
  the column holds at each step that overwrites it.
- `Intake`: `HandledOnce` and `IndexSpentOnce` for any events and indices, assuming
  `MaxSkew + Freshness <= WindowSecs`. `IntakeInv` adds that a handled event is too old
  or in the guard with an entry no older than the event plus the skew, and that the
  counter has passed every index that was spent.

`PeerServicesProofs` proves one property of each of four services, again for the
service's own specification.

- `Outbox`: `GivenUpAfterFour` for any queues, messages and retry limit, over restarts.
  `OutboxInv` adds that a queue is the end of what was pushed to it (`InOrder`), that
  the task's counter is the number of failures of the message now at the head and
  nothing behind it has failed (`CountsHead`), and that what is being sent is that head
  (`SendsHead`), which is what a counter kept per queue depends on.
- `CashuEscrow`: `EscrowIsSound` for any orders, crashes and interleaving with the
  expiry job. `CashuInv` adds that every token in a row passed the checks and is in that
  row only (`HeldAreVerified`), and that between the compare-and-swap and the last write
  of the handler the copy's token is the row's (`JobKnows`); what the checks imply about
  who can spend is a lemma of its own (`VerifiedIsSound`). Assumes that "no token" is
  not a token and that the locktime floor is a number.
- `Ratings`: `CountedOnce` for any finite set of orders whose parties are users. With
  types it is inductive; the work is in the count of a set that grows by one vote.
- `PriceHealth`: the action property `BackoffHolds` for any set of providers, a positive
  poll interval (the job sleeps at least that long), any threshold, cap and width, and a
  base cooldown that fits the width, as a `u64` does. `BreakerInv` adds that a provider
  that is out has used up the rest of its cooldown (`PolledInTime`). That the shifted
  factor is positive for every exponent is an induction, done over sets of numbers from
  the least element that well-foundedness gives.

The theorems of modules that the runs only instantiate carry their assumptions on
the constants in their statement.

Only model-checked:

- the liveness properties, which are out of the prover's reach;
- `BookFollowsRow`, whose invariant would have to relate every event under way to a
  relay to the stamps of both handlers and to the queue: it is not proved here;
- `ClosedExactly`, a sum over the slices of a range, and `ServedIsRecent` and
  `FallbackIsExact`, which are about folds over the quotes of a node: the lemmas about
  those sums and folds are not proved here.

## Not modelled

- Creation of an order (`app/order.rs`): validation, quotes and publication in one
  straight path of the main loop; the maker bond's own request and lock mirror the
  taker's.
- The order-book publishers that do not use the compare-and-swap (bond window,
  expiry, timeout job), and the event's tags.
- The release and the disputes of a Cashu trade, which the repository does not have.
- The handlers that only read: restore session, orders, last trade index, trade
  keys; migrations and listing queries of `db.rs`.
- The RPC server's rate limiter and the solvers' permissions: they decide who may
  act, and the models let any solver act.
- LNURL and invoice validation, the price providers' HTTP and JSON, configuration,
  wizard, command line, message texts, encryption and logging: I/O and formatting.
  A Lightning address is a source of invoices in `Payout` and `DevFee`.
- The size of a bond, the node's share and the premium are single floating-point
  formulas; amounts are data in `Trade`.
