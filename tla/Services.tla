------------------------------ MODULE Services ------------------------------
(***************************************************************************)
(* The payout of slashed bonds (BondPayout), the services of SideServices  *)
(* and PeerServices and the prices (PriceRelay).  A behaviour is one of a  *)
(* single service, chosen by the initial state: the others stay as they    *)
(* start.                                                                  *)
(***************************************************************************)
EXTENDS BondPayout, SideServices, PeerServices

CONSTANTS
  Nodes, Scope, Crossing, Values, OutlierPct, Staleness, Lifetime \* of PriceRelay

VARIABLES
  service,
  store, event, polled, unpriced, mixed \* of PriceRelay

priceVars == <<store, event, polled, unpriced, mixed>>

Price == INSTANCE PriceRelay

-----------------------------------------------------------------------------
(* A step of each service.                                                  *)
allVars == <<service, vars, feeVars, bookVars, outboxVars, cashuVars, intakeVars, ratingVars,
             priceVars, breakerVars>>

OfDebts(A) ==
  /\ service = "debts" /\ A
  /\ UNCHANGED <<service, feeVars, bookVars, outboxVars, cashuVars, intakeVars, ratingVars,
                 priceVars, breakerVars>>
OfFee(A) ==
  /\ service = "fee" /\ A
  /\ UNCHANGED <<service, vars, bookVars, outboxVars, cashuVars, intakeVars, ratingVars,
                 priceVars, breakerVars>>
OfBook(A) ==
  /\ service = "book" /\ A
  /\ UNCHANGED <<service, vars, feeVars, outboxVars, cashuVars, intakeVars, ratingVars,
                 priceVars, breakerVars>>
OfOutbox(A) ==
  /\ service = "outbox" /\ A
  /\ UNCHANGED <<service, vars, feeVars, bookVars, cashuVars, intakeVars, ratingVars,
                 priceVars, breakerVars>>
OfCashu(A) ==
  /\ service = "cashu" /\ A
  /\ UNCHANGED <<service, vars, feeVars, bookVars, outboxVars, intakeVars, ratingVars,
                 priceVars, breakerVars>>
OfGate(A) ==
  /\ service = "intake" /\ A
  /\ UNCHANGED <<service, vars, feeVars, bookVars, outboxVars, cashuVars, ratingVars,
                 priceVars, breakerVars>>
OfRatings(A) ==
  /\ service = "ratings" /\ A
  /\ UNCHANGED <<service, vars, feeVars, bookVars, outboxVars, cashuVars, intakeVars,
                 priceVars, breakerVars>>
OfPrices(A) ==
  /\ service = "prices" /\ A
  /\ UNCHANGED <<service, vars, feeVars, bookVars, outboxVars, cashuVars, intakeVars, ratingVars,
                 breakerVars>>
OfBreaker(A) ==
  /\ service = "breaker" /\ A
  /\ UNCHANGED <<service, vars, feeVars, bookVars, outboxVars, cashuVars, intakeVars, ratingVars,
                 priceVars>>

(* Two services have several initial states; while another service runs     *)
(* they need only one.                                                      *)
ServicesInit ==
  /\ service \in {"debts", "fee", "book", "outbox", "cashu", "intake", "ratings", "prices",
                  "breaker"}
  /\ Init /\ Fee!Init /\ Book!Init /\ Out!Init /\ Cashu!Init /\ Gate!Init /\ Rate!Init
  /\ Price!Init /\ Breaker!Init
  /\ service # "book" => book_status = "pending"
  /\ service # "outbox" => turn = CHOOSE t \in [queue : Queues, head : {Out!NoHead}] : TRUE

ServicesNext ==
  \/ OfDebts(Next) \/ OfFee(Fee!Next) \/ OfBook(Book!Next)
  \/ OfOutbox(Out!Next) \/ OfCashu(Cashu!Next) \/ OfGate(Gate!Next)
  \/ OfRatings(Rate!Next) \/ OfPrices(Price!Next) \/ OfBreaker(Breaker!Next)

(* The fairness of the running service's own FairSpec.                      *)
Running(name, A) == service = name /\ A

ServicesFairness ==
  /\ WF_vars(Running("debts", Working))
  /\ WF_vars(Running("debts", apply_payout_invoice))
  /\ WF_vars(Running("debts", claim_window_elapses))
  /\ \A i \in Invoices : WF_vars(Running("debts", Resolving(i)))
  /\ \A k \in Debts : WF_vars(Running("debts", invoice_window_elapses(k)))
  /\ WF_feeVars(Running("fee", Fee!Phases))
  /\ WF_feeVars(Running("fee", Fee!marker_ages))
  /\ \A f \in Fee!Fees : WF_feeVars(Running("fee", Fee!Resolving(f)))
  /\ \A w \in Book!Handlers : WF_bookVars(Running("book", Book!Handling(w)))
  /\ \A w \in Book!Workers : WF_bookVars(Running("book", Book!Publishing(w)))
  /\ WF_bookVars(Running("book", Book!Reconciling))
  /\ WF_bookVars(Running("book", Book!tick))
  /\ WF_cashuVars(Running("cashu", Cashu!Handling))
  /\ \A o \in CashuOrders :
       /\ WF_cashuVars(Running("cashu", Cashu!Resubmit(o)))
       /\ WF_cashuVars(Running("cashu", Cashu!job_expire_pending_older_orders(o)))

ServicesSpec == ServicesInit /\ [][ServicesNext]_allVars /\ ServicesFairness

-----------------------------------------------------------------------------
(* process_one_bond: every debt leaves the queue (DebtResolved).            *)
DebtsResolved == []<>(service = "debts" => NoneOwed)

(* Phases 1 and 3: a fee that was paid is recorded, although the job may    *)
(* not have seen the outcome, and no PENDING marker stays for good.         *)
FeeRecorded == []<>(service = "fee" => Fee!Recorded)

(* A book left behind by a refused publish is brought up to date, unless    *)
(* the attempts are used up.                                                *)
BookConverges == <>[](service = "book" => Book!Follows \/ given_up)

(* add_cashu_escrow_action: a locked escrow's buyer is told, despite a      *)
(* crash after the commit.                                                  *)
BuyerInformed == []<>(service = "cashu" => Cashu!Informed)

(* manager.rs: nodes that relay each other's rates do not keep a price      *)
(* alive.                                                                   *)
ServedIsRecent == Price!ServedIsRecent

(* restrict_nostr_to_fallback: a currency some answer could price is        *)
(* priced, and no price blends relayed and own quotes.                      *)
FallbackIsExact == Price!FallbackIsExact
=============================================================================
