----------------------------- MODULE PriceRelay -----------------------------
(***************************************************************************)
(* The multi-source price module (src/src/price): every node polls its     *)
(* providers each interval, aggregates the quotes, stores them and         *)
(* publishes them as a Nostr event; the `nostr` provider of one node reads *)
(* the event of another, so nodes that trust each other form a ring.       *)
(*                                                                         *)
(* A price is abstracted to its age.  Every quote carries `seen`, the time *)
(* since a price API was really observed for its oldest ingredient: a      *)
(* history value no node can read, which the properties compare with what  *)
(* the code does track (as_of, created_at).  Quoted values matter only to  *)
(* the outlier filter; those of a relayed event are left open.  One unit   *)
(* of time is one update interval; a poll is short beside it.              *)
(***************************************************************************)
EXTENDS Integers, FiniteSetsExt

CONSTANTS
  Nodes,       \* the daemons; each trusts the rate events of all the others
  Scope,       \* for each node and enabled direct (PerBtc) provider, the currencies in its scope
  Crossing,    \* the nodes that enable the fiat-cross provider El Toque
  Values,      \* the values a provider may quote (0 is an unusable one)
  OutlierPct,  \* outlier_threshold_pct
  Staleness,   \* max_price_staleness_seconds: the TTL of a stored price and of a relayed event
  Lifetime,    \* the NIP-40 expiration of a rate event: two update intervals
  None

Currencies == {"USD", "CUP"}
Oldest == 3 * (Staleness + Lifetime)    \* bound: an age no served price may have
Age == 0..Oldest

VARIABLES
  store,     \* PriceStore: per node and currency, None or [as_of, seen]
  event,     \* the node's rate event on the relays: None or [created_at, rates]
  polled,    \* the nodes whose job sleeps until the next interval
  unpriced,  \* history: currencies a poll could price and the last tick did not
  mixed      \* history: currencies of the last tick that blend relayed and local quotes

vars == <<store, event, polled, unpriced, mixed>>

(* Ages grow with the clock; once the dating age is past `limit` nothing   *)
(* reads the entry as fresh again, and its age is no longer told apart.    *)
Aged(dated, age, limit) == IF dated >= limit THEN Oldest ELSE age + 1

-----------------------------------------------------------------------------
(* Aggregation (price/aggregate.rs).  A candidate is [id, value, seen].    *)

Clean(pairs) == {q \in pairs : q.value > 0}

(* The k-th smallest value.                                                *)
Ranked(pairs, k) ==
  CHOOSE v \in {q.value : q \in pairs} :
    /\ Cardinality({q \in pairs : q.value < v}) < k
    /\ Cardinality({q \in pairs : q.value <= v}) >= k

MiddleOf(pairs, n) ==
  IF n % 2 = 1 THEN Ranked(pairs, (n + 1) \div 2)
  ELSE (Ranked(pairs, n \div 2) + Ranked(pairs, n \div 2 + 1)) \div 2

median_sorted(pairs) == MiddleOf(pairs, Cardinality(pairs))

mean(pairs) == MapThenSumSet(LAMBDA q : q.value, pairs) \div Cardinality(pairs)

Near(clean, m) ==
  {q \in clean : 100 * (IF q.value > m THEN q.value - m ELSE m - q.value) <= OutlierPct * m}
InBand(clean) == Near(clean, median_sorted(clean))

combine(pairs) ==
  LET clean == Clean(pairs)
  IN IF Cardinality(clean) <= 2 THEN mean(clean)
     ELSE IF InBand(clean) = {} THEN median_sorted(clean) ELSE mean(InBand(clean))

kept_contributors(pairs) ==
  LET clean == Clean(pairs)
  IN IF Cardinality(clean) <= 2 \/ InBand(clean) = {} THEN clean ELSE InBand(clean)

OldestSeen(pairs) == Max({q.seen : q \in pairs})
Ids(pairs) == {q.id : q \in pairs}

(* One tick.  results is a set of quotes [id, currency, base, value, seen] *)
(* with base None for a direct (PerBtc) quote.                             *)
DirectQuotes(results, c) ==
  {[id |-> q.id, value |-> q.value, seen |-> q.seen] :
     q \in {r \in results : r.currency = c /\ r.base = None}}

Anchored(results) == {c \in Currencies : Clean(DirectQuotes(results, c)) # {}}

Resolved(results, c) ==
  LET anchored == Anchored(results)
  IN {[id |-> q.id, value |-> q.value * combine(DirectQuotes(results, q.base)),
       seen |-> Max({q.seen, OldestSeen(kept_contributors(DirectQuotes(results, q.base)))})] :
        q \in {r \in results : r.currency = c /\ r.base \in anchored}}

NostrAnchored(results, c) ==
  {q.id : q \in {r \in results :
     /\ r.currency = c
     /\ r.base \in Anchored(results)
     /\ "nostr" \in Ids(kept_contributors(DirectQuotes(results, r.base)))}}

Aggregate(kept, nostr_anchored) ==
  [contributors |-> Ids(kept), seen |-> OldestSeen(kept),
   nostr_anchor_dependent |-> Ids(kept) \cap nostr_anchored # {}]

aggregate_tick(results) ==
  LET candidates(c) == DirectQuotes(results, c) \cup Resolved(results, c)
      fresh == {c \in Currencies : Clean(candidates(c)) # {}}
  IN [c \in fresh |-> Aggregate(kept_contributors(candidates(c)), NostrAnchored(results, c))]

(* Mutant: a quote covers its currency even when its cross cannot resolve. *)
CoveredByKey(results) ==
  {q.currency : q \in {r \in results : r.id # "nostr"}}

(* A relayed quote only fills a gap no other provider can fill this tick.  *)
currencies_covered_by_non_nostr(results) ==
  LET anchored == Anchored(results)
  IN {q.currency : q \in {r \in results :
        r.id # "nostr" /\ r.value > 0 /\ (r.base = None \/ r.base \in anchored)}}

restrict_nostr_to_fallback(results) ==
  LET covered == currencies_covered_by_non_nostr(results)
  IN {q \in results : q.id # "nostr" \/ q.currency \notin covered}

(* Mutant: only the rates that are wholly relayed are withheld. *)
RepublishCrosses(aggregates) ==
  {c \in DOMAIN aggregates : aggregates[c].contributors # {"nostr"}}

(* What may be stamped with a new created_at: nothing a relayed rate is in. *)
republishable_rates(aggregates) ==
  {c \in DOMAIN aggregates :
     /\ aggregates[c].contributors # {"nostr"}
     /\ ~ aggregates[c].nostr_anchor_dependent}

-----------------------------------------------------------------------------
(* Polling: what each provider returns this tick, {} when it fails, times  *)
(* out, is skipped by its circuit breaker or reports nothing.              *)

scope_quotes(n, p) ==
  {{[id |-> p, currency |-> c, base |-> None, value |-> f[c], seen |-> 0] : c \in DOMAIN f} :
     f \in UNION {[T -> Values] : T \in SUBSET Scope[n][p]}}

ElToqueQuotes ==
  {{}, {[id |-> "eltoque", currency |-> "CUP", base |-> "USD", value |-> 1, seen |-> 0]}}

rank_candidates(n) ==
  {m \in Nodes \ {n} : /\ event[m] # None
                       /\ event[m].created_at <= Staleness
                       /\ event[m].created_at <= Lifetime}

RelayedFrom(m, v) ==
  {[id |-> "nostr", currency |-> c, base |-> None, value |-> v[c],
    seen |-> event[m].rates[c]] : c \in DOMAIN event[m].rates}

pick_first_usable(n) ==
  {m \in rank_candidates(n) :
     \A o \in rank_candidates(n) : event[m].created_at <= event[o].created_at}

NostrQuotes(n) ==
  {{}} \cup UNION {{RelayedFrom(m, v) : v \in [DOMAIN event[m].rates -> Values \ {0}]} :
                     m \in pick_first_usable(n)}

(* PriceManager::update_all followed by the sleep of the job.              *)
Publish(n, rates, aggregates) ==
  \/ event' = event
  \/ /\ rates # {}
     /\ event' = [event EXCEPT ![n] =
          [created_at |-> 0, rates |-> [c \in rates |-> aggregates[c].seen]]]

Apply(n, results, aggregates) ==
  /\ store' = [store EXCEPT ![n] = [c \in Currencies |->
        IF c \in DOMAIN aggregates THEN [as_of |-> 0, seen |-> aggregates[c].seen] ELSE @[c]]]
  /\ Publish(n, republishable_rates(aggregates), aggregates)
  /\ unpriced' = {q.currency : q \in {r \in results : r.value > 0 /\
                     (r.base = None \/ r.base \in Anchored(results))}} \ DOMAIN aggregates
  /\ mixed' = {c \in DOMAIN aggregates : "nostr" \in aggregates[c].contributors
                                         /\ aggregates[c].contributors # {"nostr"}}

update_all(n) ==
  /\ n \notin polled
  /\ polled' = polled \cup {n}
  /\ \E y \in scope_quotes(n, "yadio"), g \in scope_quotes(n, "coingecko"),
        x \in IF n \in Crossing THEN ElToqueQuotes ELSE {{}}, r \in NostrQuotes(n) :
       \E results \in {y \cup g \cup x \cup r} :
         Apply(n, results, aggregate_tick(restrict_nostr_to_fallback(results)))

(* The clock reaches the next interval.                                    *)
tick ==
  /\ polled = Nodes
  /\ polled' = {}
  /\ store' = [n \in Nodes |-> [c \in Currencies |->
        LET e == store[n][c]
        IN IF e = None THEN None
           ELSE [as_of |-> Aged(e.as_of, e.as_of, Staleness),
                 seen |-> Aged(e.as_of, e.seen, Staleness)]]]
  /\ event' = [n \in Nodes |->
        LET e == event[n]
            limit == Min({Staleness, Lifetime})
        IN IF e = None THEN None
           ELSE [created_at |-> Aged(e.created_at, e.created_at, limit),
                 rates |-> [c \in DOMAIN e.rates |-> Aged(e.created_at, e.rates[c], limit)]]]
  /\ UNCHANGED <<unpriced, mixed>>

Init ==
  /\ store = [n \in Nodes |-> [c \in Currencies |-> None]]
  /\ event = [n \in Nodes |-> None]
  /\ polled = {}
  /\ unpriced = {}
  /\ mixed = {}

Next == tick \/ \E n \in Nodes : update_all(n)

Spec == Init /\ [][Next]_vars

-----------------------------------------------------------------------------
(* The state has its shape.                                                *)
TypeOK ==
  /\ store \in [Nodes -> [Currencies -> {None} \cup [as_of : Age, seen : Age]]]
  /\ \A n \in Nodes : event[n] # None =>
       /\ event[n].created_at \in Age
       /\ DOMAIN event[n].rates \in SUBSET Currencies
       /\ \A c \in DOMAIN event[n].rates : event[n].rates[c] \in Age
  /\ polled \subseteq Nodes

(* get_price serves a stored price within the TTL.                         *)
get_price(n, c) == store[n][c] # None /\ store[n][c].as_of <= Staleness

(* Nodes that trust each other never keep a rate alive between them: what  *)
(* get_price serves was observed at a price API at most one event's usable *)
(* life plus one TTL ago, however many nodes relayed rates meanwhile.  It  *)
(* rests on republishable_rates never re-stamping a relayed rate, not even *)
(* one that only anchored a fiat cross, and on the age gate of             *)
(* rank_candidates.                                                        *)
ServedIsRecent ==
  \A n \in Nodes, c \in Currencies :
    get_price(n, c) => store[n][c].seen <= Staleness + Min({Staleness, Lifetime})

(* Relayed quotes fill exactly the gaps.  Restricting them to the gaps     *)
(* never opens one: a currency some answer of this tick could price        *)
(* (restrict_nostr_to_fallback before aggregate_tick) gets a fresh price   *)
(* in the tick.  And no price blends a relayed aggregate with this node's  *)
(* own observations, so one upstream quote is never counted twice.         *)
FallbackIsExact == unpriced = {} /\ mixed = {}
=============================================================================
