------------------------- MODULE PeerServicesProofs -------------------------
(***************************************************************************)
(* Proofs about the services of PeerServices, each for its own             *)
(* specification and for any value of its constants.                       *)
(***************************************************************************)
EXTENDS PeerServices, Sequences, TLAPS

(* Zenon closes most leaves at once; SMT takes those with arithmetic.       *)
USE ZenonT(3), SMTT(60), ZenonT(60)

-----------------------------------------------------------------------------
(***************************************************************************)
(* Facts about the data, used by the steps below.                          *)
(***************************************************************************)
(* A vote is the pair of its order and its side.                             *)
LEMMA VoteIsPair ==
  ASSUME NEW vote \in Rate!Votes
  PROVE  vote[1] \in RatedOrders /\ vote[2] \in Rate!Sides /\ vote = <<vote[1], vote[2]>>
  BY SMT DEF Rate!Votes

(* A day that is no earlier than another, and the day after it.              *)
LEMMA NextDay ==
  ASSUME NEW day \in Int, NEW later \in Int, later >= day
  PROVE  ~(day > later) /\ later + 1 > later
  BY SMT

(* Counting one more review of a user leaves every count a number.           *)
LEMMA ReviewCounted ==
  ASSUME NEW counts \in [Users -> Nat], NEW u \in Users
  PROVE  [counts EXCEPT ![u] = @ + 1] \in [Users -> Nat]
  BY SMT

-----------------------------------------------------------------------------
(***************************************************************************)
(* PriceHealth: the steps.                                                 *)
(***************************************************************************)
(* The configuration: the job sleeps between polls, and the base cooldown    *)
(* fits the type it is computed in.                                          *)
BreakerTerms ==
  /\ Interval \in Nat \ {0} /\ Threshold \in Nat /\ Base \in Nat /\ Cap \in Nat
  /\ Width \in Nat \ {0} /\ MaxCount \in Nat /\ Base < Breaker!Shifted[Width]

BreakerTyped ==
  /\ consecutive_failures \in [Providers -> Nat]
  /\ open_for \in [Providers -> 0..Cap]
  /\ sleep \in 0..Interval
  /\ unpolled \in [Providers -> Nat]

(* A provider that is out has used the rest of its cooldown, one that is in  *)
(* is polled when the job wakes; and a provider with failures was polled at  *)
(* the start of this sleep, or before.                                       *)
PolledInTime ==
  \A p \in Providers :
    /\ open_for[p] > 0 => unpolled[p] + open_for[p] <= Cap
    /\ open_for[p] = 0 => unpolled[p] + sleep <= Breaker!LongestGap
    /\ consecutive_failures[p] > 0 => unpolled[p] + sleep >= Interval

BreakerInv == BreakerTyped /\ PolledInTime

(* What the invariant needs of the cooldown; CooldownBounds, below, shows it. *)
CooldownFits ==
  \A n \in Nat : n >= Breaker!failure_threshold =>
    Breaker!Cooldown(n) \in 0..Cap /\ Breaker!Cooldown(n) >= Breaker!Least(Base, Cap)

(* Every circuit is closed at the start.                                    *)
LEMMA BreakerInit ==
  ASSUME BreakerTerms, Breaker!Init
  PROVE  BreakerInv
  BY DEF BreakerTerms, Breaker!Init, BreakerInv, BreakerTyped, PolledInTime, Breaker!LongestGap

(* What one poll makes of a provider's health.                               *)
LEMMA BreakerPolls ==
  ASSUME BreakerTerms, CooldownFits, BreakerInv, Breaker!update_all, NEW p \in Providers
  PROVE  /\ sleep = 0 /\ sleep' = Interval
         /\ consecutive_failures'[p] \in Nat /\ open_for'[p] \in 0..Cap /\ unpolled'[p] \in Nat
         /\ Breaker!is_available(p) => unpolled'[p] = 0
         /\ Breaker!is_available(p) /\ p \notin answering
              /\ consecutive_failures'[p] >= Breaker!failure_threshold =>
              open_for'[p] >= Breaker!Least(Base, Cap)
         /\ ~Breaker!is_available(p) =>
              /\ consecutive_failures'[p] = consecutive_failures[p] /\ open_for'[p] = open_for[p]
              /\ unpolled'[p] = unpolled[p]
  <1>0. sleep = 0 /\ sleep' = Interval
    BY Zenon DEF Breaker!update_all
  <1>t. consecutive_failures[p] \in Nat /\ open_for[p] \in 0..Cap /\ unpolled[p] \in Nat
    BY Zenon DEF BreakerInv, BreakerTyped
  <1>1. CASE ~Breaker!is_available(p)
    <2>1. /\ consecutive_failures'[p] = consecutive_failures[p] /\ open_for'[p] = open_for[p]
          /\ unpolled'[p] = unpolled[p]
      BY <1>1 DEF Breaker!update_all
    <2>2. QED
      BY Zenon, <1>0, <1>1, <1>t, <2>1
  <1>2. CASE Breaker!is_available(p) /\ p \in answering
    <2>1. consecutive_failures'[p] = 0 /\ open_for'[p] = 0 /\ unpolled'[p] = 0
      BY Zenon, <1>2 DEF Breaker!update_all, Breaker!record_success
    <2>2. 0 \in Nat /\ 0 \in 0..Cap
      BY DEF BreakerTerms
    <2>3. QED
      BY Zenon, <1>0, <1>2, <2>1, <2>2
  <1>3. CASE Breaker!is_available(p) /\ p \notin answering
    <2> DEFINE n == Breaker!Least(consecutive_failures[p] + 1, MaxCount)
    <2>1. /\ consecutive_failures'[p] = n /\ unpolled'[p] = 0
          /\ open_for'[p] = IF n < Breaker!failure_threshold THEN open_for[p]
                            ELSE Breaker!Cooldown(n)
      BY Zenon, <1>3 DEF Breaker!update_all, Breaker!record_failure
    <2>2. n \in Nat
      BY <1>t DEF Breaker!Least, BreakerTerms
    <2> HIDE DEF n
    <2>3. Breaker!failure_threshold \in Nat
      BY Zenon DEF Breaker!failure_threshold, BreakerTerms
    <2>0. 0 \in Nat
      OBVIOUS
    <2>4. CASE n < Breaker!failure_threshold
      <3>1. ~(n >= Breaker!failure_threshold)
        BY <2>2, <2>3, <2>4
      <3>2. QED
        BY Zenon, <1>0, <1>3, <1>t, <2>0, <2>1, <2>2, <2>4, <3>1
    <2>5. CASE ~(n < Breaker!failure_threshold)
      <3>1. n >= Breaker!failure_threshold
        BY <2>2, <2>3, <2>5
      <3>2. Breaker!Cooldown(n) \in 0..Cap /\ Breaker!Cooldown(n) >= Breaker!Least(Base, Cap)
        BY Zenon, <2>2, <3>1 DEF CooldownFits
      <3>3. QED
        BY Zenon, <1>0, <1>3, <2>0, <2>1, <2>2, <2>5, <3>2
    <2>6. QED
      BY Zenon, <2>4, <2>5
  <1>4. QED
    BY Zenon, <1>1, <1>2, <1>3

(* update_all: what a poll does to the counters.                            *)
LEMMA BreakerUpdates ==
  ASSUME BreakerTerms, CooldownFits, BreakerInv, Breaker!update_all
  PROVE  BreakerInv'
  <1>1. sleep' = Interval /\ sleep = 0
    BY Zenon DEF Breaker!update_all
  <1>2. BreakerTyped'
    <2>1. consecutive_failures' \in [Providers -> Nat]
      <3>1. consecutive_failures' = [p \in Providers |-> consecutive_failures'[p]]
        BY DEF Breaker!update_all
      <3>2. QED
        BY Zenon, <3>1, BreakerPolls
    <2>2. open_for' \in [Providers -> 0..Cap]
      <3>1. open_for' = [p \in Providers |-> open_for'[p]]
        BY DEF Breaker!update_all
      <3>2. QED
        BY Zenon, <3>1, BreakerPolls
    <2>3. unpolled' \in [Providers -> Nat]
      <3>1. unpolled' = [p \in Providers |-> unpolled'[p]]
        BY Zenon DEF Breaker!update_all
      <3>2. QED
        BY Zenon, <3>1, BreakerPolls
    <2>4. QED
      BY <1>1, <2>1, <2>2, <2>3 DEF BreakerTyped, BreakerTerms
  <1>3. ASSUME NEW p \in Providers
        PROVE  /\ open_for'[p] > 0 => unpolled'[p] + open_for'[p] <= Cap
               /\ open_for'[p] = 0 => unpolled'[p] + sleep' <= Breaker!LongestGap
               /\ consecutive_failures'[p] > 0 => unpolled'[p] + sleep' >= Interval
    <2>1. CASE Breaker!is_available(p)
      <3>1. unpolled'[p] = 0 /\ open_for'[p] \in 0..Cap
        BY Zenon, <2>1, BreakerPolls
      <3>2. QED
        BY SMTT(30), <1>1, <3>1 DEF Breaker!LongestGap, BreakerTerms
    <2>2. CASE ~Breaker!is_available(p)
      <3>1. open_for'[p] = open_for[p] /\ unpolled'[p] = unpolled[p]
        BY <2>2, BreakerPolls
      <3>2. open_for[p] # 0 /\ open_for[p] \in 0..Cap /\ unpolled[p] \in Nat
        BY Zenon, <2>2 DEF Breaker!is_available, BreakerInv, BreakerTyped
      <3>3. open_for[p] > 0 => unpolled[p] + open_for[p] <= Cap
        BY Zenon DEF BreakerInv, PolledInTime
      <3>4. QED
        BY SMTT(30), <1>1, <3>1, <3>2, <3>3 DEF BreakerTerms
    <2>3. QED
      BY Zenon, <2>1, <2>2
  <1>4. QED
    BY <1>2, <1>3 DEF BreakerInv, PolledInTime

(* The clock moves to the next poll.                                        *)
LEMMA BreakerTicks ==
  ASSUME BreakerTerms, BreakerInv, Breaker!tick
  PROVE  BreakerInv'
  <1>1. sleep \in 1..Interval /\ sleep' = sleep - 1 /\ consecutive_failures' = consecutive_failures
    BY SMTT(30) DEF Breaker!tick, BreakerInv, BreakerTyped, BreakerTerms
  <1>2. ASSUME NEW p \in Providers
        PROVE  /\ open_for'[p] \in 0..Cap /\ unpolled'[p] \in Nat
               /\ open_for'[p] > 0 => unpolled'[p] + open_for'[p] <= Cap
               /\ open_for'[p] = 0 => unpolled'[p] + sleep' <= Breaker!LongestGap
               /\ consecutive_failures'[p] > 0 => unpolled'[p] + sleep' >= Interval
    <2>1. /\ consecutive_failures[p] \in Nat /\ open_for[p] \in 0..Cap /\ unpolled[p] \in Nat
          /\ open_for[p] > 0 => unpolled[p] + open_for[p] <= Cap
          /\ open_for[p] = 0 => unpolled[p] + sleep <= Breaker!LongestGap
          /\ consecutive_failures[p] > 0 => unpolled[p] + sleep >= Interval
      BY Zenon DEF BreakerInv, BreakerTyped, PolledInTime
    <2>2. /\ open_for'[p] = (IF open_for[p] > 0 THEN open_for[p] - 1 ELSE 0)
          /\ unpolled'[p] = Breaker!Least(unpolled[p] + 1, Breaker!LongestGap + 1)
      BY DEF Breaker!tick
    <2>3. Breaker!LongestGap = Cap + Interval /\ Cap \in Nat /\ Interval \in Nat
      BY DEF Breaker!LongestGap, BreakerTerms
    <2>4. unpolled[p] + 1 <= Breaker!LongestGap
      <3>1. CASE open_for[p] > 0
        BY <2>1, <2>3, <3>1 DEF BreakerTerms
      <3>2. CASE open_for[p] = 0
        BY <1>1, <2>1, <2>3, <3>2
      <3>3. QED
        BY <2>1, <2>3, <3>1, <3>2
    <2>5. unpolled'[p] = unpolled[p] + 1
      BY <2>1, <2>2, <2>3, <2>4 DEF Breaker!Least
    <2>6. QED
      BY <1>1, <2>1, <2>2, <2>3, <2>5
  <1>3. open_for' \in [Providers -> 0..Cap] /\ unpolled' \in [Providers -> Nat]
    <2>1. open_for' = [p \in Providers |-> open_for'[p]]
            /\ unpolled' = [p \in Providers |-> unpolled'[p]]
      BY DEF Breaker!tick
    <2>2. QED
      BY Zenon, <1>2, <2>1
  <1>4. BreakerTyped'
    BY <1>1, <1>3 DEF BreakerInv, BreakerTyped, BreakerTerms
  <1>5. QED
    BY <1>2, <1>4 DEF BreakerInv, PolledInTime

(* The invariant is kept.                                                   *)
LEMMA BreakerNext ==
  ASSUME BreakerTerms, CooldownFits, BreakerInv, [Breaker!Next]_(Breaker!vars)
  PROVE  BreakerInv'
  <1>1. CASE (\E p \in Providers : Breaker!toggle(p)) \/ UNCHANGED Breaker!vars
    <2>1. UNCHANGED <<consecutive_failures, open_for, sleep, unpolled>>
      BY Zenon, <1>1 DEF Breaker!toggle, Breaker!vars
    <2>2. QED
      BY <2>1 DEF BreakerInv, BreakerTyped, PolledInTime
  <1>2. QED
    BY <1>1, BreakerUpdates, BreakerTicks DEF Breaker!Next

(* After a step no provider has waited longer than the longest gap.          *)
LEMMA BreakerStep ==
  ASSUME BreakerTerms, CooldownFits, BreakerInv, [Breaker!Next]_(Breaker!vars)
  PROVE  [Breaker!BackoffStep]_(Breaker!vars)
  <1> SUFFICES ASSUME Breaker!Next PROVE Breaker!BackoffStep
    BY Zenon
  <1> SUFFICES ASSUME NEW p \in Providers
               PROVE  /\ unpolled'[p] <= Breaker!LongestGap
                      /\ (unpolled'[p] = 0 /\ p \notin answering /\ sleep = 0
                           /\ Breaker!is_available(p)
                           /\ consecutive_failures'[p] >= Breaker!failure_threshold)
                            => open_for'[p] >= Breaker!Least(Base, Cap)
    BY DEF Breaker!BackoffStep
  <1>1. unpolled'[p] <= Breaker!LongestGap
    <2>1. BreakerInv'
      BY Zenon, BreakerNext
    <2>2. /\ open_for'[p] \in 0..Cap /\ unpolled'[p] \in Nat /\ sleep' \in 0..Interval
          /\ open_for'[p] > 0 => unpolled'[p] + open_for'[p] <= Cap
          /\ open_for'[p] = 0 => unpolled'[p] + sleep' <= Breaker!LongestGap
      BY <2>1 DEF BreakerInv, BreakerTyped, PolledInTime
    <2>3. Breaker!LongestGap = Cap + Interval /\ Cap \in Nat /\ Interval \in Nat
      BY DEF Breaker!LongestGap, BreakerTerms
    <2>4. QED
      BY <2>2, <2>3
  <1>2. ASSUME unpolled'[p] = 0, p \notin answering, sleep = 0, Breaker!is_available(p),
               consecutive_failures'[p] >= Breaker!failure_threshold
        PROVE  open_for'[p] >= Breaker!Least(Base, Cap)
    <2>1. CASE Breaker!update_all
      BY Zenon, <1>2, <2>1, BreakerPolls
    <2>2. CASE Breaker!tick
      BY SMTT(30), <1>2, <2>2 DEF Breaker!tick
    <2>3. CASE \E q \in Providers : Breaker!toggle(q)
      <3>1. consecutive_failures' = consecutive_failures /\ unpolled' = unpolled
        BY <2>3 DEF Breaker!toggle
      <3>2. consecutive_failures[p] \in Nat /\ unpolled[p] = 0
            /\ (consecutive_failures[p] > 0 => unpolled[p] + sleep >= Interval)
        BY <1>2, <3>1 DEF BreakerInv, BreakerTyped, PolledInTime
      <3>3. Breaker!failure_threshold \in Nat \ {0}
        BY SMTT(30) DEF Breaker!failure_threshold, BreakerTerms
      <3>4. consecutive_failures[p] > 0
        BY <1>2, <3>1, <3>2, <3>3
      <3>5. QED
        BY <1>2, <3>2, <3>4 DEF BreakerTerms
    <2>4. QED
      BY Zenon, <2>1, <2>2, <2>3 DEF Breaker!Next
  <1>3. QED
    BY <1>1, <1>2

-----------------------------------------------------------------------------
(***************************************************************************)
(* CashuEscrow: the invariant.                                             *)
(***************************************************************************)
(* The column without a token is no token, and the floor is a number of days. *)
CashuTerms == Nothing \notin Cashu!Tokens /\ Floor \in Nat

CashuTyped ==
  /\ row \in [CashuOrders -> Cashu!Rows]
  /\ cashu_job \in [step : {"idle", "claim", "write", "lock", "refetch", "persist", "notify"},
              order : CashuOrders \cup {Nothing}, token : Cashu!Tokens \cup {Nothing},
                copy : Cashu!Rows]
  /\ expirer \in SUBSET CashuOrders /\ late \in SUBSET CashuOrders

(* Every token in a row passed the handler's checks and is in that row only; *)
(* a row without its token is not active, unless the expiry job wrote it.    *)
HeldAreVerified ==
  \A o \in CashuOrders :
    /\ row[o].token # Nothing => Cashu!verify_escrow_token(row[o].token)
    /\ row[o].token # Nothing => \A p \in CashuOrders \ {o} : row[p].token # row[o].token
    /\ row[o].status = "pending" => row[o].token = Nothing
    /\ row[o].status = "active" /\ o \notin clobbered => row[o].token # Nothing

(* What the main loop knows at its steps.                                   *)
JobKnows ==
  /\ cashu_job.step # "idle" => cashu_job.order \in CashuOrders
  /\ cashu_job.step \in {"claim", "write"} => cashu_job.copy.token = Nothing
  /\ cashu_job.step \in {"lock", "refetch", "persist"} =>
       cashu_job.token \in Cashu!Tokens /\ Cashu!verify_escrow_token(cashu_job.token)
  /\ cashu_job.step \in {"refetch", "persist"} =>
       /\ \A p \in CashuOrders \ {cashu_job.order} : row[p].token # cashu_job.token
       /\ row[cashu_job.order].token \in {Nothing, cashu_job.token}
       /\ cashu_job.order \notin clobbered => row[cashu_job.order].token = cashu_job.token
  /\ cashu_job.step = "persist" =>
       /\ cashu_job.copy.token \in {Nothing, cashu_job.token}
       /\ cashu_job.order \notin clobbered => cashu_job.copy.token = cashu_job.token

CashuInv == CashuTyped /\ HeldAreVerified /\ JobKnows

-----------------------------------------------------------------------------
(* The floor is an integer.                                                  *)
LEMMA FloorIsInt ==
  ASSUME CashuTerms
  PROVE  Floor \in Int
  BY SMT DEF CashuTerms

(* A token's locktime is a number, whichever term of it was changed.         *)
LEMMA TokenLocktime ==
  ASSUME CashuTerms, NEW t \in Cashu!Tokens
  PROVE  t.locktime \in Int
  <1>1. ASSUME NEW id PROVE Cashu!Genuine(id).locktime \in Int
    BY DEF CashuTerms, Cashu!Genuine
  <1>2. CASE t \in {Cashu!Genuine(1), Cashu!Genuine(2)}
    BY <1>1, <1>2
  <1>3. CASE t \in Cashu!Variants(Cashu!Genuine(1))
    <2> DEFINE g == Cashu!Genuine(1)
    <2>0. g \in [id : {1}, kind : {"P2PK"}, double_tags : BOOLEAN, sig_flag : {"inputs"},
            n_sigs : {2},
                 signers : {{"buyer", "seller", "mostro"}}, locktime : Int, refund : {{"seller"}},
                 n_sigs_refund : {0}, mint : {"ours"}, unit : {"sat"}, repeated : BOOLEAN,
                 value : {Cashu!Amount}, issued : BOOLEAN, spent : BOOLEAN]
      <3>1. Floor \in Int
        BY DEF CashuTerms
      <3>2. QED
        BY <3>1, Zenon DEF Cashu!Genuine
    <2>1. g.locktime \in Int
      BY <1>1
    <2> HIDE DEF g
    <2>2. CASE \/ t = [g EXCEPT !.kind = "HTLC"] \/ t = [g EXCEPT !.sig_flag = "all"]
               \/ t = [g EXCEPT !.mint = "theirs"] \/ t = [g EXCEPT !.unit = "msat"]
      BY <2>0, <2>2
    <2>8. CASE t = [g EXCEPT !.value = 2 * Cashu!Amount]
      BY <2>0, <2>8
    <2>9. CASE t = [g EXCEPT !.value = 2 * Cashu!Amount, !.repeated = TRUE]
      BY <2>0, <2>9
    <2>10. CASE \/ t = [g EXCEPT !.double_tags = TRUE] \/ t = [g EXCEPT !.repeated = TRUE]
                \/ t = [g EXCEPT !.issued = FALSE] \/ t = [g EXCEPT !.spent = TRUE]
      BY <2>0, <2>10
    <2>3. CASE \E l \in {0, Floor - 1, Floor + 1} : t = [g EXCEPT !.locktime = l]
      BY <2>0, <2>3 DEF CashuTerms
    <2>4. CASE \E n \in {1, 3} : t = [g EXCEPT !.n_sigs = n]
      BY <2>0, <2>4
    <2>5. CASE \E n \in {1, 2} : t = [g EXCEPT !.n_sigs_refund = n]
      BY <2>0, <2>5
    <2>6. CASE \E s \in Cashu!KeySets : t = [g EXCEPT !.signers = s]
      BY <2>0, <2>6
    <2>7. CASE \E s \in Cashu!KeySets : t = [g EXCEPT !.refund = s]
      BY <2>0, <2>7
    <2> QED
      BY <1>3, <2>2, <2>3, <2>4, <2>5, <2>6, <2>7, <2>8, <2>9, <2>10 DEF Cashu!Variants, g
  <1>4. QED
    BY <1>2, <1>3 DEF Cashu!Tokens

-----------------------------------------------------------------------------
(* No order has a token at the start.                                       *)
LEMMA CashuInit ==
  ASSUME CashuTerms, Cashu!Init
  PROVE  CashuInv
  <1>1. Cashu!Fresh \in Cashu!Rows
    BY DEF Cashu!Fresh, Cashu!Rows
  <1>2. CashuTyped
    BY <1>1 DEF Cashu!Init, Cashu!Idle, CashuTyped
  <1>3. HeldAreVerified
    BY DEF Cashu!Init, HeldAreVerified, Cashu!Fresh
  <1>4. JobKnows
    BY DEF Cashu!Init, JobKnows, Cashu!Idle
  <1>5. QED
    BY <1>2, <1>3, <1>4 DEF CashuInv

(* A main loop that is not in a handler knows nothing.                       *)
LEMMA IdleKnows ==
  ASSUME cashu_job' = Cashu!Idle
  PROVE  JobKnows' /\ (CashuTerms => cashu_job' \in [step : {"idle", "claim", "write", "lock",
    "refetch",
           "persist", "notify"}, order : CashuOrders \cup {Nothing},
             token : Cashu!Tokens \cup {Nothing}, copy : Cashu!Rows])
  <1>1. Cashu!Fresh \in Cashu!Rows
    BY DEF Cashu!Fresh, Cashu!Rows
  <1>2. QED
    BY <1>1 DEF Cashu!Idle, JobKnows

(* take_sell_action: the handler copies a row that is still pending.        *)
LEMMA CashuTakes ==
  ASSUME CashuTerms, CashuInv, NEW o \in CashuOrders, Cashu!take_sell_action(o)
  PROVE  CashuInv'
  <1> USE DEF CashuInv
  <1>1. Cashu!Fresh \in Cashu!Rows /\ row[o] \in Cashu!Rows
    BY DEF Cashu!Fresh, Cashu!Rows, CashuTyped
  <1>2. CashuTyped'
    BY Zenon, <1>1 DEF Cashu!take_sell_action, CashuTyped, Cashu!Idle
  <1>3. HeldAreVerified'
    BY DEF Cashu!take_sell_action, HeldAreVerified
  <1>4. JobKnows'
    BY DEF Cashu!take_sell_action, HeldAreVerified, JobKnows, Cashu!Idle
  <1>5. QED
    BY <1>2, <1>3, <1>4

(* claim_order_status: a claim writes no token.                             *)
LEMMA CashuClaims ==
  ASSUME CashuTerms, CashuInv, Cashu!claim_order_status
  PROVE  CashuInv'
  <1> USE DEF CashuInv
  <1>0. cashu_job.order \in CashuOrders /\ cashu_job.copy.token = Nothing
    BY DEF Cashu!claim_order_status, Cashu!At, JobKnows
  <1>1. CASE row[cashu_job.order].status = "pending" /\ row[cashu_job.order].token = Nothing
    <2>1. row' = [row EXCEPT ![cashu_job.order].status = "waiting-payment"]
          /\ cashu_job' = [cashu_job EXCEPT !.step = "write"] /\ clobbered' = clobbered
          /\ expirer' = expirer /\ late' = late
      BY <1>1 DEF Cashu!claim_order_status, Cashu!Goto
    <2>2. CashuTyped'
      BY <1>0, <2>1 DEF CashuTyped, Cashu!Rows
    <2>3. \A o \in CashuOrders : row'[o].token = row[o].token
      BY <2>1 DEF CashuTyped, Cashu!Rows
    <2>4. \A o \in CashuOrders : row'[o].status \in {"pending",
            "active"} => row'[o].status = row[o].status
      BY <2>1 DEF CashuTyped, Cashu!Rows
    <2>5. HeldAreVerified'
      BY <2>1, <2>3, <2>4 DEF HeldAreVerified
    <2>6. JobKnows'
      BY <1>0, <2>1 DEF CashuTyped, JobKnows
    <2>7. QED
      BY <2>2, <2>5, <2>6
  <1>2. CASE ~(row[cashu_job.order].status = "pending" /\ row[cashu_job.order].token = Nothing)
    <2>1. cashu_job' = Cashu!Idle /\ UNCHANGED <<row, late, expirer, informed, clobbered,
                                                 cashu_faults>>
      BY <1>2 DEF Cashu!claim_order_status
    <2>2. CashuTyped'
      BY <2>1, IdleKnows DEF CashuTyped
    <2>3. QED
      BY <2>1, <2>2, IdleKnows DEF HeldAreVerified
  <1>3. QED
    BY <1>1, <1>2

(* show_cashu_escrow_request writes the copy, which has no token.           *)
LEMMA CashuAsks ==
  ASSUME CashuTerms, CashuInv, Cashu!show_cashu_escrow_request
  PROVE  CashuInv'
  <1> USE DEF CashuInv
  <1>0. cashu_job.order \in CashuOrders /\ cashu_job.copy.token = Nothing
          /\ cashu_job.copy \in Cashu!Rows
    BY DEF Cashu!show_cashu_escrow_request, Cashu!At, JobKnows, CashuTyped
  <1>1. cashu_job' = Cashu!Idle /\ UNCHANGED <<late, expirer, clobbered>>
    BY DEF Cashu!show_cashu_escrow_request
  <1>2. CASE UNCHANGED row
    <2>1. CashuTyped'
      BY <1>1, <1>2, IdleKnows DEF CashuTyped
    <2>2. QED
      BY <1>1, <1>2, <2>1, IdleKnows DEF HeldAreVerified
  <1>3. CASE row' = [row EXCEPT ![cashu_job.order] =
                       [cashu_job.copy EXCEPT !.status = "waiting-payment", !.taken = TRUE]]
    <2> DEFINE new == [cashu_job.copy EXCEPT !.status = "waiting-payment", !.taken = TRUE]
    <2>1. new \in Cashu!Rows /\ new.token = Nothing /\ new.status = "waiting-payment"
      BY Zenon, <1>0 DEF Cashu!Rows
    <2>2. row' = [row EXCEPT ![cashu_job.order] = new]
      BY <1>3
    <2> HIDE DEF new
    <2>3. CashuTyped'
      BY <1>1, <1>0, <2>1, <2>2, IdleKnows DEF CashuTyped
    <2>4. \A o \in CashuOrders : row'[o] = IF o = cashu_job.order THEN new ELSE row[o]
      BY <1>0, <2>2 DEF CashuTyped
    <2>5. HeldAreVerified'
      BY <1>1, <2>1, <2>4 DEF HeldAreVerified
    <2>6. QED
      BY <1>1, <2>3, <2>5, IdleKnows
  <1>4. QED
    BY <1>2, <1>3 DEF Cashu!show_cashu_escrow_request

(* add_cashu_escrow_action: only a token that passes the checks goes on to  *)
(* the lock.                                                                *)
LEMMA CashuSubmits ==
  ASSUME CashuTerms, CashuInv, NEW o \in CashuOrders, NEW t \in Cashu!Tokens,
    Cashu!add_cashu_escrow_action(o, t)
  PROVE  CashuInv'
  <1> USE DEF CashuInv
  <1>1. UNCHANGED <<row, late, expirer, clobbered>>
    BY DEF Cashu!add_cashu_escrow_action
  <1>2. CASE UNCHANGED cashu_job
    BY <1>1, <1>2 DEF CashuTyped, HeldAreVerified, JobKnows
  <1>3. CASE /\ Cashu!verify_escrow_token(t)
             /\ cashu_job' = [Cashu!Idle EXCEPT !.step = "lock", !.order = o, !.token = t,
                  !.copy = row[o]]
    <2>1. row[o] \in Cashu!Rows
      BY DEF CashuTyped
    <2>2. CashuTyped'
      BY Zenon, <1>1, <1>3, <2>1 DEF CashuTyped, Cashu!Idle
    <2>3. JobKnows'
      BY <1>3 DEF JobKnows, Cashu!Idle
    <2>4. QED
      BY <1>1, <2>2, <2>3 DEF HeldAreVerified
  <1>4. QED
    BY <1>2, <1>3 DEF Cashu!add_cashu_escrow_action

(* update_order_cashu_escrow: the row takes the token unless another row    *)
(* has it.                                                                  *)
LEMMA CashuLocks ==
  ASSUME CashuTerms, CashuInv, Cashu!update_order_cashu_escrow
  PROVE  CashuInv'
  <1> USE DEF CashuInv
  <1>0. cashu_job.order \in CashuOrders /\ cashu_job.token \in Cashu!Tokens
          /\ Cashu!verify_escrow_token(cashu_job.token)
    BY DEF Cashu!update_order_cashu_escrow, Cashu!At, JobKnows
  <1>1. CASE /\ row[cashu_job.order].status = "waiting-payment"
          /\ row[cashu_job.order].token = Nothing
             /\ ~Cashu!cashu_escrow_token_in_use(cashu_job.order, cashu_job.token)
    <2> DEFINE new == [row[cashu_job.order] EXCEPT !.status = "active", !.token = cashu_job.token]
    <2>1. row' = [row EXCEPT ![cashu_job.order].status = "active",
            ![cashu_job.order].token = cashu_job.token]
          /\ cashu_job' = [cashu_job EXCEPT !.step = "refetch"] /\ clobbered' = clobbered
          /\ expirer' = expirer /\ late' = late
      BY <1>1 DEF Cashu!update_order_cashu_escrow, Cashu!Goto
    <2>2. row[cashu_job.order] \in Cashu!Rows
      BY <1>0 DEF CashuTyped
    <2>3. new \in Cashu!Rows /\ new.token = cashu_job.token /\ new.status = "active"
      BY Zenon, <1>0, <2>2 DEF Cashu!Rows
    <2>4. row' = [row EXCEPT ![cashu_job.order] = new]
      BY Zenon, <1>0, <2>1 DEF CashuTyped
    <2> HIDE DEF new
    <2>5. CashuTyped'
      BY <1>0, <2>1, <2>3, <2>4 DEF CashuTyped
    <2>6. \A o \in CashuOrders : row'[o] = IF o = cashu_job.order THEN new ELSE row[o]
      BY <1>0, <2>4 DEF CashuTyped
    <2>7. \A p \in CashuOrders \ {cashu_job.order} : row[p].token # cashu_job.token
      BY <1>1 DEF Cashu!cashu_escrow_token_in_use
    <2>8. cashu_job.token # Nothing
      BY <1>0 DEF CashuTerms
    <2>9. HeldAreVerified'
      <3>1. ASSUME NEW o \in CashuOrders, row'[o].token # Nothing
            PROVE  /\ Cashu!verify_escrow_token(row'[o].token)
                   /\ \A p \in CashuOrders \ {o} : row'[p].token # row'[o].token
        <4>1. CASE o = cashu_job.order
          BY <1>0, <2>3, <2>6, <2>7, <4>1
        <4>2. CASE o # cashu_job.order
          BY <1>0, <2>3, <2>6, <2>7, <3>1, <4>2 DEF HeldAreVerified
        <4>3. QED
          BY <4>1, <4>2
      <3>2. ASSUME NEW o \in CashuOrders
            PROVE  /\ row'[o].status = "pending" => row'[o].token = Nothing
                   /\ row'[o].status = "active" /\ o \notin clobbered' => row'[o].token # Nothing
        BY ZenonT(60), <2>1, <2>3, <2>6, <2>8 DEF HeldAreVerified
      <3>3. QED
        BY <3>1, <3>2, Zenon DEF HeldAreVerified
    <2>10. cashu_job'.step = "refetch" /\ cashu_job'.order = cashu_job.order
             /\ cashu_job'.token = cashu_job.token
      BY <2>1 DEF CashuTyped
    <2>11. JobKnows'
      <3>1. \A p \in CashuOrders \ {cashu_job.order} : row'[p].token # cashu_job.token
        BY Zenon, <2>6, <2>7
      <3>2. row'[cashu_job.order].token = cashu_job.token
        BY Zenon, <1>0, <2>3, <2>6
      <3>3. QED
        BY <1>0, <2>10, <3>1, <3>2 DEF JobKnows
    <2>12. QED
      BY <2>5, <2>9, <2>11
  <1>2. CASE cashu_job' = Cashu!Idle /\ UNCHANGED row
    <2>1. UNCHANGED <<late, expirer, clobbered>>
      BY DEF Cashu!update_order_cashu_escrow
    <2>2. CashuTyped'
      BY <1>2, <2>1, IdleKnows DEF CashuTyped
    <2>3. QED
      BY <1>2, <2>1, <2>2, IdleKnows DEF HeldAreVerified
  <1>3. QED
    BY <1>1, <1>2 DEF Cashu!update_order_cashu_escrow

(* The row is read again after the lock.                                    *)
LEMMA CashuRefetches ==
  ASSUME CashuTerms, CashuInv, Cashu!refetch
  PROVE  CashuInv'
  <1> USE DEF CashuInv
  <1>1. cashu_job.order \in CashuOrders /\ cashu_job.step = "refetch"
          /\ row[cashu_job.order] \in Cashu!Rows
    BY DEF Cashu!refetch, Cashu!At, JobKnows, CashuTyped
  <1>2. cashu_job' = [cashu_job EXCEPT !.step = "persist", !.copy = row[cashu_job.order]]
        /\ UNCHANGED <<row, late, expirer, clobbered>>
    BY DEF Cashu!refetch
  <1>3. CashuTyped'
    BY Zenon, <1>1, <1>2 DEF CashuTyped
  <1>4. cashu_job'.step = "persist" /\ cashu_job'.order = cashu_job.order
          /\ cashu_job'.token = cashu_job.token
        /\ cashu_job'.copy = row[cashu_job.order]
    BY <1>2 DEF CashuTyped
  <1>5. JobKnows'
    BY <1>1, <1>2, <1>4 DEF JobKnows
  <1>6. QED
    BY <1>2, <1>3, <1>5 DEF HeldAreVerified

(* The last write of the handler puts back the token it read.               *)
LEMMA CashuPersists ==
  ASSUME CashuTerms, CashuInv, Cashu!persist_event
  PROVE  CashuInv'
  <1> USE DEF CashuInv
  <1>0. /\ cashu_job.order \in CashuOrders /\ cashu_job.step = "persist"
             /\ cashu_job.copy \in Cashu!Rows
        /\ cashu_job.token \in Cashu!Tokens /\ Cashu!verify_escrow_token(cashu_job.token)
        /\ \A p \in CashuOrders \ {cashu_job.order} : row[p].token # cashu_job.token
        /\ cashu_job.copy.token \in {Nothing, cashu_job.token}
        /\ cashu_job.order \notin clobbered => cashu_job.copy.token = cashu_job.token
    BY DEF Cashu!persist_event, Cashu!At, JobKnows, CashuTyped
  <1>1. cashu_job' = [cashu_job EXCEPT !.step = "notify"] /\ UNCHANGED <<late, expirer, clobbered>>
    BY DEF Cashu!persist_event, Cashu!Goto
  <1>2. cashu_job'.step = "notify" /\ cashu_job'.order = cashu_job.order
    BY <1>1 DEF CashuTyped
  <1>3. JobKnows'
    BY <1>0, <1>2 DEF JobKnows
  <1>4. CASE UNCHANGED row
    <2>1. CashuTyped'
      BY <1>1, <1>4 DEF CashuTyped
    <2>2. QED
      BY <1>1, <1>3, <1>4, <2>1 DEF HeldAreVerified
  <1>5. CASE row' = [row EXCEPT ![cashu_job.order] = [cashu_job.copy EXCEPT !.status = "active"]]
    <2> DEFINE new == [cashu_job.copy EXCEPT !.status = "active"]
    <2>1. new \in Cashu!Rows /\ new.token = cashu_job.copy.token /\ new.status = "active"
      BY <1>0 DEF Cashu!Rows
    <2>2. row' = [row EXCEPT ![cashu_job.order] = new]
      BY <1>5
    <2> HIDE DEF new
    <2>3. CashuTyped'
      BY <1>0, <1>1, <2>1, <2>2 DEF CashuTyped
    <2>4. \A o \in CashuOrders : row'[o] = IF o = cashu_job.order THEN new ELSE row[o]
      BY <1>0, <2>2 DEF CashuTyped
    <2>5. cashu_job.token # Nothing
      BY <1>0 DEF CashuTerms
    <2>6. HeldAreVerified'
      BY <1>0, <1>1, <2>1, <2>4, <2>5 DEF HeldAreVerified
    <2>7. QED
      BY <1>3, <2>3, <2>6
  <1>6. QED
    BY <1>4, <1>5 DEF Cashu!persist_event

(* job_expire_pending_older_orders: its stale write may clobber a row, and  *)
(* leaves it no token of another.                                           *)
LEMMA CashuExpires ==
  ASSUME CashuTerms, CashuInv, NEW o \in CashuOrders, Cashu!job_expire_pending_older_orders(o)
  PROVE  CashuInv'
  <1> USE DEF CashuInv
  <1> DEFINE new == [Cashu!Fresh EXCEPT !.status = "expired"]
  <1>1. new \in Cashu!Rows /\ new.token = Nothing /\ new.status = "expired"
    BY Zenon DEF Cashu!Fresh, Cashu!Rows
  <1>2. /\ row' = [row EXCEPT ![o] = new] /\ expirer' = expirer \ {o} /\ cashu_job' = cashu_job
             /\ late' = late
        /\ clobbered' = IF row[o].status = "pending" THEN clobbered ELSE clobbered \cup {o}
    BY DEF Cashu!job_expire_pending_older_orders
  <1> HIDE DEF new
  <1>3. CashuTyped'
    BY <1>1, <1>2 DEF CashuTyped
  <1>4. \A p \in CashuOrders : row'[p] = IF p = o THEN new ELSE row[p]
    BY <1>2 DEF CashuTyped
  <1>5. \A p \in CashuOrders : p \notin clobbered' => p \notin clobbered
    BY <1>2
  <1>6. HeldAreVerified'
    BY <1>1, <1>4, <1>5 DEF HeldAreVerified
  <1>7. JobKnows'
    <2>1. CASE cashu_job.step \in {"refetch", "persist"}
      <3>0. cashu_job.order \in CashuOrders
        BY <2>1 DEF JobKnows
      <3>1. CASE cashu_job.order = o
        <4>1. CASE row[o].status = "pending"
          <5>1. cashu_job.token # Nothing /\ (o \notin clobbered => FALSE)
            BY <2>1, <3>1, <4>1 DEF HeldAreVerified, JobKnows, CashuTerms
          <5>2. QED
            BY <1>1, <1>2, <1>4, <2>1, <3>0, <3>1, <4>1, <5>1 DEF JobKnows
        <4>2. CASE row[o].status # "pending"
          BY <1>1, <1>2, <1>4, <2>1, <3>0, <3>1, <4>2 DEF JobKnows
        <4>3. QED
          BY <4>1, <4>2
      <3>2. CASE cashu_job.order # o
        <4>1. cashu_job.token # Nothing
          BY <2>1 DEF JobKnows, CashuTerms
        <4>2. QED
          BY <1>1, <1>2, <1>4, <1>5, <2>1, <3>0, <3>2, <4>1 DEF JobKnows
      <3>3. QED
        BY <3>1, <3>2
    <2>2. CASE cashu_job.step \notin {"refetch", "persist"}
      BY <1>2, <2>2 DEF JobKnows
    <2>3. QED
      BY <2>1, <2>2
  <1>8. QED
    BY <1>3, <1>6, <1>7

(* Notices, time, a crash and the start of the expiry job touch no row.     *)
LEMMA CashuOthers ==
  ASSUME CashuTerms, CashuInv,
         \/ \E o \in CashuOrders : Cashu!expires_at(o)
         \/ Cashu!notify_escrow_locked \/ Cashu!find_order_by_date \/ Cashu!crash
         \/ UNCHANGED Cashu!vars
  PROVE  CashuInv'
  <1> USE DEF CashuInv
  <1>1. UNCHANGED <<row, clobbered>>
    BY DEF Cashu!expires_at, Cashu!notify_escrow_locked, Cashu!find_order_by_date, Cashu!crash,
       Cashu!vars
  <1>2. cashu_job' = cashu_job \/ cashu_job' = Cashu!Idle
    BY DEF Cashu!expires_at, Cashu!notify_escrow_locked, Cashu!find_order_by_date, Cashu!crash,
       Cashu!vars
  <1>3. late' \in SUBSET CashuOrders
    BY DEF Cashu!expires_at, Cashu!notify_escrow_locked, Cashu!find_order_by_date, Cashu!crash,
       Cashu!vars, CashuTyped
  <1>4. expirer' \in SUBSET CashuOrders
    BY DEF Cashu!expires_at, Cashu!notify_escrow_locked, Cashu!find_order_by_date, Cashu!crash,
       Cashu!vars, CashuTyped
  <1>5. HeldAreVerified'
    BY <1>1 DEF HeldAreVerified
  <1>6. CASE cashu_job' = cashu_job
    BY <1>1, <1>3, <1>4, <1>5, <1>6 DEF CashuTyped, JobKnows
  <1>7. CASE cashu_job' = Cashu!Idle
    <2>1. CashuTyped'
      BY <1>1, <1>3, <1>4, <1>7, IdleKnows DEF CashuTyped
    <2>2. QED
      BY <1>5, <1>7, <2>1, IdleKnows
  <1>8. QED
    BY <1>2, <1>6, <1>7

(* The invariant is kept.                                                   *)
LEMMA CashuNext ==
  ASSUME CashuTerms, CashuInv, [Cashu!Next]_(Cashu!vars)
  PROVE  CashuInv'
  <1>1. CASE \E o \in CashuOrders : Cashu!take_sell_action(o)
    BY <1>1, CashuTakes
  <1>2. CASE \E o \in CashuOrders : Cashu!job_expire_pending_older_orders(o)
    BY <1>2, CashuExpires
  <1>3. CASE \E o \in CashuOrders, t \in Cashu!Tokens : Cashu!add_cashu_escrow_action(o, t)
    BY <1>3, CashuSubmits
  <1>4. CASE Cashu!Handling
    BY <1>4, CashuClaims, CashuAsks, CashuLocks, CashuRefetches, CashuPersists, CashuOthers
       DEF Cashu!Handling
  <1>5. CASE \/ (\E o \in CashuOrders : Cashu!expires_at(o))
             \/ Cashu!find_order_by_date \/ Cashu!crash \/ UNCHANGED Cashu!vars
    BY <1>5, CashuOthers
  <1>6. QED
    BY <1>1, <1>2, <1>3, <1>4, <1>5 DEF Cashu!Next

-----------------------------------------------------------------------------
(***************************************************************************)
(* Outbox.                                                                 *)
(***************************************************************************)
(* A task without a head holds no message; the limit is a number.           *)
OutboxTerms == Out!NoHead \notin Messages /\ SendRetries \in Nat

OutboxTyped ==
  /\ queue \in [Queues -> Seq(Messages)] /\ pushed \in [Queues -> Seq(Messages)]
  /\ retries \in [Queues -> 0..SendRetries]
  /\ turn \in [queue : Queues, head : Messages \cup {Out!NoHead}]
  /\ failures \in [Messages -> Nat]

(* How many of a queue's messages have left it.                             *)
Left(q) == Len(pushed[q]) - Len(queue[q])

(* What a queue holds is the end of what was pushed to it.                  *)
InOrder ==
  \A q \in Queues :
    /\ Left(q) >= 0
    /\ \A i \in 1..Len(queue[q]) : queue[q][i] = pushed[q][Left(q) + i]

(* A message is pushed once.                                                *)
PushedOnce ==
  \A p, q \in Queues : \A i \in 1..Len(pushed[p]), j \in 1..Len(pushed[q]) :
    pushed[p][i] = pushed[q][j] => p = q /\ i = j

(* The task's counter for a queue is the number of failures of its head,    *)
(* and nothing behind the head has failed.                                  *)
CountsHead ==
  /\ \A m \in Messages : m \notin Out!Pushed => failures[m] = 0
  /\ \A q \in Queues :
       /\ queue[q] = <<>> => retries[q] = 0
       /\ \A i \in 1..Len(queue[q]) :
            failures[queue[q][i]] = IF i = 1 THEN retries[q] ELSE 0

(* What the task sends is at the head of its queue.                         *)
SendsHead ==
  turn.head # Out!NoHead => queue[turn.queue] # <<>> /\ turn.head = queue[turn.queue][1]

(* What has left was sent, lost or given up.                                *)
LeftWell ==
  \A q \in Queues : \A i \in 1..Left(q) :
    pushed[q][i] \in sent \cup lost \/ failures[pushed[q][i]] = SendRetries + 1

OutboxInv == OutboxTyped /\ InOrder /\ PushedOnce /\ CountsHead /\ SendsHead /\ LeftWell

(* Steps that move no message.                                              *)
LEMMA OutboxStands ==
  ASSUME queue' = queue, pushed' = pushed, InOrder, PushedOnce
  PROVE  InOrder' /\ PushedOnce'
  <1>1. \A q : Left(q)' = Left(q)
    BY Zenon DEF Left
  <1>2. InOrder'
    <2> SUFFICES ASSUME NEW q \in Queues
                 PROVE  /\ Left(q)' >= 0
                        /\ \A i \in 1..Len(queue'[q]) :
                             queue'[q][i] = pushed'[q][Left(q)' + i]
      BY Zenon DEF InOrder
    <2>1. Left(q) >= 0 /\ \A i \in 1..Len(queue[q]) : queue[q][i] = pushed[q][Left(q) + i]
      BY Zenon DEF InOrder
    <2> QED
      BY Zenon, <1>1, <2>1
  <1>3. PushedOnce'
    BY DEF PushedOnce
  <1> QED
    BY <1>2, <1>3

-----------------------------------------------------------------------------
(* Every queue is empty at the start.                                       *)
LEMMA OutboxInit ==
  ASSUME OutboxTerms, Out!Init
  PROVE  OutboxInv
  <1>1. OutboxTyped
    BY DEF OutboxTerms, Out!Init, OutboxTyped
  <1>2. \A q \in Queues : Left(q) = 0 /\ Len(queue[q]) = 0 /\ Len(pushed[q]) = 0
    BY DEF Out!Init, Left
  <1>3. InOrder /\ PushedOnce /\ LeftWell
    BY <1>2 DEF InOrder, PushedOnce, LeftWell
  <1>4. CountsHead /\ SendsHead
    BY <1>2 DEF CountsHead, SendsHead, Out!Init
  <1>5. QED
    BY <1>1, <1>3, <1>4 DEF OutboxInv

(* A pushed message has a place in its queue's history.                     *)
LEMMA PushedIndex ==
  ASSUME OutboxTyped, NEW q \in Queues
  PROVE  /\ \A i \in 1..Len(pushed[q]) : pushed[q][i] \in Messages /\ pushed[q][i] \in Out!Pushed
         /\ \A i \in 1..Len(queue[q]) : queue[q][i] \in Messages
         /\ Len(pushed[q]) \in Nat /\ Len(queue[q]) \in Nat
  <1>1. pushed[q] \in Seq(Messages) /\ queue[q] \in Seq(Messages)
    BY DEF OutboxTyped
  <1>2. \A i \in 1..Len(pushed[q]) : pushed[q][i] \in Out!Range(pushed[q])
    BY <1>1 DEF Out!Range
  <1>3. QED
    BY <1>1, <1>2 DEF Out!Pushed

(* What has left a queue and what it holds are what was pushed to it.       *)
LEMMA LeftCounts ==
  ASSUME OutboxTyped, InOrder, NEW q \in Queues
  PROVE  /\ Len(pushed[q]) \in Nat /\ Len(queue[q]) \in Nat /\ Left(q) \in Nat
         /\ Left(q) + Len(queue[q]) = Len(pushed[q])
         /\ \A i \in 1..Len(queue[q]) :
              Left(q) + i \in 1..Len(pushed[q]) /\ queue[q][i] = pushed[q][Left(q) + i]
  <1>1. Len(pushed[q]) \in Nat /\ Len(queue[q]) \in Nat
    BY PushedIndex
  <1>2. Left(q) = Len(pushed[q]) - Len(queue[q])
    BY DEF Left
  <1>3. Left(q) >= 0 /\ \A i \in 1..Len(queue[q]) : queue[q][i] = pushed[q][Left(q) + i]
    BY DEF InOrder
  <1>4. Left(q) \in Nat /\ Left(q) + Len(queue[q]) = Len(pushed[q])
    BY <1>1, <1>2, <1>3
  <1>5. ASSUME NEW i \in 1..Len(queue[q]) PROVE Left(q) + i \in 1..Len(pushed[q])
    BY <1>1, <1>4
  <1>6. QED
    BY <1>1, <1>3, <1>4, <1>5

(* What has not left a queue is in it.                                      *)
LEMMA NotLeftWaits ==
  ASSUME OutboxTyped, InOrder, NEW q \in Queues, NEW i \in 1..Len(pushed[q]), i \notin 1..Left(q)
  PROVE  \E j \in 1..Len(queue[q]) : pushed[q][i] = queue[q][j]
  <1>1. Len(pushed[q]) \in Nat /\ Len(queue[q]) \in Nat /\ Left(q) \in Nat
        /\ Left(q) + Len(queue[q]) = Len(pushed[q])
    BY LeftCounts
  <1>2. i - Left(q) \in 1..Len(queue[q]) /\ i = Left(q) + (i - Left(q))
    BY <1>1
  <1>3. queue[q][i - Left(q)] = pushed[q][Left(q) + (i - Left(q))]
    BY <1>2, LeftCounts
  <1>4. QED
    BY <1>2, <1>3

(* A message is appended to one queue and to its history.                   *)
LEMMA OutboxPushes ==
  ASSUME OutboxTerms, OutboxInv, NEW a \in Queues, NEW m \in Messages, Out!enqueue_order_msg(a, m)
  PROVE  OutboxInv'
  <1> USE DEF OutboxInv
  <1>0. \A q \in Queues : queue[q] \in Seq(Messages) /\ pushed[q] \in Seq(Messages)
    BY DEF OutboxTyped
  <1>1. /\ queue' = [queue EXCEPT ![a] = Append(@, m)] /\ pushed' = [pushed EXCEPT ![a] = Append(@,
             m)]
        /\ UNCHANGED <<retries, turn, failures, sent, lost>> /\ m \notin Out!Pushed
    BY DEF Out!enqueue_order_msg
  <1>2. \A q \in Queues : q # a => queue'[q] = queue[q] /\ pushed'[q] = pushed[q]
    BY <1>1 DEF OutboxTyped
  <1>3. queue'[a] = Append(queue[a], m) /\ pushed'[a] = Append(pushed[a], m)
    BY <1>1 DEF OutboxTyped
  <1>4. /\ Len(queue'[a]) = Len(queue[a]) + 1 /\ Len(pushed'[a]) = Len(pushed[a]) + 1
        /\ \A i \in 1..Len(queue[a]) : queue'[a][i] = queue[a][i]
        /\ \A i \in 1..Len(pushed[a]) : pushed'[a][i] = pushed[a][i]
        /\ queue'[a][Len(queue[a]) + 1] = m /\ pushed'[a][Len(pushed[a]) + 1] = m
    BY <1>0, <1>3
  <1>5. \A q \in Queues : Left(q)' = Left(q) /\ Left(q) \in Nat
                          /\ Len(queue[q]) \in Nat /\ Len(pushed[q]) \in Nat
    <2> SUFFICES ASSUME NEW q \in Queues
                 PROVE  /\ Left(q)' = Left(q) /\ Left(q) \in Nat
                        /\ Len(queue[q]) \in Nat /\ Len(pushed[q]) \in Nat
      OBVIOUS
    <2>1. Left(q) \in Nat /\ Len(queue[q]) \in Nat /\ Len(pushed[q]) \in Nat
      BY LeftCounts
    <2>2. Left(q)' = Len(pushed'[q]) - Len(queue'[q]) /\ Left(q) = Len(pushed[q]) - Len(queue[q])
      BY DEF Left
    <2>3. CASE q = a
      <3>1. Len(pushed'[a]) = Len(pushed[a]) + 1 /\ Len(queue'[a]) = Len(queue[a]) + 1
        BY <1>4
      <3>2. QED
        BY <2>1, <2>2, <2>3, <3>1
    <2>4. CASE q # a
      BY Zenon, <1>2, <2>2, <2>1, <2>4
    <2>5. QED
      BY <2>1, <2>3, <2>4
  <1>6. OutboxTyped'
    <2>1. queue' \in [Queues -> Seq(Messages)]
      BY <1>1, <1>0 DEF OutboxTyped
    <2>2. pushed' \in [Queues -> Seq(Messages)]
      BY <1>1, <1>0 DEF OutboxTyped
    <2>3. QED
      BY <1>1, <2>1, <2>2 DEF OutboxTyped
  <1>7. InOrder'
    <2> SUFFICES ASSUME NEW q \in Queues
                 PROVE  /\ Left(q)' >= 0
                        /\ \A i \in 1..Len(queue'[q]) : queue'[q][i] = pushed'[q][Left(q)' + i]
      BY DEF InOrder
    <2>1. Left(q) >= 0 /\ \A i \in 1..Len(queue[q]) : queue[q][i] = pushed[q][Left(q) + i]
      BY DEF InOrder
    <2>2. CASE q # a
      BY <1>2, <1>5, <2>1, <2>2
    <2>3. CASE q = a
      <3> SUFFICES ASSUME NEW i \in 1..Len(queue'[a]) PROVE queue'[a][i] = pushed'[a][Left(a) + i]
        BY <1>5, <2>1, <2>3
      <3>1. CASE i \in 1..Len(queue[a])
        <4>1. Left(a) + i \in 1..Len(pushed[a])
          BY <3>1, LeftCounts
        <4>2. QED
          BY <1>4, <2>1, <2>3, <3>1, <4>1
      <3>2. CASE i = Len(queue[a]) + 1
        <4>1. Left(a) + i = Len(pushed[a]) + 1
          <5>1. Len(pushed[a]) \in Nat /\ Len(queue[a]) \in Nat /\ Left(a) \in Nat
                /\ Left(a) + Len(queue[a]) = Len(pushed[a])
            BY LeftCounts
          <5>2. QED
            BY <3>2, <5>1
        <4>2. QED
          BY <1>4, <3>2, <4>1
      <3>3. QED
        BY <1>4, <1>5, <3>1, <3>2
    <2>4. QED
      BY <2>2, <2>3
  <1>8. ASSUME NEW q \in Queues, NEW i \in 1..Len(pushed'[q])
        PROVE  \/ i \in 1..Len(pushed[q]) /\ pushed'[q][i] = pushed[q][i]
               \/ q = a /\ i = Len(pushed[a]) + 1 /\ pushed'[q][i] = m
    BY <1>2, <1>4, <1>5
  <1>9. \A q \in Queues : \A i \in 1..Len(pushed[q]) : pushed[q][i] # m
    BY Zenon, <1>1, PushedIndex
  <1>10. PushedOnce'
    <2> SUFFICES ASSUME NEW p \in Queues, NEW q \in Queues, NEW i \in 1..Len(pushed'[p]),
                        NEW j \in 1..Len(pushed'[q]), pushed'[p][i] = pushed'[q][j]
                 PROVE  p = q /\ i = j
      BY DEF PushedOnce
    <2>1. CASE i \in 1..Len(pushed[p]) /\ pushed'[p][i] = pushed[p][i]
      <3>1. CASE j \in 1..Len(pushed[q]) /\ pushed'[q][j] = pushed[q][j]
        <4>1. pushed[p][i] = pushed[q][j]
          BY Zenon, <2>1, <3>1
        <4>2. QED
          BY <2>1, <3>1, <4>1, SMT DEF PushedOnce
      <3>2. CASE pushed'[q][j] = m
        BY Zenon, <1>9, <2>1, <3>2
      <3>3. QED
        BY <1>8, <3>1, <3>2
    <2>2. CASE p = a /\ i = Len(pushed[a]) + 1 /\ pushed'[p][i] = m
      BY ZenonT(60), <1>8, <1>9, <2>2
    <2>3. QED
      BY <1>8, <2>1, <2>2
  <1>11. Out!Pushed' = Out!Pushed \cup {m}
    <2>1. \A q \in Queues : q # a => Out!Range(pushed'[q]) = Out!Range(pushed[q])
      BY <1>2
    <2>2. Out!Range(pushed'[a]) = Out!Range(pushed[a]) \cup {m}
      <3>1. DOMAIN pushed'[a] = 1..Len(pushed[a]) + 1 /\ DOMAIN pushed[a] = 1..Len(pushed[a])
        BY <1>0, <1>3
      <3>2. ASSUME NEW x \in Out!Range(pushed'[a]) PROVE x \in Out!Range(pushed[a]) \cup {m}
        <4>1. PICK i \in 1..Len(pushed[a]) + 1 : x = pushed'[a][i]
          BY <3>1 DEF Out!Range
        <4>2. CASE i \in 1..Len(pushed[a])
          <5>1. x = pushed[a][i]
            BY Zenon, <1>4, <4>1, <4>2
          <5>2. QED
            BY <3>1, <4>2, <5>1 DEF Out!Range
        <4>3. CASE i = Len(pushed[a]) + 1
          BY <1>4, <4>1, <4>3
        <4>4. QED
          BY <1>5, <4>2, <4>3
      <3>3. ASSUME NEW x \in Out!Range(pushed[a]) PROVE x \in Out!Range(pushed'[a])
        <4>1. PICK i \in 1..Len(pushed[a]) : x = pushed[a][i]
          BY <3>1 DEF Out!Range
        <4>2. x = pushed'[a][i] /\ i \in 1..Len(pushed[a]) + 1
          BY <1>4, <1>5, <4>1
        <4>3. QED
          BY <3>1, <4>2 DEF Out!Range
      <3>4. m \in Out!Range(pushed'[a])
        BY <1>4, <1>5, <3>1 DEF Out!Range
      <3>5. QED
        BY <3>2, <3>3, <3>4
    <2>3. QED
      BY <2>1, <2>2, Zenon DEF Out!Pushed
  <1>12. failures[m] = 0
    BY <1>1 DEF CountsHead
  <1>13. CountsHead'
    <2>1. \A x \in Messages : x \notin Out!Pushed' => failures'[x] = 0
      BY Zenon, <1>1, <1>11 DEF CountsHead
    <2>2. ASSUME NEW q \in Queues
          PROVE  /\ queue'[q] = <<>> => retries'[q] = 0
                 /\ \A i \in 1..Len(queue'[q]) :
                      failures'[queue'[q][i]] = IF i = 1 THEN retries'[q] ELSE 0
      <3>1. CASE q # a
        BY <1>1, <1>2, <3>1 DEF CountsHead
      <3>2. CASE q = a
        <4>1. queue'[a] # <<>>
          <5>1. Len(queue'[a]) # 0
            BY <1>4, <1>5
          <5>2. QED
            BY <5>1
        <4>2. Len(queue[a]) = 0 => retries[a] = 0
          BY <1>0 DEF CountsHead
        <4>3. \A i \in 1..Len(queue[a]) : failures[queue[a][i]] = IF i = 1 THEN retries[a] ELSE 0
          BY ZenonT(60) DEF CountsHead
        <4>4. ASSUME NEW i \in 1..Len(queue'[a])
              PROVE  failures[queue'[a][i]] = IF i = 1 THEN retries[a] ELSE 0
          <5>1. CASE i \in 1..Len(queue[a])
            BY <1>4, <4>3, <5>1
          <5>2. CASE i = Len(queue[a]) + 1
            BY <1>4, <1>5, <1>12, <4>2, <5>2
          <5>3. QED
            BY SMTT(30), <1>4, <1>5, <5>1, <5>2
        <4>5. QED
          BY <1>1, <3>2, <4>1, <4>4
      <3>3. QED
        BY ZenonT(60), <3>1, <3>2
    <2>3. QED
      BY <2>1, <2>2, Zenon DEF CountsHead
  <1>14. SendsHead'
    <2>1. turn.queue \in Queues
      BY DEF OutboxTyped
    <2>2. CASE turn.queue = a /\ turn.head # Out!NoHead
      <3>1. queue[a] # <<>> /\ turn.head = queue[a][1]
        BY <2>2 DEF SendsHead
      <3>2. Len(queue[a]) >= 1
        BY <1>0, <3>1
      <3>3. QED
        BY <1>0, <1>1, <1>3, <1>4, <2>2, <3>1, <3>2 DEF SendsHead
    <2>3. CASE turn.queue # a \/ turn.head = Out!NoHead
      BY Zenon, <1>1, <1>2, <2>1, <2>3 DEF SendsHead
    <2>4. QED
      BY <2>2, <2>3
  <1>15. LeftWell'
    <2> SUFFICES ASSUME NEW q \in Queues, NEW i \in 1..Left(q)'
                 PROVE  \/ pushed'[q][i] \in sent' \cup lost'
                        \/ failures'[pushed'[q][i]] = SendRetries + 1
      BY Zenon DEF LeftWell
    <2>1. i \in 1..Left(q) /\ i \in 1..Len(pushed[q])
      <3>1. i \in 1..Left(q)
        BY <1>5
      <3>2. QED
        BY <3>1, LeftCounts
    <2>2. pushed'[q][i] = pushed[q][i]
      BY <1>2, <1>4, <2>1
    <2>3. QED
      BY Zenon, <1>1, <2>1, <2>2 DEF LeftWell
  <1>16. QED
    BY <1>6, <1>7, <1>10, <1>13, <1>14, <1>15

(* A turn that passes or copies the head changes nothing else.              *)
LEMMA OutboxReads ==
  ASSUME OutboxTerms, OutboxInv, Out!read_head
  PROVE  OutboxInv'
  <1> USE DEF OutboxInv
  <1>1. UNCHANGED <<queue, retries, pushed, failures, sent, lost>>
    BY DEF Out!read_head
  <1>2. turn.queue \in Queues /\ queue[turn.queue] \in Seq(Messages)
    BY DEF OutboxTyped
  <1>3. InOrder' /\ PushedOnce' /\ CountsHead' /\ LeftWell'
    <2>1. Out!Pushed' = Out!Pushed /\ \A q : Left(q)' = Left(q)
      BY <1>1, Zenon DEF Out!Pushed, Left
    <2>2. InOrder' /\ PushedOnce'
      BY Zenon, <1>1, OutboxStands DEF OutboxInv
    <2>3. CountsHead' /\ LeftWell'
      BY <1>1, <2>1, Zenon DEF CountsHead, LeftWell
    <2>4. QED
      BY <2>2, <2>3
  <1>4. CASE queue[turn.queue] = <<>>
    <2>1. turn' \in [queue : Queues, head : Messages \cup {Out!NoHead}] /\ turn'.head = Out!NoHead
      BY <1>4 DEF Out!read_head, Out!NextTurn
    <2>2. QED
      BY <1>1, <1>3, <2>1 DEF OutboxTyped, SendsHead
  <1>5. CASE queue[turn.queue] # <<>>
    <2>1. turn' = [turn EXCEPT !.head = Head(queue[turn.queue])]
      BY <1>5 DEF Out!read_head
    <2>2. Head(queue[turn.queue]) \in Messages /\ Head(queue[turn.queue]) = queue[turn.queue][1]
      BY <1>2, <1>5
    <2>3. turn' \in [queue : Queues, head : Messages \cup {Out!NoHead}] /\ turn'.queue = turn.queue
          /\ turn'.head = queue[turn.queue][1]
      BY Zenon, <2>1, <2>2 DEF OutboxTyped
    <2>4. QED
      BY <1>1, <1>3, <1>5, <2>3 DEF OutboxTyped, SendsHead
  <1>6. QED
    BY <1>4, <1>5

(* The head is removed once it was sent or has failed for the last time.    *)
LEMMA OutboxRemoves ==
  ASSUME OutboxTerms, OutboxInv, turn.head # Out!NoHead, Out!RemoveHead, Out!NextTurn,
         retries' = [retries EXCEPT ![turn.queue] = 0], UNCHANGED <<pushed, lost>>,
         failures' \in [Messages -> Nat],
           \A x \in Messages : x # turn.head => failures'[x] = failures[x],
         sent \subseteq sent',
         turn.head \in sent' \/ failures'[turn.head] = SendRetries + 1
  PROVE  OutboxInv'
  <1> USE DEF OutboxInv
  <1> DEFINE a == turn.queue
  <1>0. a \in Queues /\ \A q \in Queues : queue[q] \in Seq(Messages) /\ pushed[q] \in Seq(Messages)
    BY DEF OutboxTyped
  <1>1. queue[a] # <<>> /\ turn.head = queue[a][1] /\ turn.head \in Messages
    BY DEF SendsHead, OutboxTyped
  <1>2. queue' = [queue EXCEPT ![a] = Tail(@)]
    BY DEF Out!RemoveHead
  <1>3. turn' \in [queue : Queues, head : Messages \cup {Out!NoHead}] /\ turn'.head = Out!NoHead
    BY DEF Out!NextTurn
  <1>4. \A q \in Queues : retries'[q] = IF q = a THEN 0 ELSE retries[q]
    BY <1>0 DEF OutboxTyped
  <1>5. OutboxTyped'
    <2>1. queue' \in [Queues -> Seq(Messages)]
      BY <1>0, <1>1, <1>2 DEF OutboxTyped
    <2>2. retries' \in [Queues -> 0..SendRetries]
      BY <1>0 DEF OutboxTyped, OutboxTerms
    <2>3. QED
      BY <1>3, <2>1, <2>2 DEF OutboxTyped
  <1> HIDE DEF a
  <1>6. /\ \A q \in Queues : q # a => queue'[q] = queue[q]
        /\ queue'[a] = Tail(queue[a])
    BY <1>0, <1>2 DEF OutboxTyped
  <1>7. /\ Len(queue[a]) \in Nat \ {0} /\ Len(queue'[a]) = Len(queue[a]) - 1
        /\ \A i \in 1..Len(queue[a]) - 1 : queue'[a][i] = queue[a][i + 1]
    BY <1>0, <1>1, <1>6
  <1>8. \A q \in Queues : /\ Left(q) \in Nat /\ Left(q)' = (IF q = a THEN Left(q) + 1 ELSE Left(q))
                          /\ Len(queue[q]) \in Nat /\ Len(pushed[q]) \in Nat
    <2> SUFFICES ASSUME NEW q \in Queues
                 PROVE  /\ Left(q) \in Nat /\ Left(q)' = (IF q = a THEN Left(q) + 1 ELSE Left(q))
                        /\ Len(queue[q]) \in Nat /\ Len(pushed[q]) \in Nat
      OBVIOUS
    <2>1. Left(q) \in Nat /\ Len(queue[q]) \in Nat /\ Len(pushed[q]) \in Nat
      BY LeftCounts
    <2>2. Left(q)' = Len(pushed[q]) - Len(queue'[q]) /\ Left(q) = Len(pushed[q]) - Len(queue[q])
      BY DEF Left
    <2>3. CASE q = a
      <3>1. Len(queue'[a]) = Len(queue[a]) - 1
        BY <1>7
      <3>2. QED
        BY <2>1, <2>2, <2>3, <3>1
    <2>4. CASE q # a
      BY Zenon, <1>6, <2>2, <2>1, <2>4
    <2>5. QED
      BY <2>1, <2>3, <2>4
  <1>9. pushed[a][Left(a) + 1] = turn.head /\ Left(a) + 1 \in 1..Len(pushed[a])
    BY <1>0, <1>1, <1>7, LeftCounts
  <1>10. InOrder'
    <2> SUFFICES ASSUME NEW q \in Queues
                 PROVE  /\ Left(q)' >= 0
                        /\ \A i \in 1..Len(queue'[q]) : queue'[q][i] = pushed'[q][Left(q)' + i]
      BY DEF InOrder
    <2>1. \A i \in 1..Len(queue[q]) : queue[q][i] = pushed[q][Left(q) + i]
      BY DEF InOrder
    <2>2. CASE q # a
      BY <1>6, <1>8, <2>1, <2>2
    <2>3. CASE q = a
      <3> SUFFICES ASSUME NEW i \in 1..Len(queue'[a])
                   PROVE  queue'[a][i] = pushed[a][Left(a) + 1 + i]
        BY <1>8, <2>3
      <3>1. i + 1 \in 1..Len(queue[a]) /\ queue'[a][i] = queue[a][i + 1]
        BY <1>7
      <3>2. Left(a) + (i + 1) = Left(a) + 1 + i
        BY SMTT(30), <1>8, <1>0
      <3>3. QED
        BY <2>1, <2>3, <3>1, <3>2
    <2>4. QED
      BY <2>2, <2>3
  <1>11. PushedOnce'
    BY DEF PushedOnce
  <1>12. ASSUME NEW q \in Queues, NEW i \in 1..Len(pushed[q]), q # a \/ i # Left(a) + 1
         PROVE  pushed[q][i] \in Messages /\ failures'[pushed[q][i]] = failures[pushed[q][i]]
    <2>1. pushed[q][i] # turn.head
      <3>1. pushed[q][i] = pushed[a][Left(a) + 1] => q = a /\ i = Left(a) + 1
        BY SMTT(60), <1>0, <1>9 DEF PushedOnce
      <3>2. QED
        BY Zenon, <1>9, <1>12, <3>1
    <2>2. QED
      BY <2>1, PushedIndex
  <1>13. CountsHead'
    <2>1. ASSUME NEW x \in Messages, x \notin Out!Pushed' PROVE failures'[x] = 0
      <3>1. x \notin Out!Pushed /\ turn.head \in Out!Pushed
        BY <1>0, <1>9, <2>1, PushedIndex DEF Out!Pushed
      <3>2. QED
        BY <3>1 DEF CountsHead
    <2>2. ASSUME NEW q \in Queues
          PROVE  /\ queue'[q] = <<>> => retries'[q] = 0
                 /\ \A i \in 1..Len(queue'[q]) :
                      failures'[queue'[q][i]] = IF i = 1 THEN retries'[q] ELSE 0
      <3>0. \A i \in 1..Len(queue[q]) : queue[q][i] = pushed[q][Left(q) + i]
                                        /\ Left(q) + i \in 1..Len(pushed[q])
        BY LeftCounts
      <3>1. \A i \in 1..Len(queue[q]) : failures[queue[q][i]] = IF i = 1 THEN retries[q] ELSE 0
        BY Zenon DEF CountsHead
      <3>2. CASE q # a
        <4>1. ASSUME NEW i \in 1..Len(queue[q]) PROVE failures'[queue[q][i]] = failures[queue[q][i]]
          BY <1>12, <3>0, <3>2
        <4>2. QED
          BY SMTT(30), <1>4, <1>6, <3>1, <3>2, <4>1 DEF CountsHead
      <3>3. CASE q = a
        <4>1. ASSUME NEW i \in 1..Len(queue'[a]) PROVE failures'[queue'[a][i]] = 0
          <5>1. i + 1 \in 1..Len(queue[a]) /\ queue'[a][i] = queue[a][i + 1] /\ i + 1 # 1
            BY <1>7
          <5>2. Left(a) + (i + 1) # Left(a) + 1
            BY <1>0, <1>8
          <5>3. failures'[queue[a][i + 1]] = failures[queue[a][i + 1]]
            <6>1. queue[a][i + 1] = pushed[a][Left(a) + (i + 1)]
                    /\ Left(a) + (i + 1) \in 1..Len(pushed[a])
              BY <3>0, <3>3, <5>1
            <6>2. QED
              BY <1>0, <1>12, <5>2, <6>1
          <5>4. QED
            BY <3>1, <3>3, <5>1, <5>3
        <4>2. retries'[a] = 0
          BY <1>0, <1>4
        <4>3. QED
          BY <3>3, <4>1, <4>2
      <3>4. QED
        BY Zenon, <3>2, <3>3
    <2>3. QED
      BY <2>1, <2>2, Zenon DEF CountsHead
  <1>14. SendsHead'
    BY Zenon, <1>3 DEF SendsHead
  <1>15. LeftWell'
    <2> SUFFICES ASSUME NEW q \in Queues, NEW i \in 1..Left(q)'
                 PROVE  \/ pushed[q][i] \in sent' \cup lost
                        \/ failures'[pushed[q][i]] = SendRetries + 1
      BY Zenon DEF LeftWell
    <2>1. CASE q = a /\ i = Left(a) + 1
      BY ZenonT(60), <1>9, <2>1
    <2>2. CASE ~(q = a /\ i = Left(a) + 1)
      <3>1. i \in 1..Left(q)
        BY <1>8, <2>2
      <3>2. i \in 1..Len(pushed[q])
        BY <1>8, <3>1 DEF Left
      <3>3. failures'[pushed[q][i]] = failures[pushed[q][i]]
        BY <1>12, <2>2, <3>2
      <3>4. QED
        BY Zenon, <3>1, <3>3 DEF LeftWell
    <2>3. QED
      BY Zenon, <2>1, <2>2
  <1>16. QED
    BY <1>5, <1>10, <1>11, <1>13, <1>14, <1>15

(* A failed send counts against the head, which leaves after its last       *)
(* retry.                                                                   *)
LEMMA OutboxSends ==
  ASSUME OutboxTerms, OutboxInv, Out!send_messages_ok
  PROVE  OutboxInv'
  <1>1. failures' \in [Messages -> Nat] /\ failures' = failures
    BY DEF Out!send_messages_ok, OutboxInv, OutboxTyped
  <1>2. sent \subseteq sent' /\ turn.head \in sent'
    BY DEF Out!send_messages_ok
  <1>3. QED
    BY <1>1, <1>2, OutboxRemoves DEF Out!send_messages_ok

(* A failure is the head's own: it is counted, or it is the fourth.         *)
LEMMA OutboxFails ==
  ASSUME OutboxTerms, OutboxInv, Out!send_messages_failed
  PROVE  OutboxInv'
  <1> USE DEF OutboxInv
  <1> DEFINE a == turn.queue
  <1>0. /\ a \in Queues /\ turn.head # Out!NoHead /\ turn.head \in Messages
        /\ \A q \in Queues : queue[q] \in Seq(Messages) /\ pushed[q] \in Seq(Messages)
    BY DEF OutboxTyped, Out!send_messages_failed
  <1>1. queue[a] # <<>> /\ turn.head = queue[a][1]
    BY <1>0 DEF SendsHead
  <1>2. failures' = [failures EXCEPT ![turn.head] = @ + 1] /\ UNCHANGED <<pushed, sent,
                                                                          lost>> /\ Out!NextTurn
    BY DEF Out!send_messages_failed
  <1>3. /\ failures' \in [Messages -> Nat]
        /\ \A x \in Messages : x # turn.head => failures'[x] = failures[x]
        /\ failures'[turn.head] = failures[turn.head] + 1
    BY <1>0, <1>2 DEF OutboxTyped
  <1>4. failures[turn.head] = retries[a] /\ retries[a] \in 0..SendRetries
          /\ Len(queue[a]) \in Nat \ {0}
    <2>1. retries[a] \in 0..SendRetries
      BY <1>0 DEF OutboxTyped
    <2>2. Len(queue[a]) \in Nat \ {0}
      BY <1>0, <1>1
    <2>3. 1 \in 1..Len(queue[a])
      BY <2>2
    <2>4. failures[queue[a][1]] = retries[a]
      BY Zenon, <1>0, <2>3 DEF CountsHead
    <2>5. QED
      BY <1>1, <2>1, <2>2, <2>4
  <1>5. CASE retries[a] + 1 > SendRetries
    <2>1. retries' = [retries EXCEPT ![a] = 0] /\ Out!RemoveHead
      BY <1>5 DEF Out!send_messages_failed
    <2>2. failures'[turn.head] = SendRetries + 1
      BY <1>3, <1>4, <1>5 DEF OutboxTerms
    <2>3. QED
      BY ZenonT(60), <1>0, <1>2, <1>3, <2>1, <2>2, OutboxRemoves
  <1>6. CASE ~(retries[a] + 1 > SendRetries)
    <2>1. retries' = [retries EXCEPT ![a] = retries[a] + 1] /\ UNCHANGED queue
      BY <1>6 DEF Out!send_messages_failed
    <2>2. turn' \in [queue : Queues, head : Messages \cup {Out!NoHead}] /\ turn'.head = Out!NoHead
      BY <1>2 DEF Out!NextTurn
    <2>3. OutboxTyped'
      <3>1. retries' \in [Queues -> 0..SendRetries]
        BY <1>0, <1>4, <1>6, <2>1 DEF OutboxTyped, OutboxTerms
      <3>2. QED
        BY <1>2, <1>3, <2>1, <2>2, <3>1 DEF OutboxTyped
    <2>4. \A q \in Queues : retries'[q] = IF q = a THEN retries[a] + 1 ELSE retries[q]
      BY <1>0, <2>1 DEF OutboxTyped
    <2> HIDE DEF a
    <2>5. InOrder' /\ PushedOnce' /\ SendsHead' /\ \A q \in Queues : Left(q)' = Left(q)
      <3>1. \A q : Left(q)' = Left(q)
        BY <1>2, <2>1, Zenon DEF Left
      <3>2. InOrder' /\ PushedOnce'
        BY Zenon, <1>2, <2>1, OutboxStands DEF OutboxInv
      <3>3. SendsHead'
        BY <2>2, Zenon DEF SendsHead
      <3>4. QED
        BY <3>1, <3>2, <3>3
    <2>6. \A q \in Queues : Left(q) \in Nat /\ Len(queue[q]) \in Nat /\ Len(pushed[q]) \in Nat
                            /\ Left(q) = Len(pushed[q]) - Len(queue[q])
      <3> SUFFICES ASSUME NEW q \in Queues
                   PROVE  Left(q) \in Nat /\ Len(queue[q]) \in Nat /\ Len(pushed[q]) \in Nat
                          /\ Left(q) = Len(pushed[q]) - Len(queue[q])
        BY Zenon
      <3>1. Left(q) \in Nat /\ Len(queue[q]) \in Nat /\ Len(pushed[q]) \in Nat
        BY ZenonT(60), LeftCounts
      <3>2. QED
        BY <3>1 DEF Left
    <2>7. pushed[a][Left(a) + 1] = turn.head /\ Left(a) + 1 \in 1..Len(pushed[a])
      BY <1>0, <1>1, <1>4, LeftCounts
    <2>8. ASSUME NEW q \in Queues, NEW i \in 1..Len(pushed[q]), q # a \/ i # Left(a) + 1
          PROVE  pushed[q][i] \in Messages /\ failures'[pushed[q][i]] = failures[pushed[q][i]]
      <3>1. pushed[q][i] # turn.head
        BY SMTT(30), <1>0, <2>7, <2>8 DEF PushedOnce
      <3>2. QED
        BY <1>3, <3>1, PushedIndex
    <2>9. CountsHead'
      <3>1. ASSUME NEW x \in Messages, x \notin Out!Pushed' PROVE failures'[x] = 0
        <4>1. x \notin Out!Pushed /\ turn.head \in Out!Pushed
          BY ZenonT(60), <1>0, <1>2, <2>7, <3>1, PushedIndex DEF Out!Pushed
        <4>2. QED
          BY <1>3, <4>1 DEF CountsHead
      <3>2. ASSUME NEW q \in Queues
            PROVE  /\ queue'[q] = <<>> => retries'[q] = 0
                   /\ \A i \in 1..Len(queue'[q]) :
                        failures'[queue'[q][i]] = IF i = 1 THEN retries'[q] ELSE 0
        <4>0. \A i \in 1..Len(queue[q]) : queue[q][i] = pushed[q][Left(q) + i]
                                          /\ Left(q) + i \in 1..Len(pushed[q])
          BY LeftCounts
        <4>1. \A i \in 1..Len(queue[q]) : failures[queue[q][i]] = IF i = 1 THEN retries[q] ELSE 0
          BY ZenonT(60) DEF CountsHead
        <4>2. CASE q # a
          <5>1. \A i \in 1..Len(queue[q]) : failures'[queue[q][i]] = failures[queue[q][i]]
            BY SMTT(30), <2>8, <4>0, <4>2
          <5>2. QED
            BY SMTT(30), <2>1, <2>4, <4>1, <4>2, <5>1 DEF CountsHead
        <4>3. CASE q = a
          <5>1. ASSUME NEW i \in 1..Len(queue[a])
                PROVE  failures'[queue[a][i]] = IF i = 1 THEN retries[a] + 1 ELSE 0
            <6>1. CASE i = 1
              BY <1>1, <1>3, <1>4, <6>1
            <6>2. CASE i # 1
              <7>1. Left(a) + i # Left(a) + 1
                <8>1. Left(a) \in Nat
                  BY Zenon, <1>0, <2>6
                <8>2. QED
                  BY <6>2, <8>1
              <7>2. failures'[queue[a][i]] = failures[queue[a][i]]
                BY <1>0, <2>8, <4>0, <4>3, <7>1
              <7>3. QED
                BY <4>1, <4>3, <6>2, <7>2
            <6>3. QED
              BY <6>1, <6>2
          <5>2. retries'[a] = retries[a] + 1
            BY Zenon, <1>0, <2>4
          <5>3. QED
            BY ZenonT(60), <1>1, <2>1, <4>3, <5>1, <5>2
        <4>4. QED
          BY <4>2, <4>3
      <3>3. QED
        BY <3>1, <3>2, Zenon DEF CountsHead
    <2>10. LeftWell'
      <3> SUFFICES ASSUME NEW q \in Queues, NEW i \in 1..Left(q)
                   PROVE  \/ pushed[q][i] \in sent \cup lost
                          \/ failures'[pushed[q][i]] = SendRetries + 1
        BY <1>2, <2>5 DEF LeftWell
      <3>1. i \in 1..Len(pushed[q]) /\ (q # a \/ i # Left(a) + 1)
        BY LeftCounts
      <3>2. failures'[pushed[q][i]] = failures[pushed[q][i]]
        BY <2>8, <3>1
      <3>3. QED
        BY ZenonT(60), <3>2 DEF LeftWell
    <2>11. QED
      BY <2>3, <2>5, <2>9, <2>10
  <1>7. QED
    BY <1>5, <1>6

(* What the queues held is lost, and their order with it.                   *)
LEMMA OutboxRestarts ==
  ASSUME OutboxTerms, OutboxInv, Out!restart
  PROVE  OutboxInv'
  <1> USE DEF OutboxInv
  <1>0. \A q \in Queues : queue[q] \in Seq(Messages) /\ pushed[q] \in Seq(Messages)
    BY DEF OutboxTyped
  <1>1. /\ queue' = [q \in Queues |-> <<>>] /\ retries' = [q \in Queues |-> 0]
        /\ turn' = [turn EXCEPT !.head = Out!NoHead] /\ lost' = Out!Waiting /\ lost = {}
        /\ UNCHANGED <<pushed, failures, sent>>
    BY DEF Out!restart
  <1>2. \A q \in Queues : queue'[q] = <<>> /\ Len(queue'[q]) = 0 /\ retries'[q] = 0
    BY <1>1
  <1>3. OutboxTyped'
    <2>1. queue' \in [Queues -> Seq(Messages)]
      BY <1>1
    <2>2. retries' \in [Queues -> 0..SendRetries]
      BY <1>1 DEF OutboxTerms
    <2>3. turn' \in [queue : Queues, head : Messages \cup {Out!NoHead}]
      BY Zenon, <1>1 DEF OutboxTyped
    <2>4. QED
      BY <1>1, <2>1, <2>2, <2>3 DEF OutboxTyped
  <1>4. \A q \in Queues : Left(q)' = Len(pushed[q]) /\ Len(pushed[q]) \in Nat
          /\ Len(queue[q]) \in Nat
    BY <1>0, <1>1, <1>2 DEF Left
  <1>5. InOrder' /\ PushedOnce'
    BY <1>1, <1>2, <1>4 DEF InOrder, PushedOnce
  <1>6. CountsHead'
    <2>1. Out!Pushed' = Out!Pushed
      BY <1>1 DEF Out!Pushed
    <2>2. QED
      BY <1>1, <1>2, <2>1 DEF CountsHead
  <1>7. SendsHead'
    BY <1>1 DEF SendsHead, OutboxTyped
  <1>8. LeftWell'
    <2> SUFFICES ASSUME NEW q \in Queues, NEW i \in 1..Len(pushed[q])
                 PROVE  \/ pushed[q][i] \in sent \cup Out!Waiting
                        \/ failures[pushed[q][i]] = SendRetries + 1
      BY <1>1, <1>4 DEF LeftWell
    <2>1. CASE i \in 1..Left(q)
      BY ZenonT(60), <1>1, <2>1 DEF LeftWell
    <2>2. CASE i \notin 1..Left(q)
      <3>2. PICK j \in 1..Len(queue[q]) : pushed[q][i] = queue[q][j]
        BY <2>2, NotLeftWaits
      <3>3. queue[q][j] \in Out!Range(queue[q])
        BY <1>0 DEF Out!Range
      <3>4. QED
        BY <3>2, <3>3 DEF Out!Waiting
    <2>3. QED
      BY <2>1, <2>2
  <1>9. QED
    BY <1>3, <1>5, <1>6, <1>7, <1>8

(* The invariant is kept.                                                   *)
LEMMA OutboxNext ==
  ASSUME OutboxTerms, OutboxInv, [Out!Next]_(Out!vars)
  PROVE  OutboxInv'
  <1>1. CASE \E q \in Queues, m \in Messages : Out!enqueue_order_msg(q, m)
    BY <1>1, OutboxPushes
  <1>2. CASE Out!send_messages
    BY <1>2, OutboxReads, OutboxSends, OutboxFails DEF Out!send_messages
  <1>3. CASE Out!restart
    BY ZenonT(60), <1>3, OutboxRestarts
  <1>4. CASE UNCHANGED Out!vars
    BY <1>4 DEF Out!vars, OutboxInv, OutboxTyped, InOrder, PushedOnce, CountsHead, SendsHead,
       LeftWell,
                Left, Out!Pushed
  <1>5. QED
    BY <1>1, <1>2, <1>3, <1>4 DEF Out!Next

(* A sequence that agrees with another from some place to the end.          *)
LEMMA EndIsEnd ==
  ASSUME NEW S, NEW s \in Seq(S), NEW t \in Seq(S), NEW k \in Nat, k = Len(t) - Len(s),
         \A i \in 1..Len(s) : s[i] = t[k + i]
  PROVE  Out!EndOf(s, t)
  <1>1. SubSeq(t, k + 1, Len(t)) = [i \in 1..Len(s) |-> t[k + i]]
    OBVIOUS
  <1>2. s = [i \in 1..Len(s) |-> s[i]]
    OBVIOUS
  <1>3. s = SubSeq(t, k + 1, Len(t))
    BY Zenon, <1>1, <1>2
  <1>4. Len(t) - Len(s) + 1 = k + 1 /\ Len(s) <= Len(t)
    BY SMTT(30)
  <1> QED
    BY Zenon, <1>3, <1>4 DEF Out!EndOf

(* What the invariant says of the messages that left is the property.       *)
LEMMA OutboxImplies ==
  ASSUME OutboxTerms, OutboxInv
  PROVE  Out!GivenUpAfterFour
  <1> USE DEF OutboxInv
  <1> SUFFICES ASSUME NEW q \in Queues
               PROVE  /\ Out!EndOf(queue[q], pushed[q])
                      /\ \A m \in Out!Range(pushed[q]) \ Out!Range(queue[q]) :
                           m \in sent \cup lost \/ failures[m] = SendRetries + 1
    BY Zenon DEF Out!GivenUpAfterFour
  <1>0. queue[q] \in Seq(Messages) /\ pushed[q] \in Seq(Messages)
    BY DEF OutboxTyped
  <1>1. Left(q) \in Nat /\ Left(q) = Len(pushed[q]) - Len(queue[q]) /\ Len(queue[q]) \in Nat
        /\ Len(pushed[q]) \in Nat
        /\ \A i \in 1..Len(queue[q]) : queue[q][i] = pushed[q][Left(q) + i]
    <2>1. Left(q) = Len(pushed[q]) - Len(queue[q])
      BY DEF Left
    <2>2. QED
      BY Zenon, <2>1, LeftCounts
  <1>2. Out!EndOf(queue[q], pushed[q])
    BY Zenon, <1>0, <1>1, EndIsEnd
  <1>3. ASSUME NEW m \in Out!Range(pushed[q]) \ Out!Range(queue[q])
        PROVE  m \in sent \cup lost \/ failures[m] = SendRetries + 1
    <2>1. PICK i \in 1..Len(pushed[q]) : m = pushed[q][i]
      BY <1>0 DEF Out!Range
    <2>2. i \in 1..Left(q)
      <3> SUFFICES ASSUME i \notin 1..Left(q) PROVE FALSE
        OBVIOUS
      <3>1. PICK j \in 1..Len(queue[q]) : pushed[q][i] = queue[q][j]
        BY NotLeftWaits
      <3>2. queue[q][j] \in Out!Range(queue[q])
        BY <1>0 DEF Out!Range
      <3>3. QED
        BY <2>1, <3>1, <3>2
    <2>3. QED
      BY <2>1, <2>2 DEF LeftWell
  <1>4. QED
    BY Zenon, <1>2, <1>3

(* send_messages: for any queues, messages and retry limit, a queue is the  *)
(* end of what was pushed to it in the order it was pushed, and a message   *)
(* that left it was sent, dropped by a restart, or failed once more than    *)
(* the limit itself: the failures of one message never count against the    *)
(* next.                                                                    *)
THEOREM GivenUpAfterFourHolds ==
  ASSUME OutboxTerms
  PROVE  Out!Spec => []GivenUpAfterFour
  <1>1. Out!Init => OutboxInv
    BY OutboxInit
  <1>2. OutboxInv /\ [Out!Next]_(Out!vars) => OutboxInv'
    BY OutboxNext
  <1>3. OutboxInv => GivenUpAfterFour
    BY OutboxImplies DEF GivenUpAfterFour
  <1>4. QED
    BY <1>1, <1>2, <1>3, PTL DEF Out!Spec

-----------------------------------------------------------------------------
(***************************************************************************)
(* PriceHealth.  The cooldown shifts by the number of failures; that the   *)
(* shift is never 0 takes an induction, over a set of numbers.             *)
(***************************************************************************)
INSTANCE WellFoundedInduction

-----------------------------------------------------------------------------
(* Induction on sets of numbers.                                             *)

(* A set of numbers that is not empty has a least element.                   *)
LEMMA LeastElement ==
  ASSUME NEW T \in SUBSET Nat, T # {}
  PROVE  \E x \in T : \A y \in T : ~(y < x)
  <1>1. IsWellFoundedOn(OpToRel(<, Nat), Nat)
    BY Zenon, NatLessThanWellFounded
  <1>2. \E x \in T : \A y \in T : ~(<<y, x>> \in OpToRel(<, Nat))
    BY Zenon, <1>1, WFMin
  <1>3. \A x, y \in Nat : y < x => <<y, x>> \in OpToRel(<, Nat)
    BY DEF OpToRel
  <1>4. QED
    BY Zenon, <1>2, <1>3

(* A set that holds 0 and, with a number, the next holds every number.       *)
LEMMA SetInduction ==
  ASSUME NEW S, 0 \in S, \A n \in Nat : n \in S => n + 1 \in S
  PROVE  Nat \subseteq S
  <1> SUFFICES ASSUME Nat \ S # {} PROVE FALSE
    OBVIOUS
  <1>1. PICK x \in Nat \ S : \A y \in Nat \ S : ~(y < x)
    BY Zenon, LeastElement
  <1>2. x # 0 /\ x - 1 \in Nat /\ x - 1 < x /\ (x - 1) + 1 = x
    BY <1>1
  <1>3. x - 1 \in S
    BY <1>1, <1>2
  <1>4. QED
    BY <1>1, <1>2, <1>3

(* The powers up to n, as a function.                                        *)
UpTo(n, f) ==
  /\ f \in [0..n -> Nat \ {0}]
  /\ \A i \in 0..n : f[i] = IF i = 0 THEN 1 ELSE 2 * f[i - 1]

(* There is such a function for every n.                                    *)
LEMMA UpToExists ==
  ASSUME NEW n \in Nat
  PROVE  \E f : UpTo(n, f)
  <1> DEFINE S == {m \in Nat : \E f : UpTo(m, f)}
  <1>1. 0 \in S
    <2>1. UpTo(0, [i \in 0..0 |-> 1])
      BY DEF UpTo
    <2>2. QED
      BY <2>1
  <1>2. ASSUME NEW m \in Nat, m \in S PROVE m + 1 \in S
    <2>1. PICK f : UpTo(m, f)
      BY <1>2
    <2> DEFINE g == [i \in 0..m + 1 |-> IF i = m + 1 THEN 2 * f[m] ELSE f[i]]
    <2>2. f \in [0..m -> Nat \ {0}] /\ m \in 0..m
      BY <2>1 DEF UpTo
    <2>3. g \in [0..m + 1 -> Nat \ {0}]
      BY <2>2
    <2>4. ASSUME NEW i \in 0..m + 1 PROVE g[i] = IF i = 0 THEN 1 ELSE 2 * g[i - 1]
      <3>1. CASE i = m + 1
        BY <3>1
      <3>2. CASE i \in 0..m
        <4>1. f[i] = IF i = 0 THEN 1 ELSE 2 * f[i - 1]
          BY <2>1, <3>2 DEF UpTo
        <4>2. g[i] = f[i]
          BY <3>2
        <4>3. i # 0 => g[i - 1] = f[i - 1]
          BY <3>2
        <4>4. QED
          BY <4>1, <4>2, <4>3
      <3>3. QED
        BY <3>1, <3>2
    <2>5. UpTo(m + 1, g)
      BY <2>3, <2>4 DEF UpTo
    <2>6. QED
      BY <2>5
  <1> HIDE DEF S
  <1>3. n \in S
    BY <1>1, <1>2, SetInduction
  <1>4. QED
    BY <1>3 DEF S

(* Two of them agree where both are defined.                                *)
LEMMA UpToAgree ==
  ASSUME NEW n \in Nat, NEW m \in Nat, NEW f, NEW g, UpTo(n, f), UpTo(m, g),
         NEW k \in Nat, k <= n, k <= m
  PROVE  f[k] = g[k]
  <1> DEFINE S == {j \in Nat : j <= n /\ j <= m => f[j] = g[j]}
  <1>1. 0 \in S
    BY DEF UpTo
  <1>2. ASSUME NEW j \in Nat, j \in S PROVE j + 1 \in S
    <2> SUFFICES ASSUME j + 1 <= n, j + 1 <= m PROVE f[j + 1] = g[j + 1]
      OBVIOUS
    <2>1. f[j] = g[j]
      BY <1>2
    <2>2. f[j + 1] = 2 * f[j] /\ g[j + 1] = 2 * g[j]
      <3>1. j + 1 \in 0..n /\ j + 1 \in 0..m /\ j + 1 # 0 /\ (j + 1) - 1 = j
        OBVIOUS
      <3>2. QED
        BY <3>1 DEF UpTo
    <2>3. QED
      BY <2>1, <2>2
  <1> HIDE DEF S
  <1>3. k \in S
    BY <1>1, <1>2, SetInduction
  <1>4. QED
    BY <1>3 DEF S

(* The shift is what its definition says, and never 0.                       *)
LEMMA ShiftedIsPositive ==
  ASSUME NEW k \in Nat
  PROVE  Breaker!Shifted[k] \in Nat \ {0}
  <1> DEFINE F == [n \in Nat |-> (CHOOSE f : UpTo(n, f))[n]]
  <1>1. ASSUME NEW n \in Nat PROVE UpTo(n, CHOOSE f : UpTo(n, f))
    BY UpToExists
  <1>2. ASSUME NEW n \in Nat PROVE F[n] \in Nat \ {0} /\ F[n] = IF n = 0 THEN 1 ELSE 2 * F[n - 1]
    <2> DEFINE f == CHOOSE h : UpTo(n, h)
               g == CHOOSE h : UpTo(n - 1, h)
    <2>1. UpTo(n, f)
      BY <1>1
    <2>2. F[n] = f[n]
      OBVIOUS
    <2>3. n # 0 => n - 1 \in Nat /\ UpTo(n - 1, g) /\ F[n - 1] = g[n - 1]
      <3> SUFFICES ASSUME n # 0 PROVE n - 1 \in Nat /\ UpTo(n - 1, g) /\ F[n - 1] = g[n - 1]
        OBVIOUS
      <3>1. n - 1 \in Nat
        OBVIOUS
      <3>2. QED
        BY <1>1, <3>1
    <2> HIDE DEF f, g, F
    <2>4. f[n] \in Nat \ {0} /\ f[n] = IF n = 0 THEN 1 ELSE 2 * f[n - 1]
      BY <2>1 DEF UpTo
    <2>5. n # 0 => f[n - 1] = g[n - 1]
      BY <2>1, <2>3, UpToAgree
    <2>6. QED
      BY <2>2, <2>3, <2>4, <2>5
  <1>3. F = [n \in Nat |-> IF n = 0 THEN 1 ELSE 2 * F[n - 1]]
    <2>1. \A n \in Nat : F[n] = IF n = 0 THEN 1 ELSE 2 * F[n - 1]
      BY Zenon, <1>2
    <2>2. F = [n \in Nat |-> F[n]]
      OBVIOUS
    <2> HIDE DEF F
    <2>3. QED
      BY Zenon, <2>1, <2>2
  <1> HIDE DEF F
  <1>4. Breaker!Shifted = [n \in Nat |-> IF n = 0 THEN 1 ELSE 2 * Breaker!Shifted[n - 1]]
    BY <1>3 DEF Breaker!Shifted
  <1> DEFINE S == {n \in Nat : Breaker!Shifted[n] = F[n]}
  <1>5. 0 \in S
    BY <1>2, <1>4
  <1>6. ASSUME NEW n \in Nat, n \in S PROVE n + 1 \in S
    <2>1. Breaker!Shifted[n + 1] = 2 * Breaker!Shifted[n]
      <3>1. n + 1 \in Nat /\ n + 1 # 0 /\ (n + 1) - 1 = n
        OBVIOUS
      <3>2. QED
        BY <1>4, <3>1
    <2>2. F[n + 1] = 2 * F[n]
      <3>1. n + 1 \in Nat /\ n + 1 # 0 /\ (n + 1) - 1 = n
        OBVIOUS
      <3>2. QED
        BY <1>2, <3>1
    <2>3. QED
      BY <1>6, <2>1, <2>2
  <1> HIDE DEF S
  <1>7. k \in S
    BY <1>5, <1>6, SetInduction
  <1>8. QED
    BY <1>2, <1>7 DEF S

-----------------------------------------------------------------------------

(* A multiple is no smaller than the number.                                *)
LEMMA ProductGrows ==
  ASSUME NEW b \in Nat, NEW d \in Nat \ {0}
  PROVE  b * d \in Nat /\ b * d >= b
  <1>1. b * (d - 1) \in Nat /\ b * d = b * (d - 1) + b
    OBVIOUS
  <1>2. QED
    BY <1>1

(* Beyond the threshold the cooldown is at least the base, at most the cap.  *)
LEMMA CooldownBounds ==
  ASSUME BreakerTerms, NEW n \in Nat, n >= Breaker!failure_threshold
  PROVE  Breaker!Cooldown(n) \in 0..Cap /\ Breaker!Cooldown(n) >= Breaker!Least(Base, Cap)
  <1> DEFINE k == Breaker!Least(n - Breaker!failure_threshold, Width - 1)
  <1>1. Breaker!failure_threshold \in Nat \ {0}
    BY DEF Breaker!failure_threshold, BreakerTerms
  <1>2. k \in Nat
    BY <1>1 DEF Breaker!Least, BreakerTerms
  <1>3. Breaker!Shifted[k] \in Nat \ {0} /\ Breaker!Shifted[Width] \in Nat \ {0}
    BY <1>2, ShiftedIsPositive DEF BreakerTerms
  <1> HIDE DEF k
  <1>4. Base * Breaker!Shifted[k] \in Nat /\ Base * Breaker!Shifted[k] >= Base
    BY <1>3, ProductGrows DEF BreakerTerms
  <1>5. Breaker!Cooldown(n) = Breaker!Least(Breaker!Least(Base * Breaker!Shifted[k],
          Breaker!Shifted[Width] - 1), Cap)
    BY DEF Breaker!Cooldown, k
  <1> DEFINE x == Base * Breaker!Shifted[k]
             y == Breaker!Shifted[Width]
  <1>6. x \in Nat /\ x >= Base /\ y \in Nat \ {0} /\ Base < y /\ Base \in Nat /\ Cap \in Nat
        /\ Breaker!Cooldown(n) = Breaker!Least(Breaker!Least(x, y - 1), Cap)
    BY <1>3, <1>4, <1>5 DEF BreakerTerms
  <1> HIDE DEF x, y
  <1>7. QED
    BY <1>6 DEF Breaker!Least

(* record_failure: for any set of providers, poll interval, threshold, base *)
(* and cap, a failure at or beyond the threshold keeps the provider out for *)
(* the base cooldown at least, since the shift saturates and never wraps to *)
(* a shorter one; and no provider goes unpolled for longer than the cap and *)
(* one poll interval.                                                       *)
THEOREM BackoffHoldsAlways ==
  ASSUME BreakerTerms
  PROVE  Breaker!Spec => BackoffHolds
  <1>0. CooldownFits
    BY CooldownBounds DEF CooldownFits
  <1>1. Breaker!Init => BreakerInv
    BY BreakerInit
  <1>2. BreakerInv /\ [Breaker!Next]_(Breaker!vars) => BreakerInv'
    BY <1>0, BreakerNext
  <1>3. BreakerInv /\ [Breaker!Next]_(Breaker!vars) => [Breaker!BackoffStep]_(Breaker!vars)
    BY <1>0, BreakerStep
  <1>4. QED
    BY <1>1, <1>2, <1>3, PTL DEF Breaker!Spec, BackoffHolds, Breaker!BackoffHolds

-----------------------------------------------------------------------------
(***************************************************************************)
(* Ratings.                                                                *)
(***************************************************************************)
INSTANCE FiniteSetTheorems

(* Finitely many orders were traded, by users.                              *)
RatingTerms == IsFiniteSet(RatedOrders) /\ \A o \in RatedOrders,
  side \in Rate!Sides : PartyOf[o][side] \in Users

(* The votes for a user whose flag is set.                                  *)
VotesFor(u) == {vote \in Rate!Votes : vote[2] \in sent_rate[vote[1]] /\ Rate!Rated(vote) = u}

RatingTyped ==
  /\ sent_rate \in [RatedOrders -> SUBSET Rate!Sides]
  /\ reviews \in [Users -> Nat]
  /\ handler # Nothing => handler.vote \in Rate!Votes

RatingInv == RatingTyped /\ Rate!CountedOnce

(* Finitely many votes can be cast for a user.                              *)
LEMMA VotesForFinite ==
  ASSUME RatingTerms, NEW u
  PROVE  IsFiniteSet(VotesFor(u))
  <1>1. IsFiniteSet(Rate!Sides)
    <2>1. IsFiniteSet({"buyer"})
      BY FS_Singleton
    <2>2. Rate!Sides = {"buyer"} \cup {"seller"}
      BY DEF Rate!Sides
    <2>3. QED
      BY <2>1, <2>2, FS_AddElement
  <1>2. IsFiniteSet(Rate!Votes)
    BY <1>1, FS_Product DEF Rate!Votes, RatingTerms
  <1>3. VotesFor(u) \subseteq Rate!Votes
    BY DEF VotesFor
  <1>4. QED
    BY <1>2, <1>3, FS_Subset

(* Cardinality is the same operator in the instance.                        *)
LEMMA RatingCounts ==
  \A S : Rate!Cardinality(S) = Cardinality(S)
  BY DEF Rate!Cardinality, Cardinality

(* The claim and the aggregate change together, by the one vote.            *)
LEMMA RatingClaims ==
  ASSUME RatingTerms, RatingInv, Rate!claim_order_rating_flag
  PROVE  RatingInv'
  <1> USE DEF RatingInv
  <1>0. handler # Nothing /\ handler.vote \in Rate!Votes
    BY ZenonT(60) DEF Rate!claim_order_rating_flag, RatingTyped
  <1>1. CASE UNCHANGED <<sent_rate, reviews>> /\ handler' = Nothing
    BY <1>1 DEF RatingTyped, Rate!CountedOnce
  <1>2. ASSUME handler.vote[2] \notin sent_rate[handler.vote[1]],
               sent_rate' = [sent_rate EXCEPT ![handler.vote[1]] = @ \cup {handler.vote[2]}],
               reviews' = [reviews EXCEPT ![Rate!Rated(handler.vote)] = @ + 1],
               handler' = [handler EXCEPT !.pc = "event"]
        PROVE  RatingInv'
    <2> DEFINE mine == handler.vote
    <2>1. mine \in Rate!Votes /\ mine[1] \in RatedOrders /\ mine[2] \in Rate!Sides
            /\ mine = <<mine[1], mine[2]>>
      BY ZenonT(60), <1>0, VoteIsPair
    <2>2. Rate!Rated(mine) \in Users
      BY <2>1 DEF RatingTerms, Rate!Rated, Rate!Sides, Rate!Other
    <2>3. sent_rate' = [sent_rate EXCEPT ![mine[1]] = @ \cup {mine[2]}]
            /\ mine[2] \notin sent_rate[mine[1]]
          /\ reviews' = [reviews EXCEPT ![Rate!Rated(mine)] = @ + 1]
      BY <1>2
    <2>4. handler'.vote = mine
      BY SMTT(30), <1>2
    <2> HIDE DEF mine
    <2>5. RatingTyped'
      <3>1. sent_rate' \in [RatedOrders -> SUBSET Rate!Sides]
        BY <2>1, <2>3 DEF RatingTyped
      <3>2. reviews' \in [Users -> Nat]
        BY ZenonT(60), <2>2, <2>3, ReviewCounted DEF RatingTyped
      <3>3. QED
        BY <2>1, <2>4, <3>1, <3>2 DEF RatingTyped, Rate!Votes
    <2>6. ASSUME NEW vote \in Rate!Votes
          PROVE  vote[2] \in sent_rate'[vote[1]] <=> vote = mine \/ vote[2] \in sent_rate[vote[1]]
      <3>1. vote[1] \in RatedOrders /\ vote[2] \in Rate!Sides /\ vote = <<vote[1], vote[2]>>
        BY Zenon, VoteIsPair
      <3>2. CASE vote[1] = mine[1]
        BY ZenonT(60), <2>1, <2>3, <3>1, <3>2 DEF RatingTyped
      <3>3. CASE vote[1] # mine[1]
        BY <2>1, <2>3, <3>1, <3>3 DEF RatingTyped
      <3>4. QED
        BY <3>2, <3>3
    <2>7. ASSUME NEW u \in Users PROVE reviews'[u] = Rate!Cardinality(VotesFor(u)')
      <3>1. reviews[u] = Rate!Cardinality(VotesFor(u)) /\ reviews[u] \in Nat
        BY ZenonT(60) DEF Rate!CountedOnce, VotesFor, RatingTyped
      <3>2. CASE u = Rate!Rated(mine)
        <4>1. VotesFor(u)' = VotesFor(u) \cup {mine}
          BY ZenonT(60), <2>1, <2>6, <3>2 DEF VotesFor, Rate!Rated
        <4>2. mine \notin VotesFor(u)
          BY <2>3 DEF VotesFor
        <4>3. Rate!Cardinality(VotesFor(u) \cup {mine}) = Rate!Cardinality(VotesFor(u)) + 1
          BY <4>2, VotesForFinite, FS_AddElement, RatingCounts
        <4>4. reviews'[u] = reviews[u] + 1
          BY <2>2, <2>3, <3>2 DEF RatingTyped
        <4>5. QED
          BY <3>1, <4>1, <4>3, <4>4
      <3>3. CASE u # Rate!Rated(mine)
        <4>1. VotesFor(u)' = VotesFor(u)
          BY <2>1, <2>6, <3>3 DEF VotesFor, Rate!Rated
        <4>2. reviews'[u] = reviews[u]
          BY ZenonT(60), <2>2, <2>3, <3>3 DEF RatingTyped
        <4>3. QED
          BY <3>1, <4>1, <4>2
      <3>4. QED
        BY ZenonT(60), <3>2, <3>3
    <2>8. Rate!CountedOnce'
      BY <2>7 DEF Rate!CountedOnce, VotesFor
    <2>9. QED
      BY <2>5, <2>8
  <1>3. QED
    BY <1>1, <1>2 DEF Rate!claim_order_rating_flag

(* The invariant is kept.                                                   *)
LEMMA RatingNext ==
  ASSUME RatingTerms, RatingInv, [Rate!Next]_(Rate!vars)
  PROVE  RatingInv'
  <1>1. CASE Rate!claim_order_rating_flag
    BY ZenonT(60), <1>1, RatingClaims
  <1>2. CASE \E vote \in Rate!Votes : Rate!update_user_reputation_action(vote)
    <2>1. PICK vote \in Rate!Votes : Rate!update_user_reputation_action(vote)
      BY ZenonT(60), <1>2
    <2>2. UNCHANGED <<sent_rate, reviews>> /\ handler'.vote \in Rate!Votes
      BY <2>1 DEF Rate!update_user_reputation_action
    <2>3. RatingTyped'
      BY Zenon, <2>2 DEF RatingInv, RatingTyped
    <2>4. Rate!CountedOnce'
      BY Zenon, <2>2 DEF RatingInv, Rate!CountedOnce, Rate!Rated
    <2>5. QED
      BY ZenonT(60), <2>3, <2>4 DEF RatingInv
  <1>3. CASE \/ (\E o \in RatedOrders : Rate!do_payment(o) \/ Rate!payment_success(o))
             \/ Rate!Flushing \/ UNCHANGED Rate!vars
    <2>1. UNCHANGED <<sent_rate, reviews, handler>>
      BY Zenon, <1>3 DEF Rate!do_payment, Rate!payment_success, Rate!Flushing, Rate!flush_read,
         Rate!flush_send, Rate!flush_clear, Rate!vars
    <2>2. QED
      BY Zenon, <2>1 DEF RatingInv, RatingTyped, Rate!CountedOnce, Rate!Rated
  <1>4. CASE Rate!update_user_rating_event \/ Rate!restart
    <2>1. UNCHANGED <<sent_rate, reviews>> /\ handler' = Nothing
      BY <1>4 DEF Rate!update_user_rating_event, Rate!restart
    <2>2. QED
      BY ZenonT(60), <2>1 DEF RatingInv, RatingTyped, Rate!CountedOnce, Rate!Rated
  <1>5. QED
    BY <1>1, <1>2, <1>3, <1>4 DEF Rate!Next, Rate!Handling

(* No vote is cast at the start.                                            *)
LEMMA RatingInit ==
  ASSUME Rate!Init
  PROVE  RatingInv
  <1>1. RatingTyped
    BY Zenon DEF Rate!Init, RatingTyped, Rate!Votes
  <1>2. ASSUME NEW u \in Users PROVE reviews[u] = Rate!Cardinality(VotesFor(u))
    <2>1. \A vote \in Rate!Votes : vote[1] \in RatedOrders
      BY DEF Rate!Votes
    <2>2. VotesFor(u) = {}
      BY <2>1 DEF VotesFor, Rate!Init
    <2>3. QED
      BY <2>2, FS_EmptySet, RatingCounts DEF Rate!Init
  <1>3. QED
    BY <1>1, <1>2 DEF RatingInv, Rate!CountedOnce, VotesFor

(* update_user_reputation_action: for any finite set of orders, any users   *)
(* and any number of faults, the reviews of a user are exactly the votes    *)
(* cast for that user; claim_order_rating_flag counts none twice, however   *)
(* often a vote is sent again.                                              *)
THEOREM CountedOnceHolds ==
  ASSUME RatingTerms
  PROVE  Rate!Spec => []CountedOnce
  <1>1. Rate!Init => RatingInv
    BY RatingInit
  <1>2. RatingInv /\ [Rate!Next]_(Rate!vars) => RatingInv'
    BY RatingNext
  <1>3. RatingInv => CountedOnce
    BY Zenon DEF RatingInv, CountedOnce
  <1>4. QED
    BY <1>1, <1>2, <1>3, PTL DEF Rate!Spec

-----------------------------------------------------------------------------
(***************************************************************************)
(* CashuEscrow: what the invariant gives.                                  *)
(***************************************************************************)
(* Cardinality is the same operator in the instance.                        *)
LEMMA CashuCounts ==
  \A S : Cashu!Cardinality(S) = Cardinality(S)
  BY Zenon DEF Cashu!Cardinality, Cardinality

(* One signature among those of the seller is the seller's.                 *)
LEMMA SellerAlone ==
  ASSUME NEW s \in SUBSET Cashu!Keys
  PROVE  Cashu!Cardinality(s \cap {"seller"}) >= 1 <=> "seller" \in s
  <1>1. CASE "seller" \in s
    <2>1. s \cap {"seller"} = {"seller"}
      BY <1>1
    <2>2. Cashu!Cardinality({"seller"}) = 1
      BY ZenonT(60), FS_Singleton, CashuCounts
    <2>3. QED
      BY <1>1, <2>1, <2>2
  <1>2. CASE "seller" \notin s
    <2>1. s \cap {"seller"} = {}
      BY <1>2
    <2>2. Cashu!Cardinality({}) = 0
      BY FS_EmptySet, CashuCounts
    <2>3. QED
      BY <1>2, <2>1, <2>2
  <1>3. QED
    BY <1>1, <1>2

(* What passes verify_escrow_token the mint honours as the trade needs.      *)
LEMMA VerifiedIsSound ==
  ASSUME CashuTerms, NEW t \in Cashu!Tokens, Cashu!verify_escrow_token(t)
  PROVE  /\ Cashu!Worth(t) = Cashu!Amount
         /\ \A s \in SUBSET Cashu!Keys : Cashu!Spendable(t, s,
              Floor) <=> Cashu!Cardinality(s \ {"other"}) >= 2
         /\ \A s \in SUBSET Cashu!Keys : Cashu!Spendable(t, s, t.locktime + 1) <=>
              "seller" \in s \/ Cashu!Cardinality(s \ {"other"}) >= 2
  <1>1. Cashu!Worth(t) = Cashu!Amount
    BY Zenon DEF Cashu!Worth, Cashu!verify_escrow_token, Cashu!verify_token_dleq, Cashu!check_state,
       Cashu!reject_duplicate_proofs
  <1>2. /\ ~t.double_tags /\ t.kind = "P2PK" /\ t.sig_flag = "inputs" /\ t.n_sigs = 2
        /\ t.signers = {"buyer", "seller", "mostro"} /\ t.locktime # 0 /\ t.refund = {"seller"}
        /\ t.n_sigs_refund \in {0, 1} /\ t.locktime >= Floor
    BY Zenon DEF Cashu!verify_escrow_token, Cashu!verify_escrow_conditions,
       Cashu!verify_2of3_condition
  <1>3. t.locktime \in Int /\ Floor \in Int
    BY ZenonT(60), TokenLocktime, FloorIsInt
  <1>4. ASSUME NEW s \in SUBSET Cashu!Keys, NEW day
        PROVE  Cashu!Spendable(t, s, day) <=>
                 Cashu!Cardinality(s \ {"other"}) >= 2 \/ (day > t.locktime /\ "seller" \in s)
    <2>1. s \cap t.signers = s \ {"other"}
      BY Zenon, <1>2 DEF Cashu!Keys
    <2>2. t.refund # {}
      BY <1>2
    <2>3. (IF t.n_sigs_refund = 0 THEN 1 ELSE t.n_sigs_refund) = 1
      BY <1>2
    <2>4. Cashu!Cardinality(s \cap t.refund) >= (IF t.n_sigs_refund = 0 THEN 1 ELSE t.n_sigs_refund)
            <=> "seller" \in s
      BY ZenonT(60), <1>2, <2>3, SellerAlone
    <2>5. (Cashu!Cardinality(s \cap t.signers) >= t.n_sigs /\ t.sig_flag = "inputs")
            <=> Cashu!Cardinality(s \ {"other"}) >= 2
      BY ZenonT(60), <1>2, <2>1
    <2>6. QED
      BY ZenonT(60), <1>2, <2>2, <2>4, <2>5 DEF Cashu!Spendable
  <1>5. ~(Floor > t.locktime) /\ t.locktime + 1 > t.locktime
    BY ZenonT(60), <1>2, <1>3, NextDay
  <1>6. QED
    BY ZenonT(60), <1>1, <1>4, <1>5

(* The invariant says more than the property: the window of the expiry job  *)
(* takes nothing from it.                                                   *)
LEMMA CashuImplies ==
  ASSUME CashuTerms, CashuInv
  PROVE  Cashu!EscrowIsSound
  <1> SUFFICES ASSUME NEW o \in CashuOrders, row[o].status = "active", Cashu!Kept(o)
      PROVE  LET t == row[o].token IN
             /\ t # Nothing /\ Cashu!Worth(t) = Cashu!Amount
             /\ \A p \in CashuOrders \ {o} : row[p].token # t
             /\ \A s \in SUBSET Cashu!Keys : Cashu!Spendable(t, s,
                  Floor) <=> Cashu!Cardinality(s \ {"other"}) >= 2
             /\ \A s \in SUBSET Cashu!Keys : Cashu!Spendable(t, s, t.locktime + 1) <=>
                  "seller" \in s \/ Cashu!Cardinality(s \ {"other"}) >= 2
    BY Zenon DEF Cashu!EscrowIsSound
  <1>1. row[o].token # Nothing
    BY Zenon DEF CashuInv, HeldAreVerified, Cashu!Kept
  <1>2. row[o].token \in Cashu!Tokens
    BY Zenon, <1>1 DEF CashuInv, CashuTyped, Cashu!Rows
  <1>3. Cashu!verify_escrow_token(row[o].token)
          /\ \A p \in CashuOrders \ {o} : row[p].token # row[o].token
    BY Zenon, <1>1 DEF CashuInv, HeldAreVerified
  <1>4. QED
    BY ZenonT(60), <1>1, <1>2, <1>3, VerifiedIsSound

(* verify_escrow_token and the unique token of update_order_cashu_escrow:   *)
(* whatever interleaving of the main loop and the expiry job and whatever   *)
(* crash, for any set of orders, an active order that no expiry clobbers    *)
(* holds a token no other order has, worth its amount, that exactly two of  *)
(* the three parties can redeem until the floor and the seller alone after  *)
(* its locktime.                                                            *)
THEOREM EscrowIsSoundHolds ==
  ASSUME CashuTerms
  PROVE  Cashu!Spec => []EscrowIsSound
  <1>1. Cashu!Init => CashuInv
    BY CashuInit
  <1>2. CashuInv /\ [Cashu!Next]_(Cashu!vars) => CashuInv'
    BY CashuNext
  <1>3. CashuInv => EscrowIsSound
    BY CashuImplies DEF EscrowIsSound
  <1>4. QED
    BY <1>1, <1>2, <1>3, PTL DEF Cashu!Spec
=============================================================================
