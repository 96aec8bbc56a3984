----------------------------- MODULE PriceHealth -----------------------------
(***************************************************************************)
(* The circuit breaker of the price providers (price/provider.rs) under    *)
(* the price job: providers stop and resume answering at any time, and a   *)
(* provider that keeps failing is skipped for a growing cooldown.  What a  *)
(* poll makes of the quotes is in PriceRelay.  Times count down, or up,    *)
(* from now.                                                               *)
(***************************************************************************)
EXTENDS Integers

CONSTANTS
  Providers,
  Interval,   \* update_interval_seconds
  Threshold,  \* provider_failure_threshold
  Base,       \* provider_failure_cooldown_seconds
  Cap,        \* PROVIDER_COOLDOWN_CAP_SECONDS
  Width,      \* bits of the cooldown arithmetic (u64)
  MaxCount    \* where consecutive_failures saturates (u32::MAX)

VARIABLES
  consecutive_failures,
  open_for,   \* time until open_until, 0 when the breaker is closed
  sleep,      \* time until the job polls again
  answering,  \* the providers that answer now
  unpolled    \* history: time since each provider was last polled

vars == <<consecutive_failures, open_for, sleep, answering, unpolled>>

LongestGap == Cap + Interval

-----------------------------------------------------------------------------
is_available(p) == open_for[p] = 0

failure_threshold == IF Threshold < 1 THEN 1 ELSE Threshold
Least(a, b) == IF a < b THEN a ELSE b

(* 1 << k.                                                                 *)
Shifted[k \in Nat] == IF k = 0 THEN 1 ELSE 2 * Shifted[k - 1]

(* Mutant: the product wraps at the width of the type.                     *)
WrappingCooldown(n) ==
  LET over == n - failure_threshold
  IN Least((Base * Shifted[Least(over, Width - 1)]) % Shifted[Width], Cap)

(* The n-th failure in a row: base, doubled for each beyond the threshold, *)
(* saturating and capped.                                                  *)
Cooldown(n) ==
  LET over == n - failure_threshold
  IN Least(Least(Base * Shifted[Least(over, Width - 1)], Shifted[Width] - 1), Cap)

record_failure(p) ==
  LET n == Least(consecutive_failures[p] + 1, MaxCount)
  IN [failures |-> n,
      open |-> IF n < failure_threshold THEN open_for[p] ELSE Cooldown(n)]

record_success(p) == [failures |-> 0, open |-> 0]

(* One poll of every provider whose breaker is closed, and the sleep.      *)
update_all ==
  /\ sleep = 0
  /\ LET pollable == {p \in Providers : is_available(p)}
         health == [p \in pollable |->
                      IF p \in answering THEN record_success(p) ELSE record_failure(p)]
     IN /\ consecutive_failures' = [p \in Providers |->
             IF p \in pollable THEN health[p].failures ELSE consecutive_failures[p]]
        /\ open_for' = [p \in Providers |->
             IF p \in pollable THEN health[p].open ELSE open_for[p]]
        /\ unpolled' = [p \in Providers |-> IF p \in pollable THEN 0 ELSE unpolled[p]]
  /\ sleep' = Interval
  /\ UNCHANGED answering

(* A second passes, unless a poll is due.                                  *)
tick ==
  /\ sleep > 0
  /\ sleep' = sleep - 1
  /\ open_for' = [p \in Providers |-> IF open_for[p] > 0 THEN open_for[p] - 1 ELSE 0]
  /\ unpolled' = [p \in Providers |-> Least(unpolled[p] + 1, LongestGap + 1)]
  /\ UNCHANGED <<consecutive_failures, answering>>

(* A provider goes down or comes back.                                     *)
toggle(p) ==
  /\ answering' = IF p \in answering THEN answering \ {p} ELSE answering \cup {p}
  /\ UNCHANGED <<consecutive_failures, open_for, sleep, unpolled>>

Init ==
  /\ consecutive_failures = [p \in Providers |-> 0]
  /\ open_for = [p \in Providers |-> 0]
  /\ sleep = 0
  /\ answering = Providers
  /\ unpolled = [p \in Providers |-> 0]

Next == update_all \/ tick \/ \E p \in Providers : toggle(p)

Spec == Init /\ [][Next]_vars

-----------------------------------------------------------------------------
(* The state has its shape; a cooldown never exceeds the cap.              *)
TypeOK ==
  /\ consecutive_failures \in [Providers -> 0..MaxCount]
  /\ open_for \in [Providers -> 0..Cap]
  /\ sleep \in 0..Interval
  /\ answering \subseteq Providers
  /\ unpolled \in [Providers -> 0..LongestGap + 1]

(* The breaker bites, and never for good: after the threshold, every       *)
(* further failure in a row keeps the provider out for at least the base   *)
(* cooldown, at every exponent the width of the arithmetic allows          *)
(* (provider.rs:159-172), and however long it has been failing it is       *)
(* polled again within the capped cooldown and the wait for the next poll: *)
(* "a provider that has been down for a while should still be re-probed"   *)
(* (manager.rs:53-54).                                                     *)
BackoffStep ==
  \A p \in Providers :
    /\ unpolled'[p] <= LongestGap
    /\ (unpolled'[p] = 0 /\ p \notin answering /\ sleep = 0 /\ is_available(p)
        /\ consecutive_failures'[p] >= failure_threshold)
         => open_for'[p] >= Least(Base, Cap)
BackoffHolds == [][BackoffStep]_vars
=============================================================================
