------------------------------- MODULE Intake -------------------------------
(***************************************************************************)
(* The way in: accept_event and check_trade_index of src/src/app.rs, the   *)
(* replay guard and the known-keys cache of src/src/spam_gate.rs, and the  *)
(* trade index a handler stores (update_user_trade_index of src/src/db.rs).*)
(* Relays deliver an event any number of times, late, and again after a    *)
(* restart; the sender's clock is not ours.  One event is taken from       *)
(* arrival to the end of its handler before the next.                      *)
(***************************************************************************)
EXTENDS Integers

CONSTANTS
  Events,     \* numbered in the order they are published
  Freshness,  \* the 10 seconds of accept_event
  WindowSecs, \* REPLAY_WINDOW_SECS
  MaxSkew,    \* how far a sender's clock may run ahead
  MaxIndex    \* bound: trade indices in use

(* All events are one user's, who trades under an identity key with one     *)
(* trade key an order, or privately under the trade key alone.              *)
VARIABLES
  message,   \* what each event carries, Unsent before it is published
  created,   \* its created_at, in seconds from now
  seen,      \* seconds since the replay guard last saw it, Never if it has not
  known,     \* whether the trade key is in the cache of active keys
  last_trade_index, \* of the user's row, NoUser without one
  handled,   \* history: how often each event reached its handler
  used,      \* history: how many orders and takes each index was spent on
  zeroed,    \* history: an order was accepted under index 0
  restarted

vars == <<message, created, seen, known, last_trade_index, handled, used, zeroed, restarted>>

Never == -1
NoUser == -1
NoIndex == -1
Unsent == [action |-> "none"]
Old == -(Freshness + 1)
(* What an event may carry (a bound): a trade with an index and strong      *)
(* proof of work, a private trade, or another message.                      *)
Contents ==
  [action : {"trade"}, index : 0..MaxIndex, private : {FALSE}, strong_pow : {TRUE}]
  \cup [action : {"trade"}, index : {NoIndex}, private : {TRUE}, strong_pow : {FALSE}]
  \cup [action : {"other"}, index : {NoIndex}, private : {FALSE}, strong_pow : {FALSE}]

(* The state has its shape.                                                 *)
TypeOK ==
  /\ message \in [Events -> Contents \cup {Unsent}]
  /\ created \in [Events -> Old..MaxSkew]
  /\ seen \in [Events -> {Never} \cup 0..WindowSecs]
  /\ known \in BOOLEAN /\ zeroed \in BOOLEAN /\ restarted \in BOOLEAN
  /\ last_trade_index \in {NoUser} \cup 0..MaxIndex
  /\ handled \in [Events -> 0..2]
  /\ used \in [1..MaxIndex -> 0..2]

Init ==
  /\ message = [e \in Events |-> Unsent]
  /\ created = [e \in Events |-> Old]
  /\ seen = [e \in Events |-> Never]
  /\ known = FALSE /\ zeroed = FALSE /\ restarted = FALSE
  /\ last_trade_index = NoUser
  /\ handled = [e \in Events |-> 0]
  /\ used = [i \in 1..MaxIndex |-> 0]

Add1(n) == IF n = 2 THEN 2 ELSE n + 1

-----------------------------------------------------------------------------
publish(e, m, at) ==
  /\ message[e] = Unsent /\ \A d \in Events : d < e => message[d] # Unsent
  /\ message' = [message EXCEPT ![e] = m]
  /\ created' = [created EXCEPT ![e] = at]
  /\ UNCHANGED <<seen, known, last_trade_index, handled, used, zeroed, restarted>>

\* mutant: an entry is dropped a second early
PrunedEarly(e) == seen[e] # Never /\ seen[e] < WindowSecs

(* retain keeps what is at most the window old.                             *)
check_and_record(e) == seen[e] # Never /\ seen[e] <= WindowSecs

is_known == known

\* mutant: the index in use is accepted again
SameIndexAgain(m) == m.index < last_trade_index

InvalidTradeIndex(m) == m.index <= last_trade_index

(* The user row an event of the user leaves behind, and whether it passes.  *)
check_trade_index(m, row) ==
  IF m.action # "trade" THEN row = last_trade_index
  ELSE IF last_trade_index # NoUser /\ ~m.private
       THEN row = last_trade_index /\ (m.index >= 1 => ~InvalidTradeIndex(m))
       ELSE /\ m.index # 0
            /\ row = IF m.index # NoIndex /\ ~m.private THEN m.index ELSE last_trade_index

(* The handler of an order or a take refuses, or stores the index as it is. *)
update_user_trade_index(m, row) ==
  \/ last_trade_index' = row /\ UNCHANGED <<used, zeroed>>
  \/ /\ m.action = "trade"
     /\ last_trade_index' = IF m.private \/ row = NoUser THEN row ELSE m.index
     /\ used' = IF m.index >= 1 THEN [used EXCEPT ![m.index] = Add1(@)] ELSE used
     /\ zeroed' = (zeroed \/ m.index = 0)

(* Before the guard: proof of work, kind and signature.  A replay is        *)
(* recorded again; so is what the lanes then drop.                          *)
accept_event(e) ==
  LET m == message[e] IN
  /\ m # Unsent
  /\ seen' = [seen EXCEPT ![e] = 0]
  /\ \/ /\ ~check_and_record(e)
        /\ is_known \/ m.strong_pow
        /\ created[e] >= -Freshness
        /\ \E row \in {NoUser} \cup 0..MaxIndex :
             check_trade_index(m, row) /\ update_user_trade_index(m, row)
        /\ handled' = [handled EXCEPT ![e] = Add1(@)]
     \/ UNCHANGED <<last_trade_index, used, zeroed, handled>>
        /\ \/ check_and_record(e) \/ ~(is_known \/ m.strong_pow) \/ created[e] < -Freshness
           \/ \A row \in {NoUser} \cup 0..MaxIndex : ~check_trade_index(m, row)
  /\ UNCHANGED <<message, created, known, restarted>>

tick ==
  /\ created' = [e \in Events |-> IF created[e] = Old THEN Old ELSE created[e] - 1]
  /\ seen' = [e \in Events |-> IF seen[e] \in {Never, WindowSecs} THEN Never ELSE seen[e] + 1]
  /\ UNCHANGED <<message, known, last_trade_index, handled, used, zeroed, restarted>>

(* find_active_trade_pubkeys: orders become active and end elsewhere.       *)
job_refresh_active_pubkeys ==
  /\ known' = ~known
  /\ UNCHANGED <<message, created, seen, last_trade_index, handled, used, zeroed, restarted>>

(* The guard is empty after a restart, the cache is warmed.                 *)
install_spam_gate ==
  /\ ~restarted /\ restarted' = TRUE
  /\ seen' = [e \in Events |-> Never]
  /\ known' \in BOOLEAN
  /\ UNCHANGED <<message, created, last_trade_index, handled, used, zeroed>>

Next ==
  \/ \E e \in Events : \/ \E m \in Contents, at \in {-Freshness, MaxSkew} : publish(e, m, at)
                       \/ accept_event(e)
  \/ tick \/ job_refresh_active_pubkeys \/ install_spam_gate

Spec == Init /\ [][Next]_vars

-----------------------------------------------------------------------------
(* An event reaches its handler once, however often relays deliver it,      *)
(* while the daemon runs and clocks differ by at most the window less the   *)
(* freshness (spam_gate.rs: "a duplicate can never slip past the guard      *)
(* while the original is still acceptable").                                *)
HandledOnce == \A e \in Events : handled[e] = 2 => restarted

(* No trade index is spent twice, not even on an event replayed after a     *)
(* restart has emptied the guard, unless an order under index 0 has set the *)
(* counter back.                                                            *)
IndexSpentOnce == \A i \in 1..MaxIndex : used[i] = 2 => zeroed
=============================================================================
