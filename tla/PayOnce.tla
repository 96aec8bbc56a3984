------------------------------- MODULE PayOnce -------------------------------
(***************************************************************************)
(* What the payout machinery promises for one escrow, without claims,      *)
(* tasks, retries or restarts: once the escrow is settled, invoices are    *)
(* paid one at a time, none after one has gone through, and the order      *)
(* closes only after one has.                                              *)
(***************************************************************************)
CONSTANT Hashes

VARIABLES
  status,  \* status of the order
  paying,  \* the hashes LND is paying
  paid     \* the hashes LND has paid

promise == <<status, paying, paid>>

Init == status = "fiat-sent" /\ paying = {} /\ paid = {}

SettleEscrow ==
  /\ status = "fiat-sent"
  /\ status' = "settled-hold-invoice"
  /\ UNCHANGED <<paying, paid>>

Pay(h) ==
  /\ status = "settled-hold-invoice"
  /\ paying = {} /\ paid = {}
  /\ paying' = {h}
  /\ UNCHANGED <<status, paid>>

PaymentFails ==
  /\ paying' = {}
  /\ UNCHANGED <<status, paid>>

PaymentSettles ==
  /\ paying' = {}
  /\ paid' = paying
  /\ UNCHANGED status

Close ==
  /\ status = "settled-hold-invoice"
  /\ paid # {}
  /\ status' = "success"
  /\ UNCHANGED <<paying, paid>>

Next ==
  \/ SettleEscrow \/ PaymentFails \/ PaymentSettles \/ Close
  \/ \E h \in Hashes : Pay(h)

Spec == Init /\ [][Next]_promise
=============================================================================
