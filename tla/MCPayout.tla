------------------------------ MODULE MCPayout ------------------------------
(* Finite instances of Payout.  Nothing depends on absolute time, so states *)
(* are identified when all tokens have the same age, counting any age above *)
(* the grace window as one; a request also remembers if its sender waits.   *)
EXTENDS Payout, TLC

Symmetry == Permutations(Hashes) \cup Permutations(Tasks)

Age(c, top) ==
  IF c = NoClaim THEN c
  ELSE [hash |-> c.hash, age |-> IF now - c.at > top THEN top + 1 ELSE now - c.at]

AgesUpTo(top) ==
  <<status, buyer_invoice, Age(payout, top), failed_payment, payment_attempts, asked,
    caller, pc, [a \in Actors |-> Age(claim[a], top)], snap,
    {[task |-> r.task, claim |-> Age(r.claim, top), waits |-> Sender(r)] : r \in wire},
    lnd, now - lastStamp, bounds>>

Ages == AgesUpTo(Grace)
=============================================================================
