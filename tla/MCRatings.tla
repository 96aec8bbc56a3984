----------------------------- MODULE MCRatings ------------------------------
(* One released order and its two parties.                                  *)
EXTENDS Ratings

CONSTANTS o1, u, v

OneTrade == [o \in {o1} |-> [buyer |-> u, seller |-> v]]
=============================================================================
