----------------------------- MODULE MCServices -----------------------------
(* Values for the constants of Services that a configuration cannot write.  *)
EXTENDS Services

ThreeDebts == 1..3
TwoEvents == 1..2

(* Two trades between the same users, who change sides.                     *)
TwoTrades ==
  [o \in {"o1", "o2"} |-> IF o = "o1" THEN [buyer |-> "u", seller |-> "v"]
                                     ELSE [buyer |-> "v", seller |-> "u"]]
PrivateBuyer == {<<"o2", "buyer">>}

(* Node a has both kinds of direct provider, b prices from a's events and   *)
(* from the fiat cross alone.                                               *)
TwoNodes ==
  [n \in {"a", "b"} |-> IF n = "a" THEN [yadio |-> {"USD", "CUP"}, coingecko |-> {"CUP"}]
                                  ELSE [yadio |-> {}, coingecko |-> {}]]
=============================================================================
