---------------------------- MODULE MCTakerBonds ----------------------------
(* Finite instances of TakerBonds: who owns which bond.                     *)
EXTENDS TakerBonds, TLC

CONSTANTS b1, b2, b3, x, y

OneBond == b1 :> x
OneEach == b1 :> x @@ b2 :> y
Retake == b1 :> x @@ b2 :> y @@ b3 :> x
=============================================================================
