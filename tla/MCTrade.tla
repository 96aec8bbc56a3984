------------------------------- MODULE MCTrade ------------------------------
(***************************************************************************)
(* Trade for TLC.  Hold invoices differ only in identity, so safety runs   *)
(* with two of them may treat them as symmetric.                           *)
(***************************************************************************)
EXTENDS Trade, TLC

InvoiceSymmetry == Permutations(Invoices)
============================================================================
