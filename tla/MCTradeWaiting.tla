--------------------------- MODULE MCTradeWaiting ---------------------------
(* Trade with the users' cancels of a buy order only; a sell order passes   *)
(* through more states and is left to the jobs and the clocks.              *)
EXTENDS MCTrade

Canceling == {"cancel_pending", "maker_write", "taker_refund"}

WaitingNext == Next /\ (pc'[Main] \in Canceling => kind = "buy")

WaitingSpec == Init /\ [][WaitingNext]_vars /\ Fairness
=============================================================================
