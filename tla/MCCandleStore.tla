----------------------------- MODULE MCCandleStore -----------------------------
(* Instances of CandleStore for TLC. *)
EXTENDS CandleStore, BacktestChecks, TLC

CONSTANTS w1, w2

Writers == {w1, w2}
===============================================================================
