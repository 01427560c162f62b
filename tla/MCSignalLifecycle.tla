--------------------------- MODULE MCSignalLifecycle ---------------------------
(* Instances of SignalLifecycle for TLC. *)
EXTENDS SignalLifecycle, RiskChecks, TLC

CONSTANTS c1, c2, rule

OneCycle == {c1}
Cycles == {c1, c2}
Symmetry == Permutations(Cycles)
NoRule == {}
OneRule == {rule}
TwoPrices == {1, 3}
ThreePrices == 1..3
TwoConfidences == 1..2
OneConfidence == {1}
Horizons == {1, 2}
================================================================================
