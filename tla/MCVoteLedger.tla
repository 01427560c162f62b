----------------------------- MODULE MCVoteLedger -----------------------------
(* Instances of VoteLedger for TLC. *)
EXTENDS VoteLedger, DecisionChecks, TLC

CONSTANT s1

Settlers == {s1}
Horizons == {1, 2}
===============================================================================
