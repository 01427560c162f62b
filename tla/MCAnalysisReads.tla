---------------------------- MODULE MCAnalysisReads ----------------------------
(* Instances of AnalysisReads for TLC. *)
EXTENDS AnalysisReads, ServiceChecks, TLC

CONSTANTS c1, c2, c3, btc, eth

Callers == {c1, c2, c3}
Markets == {btc, eth}
===============================================================================
