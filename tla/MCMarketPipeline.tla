---------------------------- MODULE MCMarketPipeline ----------------------------
(* An instance of MarketPipeline for TLC. *)
EXTENDS MarketPipeline

CONSTANTS p1, p2, analysis, ingest, s1, s2

Processes == {p1, p2}
Loops == {analysis, ingest}
Sessions == {s1, s2}

(* The two processes are configured differently: two loops share the lease's
   queue in p1, and p2 contends with one. *)
Started == [p \in Processes |->
                IF p = p1 THEN <<analysis, ingest>> ELSE <<analysis>>]
=================================================================================
