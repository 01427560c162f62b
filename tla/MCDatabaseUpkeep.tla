--------------------------- MODULE MCDatabaseUpkeep ---------------------------
(* An instance of DatabaseUpkeep for TLC: a job and a server of each of two
   builds. *)
EXTENDS DatabaseUpkeep, MarketDataChecks, TLC

CONSTANTS old, new, elder, younger, history, votes, candles

Jobs == {old, new}
Servers == {elder, younger}
Builds == (old :> 1) @@ (new :> 2) @@ (elder :> 1) @@ (younger :> 2)
AltersTables == <<{}, {votes}>>
KeepPolicies ==
    << [table |-> candles, keepDays |-> 1, protected |-> TRUE],
       [table |-> history, keepDays |-> 2, protected |-> FALSE],
       [table |-> votes, keepDays |-> 1, protected |-> FALSE] >>
===============================================================================
