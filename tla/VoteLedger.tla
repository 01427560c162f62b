------------------------------ MODULE VoteLedger ------------------------------
(***************************************************************************)
(* The votes of one indicator on one market, indicators/performance/: one  *)
(* row an hour, written by indicator-vote.repository.ts from analyses and  *)
(* from the backlog of refused ones, and the forward returns that          *)
(* settleForwardReturns fills in later, after every analysis a leader      *)
(* computed.                                                               *)
(*                                                                         *)
(* The unit of time is a bar; votes, bars and instants are numbered by it. *)
(* A vote is named by its moment, and a return by the vote whose price and *)
(* direction it was computed from and the bar whose close it took.         *)
(***************************************************************************)
EXTENDS Naturals, FiniteSets, FiniteSetsExt

CONSTANTS
    Settler,        \* settlements that may overlap
    Hour,           \* bars in an hour
    Horizon,        \* FORWARD_HORIZONS, in hours
    Window,         \* bars an analysis is computed from
    MaxEntries,     \* historyConfig.maxEntries
    LastTime        \* bound of the clock

ASSUME LedgerAssumption ==
    /\ {Hour, Window, MaxEntries} \subseteq Nat \ {0}
    /\ Horizon \subseteq Nat \ {0}
    /\ LastTime \in Nat

Time == 0..LastTime
Bucket == 0..LastTime \div Hour
BucketOf(t) == t \div Hour

VARIABLES
    now,
    waiting,    \* votes on their way to the table: in a transaction, or refused
                \* and kept in the spool or in memory of a process
    table,      \* table[k]: the row of hour k, or Empty
    settling    \* settling[s]: what settlement s read

vars == <<now, waiting, table, settling>>

Null == [of |-> LastTime + 1, bar |-> LastTime + 1]
Return == [of : Time, bar : Time] \cup {Null}
Unmeasured == [h \in Horizon |-> Null]

(* `written` is the moment the vote of the row was committed. *)
Empty == [at |-> LastTime + 1, written |-> LastTime + 1, returns |-> Unmeasured]
Rows == [at : Time, written : Time, returns : [Horizon -> Return]] \cup {Empty}
Kept(rows) == {k \in Bucket : rows[k] # Empty}

Idle == [at |-> "idle"]
(* `upTo` is the newest bar of the analysis, `votes` what was unsettled. *)
Settlement ==
    [at : {"listed"}, upTo : Time, sharp : BOOLEAN, votes : SUBSET Time] \cup {Idle}

TypeOK ==
    /\ now \in Time
    /\ waiting \subseteq Time
    /\ table \in [Bucket -> Rows]
    /\ settling \in [Settler -> Settlement]
    /\ Cardinality(Kept(table)) <= MaxEntries
    /\ \A k \in Kept(table) : BucketOf(table[k].at) = k

Init ==
    /\ now = 0
    /\ waiting = {}
    /\ table = [k \in Bucket |-> Empty]
    /\ settling = [s \in Settler |-> Idle]

Tick ==
    /\ now < LastTime /\ now' = now + 1
    /\ UNCHANGED <<waiting, table, settling>>

(* recordIndicatorVotes: an analysis has voted. *)
Vote ==
    /\ waiting' = waiting \cup {now}
    /\ UNCHANGED <<now, table, settling>>

(* Mutation: the newest write wins. *)
UpsertLast(rows, vote, time) ==
    [rows EXCEPT ![BucketOf(vote)] =
        IF @ = Empty THEN [at |-> vote, written |-> time, returns |-> Unmeasured]
        ELSE [@ EXCEPT !.at = vote, !.written = time]]

(* UPSERT_SQL: of the votes of an hour the newest one stays, and what has been
   settled stays with it. *)
Upsert(rows, vote, time) ==
    [rows EXCEPT ![BucketOf(vote)] =
        IF @ = Empty THEN [at |-> vote, written |-> time, returns |-> Unmeasured]
        ELSE IF vote > @.at THEN [@ EXCEPT !.at = vote, !.written = time] ELSE @]

(* Mutation: the trim leaves one row too many. *)
TrimOneLess(rows) ==
    [k \in Bucket |->
        IF Cardinality({l \in Kept(rows) : l > k}) <= MaxEntries THEN rows[k] ELSE Empty]

(* TRIM_SQL: the newest hours stay. *)
Trim(rows) ==
    [k \in Bucket |->
        IF Cardinality({l \in Kept(rows) : l > k}) < MaxEntries THEN rows[k] ELSE Empty]

(* The transaction of record(), from the analysis or from a drain. *)
Record(vote) ==
    /\ vote \in waiting
    /\ waiting' = waiting \ {vote}
    /\ table' = Trim(Upsert(table, vote, now))
    /\ UNCHANGED <<now, settling>>

(* A vote whose attempts are used up, or that died with its process. *)
Lose(vote) ==
    /\ vote \in waiting
    /\ waiting' = waiting \ {vote}
    /\ UNCHANGED <<now, table, settling>>

-------------------------------------------------------------------------------
(* The candles of an analysis: the window that ends at bar c. *)
Candles(c) == {b \in Time : b <= c /\ b + Window > c}

(* Mutation: the newest bar stands for what comes after it. *)
CoveringOrNewest(c, instant, sharp) ==
    {b \in Candles(c) : b = instant \/ (b = c /\ b < instant)}

(* candleCovering: the bar an instant falls into.  The newest bar covers only
   the instant it opens at (`sharp`); the rest of it counts as not closed. *)
Covering(c, instant, sharp) == {b \in Candles(c) : b = instant /\ (b < c \/ sharp)}

Pending(k, h) == table[k].returns[h] = Null

(* listUnsettled, on behalf of an analysis whose newest bar is c. *)
SettleLists(s) ==
    /\ settling[s] = Idle
    /\ \E c \in Time, sharp \in BOOLEAN :
          /\ c < now
          /\ settling' = [settling EXCEPT ![s] =
                [at |-> "listed", upTo |-> c, sharp |-> sharp,
                 votes |-> {table[k].at : k \in {l \in Kept(table) :
                                                   \E h \in Horizon : Pending(l, h)}}]]
    /\ UNCHANGED <<now, waiting, table>>

(* settle(): into the row of the vote's hour, whatever vote is there by now,
   where that horizon is still null. *)
Settled(rows, c, sharp, votes) ==
    [k \in Bucket |->
        IF rows[k] = Empty THEN Empty
        ELSE [rows[k] EXCEPT !.returns = [h \in Horizon |->
            LET measured == {v \in votes : /\ BucketOf(v) = k
                                            /\ Covering(c, v + h * Hour, sharp) # {}}
            IN IF @[h] # Null \/ measured = {} THEN @[h]
               ELSE LET v == CHOOSE v \in measured : TRUE
                    IN [of |-> v, bar |-> Max(Covering(c, v + h * Hour, sharp))]]]]

SettleWrites(s) ==
    /\ settling[s] # Idle
    /\ table' = Settled(table, settling[s].upTo, settling[s].sharp, settling[s].votes)
    /\ settling' = [settling EXCEPT ![s] = Idle]
    /\ UNCHANGED <<now, waiting>>

(* The transaction fails and changes nothing; the next analysis tries again. *)
SettleFails(s) ==
    /\ settling[s] # Idle
    /\ settling' = [settling EXCEPT ![s] = Idle]
    /\ UNCHANGED <<now, waiting, table>>

Next ==
    \/ Tick \/ Vote
    \/ \E vote \in Time : Record(vote) \/ Lose(vote)
    \/ \E s \in Settler : SettleLists(s) \/ SettleWrites(s) \/ SettleFails(s)

Spec == Init /\ [][Next]_vars

-------------------------------------------------------------------------------
(* A return is the move from a vote of its hour to the bar that vote's horizon
   falls into.  It is the row's own vote, so that its sign and its entry price
   are the row's, unless that vote was written after the horizon of the vote
   measured had passed: a refused vote that waited longer than a horizon. *)
MeasuredAtItsHorizon ==
    \A k \in Kept(table), h \in Horizon :
        LET return == table[k].returns[h] IN
        return # Null =>
            /\ BucketOf(return.of) = k
            /\ return.bar = return.of + h * Hour
            /\ return.of # table[k].at =>
                  /\ return.of < table[k].at
                  /\ table[k].written > return.bar

(* Whatever the order in which votes and settlements arrive, a row never goes
   back to an older vote, and a return that is known never changes. *)
LedgerKeepsItsWord ==
    [][\A k \in Kept(table) \cap Kept(table') :
          /\ table'[k].at >= table[k].at
          /\ \A h \in Horizon :
                table[k].returns[h] # Null => table'[k].returns[h] = table[k].returns[h]]_vars
===============================================================================
