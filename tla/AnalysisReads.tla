----------------------------- MODULE AnalysisReads -----------------------------
(***************************************************************************)
(* One market's analysis asked for by many: services/analysis.service.ts   *)
(* over observability/single-flight.ts, and under them the cache, the      *)
(* shared fetch and the stale fallback of market/market.service.ts.        *)
(*                                                                         *)
(* The only thing a call waits for is the venue.  What follows an answer   *)
(* (the flights settle, the followers wake, the analysis is computed and   *)
(* handed out) runs in one turn of the event loop, so an action is one     *)
(* turn: a call begins, or the venue of one market answers.                *)
(***************************************************************************)
EXTENDS Naturals, FiniteSets

CONSTANTS
    Caller,             \* concurrent calls: page loads, the cycle, the scheduler
    Market,             \* marketKey: an instrument and an interval
    CacheTtl,           \* marketConfig.cacheTtlMs
    MaxStale,           \* marketConfig.maxStaleMs
    Horizon,            \* bound: the last moment of the model
    Nobody

ASSUME ReadsAssumption ==
    /\ {CacheTtl, MaxStale, Horizon} \subseteq Nat
    /\ CacheTtl <= MaxStale
    /\ Nobody \notin Caller \cup Market

Time == 0..Horizon

VARIABLES
    now,
    cache,      \* cache[m]: the last answer of m's venue, or Absent
    fetching,   \* inFlight.has(m)
    flight,     \* flight[m]: the caller whose analysis `current` is, or Nobody
    call,       \* call[c]: where the call of c is
    told,       \* what the turn has told its callers
    wrote       \* what the turn has written

turn == <<told, wrote>>
vars == <<now, cache, fetching, flight, call, turn>>

(* A snapshot: whose candles they are, when they came, and whether they are
   as many as the warm-up of the indicators needs. *)
Snapshot == [of : Market, at : Time, whole : BOOLEAN]
Absent == [of |-> Nobody, at |-> 0, whole |-> TRUE]

Freshness == {"fresh", "provider_failed", "stale", "partially_available",
              "expired", "unavailable"}

(* Mutation: the limit on the age is gone. *)
ClassifyWithoutLimit(found, age, partial, available) ==
    IF ~found THEN "unavailable"
    ELSE IF age > CacheTtl THEN "stale"
    ELSE IF ~available THEN "provider_failed" ELSE "fresh"

(* classifyFreshness *)
Classify(found, age, partial, available) ==
    IF ~found THEN "unavailable"
    ELSE IF age > MaxStale THEN "expired"
    ELSE IF partial THEN "partially_available"
    ELSE IF age > CacheTtl THEN "stale"
    ELSE IF ~available THEN "provider_failed"
    ELSE "fresh"

Age(m) == now - cache[m].at
Cached(m) == cache[m] # Absent

(* The conditions of getMarketData for answering without asking the venue. *)
IsHit(m) == Cached(m) /\ Age(m) < CacheTtl

(* What getMarketData hands on. *)
Read(snapshot, stale, age, freshness) ==
    [snapshot |-> snapshot, stale |-> stale, age |-> age, freshness |-> freshness]

(* A hit, while the market's venues are or are not `available`. *)
HitReading(m, available) ==
    Read(cache[m], ~available, Age(m),
            Classify(TRUE, Age(m), ~cache[m].whole, available))

FreshReading(snapshot) == Read(snapshot, FALSE, 0, "fresh")

(* The fallback is compared with its own length, so it is never partial. *)
Fallback(m, available) == Classify(Cached(m), Age(m), FALSE, available)
StaleReading(m) == Read(cache[m], TRUE, Age(m), "stale")

(***************************************************************************)
(* A call waits for the venue with an analysis of its own (`first`: the    *)
(* registered one, not the retry of a follower), or for the analysis of    *)
(* another caller.  What a turn tells a caller: a reading and who computed *)
(* from it, or the stage at which it was refused.                          *)
(***************************************************************************)
Idle == [at |-> "idle"]
Fetching(m, first) == [at |-> "fetch", market |-> m, first |-> first]
Joining(m, leader) == [at |-> "join", market |-> m, leader |-> leader]

Answer(c, m, by, reading) == [to |-> c, market |-> m, by |-> by, got |-> reading]
Refusal(c, m, stage) == [to |-> c, market |-> m, stage |-> stage]

Call ==
    {Idle} \cup [at : {"fetch"}, market : Market, first : BOOLEAN]
           \cup [at : {"join"}, market : Market, leader : Caller]
Reading == [snapshot : Snapshot, stale : BOOLEAN, age : Time, freshness : Freshness]
Told ==
    [to : Caller, market : Market, by : Caller, got : Reading]
        \cup [to : Caller, market : Market, stage : {"market-data", "analysis"}]

Parts == {"history", "votes", "snapshot", "returns", "decisions"}

TypeOK ==
    /\ now \in Time
    /\ cache \in [Market -> Snapshot \cup {Absent}]
    /\ fetching \in [Market -> BOOLEAN]
    /\ flight \in [Market -> Caller \cup {Nobody}]
    /\ call \in [Caller -> Call]
    /\ told \subseteq Told
    /\ wrote \subseteq [by : Caller, market : Market, at : Time, parts : SUBSET Parts]
    /\ \A m \in Market : flight[m] # Nobody => call[flight[m]] = Fetching(m, TRUE)

Init ==
    /\ now = 0
    /\ cache = [m \in Market |-> Absent]
    /\ fetching = [m \in Market |-> FALSE]
    /\ flight = [m \in Market |-> Nobody]
    /\ call = [c \in Caller |-> Idle]
    /\ told = {} /\ wrote = {}

(***************************************************************************)
(* computeAnalysis on the candles of a reading.  Its stages may refuse the *)
(* candles, too few of them always; when only the strategies above the     *)
(* consensus fail and none of them is in force, the analysis stands        *)
(* without a decision to record.                                           *)
(***************************************************************************)
Outcomes == {"resolved", "unresolved", "failed"}
Computes(reading, outcome) == reading.snapshot.whole \/ outcome = "failed"

(* The part of analyzeMarketWithStatus only a leader runs. *)
WriteSet(c, m, reading, outcome) ==
    [by |-> c, market |-> m, at |-> reading.snapshot.at,
     parts |-> {"history", "votes", "snapshot", "returns"} \cup
               (IF outcome = "resolved" THEN {"decisions"} ELSE {})]

(* Mutation: a follower that repeats the work counts as a follower still. *)
LeadsUnlessRetry(c) == call[c].at = "fetch" /\ call[c].first

(* What run() answers as `leader`: the work was the caller's own. *)
Leads(c) == call[c].at = "fetch"

(* Mutation: one flight for all markets. *)
WaitingForAny(m) == {c \in Caller : call[c].at = "fetch"}

Waiting(m) == {c \in Caller : call[c].at = "fetch" /\ call[c].market = m}

Followers(c) == {d \in Caller : call[d].at = "join" /\ call[d].leader = c}

(* Mutation: a settled flight stays registered. *)
HandOutRegistered(W, m, reading, outcome) ==
    LET F == UNION {Followers(c) : c \in W}
    IN  /\ call' = [c \in Caller |-> IF c \in W \cup F THEN Idle ELSE call[c]]
        /\ told' = {Answer(c, call[c].market, c, reading) : c \in W}
                    \cup {Answer(c, call[c].market, call[c].leader, reading) : c \in F}
        /\ wrote' = {WriteSet(c, m, reading, outcome) : c \in {d \in W \cup F : Leads(d)}}
        /\ flight' = flight

(***************************************************************************)
(* The calls W on m have their reading, and compute.  A caller whose own   *)
(* analysis it is leads; the followers of the registered one share it.     *)
(***************************************************************************)
HandOut(W, m, reading, outcome) ==
    LET F == UNION {Followers(c) : c \in W}
    IN  /\ call' = [c \in Caller |-> IF c \in W \cup F THEN Idle ELSE call[c]]
        /\ told' = {Answer(c, call[c].market, c, reading) : c \in W}
                    \cup {Answer(c, call[c].market, call[c].leader, reading) : c \in F}
        /\ wrote' = {WriteSet(c, m, reading, outcome) : c \in {d \in W \cup F : Leads(d)}}
        /\ flight' = [flight EXCEPT ![m] = Nobody]

(* Mutation: a rejected flight does not wake its followers. *)
RejectLeaders(W, m, stage, hit) ==
    /\ call' = [c \in Caller |-> IF c \in W THEN Idle ELSE call[c]]
    /\ told' = {Refusal(c, m, stage) : c \in W}
    /\ fetching' = [fetching EXCEPT ![m] = FALSE]
    /\ flight' = [flight EXCEPT ![m] = Nobody]
    /\ wrote' = {}

(***************************************************************************)
(* The work of the calls W on m is rejected at a stage.  Each of their     *)
(* followers runs its own, unregistered, right away: with `hit` it has the *)
(* same candles and the same answer, otherwise it asks the venue.          *)
(***************************************************************************)
Reject(W, m, stage, hit) ==
    LET F == UNION {Followers(c) : c \in W}
        over == IF hit THEN W \cup F ELSE W
    IN  /\ call' = [c \in Caller |->
                      IF c \in over THEN Idle
                      ELSE IF c \in F THEN Fetching(m, FALSE) ELSE call[c]]
        /\ told' = {Refusal(c, m, stage) : c \in over}
        /\ fetching' = [fetching EXCEPT ![m] = ~hit /\ F # {}]
        /\ flight' = [flight EXCEPT ![m] = Nobody]
        /\ wrote' = {}

NothingToTell == told' = {} /\ wrote' = {}

(* analyzeMarketWithStatus: the market's flight is free, and its data cached. *)
AskCached(c, m) ==
    /\ call[c] = Idle /\ flight[m] = Nobody /\ IsHit(m)
    /\ \E available \in BOOLEAN, outcome \in Outcomes :
          LET reading == HitReading(m, available) IN
          /\ Computes(reading, outcome)
          /\ IF outcome = "failed"
             THEN told' = {Refusal(c, m, "analysis")} /\ wrote' = {}
             ELSE /\ told' = {Answer(c, m, c, reading)}
                  /\ wrote' = {WriteSet(c, m, reading, outcome)}
    /\ UNCHANGED <<now, cache, fetching, flight, call>>

(* The flight is free, and the venue is asked, or a fetch of it joined. *)
AskVenue(c, m) ==
    /\ call[c] = Idle /\ flight[m] = Nobody /\ ~IsHit(m)
    /\ flight' = [flight EXCEPT ![m] = c]
    /\ fetching' = [fetching EXCEPT ![m] = TRUE]
    /\ call' = [call EXCEPT ![c] = Fetching(m, TRUE)]
    /\ NothingToTell
    /\ UNCHANGED <<now, cache>>

Join(c, m) ==
    /\ call[c] = Idle /\ flight[m] # Nobody
    /\ call' = [call EXCEPT ![c] = Joining(m, flight[m])]
    /\ NothingToTell
    /\ UNCHANGED <<now, cache, fetching, flight>>

(* fetchAndCache: the venue answers, perhaps with fewer candles than asked. *)
VenueAnswers(m) ==
    /\ fetching[m]
    /\ \E whole \in BOOLEAN, outcome \in Outcomes :
          LET snapshot == [of |-> m, at |-> now, whole |-> whole]
              reading == FreshReading(snapshot) IN
          /\ Computes(reading, outcome)
          /\ cache' = [cache EXCEPT ![m] = snapshot]
          /\ IF outcome = "failed"
             THEN Reject(Waiting(m), m, "analysis", CacheTtl > 0)
             ELSE /\ HandOut(Waiting(m), m, reading, outcome)
                  /\ fetching' = [fetching EXCEPT ![m] = FALSE]
    /\ UNCHANGED now

(* The venue fails, or its answer is refused: another symbol or interval, a
   series that is none, or an empty one.  An old snapshot may stand in. *)
VenueFails(m) ==
    /\ fetching[m]
    /\ \E available \in BOOLEAN, outcome \in Outcomes :
          IF Fallback(m, available) # "stale"
          THEN Reject(Waiting(m), m, "market-data", FALSE)
          ELSE /\ Computes(StaleReading(m), outcome)
               /\ IF outcome = "failed"
                  THEN Reject(Waiting(m), m, "analysis", FALSE)
                  ELSE /\ HandOut(Waiting(m), m, StaleReading(m), outcome)
                       /\ fetching' = [fetching EXCEPT ![m] = FALSE]
    /\ UNCHANGED <<now, cache>>

Tick ==
    /\ now < Horizon /\ now' = now + 1
    /\ NothingToTell
    /\ UNCHANGED <<cache, fetching, flight, call>>

Ask(c) == \E m \in Market : AskCached(c, m) \/ AskVenue(c, m) \/ Join(c, m)

Next ==
    \/ \E c \in Caller : Ask(c)
    \/ \E m \in Market : VenueAnswers(m) \/ VenueFails(m)
    \/ Tick

Spec == Init /\ [][Next]_vars

(* A provider's request ends: it is answered, or times out. *)
Fairness == \A m \in Market : WF_vars(VenueAnswers(m) \/ VenueFails(m))

FairSpec == Spec /\ Fairness
-------------------------------------------------------------------------------
Answers == {t \in told : "got" \in DOMAIN t}
Refusals == told \ Answers

(* Sharing a flight, a cache entry or a fallback hands no caller another
   market's candles, nor candles older than the newest the market has given:
   what is answered is what the cache holds in that turn, and a turn replaces
   a snapshot by a newer one.  And it is inside the limits it is served under,
   and says so: no answer is older than maxStaleMs, one that is not flagged is
   inside the TTL, one called fresh is not flagged.  What is refused for want
   of data has none to fall back on, or data beyond the limit; or data exactly
   as old as the TTL, which is neither a hit nor stale. *)
ServesNewestWithinLimits ==
    [][/\ \A t \in Answers' :
             /\ t.got.snapshot.of = t.market
             /\ t.got.snapshot = cache'[t.market]
             /\ now' - t.got.snapshot.at = t.got.age /\ t.got.age <= MaxStale
             /\ ~t.got.stale => t.got.age = 0 \/ t.got.age < CacheTtl
             /\ t.got.freshness = "fresh" => ~t.got.stale
       /\ \A t \in Refusals' :
             t.stage = "market-data" =>
                ~Cached(t.market) \/ Age(t.market) > MaxStale \/ Age(t.market) = CacheTtl
       /\ \A m \in Market : Cached(m) => cache'[m].at >= cache[m].at]_vars

(* Every computation that is handed out is written, by the caller that made it
   and by nobody who shared it.  Calls answered in one turn are written once,
   unless followers had to repeat the work of a leader that failed: then each
   of them writes what it computed. *)
WrittenByWhoComputed ==
    [][/\ {w.by : w \in wrote'} = {t.by : t \in Answers'}
       /\ \A w \in wrote' : Cardinality({v \in wrote' : v.by = w.by}) = 1
       /\ Cardinality(wrote') > 1 =>
             \E w \in wrote' : Leads(w.by) /\ ~call[w.by].first]_vars

(* A call ends: the flight it joined settles, and its one retry too. *)
CallsEnd == \A c \in Caller : call[c] # Idle ~> call[c] = Idle
===============================================================================
