-------------------------- MODULE AnalysisReadsProofs --------------------------
(* Theorems about AnalysisReads, for any callers, markets and limits. *)
EXTENDS AnalysisReads, FiniteSetTheorems, TLAPS

(* A snapshot is of the market it is kept for, and was taken by now. *)
CacheIsOwn == \A m \in Market : Cached(m) => cache[m].of = m /\ cache[m].at <= now

(* Who joined waits for the analysis its market has registered. *)
JoinersFollow ==
    \A c \in Caller : call[c].at = "join" => flight[call[c].market] = call[c].leader

(* The registered analysis of a market is its only first one. *)
RegisteredLeads ==
    \A c \in Caller : call[c].at = "fetch" /\ call[c].first => flight[call[c].market] = c

(* A venue is asked only for what the cache would not answer. *)
FetchIsDue == \A m \in Market : fetching[m] => ~Cached(m) \/ Age(m) >= CacheTtl

IInv ==
    /\ TypeOK
    /\ CacheIsOwn
    /\ JoinersFollow
    /\ RegisteredLeads
    /\ FetchIsDue

(***************************************************************************)
(* The fields of calls, and what a turn tells.                             *)
(***************************************************************************)

LEMMA CallFields ==
    ASSUME NEW k \in Call
    PROVE  /\ k.at \in {"idle", "fetch", "join"}
           /\ k.at = "idle" <=> k = Idle
           /\ k.at # "idle" => k.market \in Market
           /\ k.at = "fetch" => k.first \in BOOLEAN /\ k = Fetching(k.market, k.first)
           /\ k.at = "join" => k.leader \in Caller
BY DEF Call, Idle, Fetching

LEMMA CallTypes ==
    ASSUME NEW m \in Market, NEW c \in Caller, NEW first \in BOOLEAN
    PROVE  /\ Idle \in Call /\ Fetching(m, first) \in Call /\ Joining(m, c) \in Call
           /\ Idle.at = "idle"
           /\ Fetching(m, first).at = "fetch" /\ Fetching(m, first).market = m
           /\ Fetching(m, first).first = first
           /\ Joining(m, c).at = "join" /\ Joining(m, c).market = m
           /\ Joining(m, c).leader = c
BY DEF Call, Idle, Fetching, Joining

LEMMA FetchingIsBusy ==
    ASSUME NEW m, NEW first
    PROVE  Fetching(m, first) # Idle /\ Fetching(m, first).at # "join"
BY DEF Idle, Fetching

LEMMA Tellings ==
    ASSUME NEW c \in Caller, NEW m \in Market, NEW by \in Caller, NEW reading \in Reading,
           NEW stage \in {"market-data", "analysis"}
    PROVE  /\ Answer(c, m, by, reading) \in Told
           /\ "got" \in DOMAIN Answer(c, m, by, reading)
           /\ Refusal(c, m, stage) \in Told
           /\ "got" \notin DOMAIN Refusal(c, m, stage)
BY DEF Answer, Refusal, Told

(* Who joined an analysis the venue of m is waited for, joined that of m. *)
LEMMA FollowersOf ==
    ASSUME IInv, NEW m \in Market
    PROVE  LET W == Waiting(m)
               F == UNION {Followers(c) : c \in W}
           IN  /\ W \subseteq Caller /\ F \subseteq Caller
               /\ \A c \in W : call[c].at = "fetch" /\ call[c].market = m
               /\ \A d \in F : /\ call[d].at = "join" /\ call[d].market = m
                               /\ call[d].leader \in W
               /\ \A d \in Caller : call[d] # Idle /\ call[d].market = m => d \in W \cup F
<1> DEFINE W == Waiting(m)
           F == UNION {Followers(c) : c \in W}
<1>1. W \subseteq Caller /\ \A c \in W : call[c].at = "fetch" /\ call[c].market = m
    BY DEF Waiting
<1>2. F \subseteq Caller /\ \A d \in F : call[d].at = "join" /\ call[d].leader \in W
    BY DEF Followers
<1>3. ASSUME NEW d \in Caller, call[d].at = "join"
      PROVE  /\ call[d].leader \in Caller
             /\ call[call[d].leader] = Fetching(call[d].market, TRUE)
    <2>1. /\ call[d].market \in Market /\ call[d].leader \in Caller
          /\ flight[call[d].market] = call[d].leader
        BY <1>3, CallFields DEF IInv, TypeOK, JoinersFollow
    <2> QED
        BY <2>1, ReadsAssumption DEF IInv, TypeOK
<1>4. \A d \in F : call[d].market = m
    <2> SUFFICES ASSUME NEW d \in F PROVE call[d].market = m
        OBVIOUS
    <2>1. call[call[d].leader] = Fetching(call[d].market, TRUE)
        BY <1>2, <1>3
    <2>2. call[call[d].leader].market = m
        BY <1>1, <1>2
    <2> QED
        BY <2>1, <2>2 DEF Fetching
<1>5. \A d \in Caller : call[d] # Idle /\ call[d].market = m => d \in W \cup F
    <2> SUFFICES ASSUME NEW d \in Caller, call[d] # Idle, call[d].market = m, d \notin W
                 PROVE  d \in F
        OBVIOUS
    <2>1. call[d].at = "join"
        BY CallFields DEF IInv, TypeOK, Waiting
    <2>2. call[d].leader \in Caller /\ call[call[d].leader] = Fetching(m, TRUE)
        BY <1>3, <2>1
    <2>3. call[d].leader \in W
        BY <2>2 DEF Waiting, Fetching
    <2> QED
        BY <2>1, <2>3 DEF Followers
<1> QED
    BY <1>1, <1>2, <1>4, <1>5

(* Of the calls that wait for one venue, at most the registered one has not
   been tried before. *)
LEMMA OneFirst ==
    ASSUME IInv, NEW m \in Market, NEW c \in Waiting(m), NEW d \in Waiting(m),
           call[c].first, call[d].first
    PROVE  c = d
BY DEF IInv, RegisteredLeads, Waiting

(***************************************************************************)
(* The order of flights, calls and joiners.                                *)
(***************************************************************************)

FlightsInOrder ==
    /\ flight \in [Market -> Caller \cup {Nobody}]
    /\ call \in [Caller -> Call]
    /\ \A m \in Market : flight[m] # Nobody => call[flight[m]] = Fetching(m, TRUE)
    /\ JoinersFollow
    /\ RegisteredLeads

LEMMA FlightsAreInOrder == IInv => FlightsInOrder
BY DEF IInv, TypeOK, FlightsInOrder

(* When everyone who waits for m is over or asks again, flights are in order. *)
LEMMA MarketSettles ==
    ASSUME IInv, NEW m \in Market,
           flight' = [flight EXCEPT ![m] = Nobody],
           call' \in [Caller -> Call],
           \A c \in Caller : IF call[c] # Idle /\ call[c].market = m
                             THEN call'[c] = Idle \/ call'[c] = Fetching(m, FALSE)
                             ELSE call'[c] = call[c]
    PROVE  FlightsInOrder'
<1>1. flight' \in [Market -> Caller \cup {Nobody}] /\ flight'[m] = Nobody
      /\ \A n \in Market \ {m} : flight'[n] = flight[n]
    BY DEF IInv, TypeOK
<1>2. \A n \in Market : flight'[n] # Nobody => call'[flight'[n]] = Fetching(n, TRUE)
    <2> SUFFICES ASSUME NEW n \in Market, flight'[n] # Nobody
                 PROVE  call'[flight'[n]] = Fetching(n, TRUE)
        OBVIOUS
    <2>1. n # m /\ flight'[n] = flight[n] /\ flight[n] \in Caller
        BY <1>1 DEF IInv, TypeOK
    <2>2. call[flight[n]] = Fetching(n, TRUE)
        BY <2>1 DEF IInv, TypeOK
    <2> QED
        BY <2>1, <2>2 DEF Fetching
<1>3. ASSUME NEW c \in Caller, call'[c].at = "join" \/ (call'[c].at = "fetch" /\ call'[c].first)
      PROVE  call'[c] = call[c] /\ call[c].market # m /\ call[c].market \in Market
    <2>1. call'[c] # Idle /\ call'[c] # Fetching(m, FALSE)
        BY <1>3 DEF Idle, Fetching
    <2>2. call'[c] = call[c] /\ call[c] # Idle /\ call[c].market # m
        BY <2>1
    <2> QED
        BY <2>2, CallFields DEF IInv, TypeOK
<1>4. JoinersFollow' /\ RegisteredLeads'
    BY <1>1, <1>3 DEF IInv, JoinersFollow, RegisteredLeads
<1> QED
    BY <1>1, <1>2, <1>4 DEF FlightsInOrder

(***************************************************************************)
(* Readings.                                                               *)
(***************************************************************************)

(* A reading of market m, as the turn leaves the cache: the snapshot the cache
   holds, its age, within the limits, and flagged when it is old or called less
   than fresh. *)
Faithful(m, reading) ==
    /\ reading \in Reading
    /\ reading.snapshot.of = m /\ reading.snapshot = cache'[m]
    /\ now' - reading.snapshot.at = reading.age /\ reading.age <= MaxStale
    /\ ~reading.stale => reading.age = 0 \/ reading.age < CacheTtl
    /\ reading.freshness = "fresh" => ~reading.stale

LEMMA SnapshotsAged ==
    ASSUME IInv, NEW m \in Market
    PROVE  /\ Cached(m) => cache[m] \in Snapshot /\ cache[m].of = m /\ Age(m) \in Time
           /\ now \in Nat /\ CacheTtl \in Nat /\ MaxStale \in Nat /\ CacheTtl <= MaxStale
<1>1. Cached(m) => cache[m] \in Snapshot /\ cache[m].of = m /\ cache[m].at <= now
    BY DEF IInv, TypeOK, Cached, CacheIsOwn
<1>2. now \in Time /\ Horizon \in Nat /\ CacheTtl \in Nat /\ MaxStale \in Nat
    BY ReadsAssumption DEF IInv, TypeOK
<1>3. Cached(m) => cache[m].at \in Time
    BY <1>1 DEF Snapshot
<1>4. Cached(m) => now - cache[m].at \in Time
    BY <1>1, <1>2, <1>3 DEF Time
<1> QED
    BY <1>1, <1>2, <1>4, ReadsAssumption DEF Age, Time

LEMMA HitIsFaithful ==
    ASSUME IInv, NEW m \in Market, IsHit(m), NEW available \in BOOLEAN,
           UNCHANGED <<now, cache>>
    PROVE  Faithful(m, HitReading(m, available))
<1> DEFINE reading == HitReading(m, available)
<1>1. /\ cache[m] \in Snapshot /\ cache[m].of = m /\ Age(m) \in Time /\ Age(m) < CacheTtl
      /\ Age(m) <= MaxStale
    BY SnapshotsAged, ReadsAssumption DEF IsHit, Time
<1>2. /\ reading.snapshot = cache[m] /\ reading.stale = ~available /\ reading.age = Age(m)
      /\ reading.freshness = Classify(TRUE, Age(m), ~cache[m].whole, available)
    BY DEF HitReading, Read
<1>3. reading.freshness \in Freshness /\ (reading.freshness = "fresh" => available)
    BY <1>2 DEF Classify, Freshness
<1>4. reading \in Reading
    BY <1>1, <1>3 DEF HitReading, Read, Reading
<1> QED
    BY <1>1, <1>2, <1>3, <1>4 DEF Faithful, Age

LEMMA FreshIsFaithful ==
    ASSUME IInv, NEW m \in Market, NEW whole \in BOOLEAN,
           now' = now, cache'[m] = [of |-> m, at |-> now, whole |-> whole]
    PROVE  Faithful(m, FreshReading([of |-> m, at |-> now, whole |-> whole]))
<1> DEFINE snapshot == [of |-> m, at |-> now, whole |-> whole]
           reading == FreshReading(snapshot)
<1>1. snapshot \in Snapshot /\ snapshot.of = m /\ snapshot.at = now
    BY DEF Snapshot, IInv, TypeOK
<1>2. /\ reading.snapshot = snapshot /\ reading.stale = FALSE /\ reading.age = 0
      /\ reading.freshness = "fresh"
    BY DEF FreshReading, Read
<1>3. reading \in Reading
    BY <1>1, ReadsAssumption DEF FreshReading, Read, Reading, Freshness, Time
<1>4. now - now = 0 /\ 0 <= MaxStale
    BY SnapshotsAged
<1> QED
    BY <1>1, <1>2, <1>3, <1>4 DEF Faithful

LEMMA StaleIsFaithful ==
    ASSUME IInv, NEW m \in Market, NEW available \in BOOLEAN,
           Fallback(m, available) = "stale", UNCHANGED <<now, cache>>
    PROVE  Faithful(m, StaleReading(m))
<1> DEFINE reading == StaleReading(m)
<1>1. Cached(m) /\ ~(Age(m) > MaxStale)
    BY DEF Fallback, Classify
<1>2. cache[m] \in Snapshot /\ cache[m].of = m /\ Age(m) \in Time /\ Age(m) <= MaxStale
    BY <1>1, SnapshotsAged DEF Time
<1>3. /\ reading.snapshot = cache[m] /\ reading.stale = TRUE /\ reading.age = Age(m)
      /\ reading.freshness = "stale"
    BY DEF StaleReading, Read
<1>4. reading \in Reading
    BY <1>2 DEF StaleReading, Read, Reading, Freshness
<1> QED
    BY <1>2, <1>3, <1>4 DEF Faithful, Age

(***************************************************************************)
(* What a turn tells and writes.                                           *)
(***************************************************************************)

Writing ==
    [by : Caller, market : Market, at : Time, parts : SUBSET Parts]

AnswersFaithful == \A t \in Answers' : t.market \in Market /\ Faithful(t.market, t.got)

RefusalsDue ==
    \A t \in Refusals' :
        t.stage = "market-data" =>
            ~Cached(t.market) \/ Age(t.market) > MaxStale \/ Age(t.market) = CacheTtl

(* The turn told and wrote what it may. *)
TurnInOrder ==
    /\ told' \subseteq Told /\ wrote' \subseteq Writing
    /\ AnswersFaithful
    /\ RefusalsDue
    /\ {w.by : w \in wrote'} = {t.by : t \in Answers'}
    /\ \A w \in wrote' : Cardinality({v \in wrote' : v.by = w.by}) = 1
    /\ Cardinality(wrote') > 1 => \E w \in wrote' : Leads(w.by) /\ ~call[w.by].first

LEMMA NothingTold ==
    ASSUME NothingToTell
    PROVE  TurnInOrder
<1>1. told' = {} /\ wrote' = {} /\ Answers' = {} /\ Refusals' = {}
    BY DEF NothingToTell, Answers, Refusals
<1>2. Cardinality(wrote') = 0
    BY <1>1, FS_EmptySet
<1> QED
    BY <1>1, <1>2 DEF TurnInOrder, AnswersFaithful, RefusalsDue

LEMMA WriteSetFields ==
    ASSUME NEW c \in Caller, NEW m \in Market, NEW reading \in Reading, NEW outcome \in Outcomes
    PROVE  WriteSet(c, m, reading, outcome) \in Writing
           /\ WriteSet(c, m, reading, outcome).by = c
BY DEF WriteSet, Writing, Reading, Snapshot, Parts

(* Refusals alone: nothing is written, and nothing answered. *)
LEMMA OnlyRefusals ==
    ASSUME NEW m \in Market, NEW C \in SUBSET Caller, NEW stage \in {"market-data", "analysis"},
           told' = {Refusal(c, m, stage) : c \in C}, wrote' = {},
           stage = "market-data" =>
                ~Cached(m) \/ Age(m) > MaxStale \/ Age(m) = CacheTtl
    PROVE  TurnInOrder
<1>1. told' \subseteq Told /\ Answers' = {}
    <2>1. \A t \in told' : t \in Told /\ "got" \notin DOMAIN t
        BY DEF Refusal, Told
    <2> QED
        BY <2>1 DEF Answers
<1>2. \A t \in Refusals' : t.market = m /\ t.stage = stage
    BY DEF Refusals, Refusal
<1>3. Cardinality(wrote') = 0
    BY FS_EmptySet
<1> QED
    BY <1>1, <1>2, <1>3 DEF TurnInOrder, AnswersFaithful, RefusalsDue
(* Answers to those who waited for m and to their followers, written by the
   former. *)
LEMMA HandOutTurn ==
    ASSUME IInv, NEW m \in Market, NEW reading, Faithful(m, reading), NEW outcome \in Outcomes,
           HandOut(Waiting(m), m, reading, outcome)
    PROVE  FlightsInOrder' /\ TurnInOrder
<1> DEFINE W == Waiting(m)
           F == UNION {Followers(c) : c \in W}
<1>1. /\ W \subseteq Caller /\ F \subseteq Caller
      /\ \A c \in W : call[c].at = "fetch" /\ call[c].market = m
      /\ \A d \in F : call[d].at = "join" /\ call[d].market = m /\ call[d].leader \in W
      /\ \A d \in Caller : call[d] # Idle /\ call[d].market = m => d \in W \cup F
    BY FollowersOf
<1>2. /\ call' = [c \in Caller |-> IF c \in W \cup F THEN Idle ELSE call[c]]
      /\ told' = {Answer(c, call[c].market, c, reading) : c \in W}
                    \cup {Answer(c, call[c].market, call[c].leader, reading) : c \in F}
      /\ wrote' = {WriteSet(c, m, reading, outcome) : c \in {d \in W \cup F : Leads(d)}}
      /\ flight' = [flight EXCEPT ![m] = Nobody]
    BY DEF HandOut
<1> HIDE DEF W, F
<1>3. FlightsInOrder'
    <2>1. call' \in [Caller -> Call]
        BY <1>2, CallTypes DEF IInv, TypeOK
    <2>2. ASSUME NEW c \in Caller
          PROVE  IF call[c] # Idle /\ call[c].market = m
                 THEN call'[c] = Idle \/ call'[c] = Fetching(m, FALSE)
                 ELSE call'[c] = call[c]
        <3>1. c \in W \cup F <=> call[c] # Idle /\ call[c].market = m
            BY <1>1 DEF Idle
        <3> QED
            BY <1>2, <3>1
    <2> QED
        BY <1>2, <2>1, <2>2, MarketSettles
<1>4. reading \in Reading
    BY DEF Faithful
<1>5. {d \in W \cup F : Leads(d)} = W
    BY <1>1 DEF Leads
<1>6. wrote' = {WriteSet(c, m, reading, outcome) : c \in W}
    BY <1>2, <1>5
<1>7. /\ \A t \in told' : /\ t \in Told /\ "got" \in DOMAIN t
                          /\ t.market = m /\ t.got = reading /\ t.by \in W
      /\ \A c \in W : \E t \in told' : t.by = c
    <2>1. \A t \in told' : \E c \in Caller, b \in W : t = Answer(c, m, b, reading)
        BY <1>1, <1>2
    <2>2. \A c \in W : Answer(c, m, c, reading) \in told'
        BY <1>1, <1>2
    <2>3. ASSUME NEW t \in told'
          PROVE  /\ t \in Told /\ "got" \in DOMAIN t
                 /\ t.market = m /\ t.got = reading /\ t.by \in W
        <3>1. PICK c \in Caller, b \in W : t = Answer(c, m, b, reading)
            BY <2>1
        <3>2. b \in Caller
            BY <1>1
        <3> QED
            BY <1>4, <3>1, <3>2, Tellings DEF Answer
    <2>4. \A c \in W : Answer(c, m, c, reading).by = c
        BY DEF Answer
    <2> QED
        BY <2>2, <2>3, <2>4
<1>8. Answers' = told' /\ Refusals' = {}
    BY <1>7 DEF Answers, Refusals
<1>9. told' \subseteq Told /\ AnswersFaithful /\ RefusalsDue
    BY <1>7, <1>8 DEF AnswersFaithful, RefusalsDue
<1>10. \A c \in W : /\ WriteSet(c, m, reading, outcome) \in Writing
                    /\ WriteSet(c, m, reading, outcome).by = c
    BY <1>1, <1>4, WriteSetFields
<1>11. wrote' \subseteq Writing /\ {w.by : w \in wrote'} = W
    BY <1>6, <1>10
<1>12. {t.by : t \in Answers'} = W
    BY <1>7, <1>8
<1>13. \A w \in wrote' : Cardinality({v \in wrote' : v.by = w.by}) = 1
    <2> SUFFICES ASSUME NEW w \in wrote' PROVE Cardinality({v \in wrote' : v.by = w.by}) = 1
        OBVIOUS
    <2>1. {v \in wrote' : v.by = w.by} = {w}
        BY <1>6, <1>10
    <2> QED
        BY <2>1, FS_Singleton
<1>14. Cardinality(wrote') > 1 => \E w \in wrote' : Leads(w.by) /\ ~call[w.by].first
    <2> SUFFICES ASSUME \A w \in wrote' : ~Leads(w.by) \/ call[w.by].first
                 PROVE  ~(Cardinality(wrote') > 1)
        OBVIOUS
    <2>1. \A c \in W : call[c].first
        BY <1>1, <1>6, <1>10 DEF Leads
    <2>2. \A c, d \in W : c = d
        BY <2>1, OneFirst DEF W
    <2>3. wrote' = {} \/ \E w : wrote' = {w}
        BY <1>6, <2>2
    <2>4. CASE wrote' = {}
        BY <2>4, FS_EmptySet
    <2>5. CASE \E w : wrote' = {w}
        <3>1. PICK w : wrote' = {w}
            BY <2>5
        <3>2. Cardinality(wrote') = 1
            BY <3>1, FS_Singleton
        <3> QED
            BY <3>2
    <2> QED
        BY <2>3, <2>4, <2>5
<1> QED
    BY <1>3, <1>9, <1>11, <1>12, <1>13, <1>14 DEF TurnInOrder

(* A refusal ends the calls it is told to, and the followers of the others ask
   again. *)
LEMMA RejectTurn ==
    ASSUME IInv, NEW m \in Market, NEW stage \in {"market-data", "analysis"},
           NEW hit \in BOOLEAN, Reject(Waiting(m), m, stage, hit),
           stage = "market-data" =>
                ~Cached(m) \/ Age(m) > MaxStale \/ Age(m) = CacheTtl
    PROVE  FlightsInOrder' /\ TurnInOrder
<1> DEFINE W == Waiting(m)
           F == UNION {Followers(c) : c \in W}
           over == IF hit THEN W \cup F ELSE W
<1>1. /\ W \subseteq Caller /\ F \subseteq Caller
      /\ \A c \in W : call[c].at = "fetch" /\ call[c].market = m
      /\ \A d \in F : call[d].at = "join" /\ call[d].market = m /\ call[d].leader \in W
      /\ \A d \in Caller : call[d] # Idle /\ call[d].market = m => d \in W \cup F
    BY FollowersOf
<1>2. /\ call' = [c \in Caller |->
                    IF c \in over THEN Idle
                    ELSE IF c \in F THEN Fetching(m, FALSE) ELSE call[c]]
      /\ told' = {Refusal(c, m, stage) : c \in over}
      /\ flight' = [flight EXCEPT ![m] = Nobody]
      /\ wrote' = {}
    BY DEF Reject
<1> HIDE DEF W, F
<1>3. FlightsInOrder'
    <2>1. call' \in [Caller -> Call]
        BY <1>2, CallTypes DEF IInv, TypeOK
    <2>2. ASSUME NEW c \in Caller
          PROVE  IF call[c] # Idle /\ call[c].market = m
                 THEN call'[c] = Idle \/ call'[c] = Fetching(m, FALSE)
                 ELSE call'[c] = call[c]
        <3>1. c \in W \cup F <=> call[c] # Idle /\ call[c].market = m
            BY <1>1 DEF Idle
        <3> QED
            BY <1>2, <3>1
    <2> QED
        BY <1>2, <2>1, <2>2, MarketSettles
<1>4. over \in SUBSET Caller
    BY <1>1
<1> HIDE DEF over
<1>5. TurnInOrder
    BY <1>2, <1>4, OnlyRefusals
<1> QED
    BY <1>3, <1>5

(***************************************************************************)
(* The actions.  A turn keeps the invariant and tells what it may.         *)
(***************************************************************************)

LEMMA InitIInv == Init => IInv
BY CallTypes, ReadsAssumption DEF Init, IInv, TypeOK, CacheIsOwn, JoinersFollow,
    RegisteredLeads, FetchIsDue, Cached, Time, Idle, Call

(* What keeps the invariant, turn by turn. *)
LEMMA TurnKeeps ==
    ASSUME now' \in Time, cache' \in [Market -> Snapshot \cup {Absent}],
           fetching' \in [Market -> BOOLEAN], FlightsInOrder', TurnInOrder,
           CacheIsOwn', FetchIsDue'
    PROVE  IInv'
BY DEF IInv, TypeOK, FlightsInOrder, TurnInOrder, Writing

LEMMA AskCachedTurn ==
    ASSUME IInv, NEW c \in Caller, NEW m \in Market, AskCached(c, m)
    PROVE  IInv' /\ TurnInOrder
<1>1. UNCHANGED <<now, cache, fetching, flight, call>> /\ IsHit(m)
    BY DEF AskCached
<1>2. FlightsInOrder' /\ CacheIsOwn' /\ FetchIsDue'
    BY <1>1 DEF IInv, TypeOK, FlightsInOrder, CacheIsOwn, FetchIsDue, JoinersFollow,
        RegisteredLeads, Cached, Age
<1>3. PICK available \in BOOLEAN, outcome \in Outcomes :
         LET reading == HitReading(m, available) IN
         IF outcome = "failed"
         THEN told' = {Refusal(c, m, "analysis")} /\ wrote' = {}
         ELSE /\ told' = {Answer(c, m, c, reading)}
              /\ wrote' = {WriteSet(c, m, reading, outcome)}
    BY DEF AskCached
<1>4. CASE outcome = "failed"
    <2>1. told' = {Refusal(d, m, "analysis") : d \in {c}} /\ wrote' = {}
        BY <1>3, <1>4
    <2>2. TurnInOrder
        BY <2>1, OnlyRefusals
    <2> QED
        BY <1>1, <1>2, <2>2, TurnKeeps DEF IInv, TypeOK
<1>5. CASE outcome # "failed"
    <2> DEFINE reading == HitReading(m, available)
               answer == Answer(c, m, c, reading)
               write == WriteSet(c, m, reading, outcome)
    <2>1. Faithful(m, reading) /\ reading \in Reading
        BY <1>1, HitIsFaithful DEF Faithful
    <2>2. told' = {answer} /\ wrote' = {write}
        BY <1>3, <1>5
    <2> HIDE DEF reading
    <2>3. /\ answer \in Told /\ "got" \in DOMAIN answer /\ answer.market = m
          /\ answer.got = reading /\ answer.by = c
        BY <2>1, Tellings DEF Answer
    <2>4. write \in Writing /\ write.by = c
        BY <2>1, WriteSetFields
    <2> HIDE DEF answer, write
    <2>5. Answers' = {answer} /\ Refusals' = {}
        BY <2>2, <2>3 DEF Answers, Refusals
    <2>6. AnswersFaithful /\ RefusalsDue
        BY <2>1, <2>3, <2>5 DEF AnswersFaithful, RefusalsDue
    <2>7. Cardinality({write}) = 1 /\ {v \in wrote' : v.by = write.by} = {write}
        BY <2>2, FS_Singleton
    <2>8. {w.by : w \in wrote'} = {t.by : t \in Answers'}
        BY <2>2, <2>3, <2>4, <2>5
    <2>9. TurnInOrder
        BY <2>2, <2>3, <2>4, <2>6, <2>7, <2>8 DEF TurnInOrder
    <2> QED
        BY <1>1, <1>2, <2>9, TurnKeeps DEF IInv, TypeOK
<1> QED
    BY <1>4, <1>5

LEMMA AskVenueTurn ==
    ASSUME IInv, NEW c \in Caller, NEW m \in Market, AskVenue(c, m)
    PROVE  IInv' /\ TurnInOrder
<1>1. TurnInOrder
    BY NothingTold DEF AskVenue
<1>2. /\ call[c] = Idle /\ flight[m] = Nobody
      /\ flight' = [flight EXCEPT ![m] = c] /\ call' = [call EXCEPT ![c] = Fetching(m, TRUE)]
      /\ fetching' = [fetching EXCEPT ![m] = TRUE] /\ UNCHANGED <<now, cache>>
    BY DEF AskVenue
<1>3. FlightsInOrder'
    <2>1. flight' \in [Market -> Caller \cup {Nobody}] /\ call' \in [Caller -> Call]
        BY <1>2, CallTypes DEF IInv, TypeOK
    <2>2. \A n \in Market : flight'[n] # Nobody => call'[flight'[n]] = Fetching(n, TRUE)
        <3> SUFFICES ASSUME NEW n \in Market, flight'[n] # Nobody
                     PROVE  call'[flight'[n]] = Fetching(n, TRUE)
            OBVIOUS
        <3>1. CASE n = m
            BY <1>2, <3>1 DEF IInv, TypeOK
        <3>2. CASE n # m
            <4>1. flight'[n] = flight[n] /\ flight[n] \in Caller
                BY <1>2, <3>2 DEF IInv, TypeOK
            <4>2. call[flight[n]] = Fetching(n, TRUE)
                BY <4>1 DEF IInv, TypeOK
            <4>3. flight[n] # c
                BY <1>2, <4>2, FetchingIsBusy
            <4> QED
                BY <1>2, <4>1, <4>2, <4>3 DEF IInv, TypeOK
        <3> QED
            BY <3>1, <3>2
    <2>3. ASSUME NEW d \in Caller, call'[d].at = "join"
          PROVE  flight'[call'[d].market] = call'[d].leader
        <3>1. d # c /\ call'[d] = call[d]
            BY <1>2, <2>3, CallTypes DEF IInv, TypeOK
        <3>2. /\ call[d].market \in Market /\ call[d].leader \in Caller
              /\ flight[call[d].market] = call[d].leader
            BY <2>3, <3>1, CallFields DEF IInv, TypeOK, JoinersFollow
        <3> QED
            BY <1>2, <3>1, <3>2, ReadsAssumption DEF IInv, TypeOK
    <2>4. ASSUME NEW d \in Caller, call'[d].at = "fetch", call'[d].first
          PROVE  flight'[call'[d].market] = d
        <3>1. CASE d = c
            <4>1. call'[d] = Fetching(m, TRUE) /\ flight'[m] = c
                BY <1>2, <3>1 DEF IInv, TypeOK
            <4> QED
                BY <3>1, <4>1 DEF Fetching
        <3>2. CASE d # c
            <4>1. /\ call'[d] = call[d] /\ call[d].market \in Market
                  /\ flight[call[d].market] = d
                BY <1>2, <2>4, <3>2, CallFields DEF IInv, TypeOK, RegisteredLeads
            <4> QED
                BY <1>2, <4>1, ReadsAssumption DEF IInv, TypeOK
        <3> QED
            BY <3>1, <3>2
    <2> QED
        BY <2>1, <2>2, <2>3, <2>4 DEF FlightsInOrder, JoinersFollow, RegisteredLeads
<1>4. FetchIsDue'
    <2> SUFFICES ASSUME NEW n \in Market, fetching'[n] PROVE ~Cached(n) \/ Age(n) >= CacheTtl
        BY <1>2 DEF FetchIsDue, Cached, Age
    <2>1. CASE n = m
        <3>1. Cached(m) => Age(m) \in Nat /\ CacheTtl \in Nat
            BY SnapshotsAged DEF Time
        <3> QED
            BY <2>1, <3>1 DEF AskVenue, IsHit
    <2>2. CASE n # m
        BY <1>2, <2>2 DEF IInv, TypeOK, FetchIsDue
    <2> QED
        BY <2>1, <2>2
<1> QED
    BY <1>1, <1>2, <1>3, <1>4, TurnKeeps DEF IInv, TypeOK, CacheIsOwn, Cached

LEMMA JoinTurn ==
    ASSUME IInv, NEW c \in Caller, NEW m \in Market, Join(c, m)
    PROVE  IInv' /\ TurnInOrder
<1>1. TurnInOrder
    BY NothingTold DEF Join
<1>2. /\ call[c] = Idle /\ flight[m] \in Caller
      /\ call' = [call EXCEPT ![c] = Joining(m, flight[m])]
      /\ UNCHANGED <<now, cache, fetching, flight>>
    BY DEF Join, IInv, TypeOK
<1>3. FlightsInOrder'
    <2>1. call' \in [Caller -> Call] /\ call'[c] = Joining(m, flight[m])
        BY <1>2, CallTypes DEF IInv, TypeOK
    <2>2. \A d \in Caller : d # c => call'[d] = call[d]
        BY <1>2 DEF IInv, TypeOK
    <2>3. \A n \in Market : flight[n] # Nobody => flight[n] # c
        BY <1>2, FetchingIsBusy DEF IInv, TypeOK
    <2>4. \A n \in Market : flight'[n] # Nobody => call'[flight'[n]] = Fetching(n, TRUE)
        BY <1>2, <2>2, <2>3 DEF IInv, TypeOK
    <2>5. /\ call'[c].at = "join" /\ call'[c].market = m
          /\ call'[c].leader = flight[m]
        BY <2>1 DEF Joining
    <2>6. JoinersFollow'
        BY <1>2, <2>2, <2>5 DEF IInv, JoinersFollow
    <2>7. RegisteredLeads'
        BY <1>2, <2>2, <2>5 DEF IInv, RegisteredLeads
    <2> QED
        BY <1>2, <2>1, <2>4, <2>6, <2>7 DEF IInv, TypeOK, FlightsInOrder
<1> QED
    BY <1>1, <1>2, <1>3, TurnKeeps DEF IInv, TypeOK, CacheIsOwn, FetchIsDue, Cached, Age

LEMMA TickTurn ==
    ASSUME IInv, Tick
    PROVE  IInv' /\ TurnInOrder
<1>1. TurnInOrder
    BY NothingTold DEF Tick
<1>2. now \in Nat /\ now' = now + 1 /\ now' \in Time /\ UNCHANGED <<cache, fetching, flight, call>>
    BY ReadsAssumption DEF IInv, TypeOK, Tick, Time
<1>3. FlightsInOrder'
    BY <1>2 DEF IInv, TypeOK, FlightsInOrder, JoinersFollow, RegisteredLeads
<1>4. \A m \in Market : Cached(m) => cache[m].at \in Nat
    BY DEF IInv, TypeOK, Cached, Snapshot, Time
<1>5. CacheIsOwn'
    BY <1>2, <1>4 DEF IInv, CacheIsOwn, Cached
<1>6. FetchIsDue'
    BY <1>2, <1>4, ReadsAssumption DEF IInv, FetchIsDue, Cached, Age
<1> QED
    BY <1>1, <1>2, <1>3, <1>5, <1>6, TurnKeeps DEF IInv, TypeOK
(* A new answer is newer than what it replaces, and answers every call that
   waits for it. *)
LEMMA VenueAnswersTurn ==
    ASSUME IInv, NEW m \in Market, VenueAnswers(m)
    PROVE  IInv' /\ TurnInOrder
<1>1. PICK whole \in BOOLEAN, outcome \in Outcomes :
         LET snapshot == [of |-> m, at |-> now, whole |-> whole]
             reading == FreshReading(snapshot) IN
         /\ cache' = [cache EXCEPT ![m] = snapshot]
         /\ IF outcome = "failed"
            THEN Reject(Waiting(m), m, "analysis", CacheTtl > 0)
            ELSE /\ HandOut(Waiting(m), m, reading, outcome)
                 /\ fetching' = [fetching EXCEPT ![m] = FALSE]
    BY DEF VenueAnswers
<1> DEFINE snapshot == [of |-> m, at |-> now, whole |-> whole]
           reading == FreshReading(snapshot)
<1>2. now' = now /\ now \in Time
    BY DEF VenueAnswers, IInv, TypeOK
<1>3. snapshot \in Snapshot /\ snapshot.of = m /\ snapshot.at = now /\ snapshot # Absent
    BY <1>2, ReadsAssumption DEF Snapshot, Absent
<1>4. /\ cache' \in [Market -> Snapshot \cup {Absent}] /\ cache'[m] = snapshot
      /\ \A n \in Market : n # m => cache'[n] = cache[n]
    BY <1>1, <1>3 DEF IInv, TypeOK
<1>5. CacheIsOwn'
    <2>1. now <= now
        BY <1>2, ReadsAssumption DEF Time
    <2> QED
        BY <1>2, <1>3, <1>4, <2>1 DEF IInv, CacheIsOwn, Cached
<1>6. CASE outcome = "failed"
    <2> DEFINE hit == CacheTtl > 0
    <2>1. Reject(Waiting(m), m, "analysis", hit)
        BY <1>1, <1>6
    <2>2. fetching' \in [Market -> BOOLEAN] /\ (fetching'[m] => ~hit)
          /\ \A n \in Market : n # m => fetching'[n] = fetching[n]
        BY <2>1 DEF Reject, IInv, TypeOK
    <2>3. FetchIsDue'
        <3> SUFFICES ASSUME NEW n \in Market, fetching'[n]
                     PROVE  ~Cached(n)' \/ Age(n)' >= CacheTtl
            BY DEF FetchIsDue
        <3>1. CASE n = m
            <4>1. CacheTtl = 0 /\ Age(m)' = now - now
                BY <1>2, <1>3, <1>4, <2>2, <3>1, ReadsAssumption DEF Age
            <4> QED
                BY <1>2, <3>1, <4>1, ReadsAssumption DEF Time
        <3>2. CASE n # m
            BY <1>2, <1>4, <2>2, <3>2 DEF IInv, FetchIsDue, Cached, Age
        <3> QED
            BY <3>1, <3>2
    <2>4. FlightsInOrder' /\ TurnInOrder
        <3>1. hit \in BOOLEAN
            OBVIOUS
        <3> HIDE DEF hit
        <3> QED
            BY <2>1, <3>1, RejectTurn
    <2> QED
        BY <1>2, <1>4, <1>5, <2>2, <2>3, <2>4, TurnKeeps
<1>7. CASE outcome # "failed"
    <2>1. Faithful(m, reading)
        BY <1>2, <1>4, FreshIsFaithful
    <2> HIDE DEF reading, snapshot
    <2>2. /\ HandOut(Waiting(m), m, reading, outcome)
          /\ fetching' = [fetching EXCEPT ![m] = FALSE]
        BY <1>1, <1>7 DEF reading, snapshot
    <2>3. FetchIsDue'
        BY <1>2, <1>4, <2>2 DEF IInv, TypeOK, FetchIsDue, Cached, Age
    <2>4. FlightsInOrder' /\ TurnInOrder
        BY <2>1, <2>2, HandOutTurn
    <2> QED
        BY <1>2, <1>4, <1>5, <2>2, <2>3, <2>4, TurnKeeps DEF IInv, TypeOK
<1> QED
    BY <1>6, <1>7

(* A failure refuses only what has nothing to stand in, and hands out what has. *)
LEMMA VenueFailsTurn ==
    ASSUME IInv, NEW m \in Market, VenueFails(m)
    PROVE  IInv' /\ TurnInOrder
<1>1. PICK available \in BOOLEAN, outcome \in Outcomes :
         IF Fallback(m, available) # "stale"
         THEN Reject(Waiting(m), m, "market-data", FALSE)
         ELSE IF outcome = "failed"
              THEN Reject(Waiting(m), m, "analysis", FALSE)
              ELSE /\ HandOut(Waiting(m), m, StaleReading(m), outcome)
                   /\ fetching' = [fetching EXCEPT ![m] = FALSE]
    BY DEF VenueFails
<1>2. UNCHANGED <<now, cache>> /\ fetching[m]
    BY DEF VenueFails
<1>3. ASSUME FlightsInOrder', TurnInOrder, fetching' \in [Market -> BOOLEAN],
             \A n \in Market : n # m => fetching'[n] = fetching[n]
      PROVE  IInv' /\ TurnInOrder
    <2>1. FetchIsDue'
        BY <1>2, <1>3 DEF IInv, FetchIsDue, Cached, Age
    <2>2. CacheIsOwn'
        BY <1>2 DEF IInv, CacheIsOwn, Cached
    <2> QED
        BY <1>2, <1>3, <2>1, <2>2, TurnKeeps DEF IInv, TypeOK
<1>4. ASSUME NEW stage, Reject(Waiting(m), m, stage, FALSE)
      PROVE  fetching' \in [Market -> BOOLEAN] /\ \A n \in Market : n # m => fetching'[n] = fetching[n]
    BY <1>4 DEF Reject, IInv, TypeOK
<1>5. CASE Fallback(m, available) # "stale"
    <2>1. Reject(Waiting(m), m, "market-data", FALSE)
        BY <1>1, <1>5
    <2>2. ~Cached(m) \/ Age(m) > MaxStale \/ Age(m) = CacheTtl
        <3>1. Cached(m) => Age(m) \in Nat /\ CacheTtl \in Nat /\ Age(m) >= CacheTtl
            BY <1>2, SnapshotsAged DEF IInv, FetchIsDue, Time
        <3>2. Cached(m) => Age(m) > MaxStale \/ ~(Age(m) > CacheTtl)
            BY <1>5 DEF Fallback, Classify
        <3> QED
            BY <3>1, <3>2
    <2>3. FlightsInOrder' /\ TurnInOrder
        BY <2>1, <2>2, RejectTurn
    <2> QED
        BY <1>3, <1>4, <2>1, <2>3
<1>6. CASE Fallback(m, available) = "stale" /\ outcome = "failed"
    <2>1. Reject(Waiting(m), m, "analysis", FALSE)
        BY <1>1, <1>6
    <2>2. FlightsInOrder' /\ TurnInOrder
        BY <2>1, RejectTurn
    <2> QED
        BY <1>3, <1>4, <2>1, <2>2
<1>7. CASE Fallback(m, available) = "stale" /\ outcome # "failed"
    <2>1. /\ HandOut(Waiting(m), m, StaleReading(m), outcome)
          /\ fetching' = [fetching EXCEPT ![m] = FALSE]
        BY <1>1, <1>7
    <2>2. Faithful(m, StaleReading(m))
        BY <1>2, <1>7, StaleIsFaithful
    <2>3. FlightsInOrder' /\ TurnInOrder
        BY <2>1, <2>2, HandOutTurn
    <2> QED
        BY <1>3, <2>1, <2>3 DEF IInv, TypeOK
<1> QED
    BY <1>5, <1>6, <1>7

LEMMA TurnsKeepOrder ==
    ASSUME IInv, Next
    PROVE  IInv' /\ TurnInOrder
BY AskCachedTurn, AskVenueTurn, JoinTurn, VenueAnswersTurn, VenueFailsTurn, TickTurn
   DEF Next, Ask

(***************************************************************************)
(* The theorems.                                                           *)
(***************************************************************************)

(* The invariant holds in every state: a market's flight, its leader, those who
   joined it, its fetch and its cache belong together. *)
THEOREM InductiveInvariant == Spec => []IInv
<1>1. IInv /\ [Next]_vars => IInv'
    <2>1. CASE UNCHANGED vars
        BY <2>1 DEF vars, turn, IInv, TypeOK, CacheIsOwn, JoinersFollow, RegisteredLeads,
            FetchIsDue, Cached, Age
    <2> QED
        BY <2>1, TurnsKeepOrder
<1> QED
    BY InitIInv, <1>1, PTL DEF Spec

(* Every variable keeps its type, and a registered flight is that of a call
   that is under way. *)
THEOREM TypeCorrect == Spec => []TypeOK
<1>1. IInv => TypeOK
    BY DEF IInv
<1> QED
    BY <1>1, InductiveInvariant, PTL

(* Whoever asks, joins or asks again, and whatever the venues do: a caller gets
   its own market's newest candles within the limits they are served under, or
   a refusal that has its reason. *)
THEOREM NewestWithinLimits == Spec => ServesNewestWithinLimits
<1> DEFINE Served ==
        /\ \A t \in Answers' :
              /\ t.got.snapshot.of = t.market
              /\ t.got.snapshot = cache'[t.market]
              /\ now' - t.got.snapshot.at = t.got.age /\ t.got.age <= MaxStale
              /\ ~t.got.stale => t.got.age = 0 \/ t.got.age < CacheTtl
              /\ t.got.freshness = "fresh" => ~t.got.stale
        /\ \A t \in Refusals' :
              t.stage = "market-data" =>
                 ~Cached(t.market) \/ Age(t.market) > MaxStale \/ Age(t.market) = CacheTtl
        /\ \A m \in Market : Cached(m) => cache'[m].at >= cache[m].at
<1>1. IInv /\ [Next]_vars => [Served]_vars
    <2> SUFFICES ASSUME IInv, Next PROVE Served
        OBVIOUS
    <2>1. TurnInOrder
        BY TurnsKeepOrder
    <2>2. ASSUME NEW m \in Market, Cached(m)
          PROVE  cache'[m].at >= cache[m].at
        <3>1. /\ cache[m].at \in Time /\ cache[m].at <= now /\ now \in Time
              /\ \A t \in Time : t \in Nat
            BY <2>2, ReadsAssumption DEF IInv, TypeOK, CacheIsOwn, Cached, Snapshot, Time
        <3>2. cache'[m] = cache[m] \/ cache'[m].at = now
            <4>1. ASSUME NEW n \in Market, VenueAnswers(n)
                  PROVE  cache'[m] = cache[m] \/ cache'[m].at = now
                <5>1. PICK whole \in BOOLEAN :
                        cache' = [cache EXCEPT ![n] = [of |-> n, at |-> now, whole |-> whole]]
                    BY <4>1 DEF VenueAnswers
                <5> QED
                    BY <5>1 DEF IInv, TypeOK
            <4> QED
                BY <4>1 DEF Next, Ask, AskCached, AskVenue, Join, VenueFails, Tick
        <3> QED
            BY <3>1, <3>2
    <2> QED
        BY <2>1, <2>2 DEF TurnInOrder, AnswersFaithful, RefusalsDue, Faithful
<1> QED
    BY <1>1, InductiveInvariant, PTL DEF Spec, ServesNewestWithinLimits

(* What is handed out is written once, by who computed it; calls answered
   together are written together only when followers repeated the work. *)
THEOREM ComputedIsWritten == Spec => WrittenByWhoComputed
<1> DEFINE Recorded ==
        /\ {w.by : w \in wrote'} = {t.by : t \in Answers'}
        /\ \A w \in wrote' : Cardinality({v \in wrote' : v.by = w.by}) = 1
        /\ Cardinality(wrote') > 1 => \E w \in wrote' : Leads(w.by) /\ ~call[w.by].first
<1>1. IInv /\ [Next]_vars => [Recorded]_vars
    BY TurnsKeepOrder DEF TurnInOrder
<1> QED
    BY <1>1, InductiveInvariant, PTL DEF Spec, WrittenByWhoComputed

===============================================================================
