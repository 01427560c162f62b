---------------------------- MODULE DecisionChecks -----------------------------
(* What DecisionPanel decides and DecisionRecords keeps, over every small panel, setting,
   journal and short history of promotions and of answers. *)
EXTENDS Integers, Sequences, FiniteSets

LOCAL DP == INSTANCE DecisionPanel

LOCAL Vote == [signal : {"LONG", "SHORT", "NEUTRAL"}, weight : {-1, 1, 16}]
LOCAL Panels == UNION {[1..k -> Vote] : k \in 0..3}
LOCAL Configs ==
    [minimumAgreeing : 1..2, minimumMeanConviction : {0, 8},
     weightModel : {"continuous", "binary", "sqrt"},
     confidenceModel : {"share", "mean_conviction", "wilson"}]
LOCAL Mirrored(votes) ==
    [i \in DOMAIN votes |->
        IF votes[i].signal = "NEUTRAL" THEN votes[i]
        ELSE [votes[i] EXCEPT !.signal = DP!Opposite(@)]]

(* The verdict of a panel: neither direction is favoured; what is published has
   more votes than its opposite and enough of them with weight, so that there
   is always weight to divide by and the refusal of a weightless panel is never
   what decides; one more full vote for it does not take it back; and its
   confidence is a percentage. *)
ASSUME VerdictOfAPanel ==
    \A votes \in Panels, config \in Configs :
        LET verdict == DP!CalculateConsensus(votes, config)
            mirrored == DP!CalculateConsensus(Mirrored(votes), config)
            side == DP!PartitionPanel(votes, verdict.signal)
        IN /\ verdict.confidence = mirrored.confidence
           /\ verdict.confidence \subseteq 0..100
           /\ IF verdict.signal = "NEUTRAL" THEN mirrored.signal = "NEUTRAL"
              ELSE /\ mirrored.signal = DP!Opposite(verdict.signal)
                   /\ Cardinality(side.supporting) > Cardinality(side.opposing)
                   /\ side.supporting \cup side.opposing \cup side.abstaining = DOMAIN votes
                   /\ Cardinality({i \in side.supporting : votes[i].weight > 0})
                        >= config.minimumAgreeing
                   /\ LET louder == Append(votes, [signal |-> verdict.signal, weight |-> 16])
                      IN DP!CalculateConsensus(louder, config).signal = verdict.signal
           /\ LET heads(d) == DP!Tally(votes, d, config.weightModel)
              IN \A d \in DP!Direction :
                    ~DP!NoMajority(heads(d), config) =>
                        ~DP!NoWeight(heads(d), heads(DP!Opposite(d)))

(* Heads decide, not weight: two hardly convinced votes outvote a full one where
   no floor of conviction is set, and then the share behind them is the smaller;
   and a vote of no weight can still make a tie. *)
ASSUME HeadsDecide ==
    LET vote(d, w) == [signal |-> d, weight |-> w]
        config == [minimumAgreeing |-> 2, minimumMeanConviction |-> 0,
                   weightModel |-> "continuous", confidenceModel |-> "share"]
    IN /\ DP!CalculateConsensus(<<vote("LONG", 1), vote("LONG", 1), vote("SHORT", 16)>>, config)
            = [signal |-> "LONG", confidence |-> {11}]
       /\ DP!CalculateConsensus(<<vote("LONG", 16), vote("LONG", 16), vote("SHORT", 0),
                                  vote("SHORT", 0)>>, config).signal = "NEUTRAL"

(* What is published is what one of the two said; the fallback speaks only where
   the primary is silent and it is not in the shadow, and what the shadow keeps
   back is recorded as kept back. *)
ASSUME OneVoiceIsPublished ==
    \A p, f \in {"LONG", "SHORT", "NEUTRAL"}, mode \in {"shadow", "active"} :
        LET r == DP!ResolveSignal(p, f, mode) IN
        /\ r.published = (IF r.publishedBy = "primary" THEN p ELSE f)
        /\ r.publishedBy = "fallback" => p = "NEUTRAL" /\ mode = "active"
        /\ (r.published = "NEUTRAL" /\ {p, f} # {"NEUTRAL"}) <=> r.suppressed

LOCAL Config == [shadowMinimumSignals |-> 2, shadowMinimum |-> 1, minimumSample |-> 2,
                 promotionMargin |-> -2]
LOCAL Count == [signals : 0..3, resolved : 0..3, correct : 0..3]
LOCAL Better(a, b) == a.correct >= b.correct /\ a.resolved = b.resolved /\ a.signals >= b.signals

(* A shadow that is ready stays so with more right answers among as many and
   against a weaker incumbent, and is never ready on a sample smaller than the
   smallest, or against an incumbent nobody has measured. *)
ASSUME EvidenceCannotHurt ==
    \A a, b, incumbent \in {t \in Count : t.correct <= t.resolved}, age \in 0..1 :
        LET ready(t, i) == DP!EvaluateShadow(t, i, age, Config) = "ready" IN
        ready(a, incumbent) =>
            /\ a.resolved >= 2 /\ a.signals >= 2 /\ age >= 1 /\ incumbent.resolved > 0
            /\ Better(b, a) => ready(b, incumbent)
            /\ Better(incumbent, b) => ready(a, b)

(* The tables keep one row of a series, and one of a series and a horizon, so a
   version's signals and resolved signals are never more than the series it ran
   on, however many signals those have had. *)
ASSUME EvidenceCountsSeries ==
    LET series == {1, 2}
        states == {{[series |-> s, version |-> v[s]] : s \in series} : v \in [series -> 1..2]}
        rows(v, w) == {[series |-> s, horizon |-> 1, version |-> v[s], verdict |-> w[s]] : s \in series}
    IN \A st \in states, v \in [series -> 1..2],
          w \in [series -> {"unknown", "expired", "correct", "incorrect", "flat"}] :
        LET t == DP!Tallied(st, rows(v, w), 1, 1) IN
        /\ t.signals <= Cardinality(series) /\ t.resolved <= Cardinality(series)
        /\ t.correct + t.incorrect + t.flat = t.resolved

(* Histories of a rule: any calls with a reason and a named version, at any
   times, also times that lie before earlier ones. *)
LOCAL Calls(verdict) == [to : {"candidate", "backtest", "walk-forward", "shadow",
                               "approval", "production", "retired"}, at : 1..2]
LOCAL After(rows, verdict) ==
    {rows} \cup {DP!Promoted(rows, call.to, call.at) :
        call \in {c \in Calls(verdict) : DP!MayPromote(rows, c.to, TRUE, TRUE, verdict)}}
LOCAL Histories(verdict) ==
    LET reached[k \in 0..7] ==
            IF k = 0 THEN {<< >>}
            ELSE UNION {After(rows, verdict) : rows \in reached[k - 1]}
    IN reached[7]

(* No order and no dating of promotions takes a rule past a stage: behind each
   row there is one of the stage before it, unless that one was retired, and
   none is in production whose evidence was not ready.  A rule whose current
   row is retired is not promoted again. *)
ASSUME NoStageIsSkipped ==
    \A verdict \in {"ready", "behind"} : \A rows \in Histories(verdict) :
        /\ \A i \in DOMAIN rows : \A k \in 2..Len(DP!Stages) :
              rows[i].stage = DP!Stages[k] =>
                 /\ \E j \in 1..i - 1 : rows[j].stage \in {DP!Stages[k - 1], "retired"}
                 /\ DP!Stages[k] \in {"approval", "production"} => verdict = "ready"
        /\ rows # << >> /\ rows[DP!Current(rows)].stage = "retired" =>
              \A to \in {DP!Stages[k] : k \in 1..Len(DP!Stages)} :
                 ~DP!MayPromote(rows, to, TRUE, TRUE, verdict)

--------------------------------------------------------------------------------
LOCAL DR == INSTANCE DecisionRecords WITH
    MaxBuffered <- 3, MaxAttempts <- 2, Instruments <- {"BTC", "ETH"},
    StrategyKeys <- {"consensus-primary", "donchian-20", "donchian-trend-gated"},
    FallbackModes <- {"shadow", "active"}

LOCAL Upto(S, n) == UNION {[1..k -> S] : k \in 0..n}
LOCAL Range(s) == {s[i] : i \in DOMAIN s}
LOCAL Direction == {"LONG", "SHORT", "NEUTRAL"}

LOCAL Env == [strategy : {{}, {"donchian-20"}, {"consensus-primary"}, {"typo"}},
              mode : {{}, {"shadow"}, {"active"}, {"typo"}}]

(* While the stages work and the settings can be read, a fallback in the shadow never
   costs an analysis, and what is published is the panel's answer; only an active one
   speaks, where the panel is silent, and only an active one may fail the analysis.  An
   analysis whose fallback failed leaves nothing for the journal. *)
ASSUME AShadowCostsNothing ==
    \A env \in Env, breaks \in BOOLEAN, primary, fallback \in Direction :
        LET a == DR!ComputeAnalysis({}, env, breaks, primary, fallback)
            active == env.strategy # {} /\ env.mode = {"active"}
        IN /\ DR!SettingsStand(env) /\ ~active => a.failed = {} /\ a.signal = primary
           /\ a.failed = {} => /\ a.panel = primary
                               /\ a.signal # primary => active /\ primary = "NEUTRAL"
                               /\ (a.resolved = {}) = a.fallbackFailure
                               /\ a.fallbackFailure <=> breaks \/ env.strategy = {"consensus-primary"}
                               /\ a.suppressed => ~active /\ fallback # "NEUTRAL"
           /\ a.failed # {} /\ DR!SettingsStand(env) =>
                  active /\ a.diagnostics = {{"market-data", "indicators", "divergence", "signal"}}

(* A mode is read only beside a strategy, so a wrong one alone is no mistake; a strategy
   nobody has fails every analysis, in the shadow too, and without a diagnosis, for the
   settings are read again where their failure is caught. *)
ASSUME AWrongSettingFailsEveryAnalysis ==
    \A env \in Env, breaks \in BOOLEAN, primary, fallback \in Direction :
        LET a == DR!ComputeAnalysis({}, env, breaks, primary, fallback) IN
        /\ env.strategy = {} => DR!SettingsStand(env)
        /\ "typo" \in env.strategy \/ (env.strategy # {} /\ env.mode = {"typo"}) =>
              a.failed = {"signal"} /\ a.diagnostics = {}

(* A broken stage is told with what was measured before it, each stage more than the one
   before, but the series between two of them is told without. *)
ASSUME AFailureNamesItsStage ==
    \A i, j \in 1..5 :
        LET At(k) == DR!ComputeAnalysis({DR!Stages[k]}, [strategy |-> {}, mode |-> {}], FALSE, "LONG", "LONG")
            Told(k) == CHOOSE d \in At(k).diagnostics : TRUE
        IN /\ At(i).failed = {DR!Stages[i]}
           /\ (At(i).diagnostics = {}) <=> i = 3
           /\ i < j /\ 3 \notin {i, j} => Told(i) \subseteq Told(j) /\ (i # 2 \/ j # 4 => Told(i) # Told(j))
           /\ i # 3 => \A k \in 1..5 : DR!Stages[k] \in Told(i) => k < i

LOCAL Voice == [signal : Direction, weight : {0, 4, 12}]
LOCAL Qualities == {{}, {[score |-> 1, usable |-> TRUE]}, {[score |-> 1, usable |-> FALSE]}}

(* The factors of a confidence are all of it: the shares of the weight on both sides, the
   largest first and signed by their side, silent votes not among them; no factor has a
   share when nothing was decided or there is nothing to be confident about. *)
ASSUME TheFactorsAreTheWhole ==
    \A votes \in [1..3 -> Voice], direction \in Direction, confidence \in {0, 60}, quality \in Qualities :
        LET f == DR!ExplainSignal(votes, direction, confidence, quality).factors
            weighed == {i \in DOMAIN f : f[i].key # 0}
            Of(i) == f[i].impact
            whole == DR!Sum([i \in 1..3 |-> IF votes[i].signal = "NEUTRAL" THEN 0 ELSE votes[i].weight])
        IN /\ confidence = 0 => f = << >>
           /\ confidence > 0 => Cardinality({i \in DOMAIN f : f[i].key = 0}) = Cardinality(quality)
           /\ weighed # {} <=> confidence > 0 /\ direction # "NEUTRAL" /\ whole > 0
           /\ \A i \in weighed :
                 LET vote == votes[f[i].key] IN
                 /\ vote.signal # "NEUTRAL" /\ Of(i)[2] = whole
                 /\ Of(i)[1] = IF vote.signal = direction THEN vote.weight ELSE -vote.weight
                 /\ f[i].stance = IF vote.signal = direction THEN "supporting" ELSE "opposing"
           /\ weighed # {} => DR!Sum([i \in DOMAIN f |-> DR!Magnitude(f[i])]) = whole
           /\ \A i \in 1..Len(f) - 1 : DR!Magnitude(f[i]) >= DR!Magnitude(f[i + 1])

(* Without both assessments a signal has no context at all. *)
ASSUME HalfAContextIsNone ==
    \A regime \in {{}, {"calm"}}, quality \in Qualities :
        LET c == DR!AnalysisContext(regime, quality) IN
        (c.context = {}) = (regime = {} \/ quality = {}) /\ (c.context = {} => c.quality = {})

-------------------------------------------------------------------------------
(* Two processes that resolve one configuration at once, in any order of their reads and
   writes, get one version, and another market or another setting gets another. *)
ASSUME OneVersionOfAConfiguration ==
    LET Hash(m, s) == DR!FingerprintStrategy(m, s, "baseline", "set")
        first == Hash(<<"BTC", "btc ">>, 1)
    IN \A m \in {"BTC", "ETH"}, s \in 1..2, early \in BOOLEAN :
          LET second == Hash(<<m, m>>, s)
              one == DR!ResolveActive(<< >>, << >>, first)
              two == DR!ResolveActive(IF early THEN << >> ELSE one.table, one.table, second)
          IN /\ (one.id = two.id) = (m = "BTC" /\ s = 1)
             /\ DOMAIN two.table = {first, second}
             /\ DR!ResolveActive(two.table, two.table, first) = [table |-> two.table, id |-> one.id]

LOCAL Bars == {<< >>, <<[timestamp |-> 1]>>, <<[timestamp |-> 1], [timestamp |-> 2]>>}
LOCAL Input == [symbol : {"BTC", "new"}, price : {5, 6}, version : {1}, candles : Bars,
                provider : {"p", "q"}, interval : {"1h"}, snapshot : {"a", "b"}]

(* An input is stored once, with the analysis it came with first; another candle, price
   or venue is another row.  What cannot be stored changes nothing and is a null. *)
ASSUME OneRowOfAnInput ==
    \A one, two \in Input :
        LET first == DR!StoreSnapshot(<< >>, one, 1, FALSE, FALSE)
            second == DR!StoreSnapshot(first.table, two, 2, FALSE, FALSE)
            same == [one EXCEPT !.snapshot = "a"] = [two EXCEPT !.snapshot = "a"]
        IN /\ (first.stored = {}) = (one.symbol = "new") /\ first.created = (first.stored # {})
           /\ same => second.table = first.table /\ ~second.created /\ second.stored = first.stored
           /\ ~same /\ "new" \notin {one.symbol, two.symbol} => Cardinality(DOMAIN second.table) = 2
           /\ DR!StoreSnapshot(first.table, two, 2, TRUE, FALSE).table = first.table
           /\ \A limit \in 0..2 :
                 LET list == DR!ListSnapshots(second.table, "BTC", limit) IN
                 /\ Len(list) = IF limit < Cardinality(DOMAIN second.table) THEN limit
                                ELSE Cardinality(DOMAIN second.table)
                 /\ Len(list) > 0 /\ second.created => second.table[list[1]].at = 2

(* A cycle stores its analysis twice, once with the candles it was made of and once with
   those the cycle had read before it, which are what is published; only when no bar
   closed between the two reads are they one row. *)
ASSUME ACycleMayStoreTwice ==
    \A input \in {i \in Input : i.symbol = "BTC" /\ i.candles = << >>}, one, two \in Bars :
        LET cycle == DR!ObserveMarket(<< >>, input, one, two, 1)
            published == CHOOSE k \in cycle.published : TRUE
        IN /\ (Cardinality(DOMAIN cycle.table) = 1) = (one = two)
           /\ published.candles = one
           /\ cycle.table[published].snapshot = input.snapshot
           /\ cycle.table[published].extent[3] = Len(one)

-------------------------------------------------------------------------------
LOCAL Panel == INSTANCE DecisionPanel
LOCAL Entry(symbol, at, primary, fallback, mode) ==
    LET said == Panel!ResolveSignal(primary, fallback, mode) IN
    DR!DecisionEntry(symbol, "1h", 1, [primary |-> primary, fallback |-> {fallback}, rule |-> "r",
                                        published |-> said.published, suppressed |-> said.suppressed], at)
LOCAL Journals(mode) ==
    {[k \in {DR!JournalKey(e) : e \in es} |-> CHOOSE e \in es : DR!JournalKey(e) = k] :
        es \in {{Entry("BTC", 1, p, f, mode), Entry("ETH", 2, q, g, mode)} :
                  p, f, q, g \in Direction}}
LOCAL Whole(journal) == DR!ShadowReport(journal, 0, {}, {})

(* The report of all markets is that of each of them together, suppressed cycles out of
   the agreement; a rule in the shadow agrees only where it says what the panel said, and
   an active one agrees with itself whenever it spoke for a silent panel. *)
ASSUME AnActiveRuleAgreesWithItself ==
    /\ \A mode \in {"shadow", "active"} : \A j \in Journals(mode) :
          LET all == Whole(j)
              Of(m) == DR!ShadowReport(j, 0, {m}, {})
          IN /\ all.cycles = Of("BTC").cycles + Of("ETH").cycles
             /\ all.suppressed = Of("BTC").suppressed + Of("ETH").suppressed
             /\ all.agreement[1] = Of("BTC").agreement[1] + Of("ETH").agreement[1]
             /\ all.agreement[1] <= all.cycles - all.suppressed
             /\ DR!Sum([i \in 1..3 |-> all.byDirection[<<"LONG", "SHORT", "NEUTRAL">>[i]]]) = all.cycles
             /\ DR!ShadowReport(j, 2, {}, {}) = Of("ETH") /\ DR!ShadowReport(j, 0, {"new"}, {}).cycles = 0
             /\ DR!ShadowReport(j, 0, {}, {"4h"}).breakdown = << >>
             /\ all.suppressed = Cardinality({k \in DOMAIN j : /\ mode = "shadow" /\ j[k].primary = "NEUTRAL"
                                                              /\ j[k].fallback # {"NEUTRAL"}})
             /\ Of("BTC").agreement[1] = 1 <=>
                   LET e == j[<<"BTC", "1h", 1>>] IN
                   e.fallback = {e.primary} \/ (mode = "active" /\ e.primary = "NEUTRAL")
    /\ \E j \in Journals("active") : Whole(j).agreement = <<2, 2>> /\ \A k \in DOMAIN j : j[k].primary = "NEUTRAL"

(* Two decisions of one series in one millisecond are one row, the first; one that is
   written again after a lost answer is not written twice. *)
ASSUME ADecisionIsJournalledOnce ==
    \A one, two \in {Entry(s, at, p, "LONG", "shadow") : s \in {"BTC", "ETH"}, at \in 1..2, p \in Direction} :
        LET after == DR!Journalled(DR!Journalled(<< >>, one), two) IN
        /\ after[DR!JournalKey(one)] = one
        /\ (Cardinality(DOMAIN after) = 1) = (one.symbol = two.symbol /\ one.at = two.at)
        /\ DR!Journalled(after, one) = after

-------------------------------------------------------------------------------
LOCAL E(i) == Entry(<<"BTC", "ETH", "BTC", "ETH">>[i], i, "LONG", "LONG", "shadow")
LOCAL Rejected == Entry("new", 9, "LONG", "LONG", "shadow")
LOCAL Queues == {q \in Upto({E(1), E(2), E(3), Rejected}, 3) :
                    \A i, j \in DOMAIN q : q[i] = q[j] => i = j}
LOCAL With(spooled, remembered) ==
    [DR!EmptyLanes EXCEPT !.spool.lines = spooled, !.memory.entries = remembered]
LOCAL Held(lanes) == Range(lanes.spool.lines) \cup Range(lanes.memory.entries)
LOCAL Written(lanes) == {lanes.journal[k] : k \in DOMAIN lanes.journal}
LOCAL Answers(n) == [1..n -> BOOLEAN]
LOCAL Always(ok, n) == [i \in 1..n |-> ok]
RECURSIVE Flushes(_, _, _)
LOCAL Flushes(lanes, ok, n) ==
    IF n = 0 THEN lanes
    ELSE Flushes(DR!FlushDecisions(lanes, Always(ok, 8), Always(ok, 8)), ok, n - 1)

(* Whatever the database answers, a flush leaves each row in one place: in the journal, in
   the lane it was in, or given up; the rows it left in memory keep their order. *)
ASSUME AFlushLosesNothing ==
    \A spooled, remembered \in Queues, disk \in Answers(4), memory \in Answers(3) :
        (Range(spooled) \cap Range(remembered) = {}) =>
            LET lanes == With(spooled, remembered)
                after == DR!FlushDecisions(lanes, disk, memory)
                left == after.memory.entries
                At(e) == CHOOSE i \in DOMAIN remembered : remembered[i] = e
            IN /\ Held(lanes) = Held(after) \cup Written(after) \cup Range(after.givenUp)
               /\ Len(after.spool.lines) + Len(left) + Cardinality(Written(after)) + Len(after.givenUp)
                     = Len(spooled) + Len(remembered)
               /\ Range(after.spool.lines) \subseteq Range(spooled)
               /\ \A i, j \in DOMAIN left : i < j => At(left[i]) < At(left[j])
               /\ after.memory.dropped = << >>

(* A row nobody will ever accept does not stop the others: one flush with the database up
   writes all of them, and MaxAttempts flushes are enough to give it up. *)
ASSUME APoisonedRowDoesNotBlock ==
    \A spooled, remembered \in Queues :
        (Range(spooled) \cap Range(remembered) = {}) =>
            LET once == Flushes(With(spooled, remembered), TRUE, 1)
                later == Flushes(With(spooled, remembered), TRUE, 2)
                all == Range(spooled) \cup Range(remembered)
            IN /\ Written(once) = all \ {Rejected} /\ Held(once) \subseteq {Rejected}
               /\ Held(later) = {} /\ Range(later.givenUp) = all \cap {Rejected}
               /\ spooled # << >> /\ spooled[1] = Rejected /\ Len(spooled) > 1 => Held(once) = {}

(* Being down is counted like being refused: each MaxAttempts flushes of an outage give up
   one row of either lane that is waiting, in memory the oldest, though no row of them was
   ever at fault; the same database, when it answers, takes every row that is left. *)
ASSUME AnOutageGivesRowsUp ==
    \A n \in 0..3, k \in 0..6 :
        LET rows == [i \in 1..n |-> E(i)]
            kept == Flushes(With(<< >>, rows), FALSE, k)
            disk == Flushes(With(rows, << >>), FALSE, k)
            lost == IF k \div 2 < n THEN k \div 2 ELSE n
        IN /\ kept.memory.entries = SubSeq(rows, lost + 1, n) /\ Len(kept.givenUp) = lost
           /\ Len(disk.givenUp) = IF k <= n THEN 0 ELSE IF k < 2 * n THEN k - n ELSE n
           /\ Held(Flushes(disk, TRUE, 1)) = {}

(* A refused row is on the disk or in memory at once and counted; a memory that is full is
   flushed in the same call, and only when that fails too is the oldest row lost, counted
   for its market. *)
ASSUME ARefusedRowIsKept ==
    \A n \in 0..3, ok, disk \in BOOLEAN, flush \in Answers(3) :
        LET before == With(<< >>, [i \in 1..n |-> E(i)])
            after == DR!RecordStrategyDecision(before, E(4), ok, disk, flush)
            lostMarkets == {m \in DOMAIN after.memory.dropped : after.memory.dropped[m] > 0}
        IN /\ after.failures = IF ok THEN 0 ELSE 1
           /\ ok => Written(after) = {E(4)} /\ Held(after) = Held(before)
           /\ ~ok => E(4) \in Held(after) \cup Written(after)
           /\ ~ok /\ disk /\ n < 3 => after.spool.lines = <<E(4)>> /\ after.memory = before.memory
           /\ lostMarkets # {} <=> ~ok /\ ~disk /\ n = 3
           /\ lostMarkets \subseteq {"BTC"} /\ (lostMarkets # {} => E(1) \notin Held(after) \cup Written(after))
           /\ ~ok /\ ~disk /\ n = 2 /\ flush = Always(TRUE, 3) => Held(after) = {}
           /\ ~ok /\ ~disk /\ n = 2 => Held(after) \cup Written(after) \cup Range(after.givenUp) = {E(1), E(2), E(4)}

(* The state of the backlog adds up over its markets. *)
ASSUME TheMarketsAddUp ==
    \A spooled, remembered \in Queues, lost \in {<< >>, [BTC |-> 2], [ETH |-> 1, new |-> 1]} :
        LET m == DR!MergeBacklogStates([entries |-> remembered, dropped |-> lost],
                                       [lines |-> spooled, lost |-> [BTC |-> 1]])
            Over(part) == DR!Sum([i \in 1..3 |->
                             LET k == <<"BTC", "ETH", "new">>[i] IN IF k \in DOMAIN m THEN m[k][part] ELSE 0])
            Lost(k) == DR!Count(lost, k)
        IN /\ Over("buffered") = Len(remembered) /\ Over("spooled") = Len(spooled)
           /\ Over("dropped") = 1 + Lost("BTC") + Lost("ETH") + Lost("new")
           /\ "BTC" \in DOMAIN m
================================================================================
