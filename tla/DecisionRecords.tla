----------------------------- MODULE DecisionRecords -----------------------------
(***************************************************************************)
(* What an analysis says and what is kept of it: the pass through its      *)
(* stages (services/analysis.engine.ts, the fallback settings of           *)
(* strategies/registry.ts), its explanation (signals/explanation.ts), the  *)
(* strategy version and the snapshot it is filed under (analysis/), and    *)
(* the journal of decisions with its two lanes for rows the database       *)
(* refused (services/analysis.persistence.ts, strategies/                  *)
(* decision-log.repository.ts, observability/bounded-write-buffer.ts).     *)
(*                                                                         *)
(* A table is a function from the key of a row to the row, a hash is what  *)
(* is hashed, and what the database answers is a sequence of booleans.     *)
(***************************************************************************)
EXTENDS Integers, SequencesExt, FiniteSetsExt

CONSTANTS MaxBuffered,                  \* historyConfig.maxBufferedEntries
          MaxAttempts,                  \* MAX_DECISION_ATTEMPTS
          Instruments,                  \* the tickers the instrument table has
          StrategyKeys, FallbackModes   \* what the two settings may say

Panel == INSTANCE DecisionPanel

None == {}
The(option) == CHOOSE x \in option : TRUE
Row(table, key, row) == [k \in DOMAIN table \cup {key} |-> IF k = key THEN row ELSE table[k]]
Count(f, key) == IF key \in DOMAIN f THEN f[key] ELSE 0
Sum(f) == FoldLeft(LAMBDA total, n : total + n, 0, f)

-------------------------------------------------------------------------------
(* The stages of an analysis.  A failure is reported with the stage it happened in and
   what was measured before, but not that of the momentum series, which is computed
   outside any stage. *)
Stages == <<"market-data", "indicators", "momentum", "divergence", "signal">>
Measured(stage) ==
    {Stages[i] : i \in {j \in DOMAIN Stages : /\ Stages[j] # "momentum"
                                              /\ \E k \in DOMAIN Stages : Stages[k] = stage /\ j < k}}
Broken(stage) ==
    [failed |-> {stage},
     diagnostics |-> IF stage = "momentum" THEN None ELSE {Measured(stage)}]

(* A setting is None or {what it says}. *)
SettingsStand(env) ==
    env.strategy = None \/ (env.strategy \subseteq StrategyKeys /\ env.mode \subseteq FallbackModes)
ReadFallbackConfig(env) ==
    IF env.strategy = None THEN [key |-> "donchian-trend-gated", mode |-> "shadow"]
    ELSE [key |-> The(env.strategy), mode |-> IF env.mode = None THEN "shadow" ELSE The(env.mode)]

(* createRegistry refuses the primary as its own fallback. *)
RegistryBreaks(env, strategyBreaks) ==
    strategyBreaks \/ ~SettingsStand(env) \/ ReadFallbackConfig(env).key = "consensus-primary"

(* What is published of a panel's answer.  The catch of the registry reads the settings
   again. *)
Published(env, strategyBreaks, primary, fallback) ==
    LET config == ReadFallbackConfig(env)
        said == Panel!ResolveSignal(primary, fallback, config.mode)
        breaks == RegistryBreaks(env, strategyBreaks)
    IN CASE breaks /\ ~SettingsStand(env) -> [failed |-> {"signal"}, diagnostics |-> None]
         [] breaks /\ SettingsStand(env) /\ config.mode = "active" ->
                [failed |-> {"signal"}, diagnostics |-> {Measured("signal") \cup {"signal"}}]
         [] breaks /\ SettingsStand(env) /\ config.mode # "active" ->
                [failed |-> None, signal |-> primary, panel |-> primary, resolved |-> None,
                 publishedBy |-> "primary", suppressed |-> FALSE, fallbackFailure |-> TRUE]
         [] OTHER ->
                [failed |-> None, signal |-> said.published, panel |-> primary, resolved |-> {said},
                 publishedBy |-> said.publishedBy, suppressed |-> said.suppressed,
                 fallbackFailure |-> FALSE]
ComputeAnalysis(stage, env, strategyBreaks, primary, fallback) ==
    IF stage # None THEN Broken(The(stage)) ELSE Published(env, strategyBreaks, primary, fallback)

(* The context of a signal is the regime with what makes it unreliable, and the quality;
   without either assessment there is none of them. *)
AnalysisContext(regime, quality) ==
    IF None \in {regime, quality} THEN [context |-> None, regime |-> None, quality |-> None]
    ELSE [context |-> {[regime |-> The(regime), score |-> The(quality).score,
                        usable |-> The(quality).usable]},
          regime |-> regime, quality |-> quality]

-------------------------------------------------------------------------------
(* explanation.ts.  An impact is <<weight, of which total>>, negative when opposing. *)
Magnitude(factor) == IF factor.impact[1] < 0 THEN -factor.impact[1] ELSE factor.impact[1]
ConfidenceFactors(votes, direction, quality) ==
    LET sides == Panel!PartitionPanel(votes, direction)
        Weight(side) == Sum([i \in DOMAIN votes |-> IF i \in side THEN votes[i].weight ELSE 0])
        whole == Weight(sides.supporting) + Weight(sides.opposing)
        Of(side, sign, stance) ==
            LET places == SetToSortSeq(side, <) IN
            [k \in DOMAIN places |-> [key |-> places[k], stance |-> stance,
                                      impact |-> <<sign * votes[places[k]].weight, whole>>]]
        told == IF whole = 0 THEN << >>
                ELSE Of(sides.supporting, 1, "supporting") \o Of(sides.opposing, -1, "opposing")
        data == IF quality = None THEN << >>
                ELSE <<[key |-> 0, impact |-> <<0, 1>>,
                        stance |-> IF The(quality).usable THEN "supporting" ELSE "opposing"]>>
        all == told \o data
        order == SetToSortSeq(DOMAIN all,
                     LAMBDA i, j : \/ Magnitude(all[i]) > Magnitude(all[j])
                                   \/ Magnitude(all[i]) = Magnitude(all[j]) /\ i < j)
    IN [k \in DOMAIN order |-> all[order[k]]]
ExplainSignal(votes, direction, confidence, quality) ==
    [direction |-> direction, sides |-> Panel!PartitionPanel(votes, direction),
     factors |-> IF confidence = 0 THEN << >> ELSE ConfidenceFactors(votes, direction, quality),
     confidence |-> confidence]

-------------------------------------------------------------------------------
(* strategy-fingerprint.ts: a market is <<its name, how it was spelled>>; the settings
   that decide are hashed with it. *)
FingerprintStrategy(market, signal, profile, strategies) ==
    [market |-> market[1], signal |-> signal, profile |-> profile, strategies |-> strategies]

(* resolveActive: what it finds first, and what there is when it inserts. *)
ResolveActive(seen, now, hash) ==
    IF hash \in DOMAIN seen THEN [table |-> now, id |-> seen[hash]]
    ELSE IF hash \in DOMAIN now THEN [table |-> now, id |-> now[hash]]
    ELSE LET id == Cardinality(DOMAIN now) + 1
         IN [table |-> Row(now, hash, id), id |-> id]

-------------------------------------------------------------------------------
(* signal-snapshot.repository.ts.  A row with the same input is the same row; what was
   analysed is not part of the input. *)
InputFingerprint(input) ==
    [symbol |-> input.symbol, price |-> input.price, version |-> input.version,
     candles |-> input.candles, provider |-> input.provider, interval |-> input.interval]
Extent(candles) ==
    <<IF candles = << >> THEN 0 ELSE Head(candles).timestamp,
      IF candles = << >> THEN 0 ELSE Last(candles).timestamp, Len(candles)>>
RecordSnapshot(table, input, at) ==
    LET key == InputFingerprint(input) IN
    IF input.symbol \notin Instruments THEN [table |-> table, stored |-> None, created |-> FALSE]
    ELSE IF key \in DOMAIN table THEN [table |-> table, stored |-> {key}, created |-> FALSE]
    ELSE [table |-> Row(table, key, [at |-> at, snapshot |-> input.snapshot, extent |-> Extent(input.candles),
                                     id |-> Cardinality(DOMAIN table) + 1]),
          stored |-> {key}, created |-> TRUE]
ListSnapshots(table, symbol, limit) ==
    LET rows == SetToSortSeq({k \in DOMAIN table : k.symbol = symbol},
                    LAMBDA k, l : \/ table[k].at > table[l].at
                                  \/ table[k].at = table[l].at /\ table[k].id > table[l].id)
    IN IF symbol \notin Instruments THEN << >> ELSE SubSeq(rows, 1, Min({limit, Len(rows)}))

(* No version, no snapshot; a failure is a null. *)
StoreSnapshot(table, input, at, versionFails, databaseFails) ==
    IF versionFails \/ databaseFails THEN [table |-> table, stored |-> None, created |-> FALSE]
    ELSE RecordSnapshot(table, input, at)

(* A cycle reads the market, lets the analysis read it again and writes its own snapshot
   after the one of the analysis. *)
ObserveMarket(table, input, firstRead, secondRead, at) ==
    LET written == RecordSnapshot(table, [input EXCEPT !.candles = secondRead], at)
        own == RecordSnapshot(written.table, [input EXCEPT !.candles = firstRead], at)
    IN [table |-> own.table, published |-> own.stored]

-------------------------------------------------------------------------------
(* decision-log.repository.ts *)
DecisionEntry(symbol, interval, version, said, at) ==
    [symbol |-> symbol, interval |-> interval, version |-> version, primary |-> said.primary,
     fallback |-> said.fallback, rule |-> said.rule, published |-> said.published,
     suppressed |-> said.suppressed, at |-> at]
JournalKey(entry) == <<entry.symbol, entry.interval, entry.at>>
Refuses(entry, ok) == ~ok \/ entry.symbol \notin Instruments
(* DO NOTHING *)
Journalled(table, entry) ==
    IF JournalKey(entry) \in DOMAIN table THEN table ELSE Row(table, JournalKey(entry), entry)

Judged(table, since, symbol, interval) ==
    {table[k] : k \in {k \in DOMAIN table :
        /\ table[k].at >= since /\ table[k].fallback # None
        /\ symbol = None \/ table[k].symbol \in symbol
        /\ interval = None \/ table[k].interval \in interval}}
Publishable(rows) == {r \in rows : ~r.suppressed}
Agreed(rows) == {r \in Publishable(rows) : r.fallback = {r.published}}
Share(part, whole) == IF whole = 0 THEN <<0, 1>> ELSE <<part, whole>>
ShadowReport(table, since, symbol, interval) ==
    LET known == symbol = None \/ symbol \subseteq Instruments
        rows == IF known THEN Judged(table, since, symbol, interval) ELSE {}
        Of(rule) == {r \in rows : r.rule = rule}
        Agreement(some) == Share(Cardinality(Agreed(some)), Cardinality(Publishable(some)))
    IN [cycles |-> Cardinality(rows), suppressed |-> Cardinality(rows \ Publishable(rows)),
        agreement |-> Agreement(rows),
        byDirection |-> [d \in {"LONG", "SHORT", "NEUTRAL"} |->
                            Cardinality({r \in rows : r.fallback = {d}})],
        breakdown |-> [rule \in {r.rule : r \in rows} |->
                          [cycles |-> Cardinality(Of(rule)), agreement |-> Agreement(Of(rule))]]]

-------------------------------------------------------------------------------
(* bounded-write-buffer.ts *)
EmptyBuffer == [entries |-> << >>, dropped |-> << >>]
Push(buffer, entry) ==
    LET entries == Append(buffer.entries, entry)
        oldest == Head(entries).symbol
    IN IF Len(entries) <= MaxBuffered THEN [buffer EXCEPT !.entries = entries]
       ELSE [entries |-> Tail(entries),
             dropped |-> Row(buffer.dropped, oldest, Count(buffer.dropped, oldest) + 1)]
BufferedOf(entries, market) == Len(SelectSeq(entries, LAMBDA e : e.symbol = market))
MergeBacklogStates(buffer, spool) ==
    LET markets == DOMAIN buffer.dropped \cup DOMAIN spool.lost
                     \cup {e.symbol : e \in ToSet(buffer.entries) \cup ToSet(spool.lines)}
    IN [m \in markets |-> [buffered |-> BufferedOf(buffer.entries, m),
                           spooled |-> BufferedOf(spool.lines, m),
                           dropped |-> Count(buffer.dropped, m) + Count(spool.lost, m)]]

(* The journal, the two lanes and the failures so far of each of their entries.  Two
   refusals in a row end a drain. *)
EmptyLanes ==
    [journal |-> << >>, memory |-> EmptyBuffer, tries |-> << >>,
     spool |-> [lines |-> << >>, lost |-> << >>], spoolTries |-> << >>,
     failures |-> 0, givenUp |-> << >>]

SpoolStep(d, ok) ==
    LET entry == Head(d.lanes.spool.lines)
        rest == Tail(d.lanes.spool.lines)
        tries == Count(d.lanes.spoolTries, entry) + 1
    IN CASE d.over \/ d.lanes.spool.lines = << >> -> d
         [] ~Refuses(entry, ok) ->
              [d EXCEPT !.refused = 0, !.written = @ + 1, !.lanes.spool.lines = rest,
                        !.lanes.spoolTries = Row(@, entry, 0), !.lanes.journal = Journalled(@, entry)]
         [] Refuses(entry, ok) /\ d.refused + 1 >= 2 -> [d EXCEPT !.over = TRUE]
         [] Refuses(entry, ok) /\ d.refused + 1 < 2 /\ tries >= MaxAttempts ->
              [d EXCEPT !.refused = @ + 1, !.lanes.spool.lines = rest,
                        !.lanes.spoolTries = Row(@, entry, 0), !.lanes.givenUp = Append(@, entry)]
         [] OTHER ->
              [d EXCEPT !.refused = @ + 1, !.lanes.spool.lines = Append(rest, entry),
                        !.lanes.spoolTries = Row(@, entry, tries)]
Drained(lanes) == [lanes |-> lanes, refused |-> 0, written |-> 0, over |-> FALSE]
DrainDecisionSpool(lanes, answers) == FoldLeft(SpoolStep, Drained(lanes), answers)

(* Each entry that was waiting once, unless the drain is over before it. *)
DrainDecisionMemory(lanes, answers) ==
    LET pending == lanes.memory.entries
        Step(d, i) ==
            LET entry == pending[i]
                tries == Count(d.lanes.tries, entry) + 1
            IN CASE d.over -> d
                 [] ~d.over /\ ~Refuses(entry, answers[i]) ->
                      [d EXCEPT !.refused = 0, !.written = @ + 1, !.lanes.tries = Row(@, entry, 0),
                                !.lanes.journal = Journalled(@, entry)]
                 [] ~d.over /\ Refuses(entry, answers[i]) /\ d.refused + 1 >= 2 ->
                      [d EXCEPT !.over = TRUE,
                                !.lanes.memory = FoldLeft(Push, @, SubSeq(pending, i, Len(pending)))]
                 [] ~d.over /\ Refuses(entry, answers[i]) /\ d.refused + 1 < 2 /\ tries >= MaxAttempts ->
                      [d EXCEPT !.refused = @ + 1, !.lanes.tries = Row(@, entry, 0),
                                !.lanes.givenUp = Append(@, entry)]
                 [] OTHER ->
                      [d EXCEPT !.refused = @ + 1, !.lanes.tries = Row(@, entry, tries),
                                !.lanes.memory = Push(@, entry)]
    IN FoldLeftDomain(Step, Drained([lanes EXCEPT !.memory.entries = << >>]), pending)

(* The spool first. *)
FlushDecisions(lanes, spoolAnswers, memoryAnswers) ==
    DrainDecisionMemory(DrainDecisionSpool(lanes, spoolAnswers).lanes, memoryAnswers).lanes

(* A refused row goes to the disk or, where that refuses it too, to memory; a full memory
   is flushed at once. *)
RecordStrategyDecision(lanes, entry, ok, diskTakes, flushAnswers) ==
    LET kept == IF diskTakes THEN [lanes EXCEPT !.spool.lines = Append(@, entry)]
                ELSE [lanes EXCEPT !.memory = Push(@, entry)]
        counted == [kept EXCEPT !.failures = @ + 1]
    IN IF ~Refuses(entry, ok) THEN [lanes EXCEPT !.journal = Journalled(@, entry)]
       ELSE IF Len(counted.memory.entries) < MaxBuffered THEN counted
       ELSE FlushDecisions(counted, flushAnswers, flushAnswers)
===============================================================================
