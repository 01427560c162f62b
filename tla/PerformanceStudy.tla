----------------------------- MODULE PerformanceStudy -----------------------------
(***************************************************************************)
(* How good the published signals were (performance/), and what research/  *)
(* asks of candles before a rule is believed: the labelled rows a model    *)
(* would be fitted to, what a confidence is worth, and how a rule stands   *)
(* among coins.                                                            *)
(*                                                                         *)
(* A sample is [symbol, at, direction, verdict, return, confidence, regime,*)
(* indicators]; return and regime are sets of at most one value, as is     *)
(* everything that may be null.  What a random draw chose is an input.     *)
(***************************************************************************)
EXTENDS StrategyBench

CONSTANTS Sampling,        \* performanceConfig: [minimum, edges]
          BarMs,           \* the hour that samples.ts takes a bar for
          Features,        \* FeatureConfig, with its lookback
          Bins             \* [edges, minimum]: the bins of a confidence, as fractions

Count(samples, verdict) == Len(SelectSeq(samples, LAMBDA s : s.verdict = verdict))
SumOf(values) == FoldLeft(Plus, Whole(0), values)
Distance(left, right) == {Minus(a, b) : a \in left, b \in right}

-------------------------------------------------------------------------------
(* performance.ts *)
Unmeasured == [accuracy |-> {}, expectancy |-> {}, profitFactor |-> {}, directionAccuracy |-> {},
               maxDrawdown |-> {}, sharpeLike |-> {}, undersampled |-> TRUE]
(* Of the ratio to the deviation its square's parts are kept. *)
ComputeMetrics(samples) ==
    LET correct == Count(samples, "correct")
        incorrect == Count(samples, "incorrect")
        total == correct + incorrect + Count(samples, "flat")
        resolved == SelectSeq(samples, LAMBDA s : /\ s.verdict \in {"correct", "incorrect", "flat"}
                                                  /\ s.return # {})
        returns == [k \in DOMAIN resolved |-> The(resolved[k].return)]
        mean == IF returns = << >> THEN Whole(0) ELSE Mean(returns)
        squares == SumOf([k \in DOMAIN returns |-> Times(Minus(returns[k], mean), Minus(returns[k], mean))])
        profit == SumOf(SelectSeq(returns, LAMBDA r : r[1] > 0))
        loss == Magnitude(SumOf(SelectSeq(returns, LAMBDA r : r[1] < 0)))
        Step(c, s) ==
            LET equity == Plus(c.equity, The(s.return))
                peak == IF Below(c.peak, equity) THEN equity ELSE c.peak
                fall == Minus(peak, equity)
            IN [equity |-> equity, peak |-> peak, fall |-> IF Below(c.fall, fall) THEN fall ELSE c.fall]
        curve == FoldLeft(Step, [equity |-> Whole(0), peak |-> Whole(0), fall |-> Whole(0)],
                          SortSeq(resolved, LAMBDA s, t : s.at < t.at))
        counts == [total |-> total, correct |-> correct, incorrect |-> incorrect,
                   unresolved |-> Len(samples) - total]
    IN counts @@ IF total < Sampling.minimum THEN Unmeasured
                 ELSE [accuracy |-> {Ratio(correct, total)}, expectancy |-> {mean},
                       profitFactor |-> IF loss[1] = 0 THEN {} ELSE {Over(profit, loss)},
                       directionAccuracy |-> IF correct + incorrect = 0 THEN {}
                                             ELSE {Ratio(correct, correct + incorrect)},
                       maxDrawdown |-> {curve.fall},
                       sharpeLike |-> IF Len(returns) < 2 \/ squares[1] = 0 THEN {}
                                      ELSE {[mean |-> mean, variance |-> Over(squares, Whole(Len(returns) - 1))]},
                       undersampled |-> FALSE]

ConfidenceBuckets(samples) ==
    LET last == Len(Sampling.edges) - 1
        From(b) == Sampling.edges[b]
        To(b) == Sampling.edges[b + 1]
        Inside(s, b) == From(b) <= s.confidence /\ (s.confidence < To(b) \/ (b = last /\ s.confidence = To(b)))
    IN [buckets |-> [b \in 1..last |->
                       [from |-> From(b), to |-> To(b),
                        metrics |-> ComputeMetrics(SelectSeq(samples, LAMBDA s : Inside(s, b)))]],
        unplaced |-> Len(SelectSeq(samples, LAMBDA s :
                       \A b \in 1..last : s.confidence < From(b) \/ s.confidence > To(b)))]

(* By a label that a sample may lack, in the order the labels are first met. *)
GroupBy(samples, labels) ==
    LET names == FoldLeft(LAMBDA seen, i : IF labels[i] \subseteq ToSet(seen) THEN seen
                                           ELSE Append(seen, The(labels[i])),
                          << >>, [i \in DOMAIN samples |-> i])
        Members(name) == SelectSeq([i \in DOMAIN samples |-> i], LAMBDA i : labels[i] = {name})
        Group(name) == [k \in DOMAIN Members(name) |-> samples[Members(name)[k]]]
    IN [n \in DOMAIN names |-> [name |-> names[n], metrics |-> ComputeMetrics(Group(names[n]))]]

(* With an indicator and without it. *)
CombinationValue(samples) ==
    LET inside(name) == SelectSeq(samples, LAMBDA s : name \in s.indicators)
        outside(name) == SelectSeq(samples, LAMBDA s : name \notin s.indicators)
    IN [name \in UNION {s.indicators : s \in ToSet(samples)} |->
          [metrics |-> ComputeMetrics(inside(name)),
           with |-> Len(inside(name)), without |-> Len(outside(name)),
           lift |-> Distance(ComputeMetrics(inside(name)).accuracy, ComputeMetrics(outside(name)).accuracy)]]

(* regime-performance.ts.  The best and the worst of equals are those met first and last. *)
ByRegime(samples) ==
    LET groups == GroupBy(samples, [i \in DOMAIN samples |-> samples[i].regime])
        overall == ComputeMetrics(samples)
        measured == SortSeq(SelectSeq(groups, LAMBDA g : g.metrics.accuracy # {}),
                            LAMBDA g, h : Below(The(h.metrics.accuracy), The(g.metrics.accuracy)))
    IN [regimes |-> [g \in DOMAIN groups |->
                       [name |-> groups[g].name, metrics |-> groups[g].metrics,
                        lift |-> Distance(groups[g].metrics.accuracy, overall.accuracy)]],
        strongest |-> IF measured = << >> THEN {} ELSE {measured[1].name},
        weakest |-> IF measured = << >> THEN {} ELSE {Last(measured).name},
        spread |-> IF Len(measured) < 2 THEN {}
                   ELSE Distance(measured[1].metrics.accuracy, Last(measured).metrics.accuracy),
        unlabelled |-> Len(SelectSeq(samples, LAMBDA s : s.regime = {}))]

-------------------------------------------------------------------------------
(* calibration.ts *)
Scope(samples) == {s.symbol : s \in ToSet(samples)}
Calibrate(samples) ==
    LET buckets == ConfidenceBuckets(samples).buckets
        points == [b \in DOMAIN buckets |->
                     LET claimed == Ratio(buckets[b].from + buckets[b].to, 200)
                     IN [claimed |-> claimed, actual |-> buckets[b].metrics.accuracy,
                         total |-> buckets[b].metrics.total,
                         gap |-> Distance(buckets[b].metrics.accuracy, {claimed})]]
        measured == SelectSeq(points, LAMBDA p : p.actual # {})
        gaps == [k \in DOMAIN measured |-> The(measured[k].gap)]
        weight == FoldLeft(LAMBDA sum, p : sum + p.total, 0, measured)
        off == Over(SumOf([k \in DOMAIN gaps |-> Times(Magnitude(gaps[k]), Whole(measured[k].total))]),
                    Whole(weight))
        all == ComputeMetrics(samples).accuracy
        claims == [k \in DOMAIN samples |-> Ratio(samples[k].confidence, 100)]
        nothing == [points |-> points, score |-> {}, meanClaimed |-> all, meanActual |-> {},
                    worstGap |-> {}, unmeasured |-> TRUE, scope |-> Scope(samples)]
    IN IF samples = << >> THEN [nothing EXCEPT !.points = << >>, !.meanClaimed = {}]
       \* Without a bucket that is measured, what was claimed is said to be what came of it.
       ELSE IF measured = << >> THEN nothing
       ELSE [points |-> points, meanClaimed |-> {Mean(claims)}, meanActual |-> all,
             score |-> {IF Below(Whole(1), off) THEN Whole(0) ELSE Minus(Whole(1), off)},
             worstGap |-> {FoldLeft(LAMBDA w, g : IF Below(Magnitude(w), Magnitude(g)) THEN g ELSE w,
                                    gaps[1], gaps)},
             unmeasured |-> FALSE, scope |-> Scope(samples)]

Reliability(samples, recent, tolerance) ==
    LET score == Calibrate(samples).score
        newest == SortSeq(samples, LAMBDA s, t : s.at > t.at)
        lately == ComputeMetrics(SubSeq(newest, 1, Min({recent, Len(newest)}))).accuracy
        before == ComputeMetrics(SubSeq(newest, recent + 1, Len(newest))).accuracy
        drift == Distance(lately, before)
    IN IF score = {} \/ Len(samples) < Sampling.minimum
       THEN [score |-> {}, drift |-> {}, verdict |-> "unmeasured"]
       ELSE [score |-> score, drift |-> drift,
             verdict |-> IF drift = {} THEN "unmeasured"
                         ELSE IF ~Below(tolerance, Magnitude(The(drift))) THEN "stable"
                         ELSE IF The(drift)[1] < 0 THEN "degrading" ELSE "improving"]

-------------------------------------------------------------------------------
(* outcomes/outcome.ts: what became of a signal [entry, price, direction], read off
   candles [at, close] from the oldest to the newest.  An OutcomeConfig is
   [horizons, breakeven, track], a question about an excursion [target, stop]. *)
ConfiguredHorizons(typed) == SetToSortSeq(ToSet(typed), LAMBDA a, b : a < b)
ForwardFraction(direction, from, to) ==
    Ratio(IF direction = "LONG" THEN to - from ELSE from - to, from)
VerdictOf(value, breakeven) ==
    IF Below(breakeven, value) THEN "correct"
    ELSE IF Below(value, Minus(Whole(0), breakeven)) THEN "incorrect" ELSE "flat"
MeasureOutcome(signal, candles, config) ==
    LET forward == SelectSeq(candles, LAMBDA c : c.at > signal.entry)
        Value(c) == ForwardFraction(signal.direction, signal.price, c.close)
        values == [k \in DOMAIN forward |-> Value(forward[k])]
        Unmet(bars) == [bars |-> bars, return |-> {}, favourable |-> {}, adverse |-> {},
                        verdict |-> IF forward = << >> THEN "expired" ELSE "unknown"]
        Extreme(bars, Worse(_, _)) ==
            {v \in ToSet(SubSeq(values, 1, bars)) :
                config.track /\ \A k \in 1..bars : ~Worse(v, values[k])}
        Horizon(bars) ==
            IF bars > Len(forward) THEN Unmet(bars)
            ELSE [bars |-> bars, return |-> {values[bars]},
                  favourable |-> Extreme(bars, Below),
                  adverse |-> Extreme(bars, LAMBDA p, q : Below(q, p)),
                  verdict |-> VerdictOf(values[bars], config.breakeven)]
    IN [k \in DOMAIN config.horizons |-> Horizon(config.horizons[k])]

ReadExcursions(horizon, question) ==
    IF horizon.favourable = {} \/ horizon.adverse = {}
    THEN [answered |-> FALSE, hitTarget |-> FALSE, hitStop |-> FALSE, missedBy |-> question.target]
    ELSE LET hit == ~Below(The(horizon.favourable), question.target)
         IN [answered |-> TRUE, hitTarget |-> hit,
             hitStop |-> ~Below(Minus(Whole(0), question.stop), The(horizon.adverse)),
             missedBy |-> IF hit THEN Whole(0) ELSE Minus(question.target, The(horizon.favourable))]

-------------------------------------------------------------------------------
(* samples.ts.  An outcome is [symbol, entry, direction, horizons], a horizon [bars, return,
   verdict], the selector [bars, asOf, grace]. *)
WindowClosed(outcome, horizon) == outcome.entry + horizon.bars * BarMs + horizon.grace <= horizon.asOf
AtHorizon(outcome, bars) == SelectSeq(outcome.horizons, LAMBDA h : h.bars = bars)
WhyExcluded(outcome, horizon) ==
    LET found == AtHorizon(outcome, horizon.bars)
    IN IF found = << >> THEN {"otherHorizon"}
       ELSE IF found[1].verdict = "expired" THEN {"expired"}
       ELSE IF found[1].verdict = "unknown" \/ ~WindowClosed(outcome, horizon) THEN {"unresolved"} ELSE {}
ToPerformanceSamples(measured, horizon) ==
    LET Excluded(why) == Len(SelectSeq(measured, LAMBDA m : WhyExcluded(m.outcome, horizon) = {why}))
        Sample(m) == LET found == AtHorizon(m.outcome, horizon.bars)[1]
                     IN [symbol |-> m.outcome.symbol, at |-> m.outcome.entry,
                         direction |-> m.outcome.direction, verdict |-> found.verdict,
                         return |-> found.return, confidence |-> m.published.confidence,
                         regime |-> m.published.regime, indicators |-> {}]
        kept == SelectSeq(measured, LAMBDA m : WhyExcluded(m.outcome, horizon) = {})
    IN [samples |-> [k \in DOMAIN kept |-> Sample(kept[k])],
        excluded |-> [why \in {"unresolved", "expired", "otherHorizon"} |-> Excluded(why)]]

(* performance-load.repository.ts.  A row is [id, state, symbol, series, entry, direction,
   verdict, bars, return, regime, confidence]. *)
GroupKey(row) == IF row.state = {} THEN [unclaimed |-> row.id] ELSE [signal |-> The(row.state)]
GroupIntoSignals(rows, bars) ==
    LET ofHorizon == SelectSeq(rows, LAMBDA r : r.bars = bars)
        First(i) == \A j \in 1..i - 1 : GroupKey(ofHorizon[j]) # GroupKey(ofHorizon[i])
        groups == SelectSeq([i \in DOMAIN ofHorizon |-> i], First)
        Rows(i) == SelectSeq(ofHorizon, LAMBDA r : GroupKey(r) = GroupKey(ofHorizon[i]))
        claimed == SelectSeq(groups, LAMBDA i : ofHorizon[i].confidence # {})
        Signal(i) ==
            LET first == ofHorizon[i] IN
            [outcome |-> [symbol |-> first.symbol, entry |-> first.entry, direction |-> first.direction,
                          horizons |-> [k \in DOMAIN Rows(i) |->
                                          [bars |-> Rows(i)[k].bars, return |-> Rows(i)[k].return,
                                           verdict |-> Rows(i)[k].verdict]]],
             published |-> [confidence |-> The(first.confidence), regime |-> first.regime]]
    IN [signals |-> [k \in DOMAIN claimed |-> Signal(claimed[k])],
        withoutClaim |-> Len(groups) - Len(claimed)]
(* The oldest rows of the series, of every horizon, up to the limit. *)
LoadMeasuredSignals(table, series, bars, limit) ==
    LET found == SortSeq(SetToSeq({r \in table : r.series = series}), LAMBDA r, s : r.entry < s.entry)
        read == SubSeq(found, 1, Min({limit, Len(found)}))
    IN GroupIntoSignals(read, bars) @@ [read |-> Len(read)]

-------------------------------------------------------------------------------
(* features.ts, of candles that have a volume and a timestamp too.  Of the deviation of the
   returns the square is kept. *)
RequiredBarsForFeatures ==
    LET F == Features
    IN Max({F.ema, F.stochastic, F.momentum + 1, F.atr + 1, F.rsi + 1, F.macdSlow + F.macdSignal,
            F.lookback + 1})
(* What throws is reported as nothing. *)
Safe(reading) == IF reading = {} THEN Whole(0) ELSE The(reading)
DivergenceStrength(candles) ==
    LET close(k) == candles[Len(candles) - k].close
        step == close(0) - close(2)
        turn == (close(0) - close(1)) - (close(1) - close(2))
    IN IF Len(candles) < 3 THEN Whole(0)
       ELSE IF step = 0 \/ turn = 0 THEN Whole(0) ELSE Ratio(-turn, Size(step))
(* Refused before there are enough bars, and where the regime or the MACD is. *)
ExtractFeatures(candles, index, confidence) ==
    LET F == Features
        prefix == SubSeq(candles, 1, index)
        close == Whole(Last(prefix).close)
        ema == The(CalculateEMA(Closes(prefix), F.ema))
        macd == CalculateMACD(Closes(prefix), F.macdFast, F.macdSlow, F.macdSignal)
        returns == [i \in 1..Len(prefix) - 1 |->
                      IF prefix[i].close = 0 THEN Whole(0)
                      ELSE Ratio(prefix[i + 1].close - prefix[i].close, prefix[i].close)]
        recent == Lasts(returns, F.lookback)
        volumes == [k \in DOMAIN Lasts(prefix, F.lookback) |-> Whole(Lasts(prefix, F.lookback)[k].volume)]
        regime == AssessRegime(prefix, "1h")
        Spread == Mean([k \in DOMAIN recent |->
                         Times(Minus(recent[k], Mean(recent)), Minus(recent[k], Mean(recent)))])
    IN IF Len(prefix) < RequiredBarsForFeatures \/ {} \in {macd, regime} THEN {}
       ELSE {[at |-> Last(prefix).timestamp,
              emaDistance |-> IF ema[1] = 0 THEN Whole(0) ELSE Over(Minus(close, ema), ema),
              stochastic |-> Safe(CalculateStochastic(prefix, F.stochastic)),
              momentum |-> Safe(CalculateMomentum(prefix, F.momentum)),
              \* calculateATR has divided by the close already.
              atr |-> Over(Safe(CalculateATR(prefix, F.atr)), close),
              rsi |-> Safe(CalculateRSI(prefix, F.rsi)),
              macd |-> Over(The(macd).macd, close), macdHistogram |-> Over(The(macd).histogram, close),
              divergence |-> DivergenceStrength(prefix), volatility |-> Spread,
              volume |-> IF Mean(volumes)[1] = 0 THEN Whole(0)
                         ELSE Over(Whole(Last(prefix).volume), Mean(volumes)),
              returns |-> Last(recent), regime |-> The(regime).trend,
              signalConfidence |-> confidence]}
(* One bar that is refused refuses the series. *)
ExtractFeatureSeries(candles) ==
    LET bars == [k \in 1..Max({0, Len(candles) - RequiredBarsForFeatures + 1}) |->
                   ExtractFeatures(candles, RequiredBarsForFeatures + k - 1, Whole(0))]
    IN IF {} \in ToSet(bars) THEN {} ELSE {[k \in DOMAIN bars |-> The(bars[k])]}

(* dataset.ts.  A row is [at, label, outcome, horizon, features]. *)
LabelFor(candles, index, horizon) ==
    IF index + horizon \notin DOMAIN candles \/ candles[index].close = 0 THEN [label |-> {}, outcome |-> {}]
    ELSE LET outcome == Ratio(candles[index + horizon].close - candles[index].close, candles[index].close)
         IN [label |-> {IF outcome[1] > 0 THEN 1 ELSE 0}, outcome |-> {outcome}]
BuildDataset(vectors, candles, horizon) ==
    LET IndexOf(at) == {i \in DOMAIN candles :
                          candles[i].timestamp = at /\ \A j \in i + 1..Len(candles) : candles[j].timestamp # at}
        Row(v) == [at |-> v.at, horizon |-> horizon, features |-> v]
                    @@ IF IndexOf(v.at) = {} THEN [label |-> {}, outcome |-> {}]
                       ELSE LabelFor(candles, The(IndexOf(v.at)), horizon)
    IN [k \in DOMAIN vectors |-> Row(vectors[k])]
(* The shares are fractions; every row before the test part is asked whether its label is
   known before the test part begins. *)
SplitByTime(rows, train, validation, interval) ==
    LET ordered == SortSeq(rows, LAMBDA r, s : r.at < s.at)
        total == Len(ordered)
        End(share) == (total * share[1]) \div share[2]
        trainEnd == End(train)
        validationEnd == End(Plus(train, validation))
        \* Both boundaries are the first row of the test part.
        validationStart == IF validationEnd < total THEN {ordered[validationEnd + 1].at} ELSE {}
        testStart == ordered[Min({validationEnd, total - 1}) + 1].at
        Before(r, start) == r.at + r.horizon * interval < start
        trained == SubSeq(ordered, 1, trainEnd)
        validated == SubSeq(ordered, trainEnd + 1, validationEnd)
        keptTrain == SelectSeq(trained, LAMBDA r : \A start \in validationStart : Before(r, start))
        keptValidation == SelectSeq(validated, LAMBDA r : Before(r, testStart))
    IN IF rows = << >> THEN [train |-> << >>, validation |-> << >>, test |-> << >>, purged |-> 0]
       ELSE [train |-> keptTrain, validation |-> keptValidation,
             test |-> SubSeq(ordered, validationEnd + 1, total),
             purged |-> Len(trained) - Len(keptTrain) + Len(validated) - Len(keptValidation)]
(* A row without a label that is kept is one of the negative class. *)
ToMatrix(rows, dropUnlabelled) ==
    LET kept == SelectSeq(rows, LAMBDA r : dropUnlabelled => r.label # {})
    IN [x |-> [k \in DOMAIN kept |-> kept[k].features],
        y |-> [k \in DOMAIN kept |-> IF kept[k].label = {} THEN 0 ELSE The(kept[k].label)]]

-------------------------------------------------------------------------------
(* confidence-calibration.ts *)
CollectConfidences(key, candles, forward) ==
    LET LastAt(i) == \A j \in i + 1..Len(candles) : candles[j].timestamp # candles[i].timestamp
        Said(i) == Evaluate(key, SubSeq(candles, 1, i))
        told == SelectSeq([i \in 1..Max({0, Len(candles) - forward}) |-> i],
                          LAMBDA i : LastAt(i) /\ Said(i).direction = "LONG" /\ candles[i].close > 0)
    IN [k \in DOMAIN told |-> [confidence |-> Said(told[k]).confidence,
                               forward |-> Return(1, candles[told[k]].close, candles[told[k] + forward].close)]]
(* The upper half of no halves is everything. *)
ConfidenceCurve(rows) ==
    LET Inside(b) == SelectSeq(rows, LAMBDA r : /\ ~Below(r.confidence, Bins.edges[b])
                                               /\ Below(r.confidence, Bins.edges[b + 1]))
        Wins(b) == Len(SelectSeq(Inside(b), LAMBDA r : r.forward[1] > 0))
        full == SelectSeq([b \in 1..Len(Bins.edges) - 1 |-> b], LAMBDA b : Inside(b) # << >>)
        shares == [k \in DOMAIN full |-> Ratio(Wins(full[k]), Len(Inside(full[k])))]
        half == Len(full) \div 2
        upper == IF half = 0 THEN full ELSE Lasts(full, half)
        upperShares == IF half = 0 THEN shares ELSE Lasts(shares, half)
        topHalfBars == FoldLeft(LAMBDA sum, b : sum + Len(Inside(b)), 0, upper)
        rises == half > 0 /\ Below(Mean(SubSeq(shares, 1, half)), Mean(upperShares))
    IN [topHalfBars |-> topHalfBars, shares |-> shares, measurable |-> topHalfBars >= Bins.minimum,
        verdict |-> IF topHalfBars < Bins.minimum THEN "too-few-bars" ELSE IF rises THEN "monotone" ELSE "flat"]

(* signal-power.ts.  A draw is the set of places the shuffle put first. *)
ForwardReturns(closes, bars) ==
    [i \in DOMAIN closes |-> IF i + bars > Len(closes) \/ closes[i] <= 0 THEN {}
                             ELSE {Ratio(closes[i + bars] - closes[i], closes[i])}]
FutureSignal(forward) == [i \in DOMAIN forward |-> \E r \in forward[i] : r[1] > 0]
PermutationPValue(values, signal, draws) ==
    LET places == SelectSeq([i \in DOMAIN values |-> i], LAMBDA i : values[i] # {})
        pool == [k \in DOMAIN places |-> The(values[places[k]])]
        fired == {k \in DOMAIN places : signal[places[k]]}
        MeanOf(ks) == Over(FoldSet(LAMBDA k, sum : Plus(pool[k], sum), Whole(0), ks), Whole(Cardinality(ks)))
        Difference(ks) == Minus(MeanOf(ks), MeanOf(DOMAIN pool \ ks))
        extreme == SelectSeq(draws, LAMBDA d : ~Below(Magnitude(Difference(d)), Magnitude(Difference(fired))))
    IN IF Len(signal) # Len(values) \/ fired = {} \/ fired = DOMAIN places THEN {}
       ELSE {[p |-> Ratio(Len(extreme) + 1, Len(draws) + 1), difference |-> Difference(fired)]}

(* threshold-null.ts: a coin that is thrown at every bar it is asked about once the first
   ones, of the candles it is shown, are over. *)
CoinDecisions(indices, throws, quiet) ==
    FoldLeft(LAMBDA c, index : IF index < quiet THEN [c EXCEPT !.said = Append(@, 0)]
                               ELSE [said |-> Append(c.said, throws[c.thrown + 1]), thrown |-> c.thrown + 1],
             [said |-> << >>, thrown |-> 0], indices).said
Clears(verdict, share) == ~Below(verdict.share, share) /\ verdict.worst[1] > 0
PassRate(verdicts, share) == Ratio(Len(SelectSeq(verdicts, LAMBDA v : Clears(v, share))), Len(verdicts))

(* walk-forward-power.ts: asked over its windows first, and then over all bars. *)
MeasureExposure(said) == Ratio(Len(SelectSeq(said, LAMBDA d : d # 0)), Len(said))
CoinProfile(bars, foldBars, throws, quiet) ==
    LET folds == bars \div foldBars
        inFolds == [k \in 1..folds * (foldBars - 1) |-> ((k - 1) % (foldBars - 1)) + 1]
        all == CoinDecisions(inFolds \o [i \in 1..bars |-> i - 1], throws, quiet)
    IN [traded |-> MeasureExposure(SubSeq(all, 1, Len(inFolds))),
        exposure |-> MeasureExposure(SubSeq(all, Len(inFolds) + 1, Len(all)))]
CompareAgainstCoins(profile, coins, tolerance, level) ==
    LET matched == SelectSeq(coins, LAMBDA c :
                       ~Below(tolerance, Magnitude(Minus(c.exposure, profile.exposure))))
        asGood == SelectSeq(matched, LAMBDA c : ~Below(c.share, profile.share))
        p == Ratio(Len(asGood), Len(matched))
    IN IF matched = << >> THEN [matched |-> 0, p |-> Whole(1), significant |-> FALSE]
       ELSE [matched |-> Len(matched), p |-> p, significant |-> Below(p, level)]
===============================================================================
