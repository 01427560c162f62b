---------------------------- MODULE BacktestEvidence ----------------------------
(***************************************************************************)
(* What a backtest may claim: the price of a trade (backtest/execution.ts),*)
(* the metrics of a run (metrics.ts), its resampling tests (statistics.ts),*)
(* the search of parameters (optimizer.ts, config/parameter.config.ts), the*)
(* identity of a run and of its candles (experiment.ts, dataset.ts) and    *)
(* the window that is read once (research/holdout*.ts).                    *)
(*                                                                         *)
(* A rate or a return is a whole number of Unit-ths, a quotient is         *)
(* <<numerator, denominator>> with a positive denominator, None stands for *)
(* null, and what a random draw chose is an input.                         *)
(***************************************************************************)
EXTENDS Integers, SequencesExt, FiniteSetsExt

CONSTANT Unit

None == {}
Total(s) == FoldLeft(LAMBDA a, b : a + b, 0, s)
Mean(s) == <<Total(s), Len(s)>>
Below(p, q) == p[1] * q[2] < q[1] * p[2]
Abs(a) == IF a < 0 THEN -a ELSE a

-------------------------------------------------------------------------------
(* execution.ts.  A candle has the four prices. *)
ExecutionStands(c) ==
    /\ {c.maker, c.taker, c.slippage} \subseteq 0..Unit \div 10
    /\ c.spread \in 0..Unit \div 2
    /\ c.maker <= c.taker
    /\ c.model = "intrabar" => c.liquidity = "taker"

FillCost(c) == c[c.liquidity] + c.spread + c.slippage
RoundTripCost(c) == 2 * FillCost(c)

(* In Unit-ths of a price. *)
FillPrice(candle, side, c, isEntry) ==
    LET isBuying == (side = 1) = isEntry
        base == CASE c.model = "next_open"  -> candle.open
                  [] c.model = "next_close" -> candle.close
                  [] c.model = "intrabar"   -> IF isBuying THEN candle.high ELSE candle.low
    IN base * (IF isBuying THEN Unit + FillCost(c) ELSE Unit - FillCost(c))

PricedTrade(entry, exit, direction, c) ==
    LET entryPrice == FillPrice(entry, direction, c, TRUE)
        exitPrice == FillPrice(exit, direction, c, FALSE)
    IN [entryPrice |-> entryPrice, exitPrice |-> exitPrice,
        gross |-> <<direction * (exit.close - entry.open), entry.open>>,
        net |-> <<direction * (exitPrice - entryPrice), entryPrice>>]

-------------------------------------------------------------------------------
(* metrics.ts.  Of the ratio to the deviation only the sign is kept. *)
Drawdown(equity) ==
    LET Step(d, i) ==
            LET value == equity[i]
                at == IF value > d.peak THEN [d EXCEPT !.peak = value, !.top = i, !.trough = i] ELSE d
                fall == IF at.peak = 0 THEN <<0, 1>> ELSE <<at.peak - value, at.peak>>
                deeper == IF Below(at.depth, fall) THEN [at EXCEPT !.depth = fall, !.trough = i] ELSE at
            IN [deeper EXCEPT !.bars = Max({@, deeper.trough - deeper.top})]
        start == [peak |-> IF equity = << >> THEN Unit ELSE equity[1], top |-> 1, trough |-> 1,
                  depth |-> <<0, 1>>, bars |-> 0]
    IN FoldLeftDomain(Step, start, equity)

SharpeSign(equity) ==
    LET steps == SelectSeq([i \in 1..Len(equity) - 1 |-> <<equity[i + 1] - equity[i], equity[i]>>],
                           LAMBDA r : r[2] # 0)
        mean == FoldLeft(LAMBDA a, r : <<a[1] * r[2] + r[1] * a[2], a[2] * r[2]>>, <<0, 1>>, steps)[1]
        flat == \A i, j \in DOMAIN steps : steps[i][1] * steps[j][2] = steps[j][1] * steps[i][2]
    IN IF Len(equity) < 3 \/ Len(steps) < 2 \/ flat \/ mean = 0 THEN 0
       ELSE IF mean > 0 THEN 1 ELSE -1

TotalReturn(equity) == IF equity = << >> THEN 0 ELSE Last(equity) - Unit

EmptyMetrics ==
    [trades |-> 0, exposure |-> <<0, 1>>, winRate |-> <<0, 1>>, totalReturn |-> 0,
     averageTrade |-> <<0, 1>>, profitFactor |-> None, maxDrawdown |-> <<0, 1>>,
     maxDrawdownBars |-> 0, sharpe |-> 0, averageWin |-> <<0, 1>>, averageLoss |-> <<0, 1>>,
     largestWin |-> 0, largestLoss |-> 0]

(* A trade has its first and last bar and what it returned. *)
CalculateMetrics(trades, equity) ==
    LET returns == [i \in DOMAIN trades |-> trades[i].net]
        wins == SelectSeq(returns, LAMBDA r : r > 0)
        losses == SelectSeq(returns, LAMBDA r : r < 0)
        grossLoss == -Total(losses)
        held == Cardinality(UNION {t.entry..t.exit : t \in ToSet(trades)})
        worst == Drawdown(equity)
    IN IF trades = << >> THEN EmptyMetrics
       ELSE [trades |-> Len(trades),
             exposure |-> IF equity = << >> THEN <<0, 1>>
                          ELSE <<Min({held, Len(equity)}), Len(equity)>>,
             winRate |-> <<Len(wins), Len(returns)>>,
             totalReturn |-> TotalReturn(equity), averageTrade |-> Mean(returns),
             profitFactor |-> IF grossLoss = 0 THEN None ELSE {<<Total(wins), grossLoss>>},
             maxDrawdown |-> worst.depth, maxDrawdownBars |-> worst.bars,
             sharpe |-> SharpeSign(equity),
             averageWin |-> IF wins = << >> THEN <<0, 1>> ELSE Mean(wins),
             averageLoss |-> IF losses = << >> THEN <<0, 1>> ELSE <<grossLoss, Len(losses)>>,
             largestWin |-> IF wins = << >> THEN 0 ELSE Max(ToSet(wins)),
             largestLoss |-> IF losses = << >> THEN 0 ELSE Min(ToSet(losses))]

BenchmarkMetrics(trades, equity) ==
    [trades |-> Len(trades), totalReturn |-> TotalReturn(equity),
     maxDrawdown |-> Drawdown(equity).depth, sharpe |-> SharpeSign(equity)]

-------------------------------------------------------------------------------
(* statistics.ts.  A draw names a place of the returns; a swap is the place an
   element changes with, one for each place from the last down to the second. *)
Percentile(sorted, fraction) ==
    LET position == (Len(sorted) - 1) * fraction[1]
        lower == position \div fraction[2]
        weight == position % fraction[2]
    IN IF sorted = << >> THEN None
       ELSE {<<sorted[lower + 1] * (fraction[2] - weight)
                 + (IF weight = 0 THEN 0 ELSE sorted[lower + 2] * weight), fraction[2]>>}

(* alpha / 2 of a significance <<n, d>>. *)
BootstrapStatistic(values, draws, statistic, significance) ==
    LET sampled == [run \in DOMAIN draws |-> statistic[[i \in DOMAIN values |-> values[draws[run][i]]]]]
        samples == SortSeq(sampled, <)
        n == significance[1]
        d == 2 * significance[2]
    IN IF values = << >> THEN None
       ELSE {[statistic |-> statistic[values], low |-> Percentile(samples, <<n, d>>),
              high |-> Percentile(samples, <<d - n, d>>),
              belowZero |-> <<Len(SelectSeq(samples, LAMBDA v : v < 0)), Len(samples)>>]}

Swapped(s, i, j) == [s EXCEPT ![i] = s[j], ![j] = s[i]]
Shuffle(s, swaps) ==
    FoldLeftDomain(LAMBDA acc, k : Swapped(acc, Len(s) + 1 - k, swaps[k]), s, swaps)
(* Each run shuffles what the one before it left. *)
Shuffles(s, runs) ==
    FoldLeft(LAMBDA done, swaps : Append(done, Shuffle(IF done = << >> THEN s ELSE Last(done), swaps)),
             << >>, runs)

PermutationTest(values, runs, statistic, significance) ==
    LET observed == statistic[values]
        extreme == Len(SelectSeq(Shuffles(values, runs), LAMBDA s : statistic[s] >= observed))
        pValue == <<extreme + 1, Len(runs) + 1>>
    IN IF values = << >> THEN None
       ELSE {[pValue |-> pValue, significant |-> Below(pValue, significance), observed |-> observed]}

(* The equity is kept at the common scale Unit ^ Len(returns), so that it stays whole. *)
PathOf(returns) ==
    LET scale == Unit ^ Len(returns)
        Step(p, value) ==
            LET equity == (p.equity * (Unit + value)) \div Unit
                peak == Max({p.peak, equity})
                depth == <<peak - equity, peak>>
                losing == IF value < 0 THEN p.losing + 1 ELSE 0
                under == IF peak > equity THEN p.under + 1 ELSE 0
            IN [equity |-> equity, peak |-> peak, losing |-> losing, under |-> under,
                depth |-> IF Below(p.depth, depth) THEN depth ELSE p.depth,
                streak |-> Max({p.streak, losing}), run |-> Max({p.run, under})]
        end == FoldLeft(Step, [equity |-> scale, peak |-> scale, losing |-> 0, under |-> 0,
                               depth |-> <<0, 1>>, streak |-> 0, run |-> 0], returns)
    IN [finalReturn |-> end.equity - scale, maxDrawdown |-> end.depth,
        worstStreak |-> end.streak, worstDrawdownRun |-> end.run]

MonteCarlo(values, runs) ==
    LET paths == [i \in DOMAIN runs |-> PathOf(Shuffles(values, runs)[i])]
        outcomes == SortSeq(paths, LAMBDA a, b : a.finalReturn < b.finalReturn)
        observed == PathOf(values)
    IN IF values = << >> THEN None
       ELSE {[median |-> IF outcomes = << >> THEN observed ELSE outcomes[(Len(outcomes) \div 2) + 1],
              outcomes |-> outcomes, observed |-> observed,
              orderIsLuck |-> <<Len(SelectSeq(outcomes,
                                  LAMBDA o : o.finalReturn < observed.finalReturn)), Len(outcomes)>>]}

-------------------------------------------------------------------------------
(* parameter.config.ts and optimizer.ts.  A candidate is the values of its specs in
   their order; scored says what it did in each fold: its trades, and its
   expectancy or None. *)
SpecStands(s) ==
    /\ s.step > 0 /\ s.min <= s.max /\ s.max - s.min >= s.step
    /\ s.production \in s.min..s.max /\ (s.production - s.min) % s.step = 0

ParameterGrid(s) ==
    [i \in 1..((s.max - s.min) \div s.step) + 1 |-> s.min + (i - 1) * s.step]

EnumerateGrid(specs, limit) ==
    LET axes == [i \in DOMAIN specs |-> ParameterGrid(specs[i])]
        Extend(chosen, axis) ==
            FlattenSeq([i \in DOMAIN chosen |-> [j \in DOMAIN axis |-> Append(chosen[i], axis[j])]])
        all == FoldLeft(Extend, << << >> >>, axes)
    IN [candidates |-> SubSeq(all, 1, Min({limit, Len(all)})), total |-> Len(all)]

(* The folds a window is scored in; no fold length means one. *)
ScoreWindows(first, last, foldBars) ==
    LET size == IF foldBars > 0 THEN foldBars ELSE Max({1, last - first + 1})
    IN [k \in 1..(IF last < first THEN 0 ELSE ((last - first) \div size) + 1) |->
          [start |-> first + (k - 1) * size, end |-> Min({first + k * size - 1, last})]]

Expectancies(scores) ==
    LET told == SelectSeq(scores, LAMBDA s : s.expectancy # None)
    IN [i \in DOMAIN told |-> CHOOSE x \in told[i].expectancy : TRUE]
(* The square of the deviation of a sample. *)
Variance(xs) ==
    LET n == Len(xs) IN
    IF n < 2 THEN <<0, 1>>
    ELSE <<n * Total([i \in 1..n |-> xs[i] * xs[i]]) - Total(xs) * Total(xs), n * (n - 1)>>

(* Equal scores keep the order of the grid. *)
Optimize(specs, limit, scored) ==
    LET grid == EnumerateGrid(specs, limit)
        active == SelectSeq(grid.candidates, LAMBDA c : Expectancies(scored[c]) # << >>)
        rows == [i \in DOMAIN active |->
                   LET scores == scored[active[i]] IN
                   [values |-> active[i], place |-> i, score |-> Mean(Expectancies(scores)),
                    trades |-> Total([k \in DOMAIN scores |-> scores[k].trades]),
                    stability |-> Variance(Expectancies(scores))]]
        ranked == SortSeq(rows, LAMBDA a, b : \/ Below(b.score, a.score)
                                              \/ ~Below(a.score, b.score) /\ a.place < b.place)
    IN [best |-> IF ranked = << >> THEN None ELSE {ranked[1]}, ranked |-> ranked,
        evaluated |-> Len(grid.candidates), gridSize |-> grid.total,
        inert |-> Len(grid.candidates) - Len(active)]

NoNeighbours == [spike |-> FALSE, retention |-> None, neighbours |-> 0]
Quotient(p, q) == IF q[1] > 0 THEN <<p[1] * q[2], p[2] * q[1]>> ELSE <<-p[1] * q[2], -p[2] * q[1]>>

(* Within a step and a half of the winner on every axis. *)
DetectSpike(result, specs, minimumRetention) ==
    IF result.best = None THEN NoNeighbours
    ELSE LET winner == CHOOSE w \in result.best : TRUE
             Near(row) == \A i \in DOMAIN specs :
                             2 * Abs(row.values[i] - winner.values[i]) <= 3 * specs[i].step
             adjacent == SelectSeq(result.ranked, LAMBDA row : row.values # winner.values /\ Near(row))
             retention == IF winner.score[1] # 0 THEN Quotient(adjacent[1].score, winner.score)
                          ELSE IF adjacent[1].score[1] = 0 THEN <<1, 1>> ELSE <<0, 1>>
         IN IF adjacent = << >> THEN NoNeighbours
            ELSE [spike |-> Below(retention, minimumRetention), retention |-> {retention},
                  neighbours |-> Len(adjacent)]

-------------------------------------------------------------------------------
(* dataset.ts.  A hash is what is hashed. *)
DescribeDataset(about, candles, recordedAt) ==
    [name |-> about.name, symbol |-> about.symbol, provider |-> about.provider,
     interval |-> about.interval,
     from |-> IF candles = << >> THEN 0 ELSE Head(candles).timestamp,
     to |-> IF candles = << >> THEN 0 ELSE Last(candles).timestamp,
     bars |-> Len(candles), checksum |-> candles, recordedAt |-> recordedAt]

IdentityOfDataset(d) ==
    [symbol |-> d.symbol, provider |-> d.provider, interval |-> d.interval,
     from |-> d.from, to |-> d.to, bars |-> d.bars, checksum |-> d.checksum]
SameDataset(left, right) == IdentityOfDataset(left) = IdentityOfDataset(right)
DiffDatasets(left, right) ==
    {f \in {"name", "symbol", "provider", "interval", "from", "to", "bars"} : left[f] # right[f]}
      \cup (IF left.checksum = right.checksum THEN {} ELSE {"checksum"})

(* A stored snapshot keeps the extent and the count only. *)
DiffCandles(d, snapshot) == {f \in {"from", "to", "bars"} : d[f] # snapshot[f]}
SameCandles(d, snapshot) == DiffCandles(d, snapshot) = {}

-------------------------------------------------------------------------------
(* experiment.ts *)
ExperimentId(m) ==
    [dataset |-> IdentityOfDataset(m.dataset), execution |-> m.execution, options |-> m.options,
     parameters |-> m.parameters]

CheckReplayable(m, commit) ==
    {p \in {<<0, "no bars">>, <<0, "no folds">>, <<0, "another commit">>} :
        CASE p[2] = "no bars" -> m.dataset.bars = 0
          [] p[2] = "no folds" -> m.folds = << >>
          [] p[2] = "another commit" -> m.commit # None /\ commit # None /\ m.commit # commit}
    \cup {<<i, "passed unscored">> : i \in
            {k \in DOMAIN m.folds : m.folds[k].score = None /\ m.folds[k].accepted}}
    \cup {<<i, "rejected">> : i \in
            {k \in DOMAIN m.folds : m.folds[k].score # None /\ ~m.folds[k].accepted}}

(* Two returns differ when more than one part in 10^9, here one unit, is between them. *)
VerifyAgainst(recorded, fresh) ==
    LET conditions == {f \in {"dataset", "execution", "options", "parameters"} :
                          recorded[f] # fresh[f]}
        metrics == \/ recorded.metrics.trades # fresh.metrics.trades
                   \/ Abs(recorded.metrics.totalReturn - fresh.metrics.totalReturn) > 1
        differences == IF conditions # {} THEN conditions
                       ELSE IF metrics THEN {"metrics"} ELSE {}
    IN [match |-> differences = {}, differences |-> differences]

EvaluatedBars(m) == Total([i \in DOMAIN m.folds |-> m.folds[i].end - m.folds[i].start + 1])
Aggregate(experiments) ==
    LET rows == [i \in DOMAIN experiments |->
                   LET m == experiments[i] IN
                   [place |-> i, totalReturn |-> m.metrics.totalReturn, folds |-> Len(m.folds),
                    perBar |-> IF EvaluatedBars(m) = 0 THEN <<0, 1>>
                               ELSE <<m.metrics.totalReturn, EvaluatedBars(m)>>,
                    passed |-> Len(SelectSeq(m.folds, LAMBDA f : f.accepted))]]
    IN [rows |-> SortSeq(rows, LAMBDA a, b : \/ Below(a.perBar, b.perBar)
                                             \/ ~Below(b.perBar, a.perBar) /\ a.place < b.place),
        profitable |-> Len(SelectSeq(rows, LAMBDA r : r.totalReturn > 0)),
        reproducible |-> Len(experiments)]

-------------------------------------------------------------------------------
(* holdout.ts, holdout-protocol.ts, holdout-verdict.ts.  The table has at most the one
   row; a note is <<what surrounds it, what it says>>. *)
CONSTANTS CommittedAt, MinimumBars, MetricKeys

RegisterForEvaluation(key, fingerprint, at) ==
    [key |-> key, fingerprint |-> fingerprint, registeredAt |-> at]
HoldoutStatus(candles, candidates) ==
    LET available == Len(SelectSeq(candles, LAMBDA c : c.timestamp >= CommittedAt))
    IN [barsAvailable |-> available, ready |-> available >= MinimumBars, candidates |-> candidates]
EvaluateHoldout(status, current) ==
    IF ~status.ready THEN None
    ELSE {[i \in DOMAIN status.candidates |->
             [candidate |-> status.candidates[i],
              changed |-> current[status.candidates[i].key] # status.candidates[i].fingerprint]]}

ProtocolFingerprint(protocol) ==
    <<[m \in ToSet(protocol.metrics) |-> Cardinality({i \in DOMAIN protocol.metrics : protocol.metrics[i] = m})],
      protocol.note[2]>>
ProtocolChanged(registered, current) ==
    ProtocolFingerprint(registered) # ProtocolFingerprint(current)
EvaluateProtocol(protocol, keys, read) ==
    [i \in DOMAIN keys |->
       [key |-> keys[i], readings |-> [m \in ToSet(protocol.metrics) |-> read[keys[i], m]]]]

WindowOf(candles) ==
    LET times == {c.timestamp : c \in ToSet(candles)}
    IN IF candles = << >> THEN <<0, 0>> ELSE <<Min(times), Max(times)>>

SealRefusal(table, input) ==
    LET asked == ToSet(input.protocol.metrics) IN
    CASE ~HoldoutStatus(input.candles, input.candidates).ready -> {"not full"}
      [] ~(asked \subseteq MetricKeys) -> {"unknown metric"}
      [] \E v \in ToSet(input.readings) : ~(asked \subseteq DOMAIN v.readings) -> {"incomplete"}
      [] input.readings = << >> -> {"nothing evaluated"}
      [] table # {} -> {"read already"}
      [] OTHER -> None
SealHoldoutVerdict(table, input) ==
    IF SealRefusal(table, input) # None THEN table
    ELSE {[fingerprint |-> ProtocolFingerprint(input.protocol), readings |-> input.readings,
           candidates |-> input.candidates, window |-> WindowOf(input.candles),
           barCount |-> Len(input.candles)]}
ReadSealedHoldoutVerdict(table) == table
===============================================================================
