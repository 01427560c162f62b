------------------------------ MODULE StrategyBench ------------------------------
(***************************************************************************)
(* The rules that may stand in for the panel (strategies/) over the series *)
(* they are written in (strategies/series.ts), and the bench that runs     *)
(* rules over candles (research/strategies.ts), as a whole and window by   *)
(* window (research/strategy-walk-forward.ts).                             *)
(*                                                                         *)
(* A candle has its four whole prices and numbers are fractions, as in     *)
(* IndicatorReadings; a price that is filled is a whole number of          *)
(* Unit-ths.  NaN is {}, a number in a series that may lack it {number}.   *)
(***************************************************************************)
EXTENDS IndicatorReadings

CONSTANTS Unit,            \* a price in the units that a cost is told in
          Channel,         \* [period, atr, baseline], the same of every rule
          Bench            \* [long, fast, slow, bands, rsi, hold, first], the bench's own periods

Execution == INSTANCE BacktestEvidence WITH CommittedAt <- 0, MinimumBars <- 0, MetricKeys <- {}

-------------------------------------------------------------------------------
(* series.ts.  A window that is not full yet is read as far as it goes. *)
Best(values, pick) == IF pick = "max" THEN Max(ToSet(values)) ELSE Min(ToSet(values))
Rolling(values, period, pick) ==
    [i \in DOMAIN values |-> Best(SubSeq(values, Max({1, i - period + 1}), i), pick)]
PriorRolling(values, period, pick) ==
    [i \in DOMAIN values |-> IF i = 1 THEN {} ELSE {Rolling(values, period, pick)[i - 1]}]

(* Bars that are NaN are passed over, and so are their places. *)
SmaSeries(series, period) ==
    LET Window(i) == Lasts(SelectSeq(SubSeq(series, 1, i), LAMBDA v : v # {}), period)
    IN [i \in DOMAIN series |->
          IF series[i] = {} \/ Len(Window(i)) < period THEN {}
          ELSE {Mean([k \in 1..period |-> The(Window(i)[k])])}]

EmaSeries(values, period) ==
    LET ema[i \in Nat] ==
            IF i = period THEN Mean(SubSeq(values, 1, period))
            ELSE Plus(Times(values[i], <<2, period + 1>>), Times(ema[i - 1], <<period - 1, period + 1>>))
    IN [i \in DOMAIN values |-> IF i < period THEN {} ELSE {ema[i]}]

(* Wilder's: the mean of the first period, and every later value smoothed in. *)
Smoothed(values, period) ==
    LET average[i \in Nat] ==
            IF i = period THEN Mean(SubSeq(values, 1, period))
            ELSE Over(Plus(Times(average[i - 1], Whole(period - 1)), values[i]), Whole(period))
    IN average
RsiSeries(closes, period) ==
    LET Moves(sign) == [k \in 1..Len(closes) - 1 |-> Whole(Max({0, sign * (closes[k + 1] - closes[k])}))]
        Value(gain, loss) == IF loss[1] = 0 THEN Whole(100)
                             ELSE Over(Times(Whole(100), gain), Plus(gain, loss))
    IN [i \in DOMAIN closes |->
          IF i <= period THEN {}
          ELSE {Value(Smoothed(Moves(1), period)[i - 1], Smoothed(Moves(-1), period)[i - 1])}]
AtrSeries(candles, period) ==
    LET ranges == [i \in DOMAIN candles |->
                     Whole(IF i = 1 THEN candles[1].high - candles[1].low ELSE TrueRange(candles, i))]
    IN [i \in DOMAIN candles |->
          IF Len(candles) <= period \/ i < period THEN {} ELSE {Smoothed(ranges, period)[i]}]

(* At most 19 twentieths. *)
BreakoutStrength(distance, level, atr) ==
    IF level[1] <= 0 \/ atr = {} THEN Whole(0)
    ELSE IF The(atr)[1] <= 0 THEN Whole(0)
    ELSE LET share == Over(Magnitude(Minus(distance, level)), Times(Whole(2), The(atr)))
         IN IF Below(<<19, 20>>, share) THEN <<19, 20>> ELSE share

-------------------------------------------------------------------------------
(* The rules. *)
Neutral(warm) == [direction |-> "NEUTRAL", confidence |-> Whole(0), warm |-> warm]
Warmup(key) ==
    CASE key = "donchian-20" -> Channel.period + 1
      [] key \in {"donchian-trend-gated", "donchian-calm-gated"} ->
           Max({Channel.period, Channel.atr + Channel.baseline}) + 1
      [] key = "volatility-trend" -> Channel.atr + Channel.baseline + 1
      [] key = "consensus-primary" -> Shipped.confirmBars + 1

DonchianInputs(candles, warmup) ==
    IF Len(candles) < warmup THEN {}
    ELSE {[high |-> Last(PriorRolling([i \in DOMAIN candles |-> candles[i].high], Channel.period, "max")),
           low |-> Last(PriorRolling([i \in DOMAIN candles |-> candles[i].low], Channel.period, "min"))]}

Breakout(close, channel, atr) ==
    LET high == The(channel.high)
        low == The(channel.low)
        Said(direction, distance, level) ==
            [direction |-> direction, warm |-> FALSE,
             confidence |-> BreakoutStrength(Whole(distance), Whole(level), atr)]
    IN CASE close > high -> Said("LONG", close, high)
         [] close <= high /\ close < low -> Said("SHORT", low, close)
         [] OTHER -> Neutral(FALSE)

RangeNow(candles) == Last(AtrSeries(candles, Channel.atr))
Donchian(candles) ==
    LET inputs == DonchianInputs(candles, Warmup("donchian-20"))
    IN IF inputs = {} THEN Neutral(TRUE)
       ELSE IF {} \in {The(inputs).high, The(inputs).low} THEN Neutral(TRUE)
       ELSE Breakout(Last(candles).close, The(inputs), RangeNow(candles))

Baseline(candles) == Last(SmaSeries(AtrSeries(candles, Channel.atr), Channel.baseline))
(* The breakouts of a channel while the gate is open. *)
Gated(key, candles, open) ==
    LET inputs == DonchianInputs(candles, Warmup(key))
    IN IF inputs = {} THEN Neutral(TRUE)
       ELSE IF {} \in {The(inputs).high, The(inputs).low, RangeNow(candles), Baseline(candles)}
            THEN Neutral(TRUE)
       ELSE IF open THEN Breakout(Last(candles).close, The(inputs), RangeNow(candles)) ELSE Neutral(FALSE)
(* One rule speaks above the average of the ranges, the other below it. *)
TrendGated(candles) ==
    Gated("donchian-trend-gated", candles, Below(The(Baseline(candles)), The(RangeNow(candles))))
CalmGated(candles) ==
    Gated("donchian-calm-gated", candles, Below(The(RangeNow(candles)), The(Baseline(candles))))

VolatilityTrend(candles) ==
    LET atr == RangeNow(candles)
        baseline == Baseline(candles)
    IN IF Len(candles) < Warmup("volatility-trend") THEN Neutral(TRUE)
       ELSE IF {} \in {atr, baseline} THEN Neutral(TRUE)
       ELSE IF ~Below(The(baseline), The(atr)) THEN Neutral(FALSE)
       ELSE [direction |-> "LONG", warm |-> FALSE,
             confidence |-> BreakoutStrength(The(atr), The(baseline), atr)]

(* What the panel says, of as many closes as are to confirm and one more. *)
ConsensusPrimary(candles, indicators) ==
    LET required == Warmup("consensus-primary")
    IN IF Len(candles) < required THEN {}
       ELSE {CalculateSignal(Whole(Last(candles).close), indicators, Lasts(Closes(candles), required), << >>)}

Evaluate(key, candles) ==
    CASE key = "donchian-20" -> Donchian(candles)
      [] key = "donchian-trend-gated" -> TrendGated(candles)
      [] key = "donchian-calm-gated" -> CalmGated(candles)
      [] key = "volatility-trend" -> VolatilityTrend(candles)

-------------------------------------------------------------------------------
(* The bench: 1 is long, -1 short, 0 out. *)
Stance(direction) == CASE direction = "LONG" -> 1 [] direction = "SHORT" -> -1 [] OTHER -> 0
FromModule(key, candles, i) ==
    IF i < Warmup(key) THEN 0 ELSE Stance(Evaluate(key, SubSeq(candles, 1, i)).direction)

BuildSeries(candles) ==
    LET closes == [i \in DOMAIN candles |-> candles[i].close]
        highs == [i \in DOMAIN candles |-> candles[i].high]
        lows == [i \in DOMAIN candles |-> candles[i].low]
        middle == SmaSeries([i \in DOMAIN closes |-> {Whole(closes[i])}], Bench.bands)
        Variance(i) == Mean([k \in 1..Bench.bands |->
                              LET off == Minus(Whole(closes[i - Bench.bands + k]), The(middle[i]))
                              IN Times(off, off)])
    IN [high |-> PriorRolling(highs, Bench.long, "max"), low |-> PriorRolling(lows, Bench.long, "min"),
        fast |-> EmaSeries(Closes(candles), Bench.fast), slow |-> EmaSeries(Closes(candles), Bench.slow),
        rsi |-> RsiSeries(closes, Bench.rsi), middle |-> middle,
        variance |-> [i \in DOMAIN closes |-> IF middle[i] = {} THEN {} ELSE {Variance(i)}]]

BenchWarmup(name) ==
    CASE name = "buy-and-hold" -> 1
      [] name = "long-only" -> Bench.long
      [] name = "crossover" -> Bench.slow
      [] name = "bands" -> Bench.bands
      [] name = "rsi" -> Bench.rsi + 1
      [] OTHER -> Warmup(name)

Decide(name, candles, series, i) ==
    LET close == candles[i].close
        off == Minus(Whole(close), The(series.middle[i]))
        \* Twice the deviation, without its root.
        beyond == Below(Times(Whole(4), The(series.variance[i])), Times(off, off))
    IN CASE name = "buy-and-hold" -> IF i > 1 THEN 1 ELSE 0
         [] name = "long-only" ->
              IF series.high[i] = {} THEN 0
              ELSE IF close <= The(series.high[i]) /\ close < The(series.low[i]) THEN 0 ELSE 1
         [] name = "crossover" ->
              IF {} \in {series.fast[i], series.slow[i]} THEN 0
              ELSE IF Below(The(series.slow[i]), The(series.fast[i])) THEN 1 ELSE -1
         [] name = "bands" ->
              IF series.middle[i] = {} \/ ~beyond THEN 0 ELSE IF off[1] < 0 THEN 1 ELSE -1
         [] name = "rsi" ->
              CASE series.rsi[i] = {} -> 0
                [] series.rsi[i] # {} /\ Below(The(series.rsi[i]), Whole(30)) -> 1
                [] series.rsi[i] # {} /\ Below(Whole(70), The(series.rsi[i])) -> -1
                [] OTHER -> 0
         [] OTHER -> FromModule(name, candles, i)

Return(position, entryPrice, exitPrice) == Ratio(position * (exitPrice - entryPrice), entryPrice)
Compound(cash, net) == Times(cash, Plus(Whole(1), net))

(* Orders of the last close are filled, the equity is marked, and only then the close of
   the bar decides.  What is still held after the last bar is sold on it. *)
RunStrategy(name, candles, c) ==
    LET series == BuildSeries(candles)
        start == Max({1, BenchWarmup(name)}) + 1
        Sell(b, i) ==
            LET exitPrice == Execution!FillPrice(candles[i], b.position, c, FALSE)
                net == Return(b.position, b.price, exitPrice)
                trade == [entry |-> b.entry, exit |-> i, direction |-> b.position, net |-> net,
                          gross |-> Return(b.position, candles[b.entry].open, candles[i].close)]
            IN [b EXCEPT !.trades = Append(@, trade), !.cash = Compound(@, net),
                         !.position = 0, !.pending = FALSE]
        Mark(b, i) ==
            IF b.position = 0 THEN b.cash
            ELSE Compound(b.cash, Return(b.position, b.price,
                                         Execution!FillPrice(candles[i], b.position, c, FALSE)))
        Order(b, i, decision) ==
            IF b.position # 0 THEN [b EXCEPT !.pending = @ \/ decision # b.position]
            ELSE IF decision = 0 \/ i = Len(candles) THEN b
            ELSE [b EXCEPT !.position = decision, !.entry = i + 1,
                           !.price = Execution!FillPrice(candles[i + 1], decision, c, TRUE)]
        Step(b, i) ==
            LET filled == IF b.pending THEN Sell(b, i) ELSE b
                decision == Decide(name, candles, series, i)
            IN Order([filled EXCEPT !.equity = Append(@, Mark(filled, i)), !.mix = Append(@, decision)],
                     i, decision)
        end == FoldLeft(Step, [cash |-> Whole(1), position |-> 0, entry |-> 0, price |-> 0, pending |-> FALSE,
                               trades |-> << >>, equity |-> << >>, mix |-> << >>],
                        [k \in 1..Len(candles) - start + 1 |-> start + k - 1])
        closed == Sell(end, Len(candles))
        run == IF end.position = 0 THEN end ELSE [closed EXCEPT !.equity = Append(@, closed.cash)]
    IN [trades |-> run.trades, equity |-> run.equity, mix |-> run.mix,
        \* Without a trade the metrics are the empty ones.
        totalReturn |-> IF run.trades = << >> THEN Whole(0) ELSE Minus(Last(run.equity), Whole(1)),
        buyAndHold |-> Return(1, candles[start].close, Last(candles).close)]

(* Held for so many bars one after the other, each way as the coin fell. *)
RandomEntryBenchmark(candles, c, coins) ==
    LET entries == {i \in Bench.first + 1..Len(candles) - Bench.hold : (i - Bench.first - 1) % Bench.hold = 0}
        Step(cash, k) ==
            LET i == Bench.first + 1 + (k - 1) * Bench.hold
                priced == Execution!PricedTrade(candles[i], candles[i + Bench.hold], coins[k], c)
            IN Compound(cash, Ratio(priced.net[1], priced.net[2]))
    IN Minus(FoldLeft(Step, Whole(1), [k \in 1..Cardinality(entries) |-> k]), Whole(1))

-------------------------------------------------------------------------------
(* Windows that follow one another, each run by itself after the bars that warm it up. *)
WalkForwardStrategy(name, candles, foldBars, minimumShare, c) ==
    LET warmup == Max({0, BenchWarmup(name)})
        folds == IF Len(candles) < warmup THEN 0 ELSE (Len(candles) - warmup) \div foldBars
        Window(f) == SubSeq(candles, (f - 1) * foldBars + 1, warmup + f * foldBars)
        runs == [f \in 1..folds |-> RunStrategy(name, Window(f), c)]
        profitable == Cardinality({f \in 1..folds : runs[f].totalReturn[1] > 0})
        share == IF folds = 0 THEN Whole(0) ELSE Ratio(profitable, folds)
        worst == IF folds = 0 THEN Whole(0)
                 ELSE SortSeq([f \in 1..folds |-> runs[f].totalReturn], Below)[1]
    IN [runs |-> runs, share |-> share, worst |-> worst,
        consistent |-> folds >= 4 /\ ~Below(share, minimumShare) /\ worst[1] > 0,
        reason |-> CASE folds < 4 -> "few" [] folds >= 4 /\ Below(share, minimumShare) -> "share"
                     [] folds >= 4 /\ ~Below(share, minimumShare) /\ worst[1] <= 0 -> "worst"
                     [] OTHER -> "passes"]
===============================================================================
