---------------------------- MODULE IndicatorReadings ----------------------------
(***************************************************************************)
(* What a series of candles is read as: the indicators (indicators/), the  *)
(* registry that asks for them and the series they share, the regime of    *)
(* the market, its divergences, the votes of the panel (signals/           *)
(* signal.service.ts) with their configuration (config/                    *)
(* indicator.config.ts, config/regime.config.ts), and the same votes at a  *)
(* past bar (backtest/point-in-time.ts).                                   *)
(*                                                                         *)
(* A candle is [high, low, close] of whole prices, a number a fraction     *)
(* <<n, d>>, and what may be missing a set of at most one value: a reading *)
(* that is thrown is {}.  Bars count from 1.                               *)
(***************************************************************************)
EXTENDS Integers, SequencesExt, FiniteSetsExt, TLC

CONSTANTS Periods,          \* indicatorConfig: the periods of the indicators
          Pivots,           \* indicatorConfig.divergence
          Shipped,          \* INDICATOR_SIGNAL_CONFIG, as one record
          RegimeConfig      \* regimeConfig

The(option) == CHOOSE x \in option : TRUE
Size(n) == IF n < 0 THEN -n ELSE n
Gcd[a \in Nat, b \in Nat] == IF b = 0 THEN a ELSE Gcd[b, a % b]
Ratio(n, d) ==
    LET g == Gcd[Size(n), Size(d)]
    IN IF d < 0 THEN <<(-n) \div g, (-d) \div g>> ELSE <<n \div g, d \div g>>
Whole(n) == <<n, 1>>
Plus(p, q) == Ratio(p[1] * q[2] + q[1] * p[2], p[2] * q[2])
Minus(p, q) == Ratio(p[1] * q[2] - q[1] * p[2], p[2] * q[2])
Times(p, q) == Ratio(p[1] * q[1], p[2] * q[2])
Over(p, q) == Ratio(p[1] * q[2], p[2] * q[1])
Magnitude(p) == <<Size(p[1]), p[2]>>
Below(p, q) == p[1] * q[2] < q[1] * p[2]
Mean(values) == Over(FoldLeft(Plus, Whole(0), values), Whole(Len(values)))

Lasts(s, n) == SubSeq(s, Max({1, Len(s) - n + 1}), Len(s))
Closes(candles) == [i \in DOMAIN candles |-> Whole(candles[i].close)]
TrueRange(candles, i) ==
    Max({candles[i].high - candles[i].low, Size(candles[i].high - candles[i - 1].close),
         Size(candles[i].low - candles[i - 1].close)})
Ranges(candles) == [k \in 1..Len(candles) - 1 |-> TrueRange(candles, k + 1)]

-------------------------------------------------------------------------------
(* The indicators. *)
Towards(ema, value, period) == Plus(Times(Minus(value, ema), <<2, period + 1>>), ema)
CalculateEMA(values, period) ==
    IF Len(values) < period THEN {}
    ELSE {FoldLeft(LAMBDA ema, v : Towards(ema, v, period), Mean(SubSeq(values, 1, period)),
                   SubSeq(values, period + 1, Len(values)))}

CalculateStochastic(candles, period) ==
    LET recent == ToSet(Lasts(candles, period))
        top == Max({c.high : c \in recent})
        bottom == Min({c.low : c \in recent})
    IN IF Len(candles) < period \/ top = bottom THEN {}
       ELSE {Ratio(100 * (Last(candles).close - bottom), top - bottom)}

PercentageChange(from, to) == IF from = 0 THEN {} ELSE {Ratio(100 * (to - from), from)}
CalculateMomentum(candles, period) ==
    IF Len(candles) <= period THEN {}
    ELSE PercentageChange(candles[Len(candles) - period].close, Last(candles).close)
CalculateMomentumSeries(candles, period) ==
    [i \in DOMAIN candles |->
       IF i <= period THEN {} ELSE PercentageChange(candles[i - period].close, candles[i].close)]

CalculateATR(candles, period) ==
    IF Len(candles) < period + 1 \/ Last(candles).close <= 0 THEN {}
    ELSE LET recent == Lasts(Ranges(candles), period)
         IN {Over(Mean([i \in DOMAIN recent |-> Whole(recent[i])]), Whole(Last(candles).close))}

(* The first period - 1 changes are added as shares, every later one is smoothed in. *)
CalculateRSI(candles, period) ==
    LET changes == [k \in 1..Len(candles) - 1 |-> candles[k + 1].close - candles[k].close]
        Average(sign) ==
            FoldLeftDomain(
                LAMBDA average, k :
                    LET amount == Max({0, sign * changes[k]}) IN
                    IF k < period THEN Plus(average, <<amount, period>>)
                    ELSE Ratio(average[1] * (period - 1) + amount * average[2], average[2] * period),
                Whole(0), changes)
        gain == Average(1)
        loss == Average(-1)
    IN IF Len(candles) < period + 1 THEN {}
       ELSE IF loss[1] = 0 THEN {Whole(IF gain[1] = 0 THEN 50 ELSE 100)}
       ELSE {Over(Times(Whole(100), gain), Plus(gain, loss))}

CalculateMACD(closes, fastPeriod, slowPeriod, signalPeriod) ==
    LET Step(m, i) ==
            LET fast == Towards(m.fast, closes[i], fastPeriod)
                slow == Towards(m.slow, closes[i], slowPeriod)
            IN IF i <= slowPeriod THEN [m EXCEPT !.fast = fast]
               ELSE [fast |-> fast, slow |-> slow, series |-> Append(m.series, Minus(fast, slow))]
        seed == [fast |-> Mean(SubSeq(closes, 1, fastPeriod)),
                 slow |-> Mean(SubSeq(closes, 1, slowPeriod)), series |-> << >>]
        series == FoldLeft(Step, seed,
                           [k \in 1..Len(closes) - fastPeriod |-> fastPeriod + k]).series
        signal == The(CalculateEMA(series, signalPeriod))
    IN IF Len(closes) < slowPeriod + signalPeriod THEN {}
       ELSE {[macd |-> Last(series), signal |-> signal, histogram |-> Minus(Last(series), signal)]}

(* Null for a window without a range or without a move. *)
DirectionalIndex(s) ==
    IF s.range[1] = 0 \/ s.plus[1] + s.minus[1] = 0 THEN {}
    ELSE {Over(Times(Whole(100), Magnitude(Minus(s.plus, s.minus))), Plus(s.plus, s.minus))}
Strength(move, range) == IF range[1] = 0 THEN Whole(0) ELSE Over(Times(Whole(100), move), range)

CalculateADX(candles, period) ==
    LET ranges == Ranges(candles)
        Up(k) == candles[k + 1].high - candles[k].high
        Down(k) == candles[k].low - candles[k + 1].low
        PlusMove(k) == IF Up(k) > Down(k) /\ Up(k) > 0 THEN Up(k) ELSE 0
        MinusMove(k) == IF Down(k) > Up(k) /\ Down(k) > 0 THEN Down(k) ELSE 0
        Smoothed(sum, next) == Plus(Minus(sum, Over(sum, Whole(period))), Whole(next))
        Step(a, k) ==
            LET s == IF k <= period
                     THEN [range |-> Plus(a.s.range, Whole(ranges[k])),
                           plus |-> Plus(a.s.plus, Whole(PlusMove(k))),
                           minus |-> Plus(a.s.minus, Whole(MinusMove(k)))]
                     ELSE [range |-> Smoothed(a.s.range, ranges[k]),
                           plus |-> Smoothed(a.s.plus, PlusMove(k)),
                           minus |-> Smoothed(a.s.minus, MinusMove(k))]
            IN [s |-> s, dx |-> IF k < period \/ DirectionalIndex(s) = {} THEN a.dx
                                ELSE Append(a.dx, The(DirectionalIndex(s)))]
        end == FoldLeftDomain(Step, [s |-> [range |-> Whole(0), plus |-> Whole(0), minus |-> Whole(0)],
                                     dx |-> << >>], ranges)
    IN IF Len(candles) < 2 * period + 1 THEN {}
       ELSE IF end.dx = << >> THEN {[plusDI |-> Whole(0), minusDI |-> Whole(0), adx |-> Whole(0)]}
       ELSE IF Len(end.dx) < period THEN {}
       ELSE {[plusDI |-> Strength(end.s.plus, end.s.range), minusDI |-> Strength(end.s.minus, end.s.range),
              adx |-> Mean(Lasts(end.dx, period))]}

(* The bands themselves are roots; what they are made of is not. *)
CalculateBollingerBands(candles, period) ==
    LET window == Closes(Lasts(candles, period))
        middle == Mean(window)
        variance == Mean([i \in DOMAIN window |-> Times(Minus(window[i], middle), Minus(window[i], middle))])
    IN IF Len(candles) < period THEN {} ELSE {[middle |-> middle, variance |-> variance]}

-------------------------------------------------------------------------------
(* The series graph: the order in which what is asked for, and what that requires, is
   computed.  A cycle or a series nobody registered is refused. *)
RECURSIVE Visit(_, _, _, _)
Visit(requires, plan, key, path) ==
    IF plan.refused \/ key \in ToSet(plan.ordered) THEN plan
    ELSE IF key \in path \/ key \notin DOMAIN requires THEN [plan EXCEPT !.refused = TRUE]
    ELSE LET after == FoldLeft(LAMBDA p, k : Visit(requires, p, k, path \cup {key}), plan, requires[key])
         IN IF after.refused THEN after ELSE [after EXCEPT !.ordered = Append(@, key)]
Plan(requires, keys) ==
    FoldLeft(LAMBDA p, k : Visit(requires, p, k, {}), [ordered |-> << >>, refused |-> FALSE], keys)

(* What is computed of a series sees what was computed before it. *)
Resolve(requires, keys) ==
    LET order == Plan(requires, keys).ordered
    IN [i \in DOMAIN order |-> [key |-> order[i], sees |-> {order[j] : j \in 1..i - 1}]]

(* The registry: each indicator with the bars it needs and its reading of the candles. *)
Definitions(candles) ==
    LET P == Periods
        closes == Closes(candles)
    IN << [key |-> "ema", warmup |-> P.ema * P.warmupMultiplier, reading |-> CalculateEMA(closes, P.ema)],
          [key |-> "stochastic", warmup |-> P.stochastic, reading |-> CalculateStochastic(candles, P.stochastic)],
          [key |-> "momentum", warmup |-> P.momentum + 1, reading |-> CalculateMomentum(candles, P.momentum)],
          [key |-> "atr", warmup |-> P.atr + 1, reading |-> CalculateATR(candles, P.atr)],
          [key |-> "rsi", warmup |-> P.rsi + 1, reading |-> CalculateRSI(candles, P.rsi)],
          [key |-> "macd", warmup |-> P.macdSlow + P.macdSignal,
           reading |-> CalculateMACD(closes, P.macdFast, P.macdSlow, P.macdSignal)],
          [key |-> "bollinger", warmup |-> P.bollinger, reading |-> CalculateBollingerBands(candles, P.bollinger)],
          [key |-> "adx", warmup |-> 2 * P.adx + 1, reading |-> CalculateADX(candles, P.adx)] >>

RequiredCandleCount ==
    LET P == Periods
    IN Max({P.ema * P.warmupMultiplier, P.stochastic, P.momentum + 1, P.macdSlow + P.macdSignal,
            P.rsi + 1, P.atr + 1})

(* An indicator that is not warm is passed over, one that throws takes the rest with it,
   whether or not its reading is one of those that are returned. *)
CalculateMarketIndicators(candles) ==
    LET warm == SelectSeq(Definitions(candles), LAMBDA d : Len(candles) >= d.warmup)
        Of(key) == {i \in DOMAIN warm : warm[i].key = key}
        returned == {"ema", "stochastic", "momentum", "atr", "rsi", "macd"}
    IN IF \/ Len(candles) < RequiredCandleCount
          \/ \E i \in DOMAIN warm : warm[i].reading = {}
          \/ \E key \in returned : Of(key) = {}
       THEN {}
       ELSE {[key \in returned |-> The(warm[The(Of(key))].reading)]}

-------------------------------------------------------------------------------
(* regime.ts *)
BarsPerDay(interval) ==
    CASE interval = "1m" -> 1440 [] interval = "5m" -> 288 [] interval = "15m" -> 96
      [] interval = "4h" -> 6 [] interval = "1d" -> 1 [] OTHER -> 24
RegimeWindowFor(interval) ==
    [baselineBars |-> Max({RegimeConfig.baselineBars, RegimeConfig.baselineDays * BarsPerDay(interval)}),
     minimumBars |-> Max({RegimeConfig.minimumBars, RegimeConfig.minimumDays * BarsPerDay(interval)})]

TypicalRangePerBar(candles) ==
    SortSeq(SelectSeq([k \in 1..Len(candles) - 1 |-> Ratio(TrueRange(candles, k + 1), candles[k + 1].close)],
                      LAMBDA range : range[1] > 0), Below)
MedianOf(values) ==
    LET middle == Len(values) \div 2
    IN IF values = << >> THEN Whole(0)
       ELSE IF Len(values) % 2 = 0 THEN Over(Plus(values[middle], values[middle + 1]), Whole(2))
       ELSE values[middle + 1]
VolatilityFrom(ratio) ==
    LET v == RegimeConfig.volatility
        r == The(ratio)
    IN CASE ratio = {} -> "NORMAL"
         [] ratio # {} /\ ~Below(r, v.extreme) -> "EXTREME"
         [] ratio # {} /\ Below(r, v.extreme) /\ ~Below(r, v.high) -> "HIGH"
         [] ratio # {} /\ Below(r, v.normal) -> "LOW"
         [] OTHER -> "NORMAL"
TrendFrom(volatility, movement) ==
    LET strongest == IF Below(movement.plusDI, movement.minusDI) THEN movement.minusDI ELSE movement.plusDI
    IN CASE volatility = "EXTREME" -> "HIGH_VOL"
         [] volatility # "EXTREME" /\ Below(movement.adx, Whole(RegimeConfig.weak)) ->
              IF volatility = "LOW" THEN "LOW_VOL" ELSE "RANGE"
         [] OTHER -> IF Below(strongest, Whole(RegimeConfig.directional)) THEN "RANGE"
                     ELSE IF Below(movement.minusDI, movement.plusDI) THEN "TREND_UP" ELSE "TREND_DOWN"
WhyUnreliable(bars, baseline, minimumBars) ==
    IF bars < minimumBars THEN {"fewer bars"} ELSE IF baseline[1] <= 0 THEN {"no baseline"} ELSE {}
AssessRegime(candles, interval) ==
    LET window == RegimeWindowFor(interval)
        movement == CalculateADX(candles, Periods.adx)
        baseline == MedianOf(TypicalRangePerBar(Lasts(candles, window.baselineBars)))
        current == MedianOf(TypicalRangePerBar(Lasts(candles, Periods.atr + 1)))
        ratio == IF baseline[1] <= 0 THEN {} ELSE {Over(current, baseline)}
    IN IF {} \in {CalculateATR(candles, Periods.atr), CalculateBollingerBands(candles, Periods.bollinger), movement}
       THEN {}
       ELSE {[volatility |-> VolatilityFrom(ratio), trend |-> TrendFrom(VolatilityFrom(ratio), The(movement)),
              ratio |-> ratio, baselineBars |-> Min({Len(candles), window.baselineBars}),
              unreliable |-> WhyUnreliable(Len(candles), baseline, window.minimumBars)]}

-------------------------------------------------------------------------------
(* local-extrema.ts: the middle of a plateau that its neighbours on both sides, as many as
   the windows ask for, all stay on one side of. *)
Plateaus(values) ==
    {p \in (DOMAIN values) \X (DOMAIN values) :
        /\ p[1] <= p[2] /\ \A i \in p[1]..p[2] : values[i] = values[p[1]]
        /\ p[1] > 1 => values[p[1] - 1] # values[p[1]]
        /\ p[2] < Len(values) => values[p[2] + 1] # values[p[1]]}
StrictlyOutside(values, current, from, to, wantHigher) ==
    \A i \in from..to : /\ i \in DOMAIN values
                       /\ IF wantHigher THEN Below(current, values[i]) ELSE Below(values[i], current)
FindExtrema(values, left, right, wantHigher) ==
    LET outside == {p \in Plateaus(values) :
            /\ StrictlyOutside(values, values[p[1]], p[1] - left, p[1] - 1, wantHigher)
            /\ StrictlyOutside(values, values[p[1]], p[2] + 1, p[2] + right, wantHigher)}
    IN SetToSortSeq({p[1] + ((p[2] - p[1]) \div 2) : p \in outside}, <)

(* divergence-pairing.ts: neighbours in both lists, each within the distance of its
   counterpart.  The cursor over the momentum never goes back. *)
FindDivergencePairs(prices, momenta, maxDistance) ==
    LET Step(a, k) ==
            LET stop == Min({j \in a.cursor..Len(momenta) - 1 : momenta[j + 1] - prices[k + 1] > maxDistance}
                              \cup {Len(momenta)})
                near == SelectSeq([i \in 1..stop - a.cursor |-> a.cursor + i - 1],
                            LAMBDA j : /\ Size(momenta[j] - prices[k]) <= maxDistance
                                       /\ Size(momenta[j + 1] - prices[k + 1]) <= maxDistance)
            IN [cursor |-> stop,
                pairs |-> a.pairs \o [i \in DOMAIN near |->
                            [price |-> <<prices[k], prices[k + 1]>>,
                             momentum |-> <<momenta[near[i]], momenta[near[i] + 1]>>]]]
    IN IF Len(prices) < 2 \/ Len(momenta) < 2 THEN << >>
       ELSE Reverse(FoldLeft(Step, [cursor |-> 1, pairs |-> << >>],
                             [k \in 1..Len(prices) - 1 |-> k]).pairs)

DetectDivergence(previous, current) ==
    IF current.price < previous.price /\ Below(previous.momentum, current.momentum) THEN "BULLISH"
    ELSE IF current.price > previous.price /\ Below(current.momentum, previous.momentum) THEN "BEARISH"
    ELSE "NONE"

BuildDivergencePoint(price, momentum, candles, series, side) ==
    LET confirmed == Max({price, momentum}) + Pivots.right
    IN [index |-> price, confirmedAtIndex |-> confirmed, age |-> Max({0, Len(candles) - confirmed}),
        price |-> candles[price][side], momentum |-> The(series[momentum])]

KeepFresh(places, last) ==
    SelectSeq(places, LAMBDA i : last - (i + Pivots.right) <= Pivots.maxAge)

FindFirstDivergence(pairs, candles, series, side, expected) ==
    LET Leg(pair, n) == BuildDivergencePoint(pair.price[n], pair.momentum[n], candles, series, side)
        telling == SelectSeq(pairs, LAMBDA p : DetectDivergence(Leg(p, 1), Leg(p, 2)) = expected)
    IN IF telling = << >> THEN {}
       ELSE {[type |-> expected, previous |-> Leg(Head(telling), 1), current |-> Leg(Head(telling), 2)]}

AnalyzeDivergence(candles, series) ==
    LET valid == SelectSeq([i \in DOMAIN series |-> i], LAMBDA i : series[i] # {})
        moments == [k \in DOMAIN valid |-> The(series[valid[k]])]
        MomentumPivots(wantHigher) ==
            LET found == FindExtrema(moments, Pivots.left, Pivots.right, wantHigher)
            IN KeepFresh([k \in DOMAIN found |-> valid[found[k]]], Len(candles))
        PricePivots(side, wantHigher) ==
            KeepFresh(FindExtrema([i \in DOMAIN candles |-> Whole(candles[i][side])],
                                  Pivots.left, Pivots.right, wantHigher), Len(candles))
        First(side, wantHigher, expected) ==
            FindFirstDivergence(FindDivergencePairs(PricePivots(side, wantHigher), MomentumPivots(wantHigher),
                                                    Pivots.maxDistance),
                                candles, series, side, expected)
    IN [bullish |-> First("low", TRUE, "BULLISH"), bearish |-> First("high", FALSE, "BEARISH")]

-------------------------------------------------------------------------------
(* The configuration of the panel.  An override names the fields it sets. *)
ConfigStands(c) ==
    /\ c.longThreshold < c.center /\ c.center < c.shortThreshold
    /\ Below(c.deadband, c.momentumScale)
ResolveConfig(overrides) == overrides @@ Shipped
(* Of an instrument; a configuration that does not stand is refused. *)
SignalConfigFor(instrument, assets) ==
    IF instrument \notin DOMAIN assets THEN {Shipped}
    ELSE {c \in {ResolveConfig(assets[instrument])} : ConfigStands(c)}

(* signal.service.ts *)
Vote(signal, weight) == [signal |-> signal, weight |-> weight]
Silent == Vote("NEUTRAL", Whole(0))
Conviction(distance, fullScale) ==
    IF fullScale[1] <= 0 THEN Whole(0)
    ELSE LET share == Over(Magnitude(distance), fullScale) IN IF Below(Whole(1), share) THEN Whole(1) ELSE share

AnalyzeEMA(price, ema, recentCloses, config) ==
    LET closes == IF recentCloses = << >> THEN <<price>> ELSE Lasts(recentCloses, config.confirmBars)
        weight == Conviction(Over(Times(Whole(100), Minus(price, ema)), ema), config.emaScale)
    IN IF ema[1] <= 0 \/ price[1] <= 0 THEN Silent
       ELSE IF \A i \in DOMAIN closes : Below(ema, closes[i]) THEN Vote("LONG", weight)
       ELSE IF \A i \in DOMAIN closes : Below(closes[i], ema) THEN Vote("SHORT", weight)
       ELSE Silent
AnalyzeStochastic(stochastic, config) ==
    LET weight == Conviction(Minus(stochastic, Whole(config.center)),
                             Whole(Max({config.center, 100 - config.center})))
    IN IF Below(stochastic, Whole(config.longThreshold)) THEN Vote("LONG", weight)
       ELSE IF Below(Whole(config.shortThreshold), stochastic) THEN Vote("SHORT", weight)
       ELSE Silent
AnalyzeMomentum(momentum, config) ==
    LET weight == Conviction(momentum, config.momentumScale)
    IN IF ~Below(config.deadband, Magnitude(momentum)) THEN Silent
       ELSE IF momentum[1] > 0 THEN Vote("LONG", weight) ELSE Vote("SHORT", weight)
CalculateSignal(price, indicators, recentCloses, overrides) ==
    LET config == ResolveConfig(overrides)
    IN <<AnalyzeEMA(price, indicators.ema, recentCloses, config),
         AnalyzeStochastic(indicators.stochastic, config), AnalyzeMomentum(indicators.momentum, config)>>

(* point-in-time.ts.  No overrides is the empty function. *)
SignalFrom(point, overrides) ==
    [point EXCEPT !.signal = CalculateSignal(point.price, point.indicators, point.recentCloses, overrides)]
ComputeSignalAt(candles, index, overrides) ==
    LET visible == SubSeq(candles, 1, index)
        indicators == CalculateMarketIndicators(visible)
    IN IF Len(visible) < 2 \/ indicators = {} THEN {}
       ELSE {SignalFrom([index |-> index, price |-> Whole(Last(visible).close),
                         recentCloses |-> Lasts(Closes(visible), ResolveConfig(overrides).confirmBars + 1),
                         indicators |-> The(indicators), signal |-> << >>], overrides)}
ReapplyThresholds(points, overrides) ==
    IF DOMAIN overrides = {} THEN points
    ELSE [i \in DOMAIN points |-> SignalFrom(points[i], overrides)]
===============================================================================
