---------------------------- MODULE MarketStudyChecks ----------------------------
(* What the readings of a market, the strategies over them and the studies of their
   outcomes say, over short series of small prices; and what the repository's own tools
   say of small sources. *)
EXTENDS Integers, Sequences, FiniteSets

LOCAL INSTANCE SequencesExt
LOCAL INSTANCE TLC
LOCAL ShortPeriods ==
    [ema |-> 2, stochastic |-> 2, momentum |-> 1, atr |-> 2, rsi |-> 2, bollinger |-> 2, adx |-> 2,
     macdFast |-> 2, macdSlow |-> 3, macdSignal |-> 2, warmupMultiplier |-> 1]
LOCAL Settings ==
    [longThreshold |-> 30, shortThreshold |-> 70, center |-> 50, confirmBars |-> 2,
     emaScale |-> <<10, 1>>, deadband |-> <<1, 1>>, momentumScale |-> <<100, 1>>]
LOCAL Regimes ==
    [volatility |-> [normal |-> <<1, 1>>, high |-> <<3, 2>>, extreme |-> <<2, 1>>], weak |-> 20,
     directional |-> 25, baselineDays |-> 5, minimumDays |-> 4, baselineBars |-> 2, minimumBars |-> 2]
LOCAL Nearby == [left |-> 1, right |-> 1, maxDistance |-> 1, maxAge |-> 2]
LOCAL IR == INSTANCE IndicatorReadings WITH
                Periods <- ShortPeriods, Pivots <- Nearby, Shipped <- Settings, RegimeConfig <- Regimes
(* The same, asked for a directional movement that is longer than everything else. *)
LOCAL Longer == INSTANCE IndicatorReadings WITH
                    Periods <- [ShortPeriods EXCEPT !.adx = 3], Pivots <- Nearby, Shipped <- Settings,
                    RegimeConfig <- Regimes

LOCAL Candle(high, low, close) == [high |-> high, low |-> low, close |-> close]
LOCAL Bars == {Candle(1, 1, 1), Candle(2, 1, 1), Candle(2, 1, 2), Candle(2, 2, 2)}
LOCAL FiveBars == [1..5 -> Bars]
LOCAL Twice(candles) ==
    [i \in DOMAIN candles |-> Candle(2 * candles[i].high, 2 * candles[i].low, 2 * candles[i].close)]
LOCAL Numbers(n, top) == UNION {[1..k -> 1..top] : k \in 1..n}
LOCAL Rationals(values) == [i \in DOMAIN values |-> IR!Whole(values[i])]
LOCAL Flat(values) == [i \in DOMAIN values |-> Candle(values[i], values[i], values[i])]

-------------------------------------------------------------------------------
(* A pivot that was found is found again whatever comes after it.  One that a further bar
   reveals was knowable at that bar: the bar its point is said to be confirmed at, that of
   its middle and the right window, is that bar for a single bar or the first of two
   equal ones at most, and an earlier bar for every longer plateau. *)
ASSUME PivotsAreNotRepainted ==
    \A values \in Numbers(6, 3), wantHigher \in BOOLEAN : \A next \in 1..3 :
        LET before == IR!FindExtrema(Rationals(values), 1, 1, wantHigher)
            after == IR!FindExtrema(Rationals(Append(values, next)), 1, 1, wantHigher)
            revealed == ToSet(after) \ ToSet(before)
        IN /\ IsPrefix(before, after) /\ Cardinality(revealed) <= 1
           /\ \A i \in revealed :
                 /\ i + 1 <= Len(values) + 1
                 /\ \A j \in 2 * i - Len(values) + 1..Len(values) : values[j] = values[i]
                 /\ i + 1 = Len(values) + 1 <=> (i + 1 > Len(values) \/ values[i + 1] # values[i])

(* MACD is the difference of the averages of two periods over the same closes, its signal
   the average of the differences that every shorter series had. *)
ASSUME MacdIsADifferenceOfAverages ==
    \A values \in [1..6 -> 1..2] :
        LET closes == Rationals(values)
            Difference(n) == IR!Minus(IR!The(IR!CalculateEMA(SubSeq(closes, 1, n), 2)),
                                      IR!The(IR!CalculateEMA(SubSeq(closes, 1, n), 3)))
            reading == IR!The(IR!CalculateMACD(closes, 2, 3, 2))
        IN /\ IR!CalculateEMA(closes, 1) = {closes[6]}
           /\ reading.macd = Difference(6)
           /\ reading.signal = IR!The(IR!CalculateEMA([k \in 1..3 |-> Difference(3 + k)], 2))

(* RSI is of 0..100, 50 for a market that stands still and 100 for one that never falls.
   Its first averages are not those of the first period changes, as its comment says they
   are: what the changes before the last weigh is short by a share of the period. *)
ASSUME RsiIsBounded ==
    /\ \A values \in [1..5 -> 1..3] :
          LET rsi == IR!The(IR!CalculateRSI(Flat(values), 2))
          IN /\ ~IR!Below(rsi, IR!Whole(0)) /\ ~IR!Below(IR!Whole(100), rsi)
             /\ (\A i \in 2..5 : values[i] = values[1]) => rsi = IR!Whole(50)
             /\ (\A i \in 2..5 : values[i] >= values[i - 1]) /\ values[5] > values[1] => rsi = IR!Whole(100)
    /\ IR!CalculateRSI(Flat(<<2, 3, 2>>), 2) = {IR!Ratio(100, 3)}

(* One reading that is thrown takes all of them with it: that of a window without a range,
   and that of the directional movement, which nobody is given, when fewer of its windows
   moved than its period asks for, though none at all is read as a movement of zero. *)
ASSUME OneReadingFailsAll ==
    /\ \A candles \in FiveBars :
          IR!CalculateMarketIndicators(candles) = {}
            <=> IR!CalculateStochastic(candles, 2) = {} \/ IR!CalculateADX(candles, 2) = {}
    /\ \E candles \in FiveBars : IR!CalculateADX(candles, 2) = {} /\ IR!CalculateStochastic(candles, 2) # {}
    /\ \A candles \in FiveBars :
          (\A i \in 2..5 : candles[i] = candles[1])
            => IR!CalculateADX(candles, 2)
                 = {[plusDI |-> IR!Whole(0), minusDI |-> IR!Whole(0), adx |-> IR!Whole(0)]}

(* The bars the panel is asked for leave out those of the directional movement and of the
   bands: with a longer movement the votes are read of series that have no regime. *)
ASSUME VotesBeforeTheRegime ==
    /\ Longer!RequiredCandleCount = 5
    /\ \A candles \in FiveBars :
          /\ Longer!AssessRegime(candles, "1d") = {}
          /\ IR!CalculateStochastic(candles, 2) # {} => Longer!CalculateMarketIndicators(candles) # {}

(* Prices have no unit: twice every price is the same momentum, strength, range and regime,
   twice the averages, and the same votes. *)
ASSUME PricesHaveNoUnit ==
    \A candles \in FiveBars :
        LET once == IR!CalculateMarketIndicators(candles)
            twice == IR!CalculateMarketIndicators(Twice(candles))
        IN /\ IR!AssessRegime(Twice(candles), "1d") = IR!AssessRegime(candles, "1d")
           /\ once = {} <=> twice = {}
           /\ once # {} =>
                 /\ \A key \in {"stochastic", "momentum", "atr", "rsi"} :
                       IR!The(twice)[key] = IR!The(once)[key]
                 /\ IR!The(twice).ema = IR!Plus(IR!The(once).ema, IR!The(once).ema)
                 /\ IR!The(IR!ComputeSignalAt(Twice(candles), 5, << >>)).signal
                      = IR!The(IR!ComputeSignalAt(candles, 5, << >>)).signal

(* Extreme volatility and nothing else is a market of high volatility; a market whose last
   bars stand still after a baseline that moved is of low volatility; a direction needs
   strength, and one that is as strong both ways is said to be down. *)
ASSUME WhatARegimeSays ==
    /\ \A candles \in FiveBars :
          LET regime == IR!AssessRegime(candles, "1d")
              r == IR!The(regime)
              movement == IR!The(IR!CalculateADX(candles, 2))
          IN regime # {} =>
                /\ r.trend = "HIGH_VOL" <=> r.volatility = "EXTREME"
                /\ r.ratio = {IR!Whole(0)} => r.volatility = "LOW"
                /\ r.ratio = {} <=> r.unreliable # {}
                /\ r.trend = "TREND_UP" => IR!Below(movement.minusDI, movement.plusDI)
                /\ r.trend = "LOW_VOL" => r.volatility = "LOW"
    /\ \A candles \in FiveBars :
          (\A i \in 4..5 : candles[i] = Candle(1, 1, 1)) /\ candles[3] = Candle(1, 1, 1)
          /\ (\E i \in 1..2 : candles[i].high > candles[i].low) /\ IR!AssessRegime(candles, "1d") # {}
            => IR!The(IR!AssessRegime(candles, "1d")).ratio \in {{}, {IR!Whole(0)}}
    /\ IR!TrendFrom("NORMAL", [plusDI |-> <<30, 1>>, minusDI |-> <<30, 1>>, adx |-> <<20, 1>>]) = "TREND_DOWN"

-------------------------------------------------------------------------------
(* The pairs of two lists of pivots are of neighbours that are near their counterparts, the
   newest first, and no pair of momentum pivots is told of twice.  They are not all of
   them: one that an earlier pair of prices passed over is never seen again. *)
LOCAL Places == {SetToSortSeq(places, <) : places \in SUBSET (1..6)}
LOCAL Neighbours(places) == {<<places[k], places[k + 1]>> : k \in 1..Len(places) - 1}
LOCAL Near(p, m) == \A n \in 1..2 : IR!Size(p[n] - m[n]) <= 2
ASSUME PairsAreOfNeighbours ==
    /\ \A prices \in Places, momenta \in Places :
          LET pairs == IR!FindDivergencePairs(prices, momenta, 2)
          IN \A i \in DOMAIN pairs :
                /\ pairs[i].price \in Neighbours(prices) /\ pairs[i].momentum \in Neighbours(momenta)
                /\ Near(pairs[i].price, pairs[i].momentum)
                /\ \A j \in i + 1..Len(pairs) :
                      /\ pairs[j].price[1] <= pairs[i].price[1]
                      /\ pairs[j].momentum[1] < pairs[i].momentum[1]
    /\ \E prices \in Places, momenta \in Places :
          \E p \in Neighbours(prices), m \in Neighbours(momenta) :
              /\ Near(p, m)
              /\ \A pair \in ToSet(IR!FindDivergencePairs(prices, momenta, 2)) : pair.price # p

(* A divergence is of two prices and two readings that go opposite ways, of pivots that are
   no older than the limit and were confirmed by the last bar; it is found in every market
   or in none whatever the unit of its prices. *)
ASSUME DivergencesAreReal ==
    \A values \in {v \in [1..7 -> 1..4] : v[1] = 1} :
        LET candles == Flat(values)
            series == IR!CalculateMomentumSeries(candles, 1)
            found == IR!AnalyzeDivergence(candles, series)
            Beyond(d, n, reading) ==
                \E other \in series[n] : IF d.type = "BULLISH" THEN IR!Below(other, reading)
                                         ELSE IR!Below(reading, other)
        IN /\ \A d \in found.bullish \cup found.bearish :
                 /\ d.previous.index < d.current.index
                 /\ (d.current.price < d.previous.price) <=> IR!Below(d.previous.momentum, d.current.momentum)
                 /\ d.current.price # d.previous.price
                 /\ \A leg \in {d.previous, d.current} :
                       /\ leg.confirmedAtIndex <= 7 /\ leg.age = 7 - leg.confirmedAtIndex
                       /\ 7 - (leg.index + 1) <= 2
                       /\ \E m \in leg.index - 1..leg.index + 1 :
                             /\ series[m] = {leg.momentum}
                             /\ \A n \in m - 1..m + 1 : ~Beyond(d, n, leg.momentum)
                             /\ leg.confirmedAtIndex = 1 + IF m > leg.index THEN m ELSE leg.index
           /\ LET twice == IR!AnalyzeDivergence(Twice(candles), IR!CalculateMomentumSeries(candles, 1))
              IN (twice.bullish = {} <=> found.bullish = {}) /\ (twice.bearish = {} <=> found.bearish = {})
           /\ values = <<1, 1, 1, 3, 2, 4, 3>> => found.bearish # {}

(* The order a plan computes in is of what was asked for and what that requires, each once
   and after all it requires; it is refused exactly when one of these requires itself in the
   end or is registered nowhere. *)
LOCAL Keys == {"x", "y", "z"}
LOCAL Requirements == {<< >>} \cup {<<k>> : k \in Keys \cup {"w"}} \cup ({"x", "y"} \X {"y", "z"})
ASSUME PlansAreInOrder ==
    \A requires \in [Keys -> Requirements], keys \in {<<"x">>, <<"y", "x">>, <<"z", "z">>, <<"w">>} :
        LET plan == IR!Plan(requires, keys)
            NextOf(s) == s \cup UNION {ToSet(requires[k]) : k \in s \cap Keys}
            Reached(s) == NextOf(NextOf(NextOf(NextOf(s))))
            wanted == Reached(ToSet(keys))
            resolved == IR!Resolve(requires, keys)
        IN /\ plan.refused <=> \/ wanted \ Keys # {}
                               \/ \E k \in wanted : k \in Reached(ToSet(requires[k]))
           /\ ~plan.refused =>
                 /\ ToSet(plan.ordered) = wanted /\ IsInjective(plan.ordered)
                 /\ \A i \in DOMAIN resolved : ToSet(requires[resolved[i].key]) \subseteq resolved[i].sees

-------------------------------------------------------------------------------
(* A vote of the average goes by the closes and weighs the distance of the price: one that
   fell through the average since the last close still votes up, and the further it fell
   the heavier.  Of a past bar, whose price is its close, the two agree. *)
ASSUME TheVoteOfTheAverage ==
    /\ \A values \in [1..3 -> 1..4], price \in 1..4, ema \in 1..4 :
          LET vote == IR!AnalyzeEMA(IR!Whole(price), IR!Whole(ema), Rationals(values), Settings)
          IN /\ vote.signal = "LONG" <=> values[2] > ema /\ values[3] > ema
             /\ vote.signal = "LONG" /\ price = values[3] => price > ema
             /\ vote.weight[1] # 0 => vote.signal # "NEUTRAL" /\ price # ema
    /\ LET At(price) == IR!AnalyzeEMA(IR!Whole(price), IR!Whole(100), Rationals(<<101, 102>>), Settings)
       IN At(99).signal = "LONG" /\ At(98).signal = "LONG" /\ IR!Below(At(99).weight, At(98).weight)

(* The strength of a range and a move weigh something exactly when they vote; an average
   whose price came back to it votes with no weight. *)
ASSUME AVoteThatIsCastWeighs ==
    /\ \A n \in 0..100 :
          LET stochastic == IR!AnalyzeStochastic(IR!Whole(n), Settings)
              momentum == IR!AnalyzeMomentum(IR!Ratio(n - 50, 20), Settings)
          IN /\ stochastic.weight[1] > 0 <=> stochastic.signal # "NEUTRAL"
             /\ momentum.weight[1] > 0 <=> momentum.signal # "NEUTRAL"
             /\ momentum.signal = "LONG" => n > 70
             /\ stochastic.signal = "LONG" => n < 30
    /\ IR!AnalyzeEMA(IR!Whole(2), IR!Whole(2), Rationals(<<3, 3>>), Settings) = IR!Vote("LONG", IR!Whole(0))

(* Thresholds that are applied again to points already computed give what computing them
   with these thresholds gives, as long as no more closes are to confirm than the points
   kept, one more than were shipped; beyond, fewer closes confirm than were asked for. *)
LOCAL Rising == <<Candle(2, 1, 1), Candle(1, 1, 1), Candle(2, 1, 2), Candle(2, 1, 2), Candle(2, 2, 2)>>
LOCAL Confirming(n) == [confirmBars |-> n]
ASSUME ThresholdsAreReapplied ==
    /\ \A candles \in FiveBars, n \in 1..3 :
          LET point == IR!ComputeSignalAt(candles, 5, << >>)
              again == IR!ComputeSignalAt(candles, 5, Confirming(n))
          IN point # {} =>
                IR!ReapplyThresholds(<<IR!The(point)>>, Confirming(n))[1].signal = IR!The(again).signal
    /\ LET again(n) == IR!The(IR!ComputeSignalAt(Rising, 5, Confirming(n))).signal[1]
           applied(n) == IR!ReapplyThresholds(<<IR!The(IR!ComputeSignalAt(Rising, 5, << >>))>>,
                                              Confirming(n))[1].signal[1]
       IN again(5).signal = "NEUTRAL" /\ applied(5).signal = "LONG"

(* Only what is set for an instrument is asked whether it stands; the same thresholds given
   to the panel at once are taken as they are. *)
ASSUME OnlyInstrumentsAreAsked ==
    LET wrong == [longThreshold |-> 80]
        indicators == [ema |-> IR!Whole(1), stochastic |-> IR!Whole(75), momentum |-> IR!Whole(0)]
    IN /\ IR!SignalConfigFor("i", ("i" :> wrong)) = {}
       /\ IR!SignalConfigFor("i", ("j" :> wrong)) = {Settings}
       /\ IR!CalculateSignal(IR!Whole(1), indicators, << >>, wrong)[2].signal = "LONG"
       /\ IR!CalculateSignal(IR!Whole(1), indicators, << >>, << >>)[2].signal = "SHORT"

-------------------------------------------------------------------------------
(* The rules and their bench. *)
LOCAL Channels == [period |-> 2, atr |-> 2, baseline |-> 2]
LOCAL SB == INSTANCE StrategyBench WITH
    Periods <- ShortPeriods, Pivots <- Nearby, Shipped <- Settings, RegimeConfig <- Regimes,
    Unit <- 10, Channel <- Channels,
    Bench <- [long |-> 2, fast |-> 1, slow |-> 2, bands |-> 6, rsi |-> 2, hold |-> 2, first |-> 1]
LOCAL Cost(model) == [maker |-> 0, taker |-> 1, spread |-> 0, slippage |-> 0, liquidity |-> "taker",
                      model |-> model]
LOCAL Free == [Cost("next_open") EXCEPT !.taker = 0]
(* Every bar opens where the last one closed. *)
LOCAL Path(closes) ==
    [i \in DOMAIN closes |->
       LET open == closes[IF i = 1 THEN 1 ELSE i - 1]
           close == closes[i]
       IN [open |-> open, close |-> close, high |-> IF open > close THEN open ELSE close,
           low |-> IF open > close THEN close ELSE open]]
LOCAL Paths == {Path(closes) : closes \in {v \in [1..7 -> 1..3] : v[1] = 2 /\ v[2] # 3}}
LOCAL FewPaths == {candles \in Paths : candles[2].close = 2 /\ candles[3].close = 1}
(* Every bar has the same range, and closes above all before it. *)
LOCAL Climb == [Path([i \in 1..7 |-> i + 1]) EXCEPT ![1].low = 1]
LOCAL BenchNames == {"buy-and-hold", "long-only", "crossover", "bands", "rsi", "donchian-20",
                     "donchian-trend-gated"}

(* No series of the rules knows its future: what it says of a bar it says when that bar is
   the last one. *)
ASSUME SeriesKnowNoFuture ==
    \A candles \in Paths :
        LET shorter == SubSeq(candles, 1, 5)
            CloseOf(bars) == [i \in DOMAIN bars |-> bars[i].close]
            all == SB!BuildSeries(candles)
            past == SB!BuildSeries(shorter)
        IN /\ \A name \in DOMAIN all : IsPrefix(past[name], all[name])
           /\ IsPrefix(SB!AtrSeries(shorter, 2), SB!AtrSeries(candles, 2))
           /\ IsPrefix(SB!SmaSeries(SB!AtrSeries(shorter, 2), 2), SB!SmaSeries(SB!AtrSeries(candles, 2), 2))

(* The two implementations of an average agree on it, those of the relative strength do
   not: the rules' starts from the mean of the first period, and a market that stands still
   is at 100, not 50. *)
ASSUME TwoOfEachIndicator ==
    /\ \A values \in [1..5 -> 1..3] :
          /\ Last(SB!EmaSeries(Rationals(values), 2)) = IR!CalculateEMA(Rationals(values), 2)
          /\ LET rule == Last(SB!RsiSeries(values, 1))
                 panel == IR!CalculateRSI(Flat(values), 1)
             IN rule = panel \/ (rule = {IR!Whole(100)} /\ panel = {IR!Whole(50)})
    /\ SB!RsiSeries(<<2, 3, 2>>, 2)[3] = {IR!Whole(50)}
    /\ IR!CalculateRSI(Flat(<<2, 3, 2>>), 2) = {IR!Ratio(100, 3)}

(* The range of the very first bar is in every average true range after it, which its
   comment says it is not: where a series begins changes the reading of every bar. *)
ASSUME TheFirstBarIsInTheRange ==
    \A candles \in Paths :
        LET wider == [candles EXCEPT ![1].high = 5]
        IN /\ \A i \in 2..7 : SB!The(SB!AtrSeries(wider, 2)[i]) # SB!The(SB!AtrSeries(candles, 2)[i])
           /\ \A i \in 2..6 :
                 LET before == SB!The(SB!AtrSeries(candles, 2)[i])
                     wide == SB!The(SB!AtrSeries(wider, 2)[i])
                     After(bars) == SB!The(SB!AtrSeries(bars, 2)[i + 1])
                 IN IR!Below(IR!Minus(After(wider), After(candles)), IR!Minus(wide, before))

(* The two gates are never open at once, and neither when the ranges are their own average;
   a rule behind an open gate says what the rule without one says, and none is as sure of
   anything as 1. *)
ASSUME GatesShareTheBreakouts ==
    \A candles \in FewPaths \cup {Climb} :
        LET all == SB!Donchian(candles)
            trend == SB!TrendGated(candles)
            calm == SB!CalmGated(candles)
            moving == SB!VolatilityTrend(candles)
            atr == Last(SB!AtrSeries(candles, 2))
            Silent == SB!Neutral(FALSE)
        IN /\ {trend, calm} \subseteq {all, Silent} /\ (all # Silent => ~(trend = all /\ calm = all))
           /\ atr # SB!Baseline(candles) => all \in {trend, calm}
           /\ atr = SB!Baseline(candles) => {trend, calm, moving} = {Silent}
           /\ trend # Silent => moving.direction = "LONG"
           /\ ~IR!Below(<<19, 20>>, all.confidence) /\ IR!Below(moving.confidence, <<1, 2>>)
           /\ all.direction = "LONG" => candles[7].close > candles[6].high

(* The rule that is only long is in a market that never left its channel; it is out when
   the last close fell through the channel and at no other bar. *)
ASSUME LongWithoutABreakout ==
    /\ \A candles \in Paths :
          LET run == SB!RunStrategy("long-only", candles, Free)
          IN \A k \in DOMAIN run.mix :
                LET i == k + 2 IN
                run.mix[k] = 0 <=> /\ candles[i].close < candles[i - 1].low
                                   /\ candles[i].close < candles[i - 2].low
    /\ SB!RunStrategy("long-only", Path([i \in 1..7 |-> 2]), Free).trades # << >>

(* A trade is entered on the bar after one that decided for it and held while the closes
   decide for it: it is out on the bar after the first that does not, or on the last bar,
   where the equity has one entry more than there were bars.  No two trades share a bar to
   enter and leave on and each is priced as the backtest prices its two bars, so that a reversal costs one bar out, and the equity ends as what the
   trades made of it. *)
ASSUME NothingIsFilledOnItsOwnBar ==
    \A candles \in FewPaths, name \in BenchNames, model \in {"next_open", "intrabar"} :
        LET run == SB!RunStrategy(name, candles, Cost(model))
            first == 7 - Len(run.mix)
            DecidedAt(i) == run.mix[i - first]
            trades == run.trades
            Kept(t) == \A i \in t.entry - 1..t.exit - 2 : i >= t.entry => DecidedAt(i) = t.direction
            atTheEnd == Len(run.equity) > Len(run.mix)
        IN /\ Len(run.equity) = Len(run.mix) + IF atTheEnd THEN 1 ELSE 0
           /\ \A k \in DOMAIN trades :
                 LET t == trades[k] IN
                 /\ DecidedAt(t.entry - 1) = t.direction /\ Kept(t)
                 /\ IF k = Len(trades) /\ atTheEnd
                    THEN t.exit = 7 ELSE t.exit > t.entry /\ DecidedAt(t.exit - 1) # t.direction
                 /\ k > 1 => t.entry > trades[k - 1].exit
                 /\ LET priced == SB!Execution!PricedTrade(candles[t.entry], candles[t.exit], t.direction,
                                                           Cost(model))
                    IN <<t.net, t.gross>> = <<IR!Ratio(priced.net[1], priced.net[2]),
                                              IR!Ratio(priced.gross[1], priced.gross[2])>>
                 /\ IR!Below(t.net, t.gross) \/ model = "next_open"
           /\ Last(run.equity) = FoldLeft(LAMBDA cash, t : SB!Compound(cash, t.net), IR!Whole(1), trades)

(* What reverts bets against the last closes: below the bands is below all of their bars,
   and a strength of two moves is low only after a fall.  A market that stands still has a
   strength of 100, so it is sold. *)
ASSUME ReversionSellsTheCalm ==
    /\ \A candles \in Paths :
          LET close(i) == candles[i].close
              bands == SB!RunStrategy("bands", candles, Free).mix[1]
              strength == SB!RunStrategy("rsi", candles, Free).mix
          IN /\ bands # 0 => \A i \in 2..6 : bands * (close(7) - close(i)) < 0
             /\ \A k \in DOMAIN strength :
                   /\ strength[k] = 1 => \E i \in 2..k + 3 : close(i) < close(i - 1)
                   /\ close(k + 3) < close(1) /\ (\A i \in 2..k + 3 : close(i) <= close(i - 1))
                         => strength[k] = 1
    /\ ToSet(SB!RunStrategy("rsi", Path([i \in 1..7 |-> 2]), Free).mix) = {-1}
    /\ SB!RunStrategy("bands", Path(<<2, 2, 2, 2, 2, 2, 1>>), Free).mix = <<1>>

(* A winner is not held to the far side of the channel, as the rule's mechanism says: the
   first close inside it ends the trade. *)
ASSUME TheExitIsInsideTheChannel ==
    \E candles \in Paths :
        LET run == SB!RunStrategy("donchian-20", candles, Free)
        IN /\ run.trades # << >> /\ run.trades[1].direction = 1 /\ run.trades[1].exit < 7
           /\ \A i \in run.trades[1].entry..run.trades[1].exit :
                 candles[i].close >= candles[i - 1].low \/ candles[i].close >= candles[i - 2].low

(* A module that needs so many bars is asked a bar later than it has them, though the
   guard that keeps it from being asked too early says it would be ready. *)
ASSUME TheFirstReadyBarIsNotAsked ==
    \E candles \in Paths :
        /\ SB!FromModule("donchian-20", candles, SB!Warmup("donchian-20")) # 0
        /\ LET run == SB!RunStrategy("donchian-20", candles, Free)
           IN Len(run.mix) = 7 - SB!Warmup("donchian-20") /\ run.mix[1] = 0

(* A rule stands when every one of four or more windows gained: the share that is asked of
   them decides nothing but which reason is given.  A rule of channels decides in a window
   what it decides over the whole series, one of smoothed ranges need not. *)
LOCAL Halves == {<<1, 2>>, <<3, 5>>, <<1, 1>>}
LOCAL Seconds == [1..4 -> 1..3] \cup [1..3 -> {3}]
LOCAL Windows(seconds) ==
    Path([i \in 1..3 * Len(seconds) + 1 |-> IF i % 3 = 0 THEN seconds[i \div 3] ELSE 2])
ASSUME TheShareDecidesNothing ==
    /\ \A seconds \in Seconds, share \in Halves :
          LET verdict == SB!WalkForwardStrategy("buy-and-hold", Windows(seconds), 3, share, Free)
              Gains == {f \in DOMAIN verdict.runs : verdict.runs[f].totalReturn[1] > 0}
          IN /\ verdict.consistent <=> (Len(verdict.runs) >= 4 /\ \A f \in DOMAIN seconds : seconds[f] = 3)
             /\ Gains = {f \in DOMAIN seconds : seconds[f] = 3}
             /\ verdict.consistent <=> verdict.reason = "passes"
    /\ \A candles \in Paths :
          LET whole == SB!RunStrategy("donchian-20", candles, Free).mix
              verdict == SB!WalkForwardStrategy("donchian-20", candles, 2, <<1, 1>>, Free)
          IN \A f \in DOMAIN verdict.runs : verdict.runs[f].mix = SubSeq(whole, 2 * f - 1, 2 * f)
ASSUME AWindowForgetsTheRanges ==
    \E closes \in {<<1, 1, 2, 1, 2, 1, 2, 3>>, <<1, 1, 2, 1, 2, 1, 2, 2>>} :
        LET candles == Path(closes)
            whole == SB!RunStrategy("donchian-trend-gated", candles, Free).mix
            verdict == SB!WalkForwardStrategy("donchian-trend-gated", candles, 1, <<1, 1>>, Free)
        IN \E f \in DOMAIN verdict.runs : verdict.runs[f].mix[1] # whole[f]

(* The coin's trades do not overlap, cover the same bars whatever rule they are compared
   with, and cost what trading costs: on a market that stands still they lose it. *)
ASSUME TheCoinPaysItsCosts ==
    /\ \A coins \in [1..2 -> {1, -1}] :
          LET flat == Path([i \in 1..6 |-> 2])
          IN /\ SB!RandomEntryBenchmark(flat, Free, coins) = IR!Whole(0)
             /\ IR!Below(SB!RandomEntryBenchmark(flat, Cost("next_open"), coins), IR!Whole(0))
    /\ \A candles \in Paths : SB!RandomEntryBenchmark(candles, Free, <<1, 1, 1>>)
                               = SB!Return(1, candles[2].open, candles[6].open)

-------------------------------------------------------------------------------
(* What the published signals were worth. *)
LOCAL PS == INSTANCE PerformanceStudy WITH
    Periods <- ShortPeriods, Pivots <- Nearby, Shipped <- Settings, RegimeConfig <- Regimes,
    Unit <- 10, Channel <- Channels,
    Bench <- [long |-> 2, fast |-> 1, slow |-> 2, bands |-> 6, rsi |-> 2, hold |-> 2, first |-> 1],
    Sampling <- [minimum |-> 2, edges |-> <<0, 50, 100>>], BarMs <- 1,
    Features <- [ema |-> 2, stochastic |-> 2, momentum |-> 1, atr |-> 2, rsi |-> 2,
                 macdFast |-> 2, macdSlow |-> 3, macdSignal |-> 2, lookback |-> 3],
    Bins <- [edges |-> <<<<0, 1>>, <<1, 3>>, <<2, 3>>, <<101, 100>>>>, minimum |-> 2]
LOCAL Said(at, verdict, return, confidence) ==
    [symbol |-> "s", at |-> at, direction |-> "LONG", verdict |-> verdict, return |-> return,
     confidence |-> confidence, regime |-> {}, indicators |-> {}]
LOCAL Ends == {<<"correct", {<<1, 10>>}>>, <<"incorrect", {<<-1, 5>>}>>, <<"flat", {<<0, 1>>}>>, <<"unknown", {}>>}
LOCAL Histories(n, ends, claims) ==
    {[k \in 1..n |-> Said(k, h[k][1][1], h[k][1][2], h[k][2])] : h \in [1..n -> ends \X claims]}
LOCAL Endings == UNION {Histories(n, Ends, {50}) : n \in 0..4}
LOCAL Decided(samples) == Len(SelectSeq(samples, LAMBDA s : s.return # {}))

(* Nothing is said of fewer outcomes than the floor, and all of it of as many; a flat one
   counts against the accuracy but not against the direction; what was lost from a peak is
   at least what was lost in the end and at least the heaviest loss.  The order in which
   the samples were read decides nothing. *)
ASSUME NothingIsSaidOfTooFew ==
    /\ \A samples \in Endings :
          LET m == PS!ComputeMetrics(samples)
              lost == PS!The(m.maxDrawdown)
          IN /\ m.undersampled <=> Decided(samples) < 2
             /\ \A key \in {"accuracy", "expectancy", "maxDrawdown"} : m[key] = {} <=> m.undersampled
             /\ m.total + m.unresolved = Len(samples)
             /\ ~m.undersampled =>
                   /\ \A of \in m.directionAccuracy :
                         ~PS!Below(of, PS!The(m.accuracy)) /\ (of = PS!The(m.accuracy) <=> m.correct + m.incorrect = m.total \/ m.correct = 0)
                   /\ ~PS!Below(PS!Plus(lost, PS!Times(PS!The(m.expectancy), PS!Whole(m.total))), PS!Whole(0))
                   /\ m.incorrect > 0 <=> ~PS!Below(lost, <<1, 5>>)
                   /\ m.profitFactor = {} <=> m.incorrect = 0
    /\ \A samples \in Histories(3, Ends, {50}) :
          /\ PS!ComputeMetrics(Reverse(samples)) = PS!ComputeMetrics(samples)
          /\ PS!ComputeMetrics(Append(Tail(samples), samples[1])) = PS!ComputeMetrics(samples)

(* The buckets part the samples: each claim of a percent is in one, and what they count is
   what all of them count. *)
LOCAL Claimed == Histories(3, Ends, {0, 50, 100})
ASSUME EveryClaimIsInOneBucket ==
    \A samples \in Claimed :
        LET told == PS!ConfidenceBuckets(samples)
            all == PS!ComputeMetrics(samples)
        IN /\ told.unplaced = 0
           /\ \A key \in {"total", "correct", "incorrect", "unresolved"} :
                 told.buckets[1].metrics[key] + told.buckets[2].metrics[key] = all[key]

(* A lift is told when both sides have the floor, and then the whole lies between them; of
   the regimes the strongest is no weaker than the weakest, and they part what is
   labelled. *)
LOCAL Labelled(samples, label) == [k \in DOMAIN samples |-> [samples[k] EXCEPT !.regime = label[k]]]
ASSUME ALiftHasTwoSides ==
    \A samples \in Histories(4, {e \in Ends : e[1] \in {"correct", "incorrect"}}, {50}) :
        /\ \A users \in SUBSET (1..4) :
              LET used == [k \in 1..4 |-> [samples[k] EXCEPT !.indicators = IF k \in users THEN {"i"} ELSE {}]]
                  value == PS!CombinationValue(used)
                  all == PS!The(PS!ComputeMetrics(used).accuracy)
              IN /\ DOMAIN value = {"i"} <=> users # {}
                 /\ users # {} =>
                       /\ value["i"].lift # {} <=> Cardinality(users) = 2
                       /\ \A lift \in value["i"].lift :
                             lift[1] > 0 <=> PS!Below(all, PS!The(value["i"].metrics.accuracy))
        /\ \A label \in [1..4 -> {{}, {"up"}, {"down"}}] :
              LET told == PS!ByRegime(Labelled(samples, label))
              IN /\ FoldLeft(LAMBDA sum, r : sum + r.metrics.total, told.unlabelled, told.regimes) = 4
                 /\ \A wide \in told.spread : wide[1] >= 0 /\ (wide[1] > 0 => told.strongest # told.weakest)
                 /\ told.spread = {} <=> Cardinality({name \in {"up", "down"} :
                       Cardinality({k \in 1..4 : label[k] = {name}}) >= 2}) < 2

(* How much was claimed is told of what was claimed, except where no bucket has the floor:
   then what is called the claim is what came of the signals. *)
ASSUME TheClaimMayBeTheOutcome ==
    /\ \A samples \in Claimed :
          LET told == PS!Calibrate(samples)
              claims == PS!Mean([k \in 1..3 |-> PS!Ratio(samples[k].confidence, 100)])
          IN /\ told.unmeasured <=> \A k \in 1..2 : PS!ConfidenceBuckets(samples).buckets[k].metrics.undersampled
             /\ ~told.unmeasured =>
                   /\ told.meanClaimed = {claims}
                   /\ ~PS!Below(PS!The(told.score), PS!Whole(0)) /\ ~PS!Below(PS!Whole(1), PS!The(told.score))
                   /\ told.score = {PS!Whole(1)} <=> told.worstGap = {PS!Whole(0)}
             /\ told.unmeasured => told.meanClaimed = PS!ComputeMetrics(samples).accuracy
    /\ PS!Calibrate(<<Said(1, "correct", {<<1, 10>>}, 0), Said(2, "correct", {<<1, 10>>}, 50)>>).meanClaimed
          = {PS!Whole(1)}

(* A drift is told of the newest against all before them: with fewer newest than the floor
   it never is, and what gets worse told backwards gets better. *)
ASSUME DriftIsOfTime ==
    \A samples \in Histories(4, {e \in Ends : e[1] \in {"correct", "incorrect"}}, {50}) :
        LET Backwards == [k \in 1..4 |-> [samples[k] EXCEPT !.at = 5 - k]]
            Told(of, recent) == PS!Reliability(of, recent, <<1, 10>>).verdict
        IN /\ \A recent \in {1, 3, 4} : Told(samples, recent) = "unmeasured"
           /\ Told(samples, 2) = "degrading" <=> Told(Backwards, 2) = "improving"
           /\ Told(samples, 2) = "stable" <=> Told(Backwards, 2) = "stable"
           /\ Told(samples, 2) = "degrading" =>
                 \E k \in 1..2 : samples[k].verdict = "correct"
           /\ Told(samples, 2) = "stable" <=>
                 Len(SelectSeq(SubSeq(samples, 1, 2), LAMBDA s : s.verdict = "correct"))
                   = Len(SelectSeq(SubSeq(samples, 3, 4), LAMBDA s : s.verdict = "correct"))

(* A horizon that was measured is measured for ever: the bars that follow do not change it,
   nor do those up to the entry.  Those measured are the shorter ones, a longer one has the
   wider excursions, and each return lies between its own.  A short sees what a long sees
   with its sign turned.  A series that ends at the entry says expired of every horizon,
   though their bars are yet to come. *)
LOCAL Asked(breakeven) == [horizons |-> PS!ConfiguredHorizons(<<3, 1, 3, 2>>),
                           breakeven |-> breakeven, track |-> TRUE]
LOCAL Published(entry, direction) == [entry |-> entry, price |-> 4, direction |-> direction]
LOCAL ClosesAt == UNION {[1..n -> {3, 4, 6}] : n \in 0..5}
LOCAL Closing(closes) == [i \in DOMAIN closes |-> [at |-> i, close |-> closes[i]]]
LOCAL Turned(option) == {PS!Minus(PS!Whole(0), v) : v \in option}
LOCAL OtherVerdict == [correct |-> "incorrect", incorrect |-> "correct", flat |-> "flat",
                       unknown |-> "unknown", expired |-> "expired"]
ASSUME AMeasuredHorizonIsFinal ==
    \A closes \in ClosesAt, entry \in 0..2, breakeven \in {<<0, 1>>, <<1, 4>>} :
        LET Told(upto, direction) ==
                PS!MeasureOutcome(Published(entry, direction), Closing(SubSeq(closes, 1, upto)), Asked(breakeven))
            all == Told(Len(closes), "LONG")
            short == Told(Len(closes), "SHORT")
        IN /\ \A upto \in 0..Len(closes), k \in 1..3 :
                 LET then == Told(upto, "LONG")[k]
                 IN /\ then.return # {} => then = all[k]
                    /\ then.return = {} <=> upto < entry + k
                    /\ then.verdict = "expired" <=> upto <= entry
           /\ PS!MeasureOutcome(Published(entry, "LONG"), SelectSeq(Closing(closes), LAMBDA c : c.at > entry),
                                Asked(breakeven)) = all
           /\ \A k \in 1..3 : all[k].return # {} =>
                 /\ ~PS!Below(PS!The(all[k].return), PS!The(all[k].adverse))
                 /\ ~PS!Below(PS!The(all[k].favourable), PS!The(all[k].return))
                 /\ \A j \in 1..k : /\ ~PS!Below(PS!The(all[k].favourable), PS!The(all[j].favourable))
                                    /\ ~PS!Below(PS!The(all[j].adverse), PS!The(all[k].adverse))
           /\ \A k \in 1..3 : /\ short[k].return = Turned(all[k].return)
                              /\ short[k].favourable = Turned(all[k].adverse)
                              /\ short[k].verdict = OtherVerdict[all[k].verdict]

(* A target that was reached stays reached at a longer horizon, and what is missing to it only
   shrinks; a stop is hit just when some bar of the window closed beyond it.  Both may have
   been, in either order, which the record does not tell. *)
LOCAL Questions == [target : {<<1, 4>>, <<1, 2>>}, stop : {<<1, 4>>}]
ASSUME TheOrderIsNotAnswered ==
    /\ \A closes \in [1..3 -> {2, 3, 4, 5, 6}], question \in Questions, direction \in {"LONG", "SHORT"} :
          LET told == PS!MeasureOutcome(Published(0, direction), Closing(closes), Asked(question.target))
              Read(k) == PS!ReadExcursions(told[k], question)
          IN \A k \in 1..3 :
                /\ Read(k).answered
                /\ told[k].verdict = "correct" => Read(k).hitTarget
                /\ told[k].verdict = "incorrect" => Read(k).hitStop
                /\ Read(k).hitTarget <=> Read(k).missedBy = PS!Whole(0)
                /\ Read(k).hitStop <=> \E j \in 1..k :
                      ~PS!Below(PS!Minus(PS!Whole(0), question.stop), PS!The(told[j].return))
                /\ \A j \in 1..k : ~PS!Below(Read(j).missedBy, Read(k).missedBy)
    /\ LET Horizon(closes) == PS!MeasureOutcome(Published(0, "LONG"), Closing(closes), Asked(<<0, 1>>))[3]
           rose == Horizon(<<6, 2, 4>>)
           fell == Horizon(<<2, 6, 4>>)
       IN rose = fell /\ \A question \in Questions : PS!ReadExcursions(rose, question).hitTarget
                                                     /\ PS!ReadExcursions(rose, question).hitStop

(* Every signal is a sample or left out for one reason.  Its window is closed after as many
   hours as it has bars: one of bars of four hours is closed before its last bar is. *)
LOCAL Ended(entry, bars, verdict) ==
    [outcome |-> [symbol |-> "s", entry |-> entry, direction |-> "LONG",
                  horizons |-> <<[bars |-> bars, verdict |-> verdict, return |-> {<<1, 10>>}]>>],
     published |-> [confidence |-> 50, regime |-> {}]]
LOCAL AllEnded == {Ended(entry, bars, verdict) : entry \in 0..2, bars \in 1..2,
                                                 verdict \in {"correct", "unknown", "expired"}}
ASSUME EverySignalIsASampleOrLeftOut ==
    /\ \A first \in AllEnded, second \in AllEnded, asOf \in 0..5, grace \in 0..1 :
          LET told == PS!ToPerformanceSamples(<<first, second>>, [bars |-> 2, asOf |-> asOf, grace |-> grace])
              left == told.excluded
          IN /\ Len(told.samples) + left.unresolved + left.expired + left.otherHorizon = 2
             /\ \A k \in DOMAIN told.samples : /\ told.samples[k].verdict = "correct"
                                               /\ told.samples[k].at + 2 + grace <= asOf
    /\ LET barMs == 4
           at == [bars |-> 2, asOf |-> 0 + 2, grace |-> 0]
       IN at.asOf < 2 * barMs /\ Len(PS!ToPerformanceSamples(<<Ended(0, 2, "correct")>>, at).samples) = 1

(* A signal is measured once however many rows it has, at the horizon it was asked for
   alone.  The rows read are the oldest of every horizon: beyond the limit what happened
   since is never measured. *)
LOCAL Row(id, state, entry, bars, confidence) ==
    [id |-> id, state |-> state, symbol |-> "s", series |-> "s", entry |-> entry, direction |-> "LONG",
     verdict |-> "correct", bars |-> bars, return |-> {<<1, 10>>}, regime |-> {}, confidence |-> confidence]
LOCAL Tables == {{Row(1, a, 1, 1, p), Row(2, b, 2, x, q), Row(3, a, 3, y, p)} :
                    a \in {{}, {7}}, b \in {{}, {7}, {8}}, x \in 1..2, y \in 1..2, p \in {{}, {50}}, q \in {{}, {50}}}
ASSUME TheOldestRowsAreRead ==
    \A table \in Tables, limit \in 1..4 :
        LET told == PS!LoadMeasuredSignals(table, "s", 1, limit)
            oldest == {r \in table : r.entry <= limit /\ r.bars = 1}
            signals == {PS!GroupKey(r) : r \in oldest}
        IN /\ Len(told.signals) + told.withoutClaim = Cardinality(signals)
           /\ \A k \in DOMAIN told.signals :
                 /\ told.signals[k].outcome.entry <= limit
                 /\ \A h \in DOMAIN told.signals[k].outcome.horizons : told.signals[k].outcome.horizons[h].bars = 1
           /\ told = PS!LoadMeasuredSignals(table \cup {Row(9, {9}, 5, 1, {50})}, "s", 1, limit) <=>
                 Cardinality(table) >= limit

-------------------------------------------------------------------------------
(* What a model would be given. *)
LOCAL Traded(candles, volume) == [i \in DOMAIN candles |-> candles[i] @@ [volume |-> volume[i], timestamp |-> i]]
LOCAL Volumes == <<1, 2, 3, 2, 1, 4>>

(* Twice every price and volume is the same features, but half the range: it was divided by
   the price already.  Fewer bars than they all need refuse them, as do a regime and a MACD
   that are not known; a window without a range is at its bottom. *)
ASSUME TheRangeIsDividedTwice ==
    /\ \A candles \in FiveBars :
          LET Doubled == [i \in 1..5 |-> 2 * Volumes[i]]
              once == PS!ExtractFeatures(Traded(candles, Volumes), 5, PS!Whole(0))
              twice == PS!ExtractFeatures(Traded(Twice(candles), Doubled), 5, PS!Whole(0))
          IN /\ once = {} <=> IR!CalculateADX(candles, 2) = {}
             /\ once = {} <=> twice = {}
             /\ PS!ExtractFeatures(Traded(candles, Volumes), 4, PS!Whole(0)) = {}
             /\ once # {} =>
                   LET f == PS!The(once) IN
                   /\ PS!The(twice) = [f EXCEPT !.atr = PS!Over(@, PS!Whole(2))]
                   /\ f.atr = PS!Over(PS!The(IR!CalculateATR(candles, 2)), PS!Whole(candles[5].close))
                   /\ IR!CalculateStochastic(candles, 2) = {} => f.stochastic = PS!Whole(0)
                   /\ f.divergence[1] # 0 =>
                         f.divergence[1] < 0 <=> candles[5].close + candles[3].close > 2 * candles[4].close

(* One bar whose regime is refused refuses the features of every bar. *)
ASSUME OneBarRefusesTheSeries ==
    /\ \A candles \in {c \in [1..6 -> Bars] : c[1] = Candle(2, 1, 1) /\ c[2] = Candle(2, 1, 1)} :
          LET series == PS!ExtractFeatureSeries(Traded(candles, Volumes))
              Of(i) == PS!ExtractFeatures(Traded(candles, Volumes), i, PS!Whole(0))
          IN /\ series = {} <=> {} \in {Of(5), Of(6)}
             /\ \A vectors \in series : Len(vectors) = 2 /\ {vectors[2]} = Of(6)
    /\ PS!ExtractFeatureSeries(<< >>) = {<< >>}

(* A row's label is of the bar so many bars on, by count, and known before the part that
   follows begins by time.  The rows of the three parts are in order and none is lost
   uncounted; nothing that is fitted to is labelled in the test part as long as no bar is
   missing.  A row of the first part may be labelled in the second, which its comment says is
   purged; and where bars are missing one may be labelled in the test part. *)
LOCAL Rises(times) == [i \in DOMAIN times |-> [timestamp |-> times[i], close |-> 1 + (i % 2)]]
LOCAL Vectors(times) == [i \in DOMAIN times |-> [at |-> times[i]]]
LOCAL Rows(times, horizon) == PS!BuildDataset(Vectors(times), Rises(times), horizon)
LOCAL Parts == {<<<<1, 2>>, <<1, 4>>>>, <<<<1, 4>>, <<1, 4>>>>, <<<<1, 2>>, <<1, 2>>>>}
LOCAL LabelledBy(times, row, horizon) ==
    {times[i + horizon] : i \in {j \in 1..Len(times) - horizon : times[j] = row.at}}
LOCAL Even(n) == [i \in 1..n |-> i]
ASSUME TheTrainPartMayReachTheValidation ==
    /\ \A n \in 0..8, horizon \in 1..2, part \in Parts :
          LET rows == Rows(Even(n), horizon)
              told == PS!SplitByTime(Reverse(rows), part[1], part[2], 1)
              fitted == ToSet(told.train) \cup ToSet(told.validation)
              kept == told.train \o told.validation \o told.test
          IN /\ kept = SelectSeq(rows, LAMBDA row : row \in ToSet(kept))
             /\ Len(kept) + told.purged = n
             /\ IsSuffix(told.test, rows)
             /\ \A row \in fitted, late \in ToSet(told.test) :
                   row.label # {} /\ \A at \in LabelledBy(Even(n), row, horizon) : at < late.at
             /\ \A row \in ToSet(rows) : row.label = {} <=> row.at > n - horizon
    /\ LET told == PS!SplitByTime(Rows(Even(12), 2), <<1, 2>>, <<1, 4>>, 1)
       IN told.validation[1].at <= 8 /\ \E row \in ToSet(told.train) : LabelledBy(Even(12), row, 2) = {8}
    /\ LET times == <<1, 2, 4, 5>>
           told == PS!SplitByTime(Rows(times, 1), <<1, 4>>, <<1, 4>>, 1)
       IN \E row \in ToSet(told.validation) : LabelledBy(times, row, 1) = {4} /\ told.test[1].at = 4

(* A matrix leaves out what has no label, or takes it for a fall. *)
ASSUME AnUnknownLabelIsAFall ==
    \A n \in 0..6, horizon \in 1..2 :
        LET rows == Rows(Even(n), horizon)
            known == PS!ToMatrix(rows, TRUE)
            all == PS!ToMatrix(rows, FALSE)
        IN /\ Len(known.y) = IF n > horizon THEN n - horizon ELSE 0
           /\ Len(all.x) = n /\ IsPrefix(known.y, all.y) /\ IsPrefix(known.x, all.x)
           /\ \A k \in Len(known.y) + 1..n : all.y[k] = 0
           \* A close that stands still is not a rise.
           /\ \A k \in DOMAIN known.y : known.y[k] = 1 <=> horizon = 1 /\ k % 2 = 0

-------------------------------------------------------------------------------
(* The instruments a rule is judged with. *)

(* The confidences that are collected are of bars that said long and whose later bar is
   there: with one candle more there may be one more of them, and those before stay. *)
ASSUME ConfidencesAreOfThePast ==
    \A candles \in FewPaths, forward \in 1..2 :
        LET stamped == [i \in 1..7 |-> candles[i] @@ [timestamp |-> i]]
            before == PS!CollectConfidences("volatility-trend", SubSeq(stamped, 1, 6), forward)
            after == PS!CollectConfidences("volatility-trend", stamped, forward)
            \* A bar that is told of again is not collected where it first was.
            again == PS!CollectConfidences("volatility-trend",
                         [stamped EXCEPT ![7].timestamp = 7 - forward], forward)
        IN /\ IsPrefix(before, after) /\ Len(after) <= Len(before) + 1
           /\ again = before
           /\ \A k \in DOMAIN after : PS!Below(after[k].confidence, PS!Whole(1))

(* A curve rises when the shares above are higher than those below; the bin in the middle
   of three is of neither.  Of one bin alone everything is above and nothing below, so that
   it is said to be measured, and flat. *)
LOCAL Confidences == [confidence : {<<1, 6>>, <<1, 2>>, <<1, 1>>}, forward : {<<-1, 2>>, <<1, 2>>}]
ASSUME TheMiddleIsNotCompared ==
    \A rows \in UNION {[1..n -> Confidences] : n \in 0..4} :
        LET told == PS!ConfidenceCurve(rows)
            claims == {rows[k].confidence : k \in DOMAIN rows}
            Above == SelectSeq(rows, LAMBDA r : r.confidence = <<1, 1>>)
            Flipped == [k \in DOMAIN rows |-> IF rows[k].confidence = <<1, 2>>
                         THEN [rows[k] EXCEPT !.forward = <<1, 2>>] ELSE rows[k]]
        IN /\ Cardinality(claims) = 3 => /\ told.verdict = PS!ConfidenceCurve(Flipped).verdict
                                         /\ told.topHalfBars = Len(Above)
           /\ Cardinality(claims) = 1 => told.topHalfBars = Len(rows) /\ told.verdict # "monotone"
           /\ told.verdict = "monotone" => \E k \in DOMAIN rows : /\ rows[k].forward[1] > 0
                                                                  /\ rows[k].confidence # <<1, 6>>
           /\ told.measurable <=> told.verdict # "too-few-bars"

(* A signal that knows the future is told from chance; it need not be the one that is told
   best, since a signal of the heaviest losses may be further from the rest.  No p is zero,
   and a signal and its opposite have the same one when the shuffle is as thorough for
   both.  Of returns over one bar the last bar alone has none, not the last two. *)
LOCAL Closings == [1..5 -> 1..3]
LOCAL Shuffles(n) == SetToSeq({d \in SUBSET (1..4) : Cardinality(d) = n})
ASSUME TheFutureIsSeen ==
    /\ \A closes \in Closings :
          LET forward == PS!ForwardReturns(closes, 1)
              future == PS!FutureSignal(forward)
              fired == {k \in 1..4 : future[k]}
              told == PS!PermutationPValue(forward, future, Shuffles(Cardinality(fired)))
              Opposite == [k \in 1..5 |-> ~future[k]]
              Wrong(d) == PS!The(PS!PermutationPValue(forward, [k \in 1..5 |-> k \in d],
                                                      Shuffles(Cardinality(fired)))).difference
          IN /\ {k \in 1..5 : forward[k] = {}} = {5}
             /\ told = {} <=> fired \in {{}, 1..4}
             /\ told # {} =>
                   /\ PS!The(told).p[1] > 0 /\ ~PS!Below(PS!Whole(1), PS!The(told).p)
                   /\ PS!The(told).p = PS!The(PS!PermutationPValue(forward, Opposite, Shuffles(4 - Cardinality(fired)))).p
                   /\ \A d \in ToSet(Shuffles(Cardinality(fired))) :
                         ~PS!Below(PS!The(told).difference, Wrong(d))
    /\ PS!PermutationPValue(<<{<<1, 1>>}>>, <<TRUE, FALSE>>, << >>) = {}
    /\ LET Of(draws) == PS!PermutationPValue(<<{<<1, 1>>}, {<<0, 1>>}, {<<1, 2>>}>>, <<TRUE, FALSE, TRUE>>, draws)
       IN /\ Of(<< >>) = {[p |-> PS!Whole(1), difference |-> <<3, 4>>]}
          /\ Of(<<{2, 3}>>) = {[p |-> PS!Whole(1), difference |-> <<3, 4>>]}
          /\ Of(<<{1, 2}, {1, 2}>>) = {[p |-> <<1, 3>>, difference |-> <<3, 4>>]}

(* A coin that may not be thrown on the first bars it is shown is not thrown on the first
   bars of every window, but of the whole series only on its very first: where there are
   several windows the exposure it is matched by is more than that it is judged in. *)
ASSUME TheCoinIsQuietInEveryWindow ==
    \A quiet \in 0..4, folds \in 1..3, more \in 0..2 :
        LET profile == PS!CoinProfile(4 * folds + more, 4, [k \in 1..40 |-> 1], quiet)
        IN /\ profile.traded = PS!Ratio(IF quiet = 0 THEN 3 ELSE 4 - quiet, 3)
           /\ quiet \in 2..4 /\ folds > 1 => PS!Below(profile.traded, profile.exposure)
           /\ quiet = 4 => profile.traded = PS!Whole(0)

(* The share of windows that a coin must gain in decides nothing, since it must gain in all
   of them.  Better rules do no worse among coins; but where no coin that trades as much is
   as good the p is zero, and one coin is enough to be significant. *)
ASSUME OneCoinIsEnough ==
    LET Of(share, exposure) == [share |-> share, exposure |-> exposure]
        Coins == UNION {[1..n -> {Of(<<s, 2>>, <<e, 10>>) : s \in 0..2, e \in {1, 4}}] : n \in 0..2}
        Compared(share, coins) == PS!CompareAgainstCoins(Of(<<share, 2>>, <<1, 10>>), coins, <<1, 10>>, <<1, 20>>)
    IN /\ \A coins \in Coins : /\ ~PS!Below(Compared(1, coins).p, Compared(2, coins).p)
                               /\ Compared(1, coins).significant <=>
                                     /\ \E k \in DOMAIN coins : coins[k].exposure = <<1, 10>>
                                     /\ \A k \in DOMAIN coins : coins[k].exposure = <<1, 10>> => coins[k].share[1] = 0
       /\ Compared(2, <<Of(<<0, 2>>, <<1, 10>>)>>) = [matched |-> 1, p |-> PS!Whole(0), significant |-> TRUE]
       /\ \A seconds \in [1..3 -> 1..3], low \in Halves, high \in Halves :
             LET walk == SB!WalkForwardStrategy("buy-and-hold", Windows(seconds), 3, low, Free)
             IN PS!PassRate(<<walk>>, low) = PS!PassRate(<<walk>>, high)
-------------------------------------------------------------------------------
LOCAL SL == INSTANCE SourceLayers WITH HealthRegistry <- 9

LOCAL File(name, layer) == [name |-> name, layer |-> layer, repository |-> FALSE]
LOCAL Imports(files) == {[from |-> f, to |-> g] : f, g \in files}
LOCAL GoesRound(nodes, Leads(_, _)) ==
    \E S \in SUBSET nodes \ {{}} : \A f \in S : \E g \in S : Leads(f, g)
LOCAL Cyclic(edges) ==
    GoesRound({e.from : e \in edges}, LAMBDA f, g : [from |-> f, to |-> g] \in edges)
LOCAL InSomeOrder(edges) == FoldSet(LAMBDA e, s : Append(s, e), << >>, edges)
LOCAL TwoLayers == {File(1, "config"), File(2, "config"), File(3, "instruments")}
LOCAL Graphs ==
    SUBSET Imports(TwoLayers)
      \cup kSubset(3, Imports({File(1, "db"), File(2, "db"), File(3, "db"), File(4, "api")}))

(* A cycle is shown exactly where the edges of its kind have one, and what is shown is
   one: its edges are imports, they lead round its files, and no file comes twice. *)
ASSUME ACycleIsShown ==
    \A edges \in Graphs, internal \in BOOLEAN :
        LET kind == {e \in edges : SL!Internal(e) = internal}
            cycle == SL!FindCycle(InSomeOrder(edges), internal)
            n == Len(cycle.edges)
        IN /\ (n > 0) = Cyclic(kind)
           /\ Len(cycle.files) = n /\ Cardinality(ToSet(cycle.files)) = n
           /\ \A i \in 1..n : /\ cycle.edges[i] \in kind
                              /\ cycle.edges[i].from = cycle.files[i]
                              /\ cycle.edges[i].to = cycle.files[(i % n) + 1]

(* The imports may go round, all of them permitted, where neither search shows it: a
   cycle that leaves a layer and returns by another file of it. *)
ASSUME MixedCyclesAreMissed ==
    \E edges \in Graphs :
        LET summary == SL!Summarise(InSomeOrder(edges))
        IN /\ Cyclic(edges) /\ summary.violations = << >>
           /\ summary.cycle = SL!NoCycle /\ summary.internalCycle = SL!NoCycle

(* Beside the leaves everyone may import, the table puts the layers that decide in an
   order; no chain of permitted imports leads from them to a layer that composes, and
   a layer without a row may import the leaves only.  The leaves themselves may go
   round: the database and the counters may import each other. *)
ASSUME TheTableIsAnOrder ==
    LET core == SL!Declared \ SL!Composition IN
    /\ ~GoesRound(core \ SL!Universal, LAMBDA a, b : a # b /\ SL!Permits(a, b))
    /\ \A a \in core : {b \in SL!Declared \cup SL!EntryPoints : SL!Permits(a, b)} \subseteq core
    /\ \A a \in SL!UnplacedCore, b \in SL!Declared : SL!Permits(a, b) => b \in SL!Universal
    /\ SL!Permits("db", "observability") /\ SL!Permits("observability", "db")

(* What the layers send is what they receive, by layer and in all, and it is the edges
   that are not internal; what is reported of a layer is said of no composing one. *)
ASSUME WhatLeavesArrives ==
    \A edges \in kSubset(3, Imports({File(1, "db"), File(2, "api"), File(3, "lifecycle"), File(4, "nowhere")})) :
        LET summary == SL!Summarise(InSomeOrder(edges))
            RowOf(layer) == CHOOSE row \in summary.byLayer : row.layer = layer
            layers == {row.layer : row \in summary.byLayer}
            All(Of(_)) == FoldSet(LAMBDA layer, sum : sum + Of(RowOf(layer)), 0, layers)
        IN /\ All(LAMBDA row : row.in) = summary.edges - summary.internal
           /\ All(LAMBDA row : row.out) = summary.edges - summary.internal
           /\ \A a, b \in layers : b \in DOMAIN RowOf(a).outTo =>
                 RowOf(a).outTo[b] = RowOf(b).inFrom[a] /\ RowOf(a).out > 0
           /\ \A a \in layers : /\ RowOf(a).out = FoldFunction(+, 0, RowOf(a).outTo)
                                /\ RowOf(a).in = FoldFunction(+, 0, RowOf(a).inFrom)
           /\ \A row \in summary.unreachable : row.layer \notin {"api"} /\ row.out > 0
           /\ \A i \in DOMAIN summary.violations :
                 /\ ~SL!Internal(summary.violations[i])
                 /\ SL!ViolationKind(summary.violations[i]) = "forbidden-layer"
                        <=> summary.violations[i].from.layer = "db"
                              /\ summary.violations[i].to.layer = "api"
           /\ summary.unplaced \subseteq {"nowhere"}

LOCAL Specifiers == {<< >>, <<1>>, <<2, 3>>, <<7>>, <<7, 3>>}

(* An import of a file of the tree is an edge to the first of its paths that exists,
   one of a package or of nothing is none; the edges come in the order of the files. *)
ASSUME EdgesAreImports ==
    \A first, third \in {<<a>> : a \in Specifiers} \cup {<<a, b>> : a, b \in Specifiers} :
        LET files == <<File(1, "db"), File(2, "db"), File(3, "api")>>
            edges == SL!BuildGraph(files, <<first, << >>, third>>)
            Reaches(p) == p \notin {<< >>, <<7>>}
        IN /\ Len(edges) = Cardinality({i \in DOMAIN first : Reaches(first[i])})
                            + Cardinality({i \in DOMAIN third : Reaches(third[i])})
           /\ \A i, j \in DOMAIN edges : i < j => edges[i].from.name <= edges[j].from.name
           /\ \A i \in DOMAIN edges :
                 LET of == IF edges[i].from.name = 1 THEN first ELSE third
                 IN \E k \in DOMAIN of : /\ Reaches(of[k])
                                           /\ edges[i].to.name = Head(SelectSeq(of[k], LAMBDA p : p < 7))

LOCAL Forms == {"named", "default", "beside names", "namespace", "again", "at run time"}

(* The two programs draw the line to the database in different places: the graph by
   the layer of a file, whatever the form of its import; the lint by the name that is
   imported, in two of the forms.  A repository passes both; a file of a layer that
   declares the database passes both if it imports the pool by another form.  Of the layers, the
   database is the only one that a repository may import beyond its own layer's. *)
ASSUME TheTwoLintsDiffer ==
    \A layer \in {"market", "signals", "services", "db"}, repository \in BOOLEAN, form \in Forms,
       exported, local \in {"query", "other"} :
        LET file == [name |-> 1, layer |-> layer, repository |-> repository]
            import == [form |-> form, layer |-> "db", exported |-> exported, local |-> local]
            audit == SL!LintAudit({file}, [f \in {file} |-> {import}])
            graph == SL!Violations(<<[from |-> file, to |-> File(2, "db")]>>) # << >>
            lint == audit.offences # {}
        IN /\ graph = (layer = "signals" /\ ~repository)
           /\ lint = /\ layer # "db" /\ ~repository
                     /\ \/ form = "named" /\ exported = "query"
                        \/ form = "default" /\ local = "query"
           /\ repository => ~graph /\ ~lint
           /\ \A to \in SL!Declared \ {"db"} : SL!PermitsFile(file, File(2, to)) = SL!Permits(layer, to)

(* The line of an offset is one more than the line breaks before it. *)
ASSUME LinesAreCounted ==
    \A n \in 0..6 : \A text \in [1..n -> {"x", "newline"}] : \A offset \in 0..n :
        SL!LineAt(SL!LineStarts(text), offset)
            = 1 + Cardinality({i \in 1..offset : text[i] = "newline"})

LOCAL SourceNode == [is : {"literal", "declaration", "comment", "template"}, market : BOOLEAN, line : {3, 5}]

(* Every mention of a market is documented, configured or a violation, and only one of
   these; a file of an exempt layer has none of the last, and any other none of the
   second; a comment is never a decision. *)
ASSUME MentionsAreToldApart ==
    \A a, b \in SourceNode, layer \in {"config", "market"} :
        LET report == SL!MarketAudit(<<File(1, layer), File(2, "market")>>, <<<<a, b>>, <<a>>>>)
            Mentions(n) == n.market /\ n.is # "template"
        IN /\ Len(report.occurrences) = report.documented + report.configured + Len(report.violations)
           /\ layer = "market" => report.configured = 0
           /\ \A i \in DOMAIN report.violations :
                 report.violations[i].file.layer = "market" /\ report.violations[i].kind = "code"
           /\ Len(report.occurrences) = Cardinality({i \in 1..3 : Mentions(<<a, b, a>>[i])})
           /\ \A i, j \in DOMAIN report.occurrences :
                 i < j /\ report.occurrences[i].file = report.occurrences[j].file
                    => report.occurrences[i].line <= report.occurrences[j].line
===============================================================================
