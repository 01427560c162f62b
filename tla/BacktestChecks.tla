---------------------------- MODULE BacktestChecks -----------------------------
(* What WalkForward and BacktestEvidence compute, against what they are for: of every
   small plan, every signal of a short range, every small run of candles, trades, draws
   and grids. *)
EXTENDS Integers, Sequences, FiniteSets

LOCAL WF == INSTANCE WalkForward

LOCAL Options ==
    [warmup : 1..2, foldBars : 1..3, trainingBars : 0..5, maxFolds : 0..3,
     ratio : {<<0, 10>>, <<3, 10>>, <<9, 10>>}]

(* The windows of a plan: as many folds as asked for and available, whose tests
   are the newest bars, contiguous and of one length; each is trained on the
   `trainingBars` bars before its test and on nothing else.  The audit passes
   exactly the plans whose training windows have a bar on each side of the
   cut. *)
ASSUME PlanIsWhatItSays ==
    \A o \in Options, n \in 1..12 :
        LET plan == WF!BuildWalkForwardPlan(n, o)
            count == Len(plan.folds)
        IN /\ o.trainingBars >= 1 => count = WF!Larger(0, WF!FoldCount(n, o))
           /\ o.trainingBars = 0 => count = 0
           /\ \A i \in 1..count :
                 LET fold == plan.folds[i] IN
                 /\ WF!Bars(fold.test) =
                        n - (count - i + 1) * o.foldBars..n - (count - i) * o.foldBars - 1
                 /\ WF!Bars(fold.train) \cup WF!Bars(fold.validate) =
                        fold.test.start - o.trainingBars..fold.test.start - 1
                 /\ WF!Bars(fold.train) \cap WF!Bars(fold.validate) = {}
           /\ (WF!Audit(plan, n) = {}) <=> (count = 0 \/ o.trainingBars >= 2)

(* The audit finds every leak there is, and cries over nothing else, in any
   three windows somebody may have written down. *)
ASSUME AuditFindsEveryLeak ==
    LET ends == 0..5
        windows == {WF!Window(a, b) : a, b \in ends}
    IN \A train, validate, test \in windows :
        LET plan == [warmup |-> WF!Window(0, 0),
                     folds |-> <<[fold |-> 1, train |-> train, validate |-> validate,
                                  test |-> test]>>]
            all == {train, validate, test}
        IN (WF!Audit(plan, 5) = {}) <=>
               /\ \A w \in all : WF!Bars(w) # {} /\ WF!Bars(w) \subseteq 1..4
               /\ WF!Bars(train) \cap WF!Bars(validate) = {}
               /\ WF!Bars(validate) \cap WF!Bars(test) = {}
               /\ \A b \in WF!Bars(train), c \in WF!Bars(test) : b < c

LOCAL Said == {"LONG", "SHORT", "NEUTRAL"}
LOCAL Range == WF!Window(1, 6)

(* The trades of a range, whatever was said: each follows its own signal, lies
   inside the range and begins when the one before has ended; no signal that
   could be traded is passed over but those of a bar a trade still spans. *)
ASSUME TradesFollowTheirSignals ==
    \A signals \in [1..6 -> Said], hold \in 0..2 :
        LET trades == WF!Simulate(signals, 9, Range, hold)
            spanned(b) == \E i \in DOMAIN trades : trades[i].entry <= b /\ b < trades[i].exit
            signalled(b) == \E i \in DOMAIN trades : trades[i].entry = b + 1
        IN /\ \A i \in DOMAIN trades :
                 /\ trades[i].direction = signals[trades[i].entry - 1]
                 /\ trades[i].exit = trades[i].entry + hold /\ trades[i].exit <= 6
                 /\ i > 1 => trades[i - 1].exit < trades[i].entry
           /\ \A b \in 1..6 - 1 - hold :
                 signals[b] # "NEUTRAL" => signalled(b) \/ spanned(b)

(* The equity curve: a trade counts as open from its entry up to the bar before
   its exit and as realised from its exit on, each once, so the curve ends at
   the return of all trades.  Held for no bar at all, a trade is never
   realised: its entry opens it after the bar's exits have been looked for. *)
ASSUME CurveRealisesEveryTrade ==
    \A signals \in [1..6 -> Said], hold \in 0..2 :
        LET trades == WF!Simulate(signals, 9, Range, hold)
            curve == WF!EquityCurve(trades, Range)
            ended(b) == {i \in DOMAIN trades : trades[i].exit <= b}
        IN \A b \in 1..6 :
            IF hold = 0 THEN curve[b].realised = << >>
            ELSE /\ curve[b].realised = SubSeq(trades, 1, Cardinality(ended(b)))
                 /\ curve[b].open =
                       IF \E i \in DOMAIN trades : trades[i].entry <= b /\ b < trades[i].exit
                       THEN trades[Cardinality(ended(b)) + 1] ELSE WF!NoTrade

(* A family of inputs: each pair says LONG every few bars, in its own rhythm. *)
LOCAL Bar == 0..18
LOCAL Input(rhythm, gain, shipped) ==
    [candles |-> 19, pairs |-> 2, shipped |-> shipped,
     signals |-> [g \in 1..3 |-> [b \in Bar |->
        IF b % rhythm[g] = 0 THEN (IF b % 4 = 0 THEN "SHORT" ELSE "LONG") ELSE "NEUTRAL"]],
     net |-> [d \in {"LONG", "SHORT"} |-> [b \in 0..19 |->
        IF d = "LONG" THEN gain[b % 4] ELSE 0 - gain[b % 4]]]]
LOCAL Inputs ==
    {Input(rhythm, gain, shipped) : rhythm \in [1..3 -> {1, 2, 3}],
        gain \in [0..3 -> {-1, 1}], shipped \in {1, 3}}
LOCAL Run(hold) ==
    [warmup |-> 1, foldBars |-> 6, trainingBars |-> 6, maxFolds |-> 3,
     ratio |-> <<1, 2>>, hold |-> hold, tolerance |-> 0]

(* What an input says from a bar on, replaced by its opposite: signals of that
   bar and later, and returns of trades that end there or later. *)
LOCAL Turned(input, bar, hold) ==
    [input EXCEPT
        !.signals = [g \in 1..3 |-> [b \in Bar |->
            IF b < bar THEN input.signals[g][b]
            ELSE IF input.signals[g][b] = "LONG" THEN "NEUTRAL" ELSE "LONG"]],
        !.net = [d \in {"LONG", "SHORT"} |-> [b \in 0..19 |->
            IF b + hold < bar THEN input.net[d][b] ELSE 5 - input.net[d][b]]]]

(* A run trades on the windows its plan would name, and what a fold chooses is
   decided before its test begins: no signal and no return from there on, the
   test's own included, changes the pair it trades, and none of the tail of the
   training span changes what the head says of it.  An accepted pair earned
   most on the head of the training span and no less on its tail; without one
   the shipped pair is traded. *)
ASSUME NothingIsFittedOnItsTest ==
    \A input \in Inputs, hold \in {1} :
        LET o == Run(hold)
            plan == WF!BuildWalkForwardPlan(19, o)
            run == WF!RunWalkForward(input, o)
        IN /\ Len(run.folds) = Len(plan.folds)
           /\ \A i \in DOMAIN run.folds :
                 LET fold == run.folds[i]
                     other == WF!RunWalkForward(Turned(input, fold.test.start, hold), o).folds[i]
                     span == WF!TrainingSpan(19, o, Len(plan.folds) - i)
                     fit(in) == WF!FitThresholds(in, o, span)
                 IN /\ fit(Turned(input, WF!Trailing(span, o.ratio).start, hold)).training
                            = fit(input).training
                    /\ fold.test = plan.folds[i].test
                    /\ WF!Bars(fold.validate) # {} =>
                          fold.train = plan.folds[i].train /\ fold.validate = plan.folds[i].validate
                    /\ other.pair = fold.pair /\ other.accepted = fold.accepted
                    /\ fold.accepted =>
                          LET score(g, w) == WF!Scored(input, o, g, w) IN
                          /\ \A g \in 1..2 : WF!Measured(score(g, fold.train)) =>
                                WF!AtLeastAsGood(score(fold.pair, fold.train), score(g, fold.train), 0)
                          /\ WF!AtLeastAsGood(score(fold.pair, fold.validate),
                                               score(fold.pair, fold.train), 0)
                    /\ ~fold.accepted => fold.pair = input.shipped /\ fold.trades = fold.baseline
           /\ LET curve == WF!EquityCurve(run.trades, run.evaluated)
              IN curve[run.evaluated.end].realised = run.trades

(* The random benchmark takes as many trades as the strategy did, or none: the
   room it leaves for the ones still needed is never taken from them.  And what
   the strategy traded always fits. *)
ASSUME BenchmarkTradesAsMuch ==
    /\ \A count \in 1..3, hold \in 0..1 :
          \A trial \in WF!RandomEntries(Range, hold, count) :
             Len(trial) = IF count * (hold + 1) <= 5 THEN count ELSE 0
    /\ \A signals \in [1..6 -> {"LONG", "NEUTRAL"}], hold \in 0..1 :
          Len(WF!Simulate(signals, 9, Range, hold)) * (hold + 1) <= 5

--------------------------------------------------------------------------------
LOCAL BE == INSTANCE BacktestEvidence WITH
    Unit <- 10, CommittedAt <- 2, MinimumBars <- 2, MetricKeys <- {"return", "trades"}

LOCAL Upto(S, n) == UNION {[1..k -> S] : k \in 0..n}
LOCAL AtMost(p, q) == ~BE!Below(q, p)
LOCAL Permutations(n) == {f \in [1..n -> 1..n] : \A i, j \in 1..n : f[i] = f[j] => i = j}
LOCAL Members(s) == {s[i] : i \in DOMAIN s}

(* Costs in hundredths here, so that the second order shows. *)
LOCAL PX == INSTANCE BacktestEvidence WITH
    Unit <- 100, CommittedAt <- 0, MinimumBars <- 0, MetricKeys <- {}
LOCAL Candle == [open : {4, 6}, close : {4, 6}, high : {6, 7}, low : {3, 4}]
LOCAL Execution ==
    {c \in [maker : {0, 2, 11}, taker : {1, 3}, slippage : {0, 1}, spread : {0, 2},
            liquidity : {"maker", "taker"}, model : {"next_open", "next_close", "intrabar"}] :
        PX!ExecutionStands(c)}

(* A fill inside the bar is never better than one at its open or close; on a market that
   does not move a trade loses, and a long one no more than the round trip that is
   quoted for it, while a short one always loses more than that. *)
ASSUME WhatATradeCosts ==
    \A c \in Execution :
        LET flat == [open |-> 6, high |-> 6, low |-> 6, close |-> 6]
            Lost(direction) ==
                LET net == PX!PricedTrade(flat, flat, direction, c).net IN <<-net[1], net[2]>>
            quoted == <<PX!RoundTripCost(c), 100>>
        IN IF PX!FillCost(c) = 0 THEN Lost(1)[1] = 0 /\ Lost(-1)[1] = 0
           ELSE BE!Below(<<0, 1>>, Lost(1)) /\ BE!Below(Lost(1), quoted) /\ BE!Below(quoted, Lost(-1))

ASSUME InsideTheBarIsTheWorst ==
    \A c \in {e \in Execution : e.model = "intrabar"}, entry, exit \in Candle, d \in {1, -1} :
        LET Net(model) == PX!PricedTrade(entry, exit, d, [c EXCEPT !.model = model]).net
        IN \A model \in {"next_open", "next_close"} : AtMost(Net("intrabar"), Net(model))

(* A net return stays under the gross one when the fills were where the gross is read, at
   the open of the entry and the close of the exit, and always inside the bar; a model
   that fills both sides at the open may report more than its gross. *)
LOCAL ReadWhereFilled(c, entry, exit) ==
    CASE c.model = "next_open"  -> exit.open = exit.close
      [] c.model = "next_close" -> entry.open = entry.close
      [] c.model = "intrabar"   -> TRUE
ASSUME NetMayExceedGross ==
    /\ \A c \in Execution, entry, exit \in Candle, d \in {1, -1} :
          ReadWhereFilled(c, entry, exit) =>
              LET t == PX!PricedTrade(entry, exit, d, c)
              IN AtMost(t.net, t.gross) /\ (PX!FillCost(c) > 0 => BE!Below(t.net, t.gross))
    /\ \E c \in Execution, entry, exit \in Candle :
          LET t == PX!PricedTrade(entry, exit, 1, c)
          IN c.model = "next_open" /\ BE!Below(t.gross, t.net)

-------------------------------------------------------------------------------
LOCAL Curves == Upto({5, 8, 10, 12}, 5)
LOCAL Fall(e, i, j) == <<e[i] - e[j], e[i]>>
LOCAL Pairs(e) == {p \in (DOMAIN e) \X (DOMAIN e) : p[1] <= p[2]}

(* The depth is that of the deepest fall; the bars are those of a fall from a peak to a
   bar below every fall before it, the deepest or a longer one that was not. *)
ASSUME TheDeepestFall ==
    /\ \A e \in Curves :
          LET d == BE!Drawdown(e)
              deepest == {p \in Pairs(e) : \A q \in Pairs(e) : AtMost(Fall(e, q[1], q[2]), Fall(e, p[1], p[2]))}
              Record(p) == /\ \A i \in 1..p[1] : e[i] <= e[p[1]]
                           /\ \A q \in Pairs(e) : q[2] < p[2] => BE!Below(Fall(e, q[1], q[2]), Fall(e, p[1], p[2]))
          IN e # << >> =>
                /\ \A p \in deepest : AtMost(Fall(e, p[1], p[2]), d.depth) /\ AtMost(d.depth, Fall(e, p[1], p[2]))
                /\ d.bars = 0 => \A i \in 1..Len(e) - 1 : e[i] <= e[i + 1]
                /\ d.bars > 0 => \E p \in Pairs(e) : d.bars = p[2] - p[1] /\ Record(p)
    /\ \E e \in Curves : \A p \in Pairs(e) :
          BE!Drawdown(e).depth = Fall(e, p[1], p[2]) => BE!Drawdown(e).bars > p[2] - p[1]

LOCAL Trades == Upto([net : {-3, 0, 4}, entry : {1, 2}, exit : {2, 4}], 2)

(* Wins and losses add up to the trades; the average lies between the worst and the
   best; a profit factor exists only when something was lost; exposure is a share. *)
ASSUME MetricsAddUp ==
    \A trades \in Trades, e \in {<< >>, <<10, 12>>, <<10, 8, 9, 7>>, <<10, 10, 12>>} :
        LET m == BE!CalculateMetrics(trades, e)
            n == Len(trades)
            lost == \E i \in 1..n : trades[i].net < 0
            won == \E i \in 1..n : trades[i].net > 0
        IN IF n = 0 THEN m = BE!EmptyMetrics
           ELSE /\ m.exposure[1] \in 0..m.exposure[2] /\ (m.exposure[1] = 0) = (e = << >>)
                /\ (m.profitFactor = {}) = ~lost
                /\ m.averageTrade[1] =
                      m.averageWin[1] - m.averageLoss[1]
                /\ (m.largestWin > 0) = won /\ (m.largestLoss < 0) = lost
                /\ AtMost(m.averageWin, <<m.largestWin, 1>>)
                /\ AtMost(m.averageLoss, <<-m.largestLoss, 1>>)
                /\ m.winRate[1] + (IF lost THEN m.averageLoss[2] ELSE 0) <= n
                /\ LET b == BE!BenchmarkMetrics(trades, e) IN
                   b.totalReturn = m.totalReturn /\ b.maxDrawdown = m.maxDrawdown /\ b.sharpe = m.sharpe

(* A curve that never turns has no ratio of the other sign. *)
ASSUME TheSignFollowsTheCurve ==
    \A e \in Curves :
        LET rising == \A i \in 1..Len(e) - 1 : e[i] <= e[i + 1]
            falling == \A i \in 1..Len(e) - 1 : e[i] >= e[i + 1]
        IN /\ rising => BE!SharpeSign(e) >= 0
           /\ falling => BE!SharpeSign(e) <= 0
           /\ rising /\ Len(e) >= 3 /\ e[1] = e[2] /\ e[1] < e[Len(e)] => BE!SharpeSign(e) = 1

-------------------------------------------------------------------------------
(* A percentile moves up with its fraction, between the smallest and the largest. *)
ASSUME APercentileLiesBetween ==
    \A s \in {s \in Upto(-1..2, 4) : s # << >> /\ \A i \in 1..Len(s) - 1 : s[i] <= s[i + 1]} :
        LET At(k) == CHOOSE x \in BE!Percentile(s, <<k, 8>>) : TRUE
        IN /\ At(0) = <<8 * s[1], 8>> /\ At(8) = <<8 * s[Len(s)], 8>>
           /\ \A k \in 0..7 : AtMost(At(k), At(k + 1))
           /\ Len(s) % 2 = 1 => At(4) = <<8 * s[(Len(s) + 1) \div 2], 8>>

LOCAL Sums == [s \in [1..3 -> {-3, -2, 0, 2, 3}] |-> BE!Total(s)]
LOCAL Draws == {<<1, 1, 1>>, <<1, 2, 3>>, <<3, 3, 2>>, <<2, 1, 2>>}
(* The interval is ordered, inside what the draws can add up to, and turns over with the
   sign of the returns; nothing drawn below zero means a lower end that is not. *)
ASSUME TheIntervalIsOrdered ==
    \A values \in [1..3 -> {-2, 0, 3}], draws \in [1..3 -> Draws] :
        LET b == CHOOSE x \in BE!BootstrapStatistic(values, draws, Sums, <<1, 2>>) : TRUE
            low == CHOOSE x \in b.low : TRUE
            high == CHOOSE x \in b.high : TRUE
            turned == CHOOSE x \in BE!BootstrapStatistic([i \in 1..3 |-> -values[i]], draws, Sums, <<1, 2>>) : TRUE
        IN /\ AtMost(low, high) /\ b.statistic = BE!Total(values)
           /\ turned.low = {<<-high[1], high[2]>>}
           /\ \A v \in {low, high} : /\ AtMost(<<-6, 1>>, v) /\ AtMost(v, <<9, 1>>)
           /\ b.belowZero[1] = 0 => AtMost(<<0, 1>>, low)
           /\ b.belowZero[1] = 3 => BE!Below(high, <<0, 1>>)

LOCAL SwapsOf(n) == {w \in [1..n - 1 -> 1..n] : \A k \in 1..n - 1 : w[k] <= n + 1 - k}
(* Every choice of swaps is another permutation: none is lost and none comes twice. *)
ASSUME AShuffleIsAPermutation ==
    \A n \in 1..4 :
        LET s == [i \in 1..n |-> i]
            ends == {BE!Shuffle(s, w) : w \in SwapsOf(n)}
        IN ends = Permutations(n) /\ Cardinality(ends) = Cardinality(SwapsOf(n))

LOCAL Returns3 == [1..3 -> {-5, 0, 5}]
LOCAL Runs3 == Upto(SwapsOf(3), 2) \ {<< >>}
LOCAL FinalReturn == [values \in Returns3 |-> BE!PathOf(values).finalReturn]
LOCAL First == [values \in Returns3 |-> values[1]]

(* The order cannot be tested by what does not depend on it: of the total return every
   shuffle is as extreme as the observed order, the p-value is one, and the share of
   paths that ended worse than the real one is zero, whatever the luck of the order
   was.  A statistic that reads the order does tell. *)
ASSUME TheTotalKnowsNoOrder ==
    /\ \A values \in Returns3, runs \in Runs3 :
          LET total == CHOOSE p \in BE!PermutationTest(values, runs, FinalReturn, <<1, 2>>) : TRUE
              carlo == CHOOSE m \in BE!MonteCarlo(values, runs) : TRUE
              ordered == CHOOSE p \in BE!PermutationTest(values, runs, First, <<1, 2>>) : TRUE
              n == Len(runs) + 1
          IN /\ total.pValue = <<n, n>> /\ ~total.significant
             /\ carlo.orderIsLuck[1] = 0 /\ carlo.median.finalReturn = carlo.observed.finalReturn
             /\ ordered.pValue[1] \in 1..n
    /\ \E values \in Returns3, runs \in Runs3 :
          LET p == CHOOSE x \in BE!PermutationTest(values, runs, First, <<1, 2>>) : TRUE
              m == CHOOSE x \in BE!MonteCarlo(values, runs) : TRUE
          IN p.significant = FALSE /\ p.pValue[1] = 1
             /\ \E i \in DOMAIN m.outcomes : m.outcomes[i].maxDrawdown # m.observed.maxDrawdown

(* Of a path: it fell exactly when something was lost, its worst streak is the longest
   of losses only, and its longest time under water that below any level before it. *)
LOCAL Level(values, i) ==
    LET factor(k) == IF k > i THEN 2 ELSE (10 + values[k]) \div 5
        upTo[k \in 0..Len(values)] == IF k = 0 THEN 1 ELSE upTo[k - 1] * factor(k)
    IN upTo[Len(values)]
ASSUME APathIsItsReturns ==
    \A values \in Upto({-5, 0, 5}, 4) :
        LET p == BE!PathOf(values)
            lost == \E i \in DOMAIN values : values[i] < 0
            Under(i) == \E j \in 0..i - 1 : Level(values, j) > Level(values, i)
        IN /\ (p.worstStreak > 0) = lost /\ (p.maxDrawdown[1] > 0) = lost
           /\ \A k \in 1..Len(values) :
                 LET stretches == {i..i + k - 1 : i \in 1..Len(values) + 1 - k} IN
                 /\ (p.worstStreak >= k) <=> \E w \in stretches : \A j \in w : values[j] < 0
                 /\ (p.worstDrawdownRun >= k) <=> \E w \in stretches : \A j \in w : Under(j)

-------------------------------------------------------------------------------
LOCAL Specs == {s \in [min : {0, 5}, max : 5..12, step : {2, 5}, production : 0..12] : BE!SpecStands(s)}

(* The grid of a parameter holds what is shipped, ends where another step would pass the
   maximum, and has at least two values. *)
ASSUME TheGridHoldsTheShipped ==
    \A s \in Specs :
        LET g == BE!ParameterGrid(s) IN
        /\ s.production \in Members(g) /\ Len(g) >= 2
        /\ Members(g) \subseteq s.min..s.max /\ g[Len(g)] + s.step > s.max

LOCAL Axis(n, shipped) == [min |-> 0, max |-> n, step |-> 1, production |-> shipped]
LOCAL Two == <<Axis(1, 0), Axis(2, 1)>>

(* The whole grid has every combination once, in the order of the axes; a limit keeps
   its beginning, and with it only the low values of the first parameter. *)
ASSUME ALimitCutsTheFirstParameter ==
    \A limit \in 0..7 :
        LET all == BE!EnumerateGrid(Two, 100).candidates
            e == BE!EnumerateGrid(Two, limit)
            n == IF limit < 6 THEN limit ELSE 6
        IN /\ e.total = 6 /\ Len(e.candidates) = n
           /\ Members(all) = {<<a, b>> : a \in 0..1, b \in 0..2}
           /\ \A i \in 1..n : e.candidates[i] = all[i]
           /\ limit \in 1..3 => \A i \in 1..n : e.candidates[i][1] = 0

(* The folds of a window cover each of its bars once. *)
ASSUME FoldsCoverTheWindow ==
    \A first \in 0..2, last \in 0..6, size \in 0..4 :
        LET w == BE!ScoreWindows(first, last, size) IN
        \A bar \in 0..6 : Cardinality({k \in DOMAIN w : bar \in w[k].start..w[k].end})
                            = IF bar \in first..last THEN 1 ELSE 0

LOCAL Scores == {{}, {-2}, {0}, {2}, {4}}
LOCAL Line4 == <<Axis(3, 1)>>
LOCAL Found(told) ==
    BE!Optimize(Line4, 100, [c \in {<<0>>, <<1>>, <<2>>, <<3>>} |->
                                <<[trades |-> IF told[c[1] + 1] = {} THEN 0 ELSE 1,
                                   expectancy |-> told[c[1] + 1]]>>])
LOCAL Value(told, row) == CHOOSE x \in told[row.values[1] + 1] : TRUE

(* What was evaluated is ranked or inert; the best is the first in the grid of those no
   other beats.  A winner that loses is never a spike, for a neighbour that loses as
   much or more retains the whole of the loss; one without any trading neighbour is not
   judged; one that earns nothing beside neighbours that lose is a spike. *)
ASSUME TheBestAndItsNeighbours ==
    \A told \in [1..4 -> Scores] :
        LET r == Found(told)
            v == BE!DetectSpike(r, Line4, <<1, 2>>)
            traded == {i \in 1..4 : told[i] # {}}
            At(i) == CHOOSE x \in told[i] : TRUE
            best == CHOOSE i \in traded : \A j \in traded : At(j) < At(i) \/ (At(j) = At(i) /\ i <= j)
            beside == {i \in traded : i \in {best - 1, best + 1}}
        IN /\ r.inert + Len(r.ranked) = r.evaluated /\ r.inert = 4 - Cardinality(traded)
           /\ (r.best = {}) = (traded = {})
           /\ traded # {} =>
                /\ {w.values : w \in r.best} = {<<best - 1>>}
                /\ v.spike <=> /\ beside # {}
                               /\ At(best) >= 0
                               /\ \A i \in beside : IF At(best) = 0 THEN At(i) < 0 ELSE 2 * At(i) < At(best)
                /\ v.neighbours = Cardinality(beside)

(* One fold is stable by definition; more are when they agree. *)
ASSUME StableMeansAlike ==
    \A xs \in Upto({-1, 0, 2}, 3) :
        /\ BE!Variance(xs)[1] >= 0 /\ BE!Variance(xs)[2] > 0
        /\ (BE!Variance(xs)[1] = 0) <=> \A i, j \in DOMAIN xs : xs[i] = xs[j]

-------------------------------------------------------------------------------
LOCAL About == [name : {"n", "m"}, symbol : {"s"}, provider : {"p", "q"}, interval : {"1h"}]
LOCAL Bars == Upto({[timestamp |-> 1, close |-> 7], [timestamp |-> 2, close |-> 7],
                    [timestamp |-> 2, close |-> 8]}, 2)
LOCAL Recorded == {BE!DescribeDataset(a, b, at) : a \in About, b \in Bars, at \in {1, 2}}

(* Two records are of the same dataset when nothing but the name and the time they were
   written down differ; the candles may still be others over the same extent, which a
   snapshot cannot tell. *)
ASSUME TheExtentIsNotTheData ==
    /\ \A l, r \in Recorded :
          LET snapshot == [from |-> r.from, to |-> r.to, bars |-> r.bars] IN
          /\ BE!SameDataset(l, r) <=> BE!DiffDatasets(l, r) \subseteq {"name"}
          /\ BE!SameDataset(l, r) => BE!SameCandles(l, snapshot)
    /\ \E l, r \in Recorded :
          /\ BE!SameCandles(l, [from |-> r.from, to |-> r.to, bars |-> r.bars])
          /\ BE!DiffDatasets(l, r) = {"checksum"}

LOCAL Fold(score, accepted, first, last) ==
    [score |-> score, accepted |-> accepted, start |-> first, end |-> last]
LOCAL FoldSets == {<< >>, <<Fold({1}, TRUE, 1, 2)>>, <<Fold({}, TRUE, 1, 1)>>, <<Fold({}, FALSE, 1, 4)>>,
                   <<Fold({1}, TRUE, 1, 2), Fold({-1}, FALSE, 3, 4)>>}
LOCAL Manifest ==
    [dataset : {d \in Recorded : d.provider = "p" /\ d.bars <= 1 /\ d.to # 1}, execution : {"e"}, options : {"o"},
     parameters : {"x", "y"}, folds : FoldSets, commit : {{}, {"a"}, {"b"}},
     metrics : {[trades |-> 3, totalReturn |-> r] : r \in {-4, 5, 6, 7}}]

(* One identity, and yet a repetition may be refused: the verification compares also the
   name and the time of recording that the identity leaves out.  A repetition that is
   accepted has the identity. *)
ASSUME OneIdentityTwoVerdicts ==
    LET plain == {m \in Manifest : m.folds = << >> /\ m.commit = {}} IN
    /\ \A l, r \in plain :
          /\ BE!VerifyAgainst(l, r).match => BE!ExperimentId(l) = BE!ExperimentId(r)
          /\ BE!ExperimentId(l) = BE!ExperimentId(r) /\ l.dataset = r.dataset =>
                (BE!VerifyAgainst(l, r).match <=> BE!Abs(l.metrics.totalReturn - r.metrics.totalReturn) <= 1)
    /\ \E l, r \in plain :
          /\ BE!ExperimentId(l) = BE!ExperimentId(r) /\ l.metrics = r.metrics
          /\ BE!VerifyAgainst(l, r).differences = {"dataset"}

(* A run with one rejected fold is no longer replayable, however it was recorded; an
   unknown commit is no obstacle. *)
ASSUME ARejectedFoldCannotBeReplayed ==
    \A m \in {m \in Manifest : m.metrics.totalReturn = 5}, commit \in {{}, {"a"}} :
        BE!CheckReplayable(m, commit) = {} <=>
            /\ m.dataset.bars > 0 /\ m.folds # << >>
            /\ \A i \in DOMAIN m.folds : (m.folds[i].score # {}) = m.folds[i].accepted
            /\ {} \in {m.commit, commit} \/ m.commit = commit

LOCAL Compared == {m \in Manifest : m.commit = {} /\ m.parameters = "x" /\ m.dataset.bars = 1
                                      /\ m.dataset.name = "n" /\ m.dataset.recordedAt = 1 /\ m.metrics.totalReturn # 6
                                      /\ m.dataset.checksum[1].close = 7}
(* The comparison puts the worst return per evaluated bar first; it counts every run as
   reproducible, the one that nobody could repeat among them. *)
ASSUME TheWorstReturnComesFirst ==
    /\ \A l, r \in Compared :
          LET a == BE!Aggregate(<<l, r>>) IN
          /\ AtMost(a.rows[1].perBar, a.rows[2].perBar) /\ a.reproducible = 2
          /\ {a.rows[1].place, a.rows[2].place} = {1, 2}
          /\ a.profitable = Cardinality({i \in 1..2 : <<l, r>>[i].metrics.totalReturn > 0})
    /\ \E l, r \in Compared :
          /\ BE!CheckReplayable(l, {}) = {} /\ BE!CheckReplayable(r, {}) # {}
          /\ BE!Aggregate(<<l, r>>).rows[1].place = 1

-------------------------------------------------------------------------------
LOCAL BarOf(t) == [timestamp |-> t]
LOCAL Windows == {<< >>, <<BarOf(1)>>, <<BarOf(2)>>, <<BarOf(1), BarOf(3)>>, <<BarOf(3), BarOf(2)>>,
                  <<BarOf(2), BarOf(1), BarOf(4)>>}
LOCAL Protocols == [metrics : {<< >>, <<"return">>, <<"return", "trades">>, <<"trades", "return">>, <<"luck">>},
                    note : {<<"", "n">>, <<" ", "n">>, <<"", "m">>}]
LOCAL Verdicts == {<< >>, <<[key |-> "k", readings |-> [return |-> 1]]>>,
                   <<[key |-> "k", readings |-> [return |-> 1, trades |-> 2]]>>}
LOCAL Candidates == {<< >>, <<BE!RegisterForEvaluation("k", "old", 1)>>}
LOCAL Seal == [candles : Windows, protocol : Protocols, readings : Verdicts, candidates : Candidates]
LOCAL Evaluated(p) == BE!EvaluateProtocol(p, <<"k">>, [x \in {"k"} \X Members(p.metrics) |-> 1])

(* The window is read once: what is sealed first stays, whatever is tried after it.  What
   is sealed had its bars after the commitment and answers every question of its
   protocol; its count and its first bar are those of all candles it was given, and
   nobody asked whether the rule was still the registered one. *)
ASSUME SealedOnceAndInFull ==
    /\ \A one, two \in {i \in Seal : i.protocol.note = <<"", "n">> /\ Len(i.protocol.metrics) < 2} :
          LET first == BE!SealHoldoutVerdict({}, one) IN
          first # {} => BE!SealHoldoutVerdict(first, two) = first
    /\ \A i \in Seal : \A row \in BE!ReadSealedHoldoutVerdict(BE!SealHoldoutVerdict({}, i)) :
          /\ Cardinality({k \in DOMAIN i.candles : i.candles[k].timestamp >= 2}) >= 2
          /\ i.readings # << >>
          /\ \A k \in DOMAIN row.readings : Members(i.protocol.metrics) \subseteq DOMAIN row.readings[k].readings
          /\ row.barCount = Len(i.candles)
          /\ \A k \in DOMAIN i.candles : i.candles[k].timestamp \in row.window[1]..row.window[2]
    /\ \A p \in Protocols : LET v == Evaluated(p) IN
          BE!SealRefusal({}, [candles |-> <<BarOf(2), BarOf(3)>>, protocol |-> p, readings |-> v, candidates |-> << >>])
             = IF p.metrics = <<"luck">> THEN {"unknown metric"} ELSE {}
    /\ \E i \in Seal : \E row \in BE!SealHoldoutVerdict({}, i) :
          /\ row.window[1] < 2 /\ row.barCount > 2
          /\ \E e \in BE!EvaluateHoldout(BE!HoldoutStatus(i.candles, i.candidates), [k \in {"k"} |-> "new"]) :
                \E k \in DOMAIN e : e[k].changed

(* A question is the same in any order of its metrics and any blanks around its note. *)
ASSUME TheQuestionIsKept ==
    \A p, q \in Protocols :
        BE!ProtocolChanged(p, q) <=> \/ p.note[2] # q.note[2]
                                     \/ Members(p.metrics) # Members(q.metrics)
================================================================================
