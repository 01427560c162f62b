------------------------------ MODULE WalkForward ------------------------------
(***************************************************************************)
(* The walk-forward run of backtest/: how walk-forward.plan.ts cuts a      *)
(* series into windows and audits a plan, and how walk-forward.ts          *)
(* simulates a range, fits parameters on the head of a training window,    *)
(* judges them on its tail and trades them on the bars after it.           *)
(*                                                                         *)
(* A bar is its index.  What an indicator said of it, with each parameter  *)
(* pair of the grid, and what a trade that enters there would have         *)
(* returned are the input.  An equity curve is written down as the trades  *)
(* whose return it has realised and the one it marks to market.            *)
(***************************************************************************)
EXTENDS Integers, Sequences, FiniteSets

Larger(a, b) == IF a > b THEN a ELSE b
Smaller(a, b) == IF a < b THEN a ELSE b

Window(first, last) == [start |-> first, end |-> last]
Bars(window) == window.start..window.end
Length(window) == window.end - window.start + 1

-------------------------------------------------------------------------------
(* The options: `warmup` bars no window may touch (requiredCandleCount),
   foldBars, trainingBars, maxFolds, and the validation ratio p/q.  n is the
   number of candles. *)

WarmUp(o) == Window(0, o.warmup - 1)

PossibleFolds(n, o) == (n - o.warmup - o.trainingBars) \div o.foldBars
FoldCount(n, o) == Smaller(PossibleFolds(n, o), o.maxFolds)

(* The windows of a fold, counted from the newest bar backward. *)
TestWindow(n, o, offset) ==
    LET end == n - 1 - offset * o.foldBars IN Window(end - o.foldBars + 1, end)

TrainingSpan(n, o, offset) ==
    LET end == TestWindow(n, o, offset).start - 1
    IN Window(Larger(o.warmup, end - o.trainingBars + 1), end)

ValidationStart(span, ratio) ==
    span.end - Larger(1, (Length(span) * ratio[1]) \div ratio[2]) + 1

Leading(span, ratio) == Window(span.start, ValidationStart(span, ratio) - 1)
Trailing(span, ratio) == Window(ValidationStart(span, ratio), span.end)

(* The loop over the offsets goes on while a fold has room. *)
HasRoom(n, o, offset) ==
    /\ TestWindow(n, o, offset).start >= o.warmup
    /\ Length(TrainingSpan(n, o, offset)) >= 1

Offsets(n, o) ==
    {k \in 0..FoldCount(n, o) - 1 : \A i \in 0..k : HasRoom(n, o, i)}

PlannedFold(n, o, offset) ==
    LET span == TrainingSpan(n, o, offset) IN
    [fold |-> FoldCount(n, o) - offset,
     train |-> Leading(span, o.ratio), validate |-> Trailing(span, o.ratio),
     test |-> TestWindow(n, o, offset)]

(* Oldest fold first: folds.reverse(). *)
BuildWalkForwardPlan(n, o) ==
    LET taken == Cardinality(Offsets(n, o)) IN
    [warmup |-> WarmUp(o),
     folds |-> [i \in 1..taken |-> PlannedFold(n, o, taken - i)],
     skipped |-> Larger(0, PossibleFolds(n, o) - FoldCount(n, o))]

(* overlaps: by the ends alone, empty windows too. *)
Overlaps(left, right) == left.start <= right.end /\ right.start <= left.end

Parts == {"train", "validate", "test"}

(* auditWalkForwardPlan *)
Audit(plan, n) ==
    UNION {LET fold == plan.folds[i] IN
             {<<fold.fold, "validation_misplaced">> : p \in {p \in Parts : Length(fold[p]) < 1}}
        \cup {<<fold.fold, "window_in_warmup">> : p \in {p \in Parts : Overlaps(fold[p], plan.warmup)}}
        \cup {<<fold.fold, "window_past_data">> : p \in {p \in Parts : fold[p].end > n - 1}}
        \cup {<<fold.fold, "windows_overlap">> :
                pq \in {pq \in Parts \X Parts : pq[1] # pq[2] /\ Overlaps(fold[pq[1]], fold[pq[2]])}}
        \cup {<<fold.fold, "test_overlaps_training">> :
                p \in {p \in {"train"} : fold.test.start <= fold[p].end}}
        : i \in DOMAIN plan.folds}

(* A score is the mean return of some trades, kept as their number and sum;
   there is none where there was no trade. *)
Measured(score) == score.trades > 0
AtLeastAsGood(a, b, tolerance) ==
    a.sum * b.trades >= (b.sum - tolerance * b.trades) * a.trades
Better(a, b) == ~AtLeastAsGood(b, a, 0)

(* judgeFold *)
Accepted(training, validation, tolerance) ==
    /\ Measured(training) /\ Measured(validation)
    /\ AtLeastAsGood(validation, training, tolerance)

-------------------------------------------------------------------------------
(* simulateRange: a trade enters at the open after its signal and leaves
   `hold` bars later; the next signal is looked at from its exit on. *)

Directed(signal) == signal \in {"LONG", "SHORT"}

Trade(bar, direction, hold) ==
    [entry |-> bar + 1, exit |-> bar + 1 + hold, direction |-> direction]

FlatFrom(trades, start) == IF trades = << >> THEN start ELSE trades[Len(trades)].exit

Simulate(signals, n, window, hold) ==
    LET after[bar \in window.start - 1..window.end] ==
            IF bar < window.start THEN << >>
            ELSE LET before == after[bar - 1] IN
                 IF /\ Directed(signals[bar])
                    /\ bar >= FlatFrom(before, window.start)
                    /\ bar <= window.end - 1 - hold
                    /\ bar + 1 + hold < n
                 THEN Append(before, Trade(bar, signals[bar], hold)) ELSE before
    IN after[Larger(window.end, window.start - 1)]

Mix(signals, window) ==
    [s \in {"LONG", "SHORT", "NEUTRAL"} |-> Cardinality({b \in Bars(window) : signals[b] = s})]

(* buildEquityCurve: at each bar, the trades realised by then and the open one.
   A trade is closed before the next one of the list may open. *)
NoTrade == [entry |-> -1, exit |-> -1, direction |-> "NEUTRAL"]

EquityCurve(trades, window) ==
    LET at[bar \in window.start - 1..window.end] ==
            IF bar < window.start
            THEN [realised |-> << >>, open |-> NoTrade, cursor |-> 1]
            ELSE LET before == at[bar - 1]
                     closes == before.open # NoTrade /\ before.open.exit = bar
                     opens == before.cursor <= Len(trades) /\ trades[before.cursor].entry = bar
                 IN [realised |-> IF closes THEN Append(before.realised, before.open)
                                            ELSE before.realised,
                     open |-> IF opens THEN trades[before.cursor]
                              ELSE IF closes THEN NoTrade ELSE before.open,
                     cursor |-> IF opens THEN before.cursor + 1 ELSE before.cursor]
    IN [bar \in Bars(window) |-> at[bar]]

-------------------------------------------------------------------------------
(* An input: `signals[g]` what pair g of the grid says of each bar, `shipped`
   the pair in force, `net[direction]` the return of a trade by its entry, and
   the numbers of candles and of pairs. *)

Expectancy(trades, net) ==
    LET sum[i \in 0..Len(trades)] ==
            IF i = 0 THEN 0 ELSE sum[i - 1] + net[trades[i].direction][trades[i].entry]
    IN [trades |-> Len(trades), sum |-> sum[Len(trades)]]

Unmeasured == [trades |-> 0, sum |-> 0]

Scored(input, o, g, window) ==
    Expectancy(Simulate(input.signals[g], input.candles, window, o.hold), input.net)

(* The first of the best pairs on the head, judged on the rest. *)
FitThresholds(input, o, span) ==
    LET score(g) == Scored(input, o, g, Leading(span, o.ratio))
        measured == {g \in 1..input.pairs : Measured(score(g))}
        best == CHOOSE g \in measured : \A f \in measured :
                    ~Better(score(f), score(g)) /\ (f < g => Better(score(g), score(f)))
    IN IF measured = {}
       THEN [pair |-> input.shipped, training |-> Unmeasured, validation |-> Unmeasured,
             train |-> span, validate |-> Window(span.end + 1, span.end)]
       ELSE [pair |-> best, training |-> score(best),
             validation |-> Scored(input, o, best, Trailing(span, o.ratio)),
             train |-> Leading(span, o.ratio), validate |-> Trailing(span, o.ratio)]

RunFold(input, o, offset) ==
    LET fit == FitThresholds(input, o, TrainingSpan(input.candles, o, offset))
        test == TestWindow(input.candles, o, offset)
        accepted == Accepted(fit.training, fit.validation, o.tolerance)
        pair == IF accepted THEN fit.pair ELSE input.shipped
    IN [fold |-> FoldCount(input.candles, o) - offset,
        train |-> fit.train, validate |-> fit.validate, test |-> test,
        pair |-> pair, accepted |-> accepted, fitted |-> accepted /\ pair # input.shipped,
        trades |-> Simulate(input.signals[pair], input.candles, test, o.hold),
        baseline |-> Simulate(input.signals[input.shipped], input.candles, test, o.hold)]

(* runWalkForward.  Too few candles give an empty result; what it concatenates
   is sorted by entry, which is the order of the folds. *)
RunWalkForward(input, o) ==
    LET n == input.candles
        taken == IF n < o.warmup + o.trainingBars + o.foldBars THEN 0
                 ELSE Cardinality(Offsets(n, o))
        folds == [i \in 1..taken |-> RunFold(input, o, taken - i)]
        joined[i \in 0..Len(folds)] ==
            IF i = 0 THEN << >> ELSE joined[i - 1] \o folds[i].trades
    IN [folds |-> folds, trades |-> joined[Len(folds)],
        evaluated |-> IF folds = << >> THEN Window(0, -1)
                      ELSE Window(folds[1].test.start, folds[Len(folds)].test.end)]

-------------------------------------------------------------------------------
(* randomEntryBenchmark: what one trial may take.  Each entry leaves room for
   the ones still needed. *)
RandomEntries(window, hold, count) ==
    LET room(i) == window.end - 1 - hold - (count - i) * (hold + 1)
        trials[i \in 0..count] ==
            IF i = 0 THEN {<< >>}
            ELSE UNION {IF Len(before) < i - 1 \/ room(i) < FlatFrom(before, window.start)
                        THEN {before}
                        ELSE {Append(before, Trade(bar, direction, hold)) :
                                bar \in FlatFrom(before, window.start)..room(i),
                                direction \in {"LONG", "SHORT"}}
                        : before \in trials[i - 1]}
    IN trials[count]
================================================================================
