------------------------------ MODULE CandleSeries ------------------------------
(***************************************************************************)
(* What is said of a series of candles before anything is computed from    *)
(* it: the clock of its bars (history/candle-clock.ts), the refusal of a   *)
(* malformed series (market/candle-validation.ts), its quality             *)
(* (history/data-quality.ts), the audit of a stored history                *)
(* (research/history-integrity.ts), and the daily bars made of hourly ones *)
(* (research/resample.ts, research/coverage-gap.ts).  Then the reads of    *)
(* what is stored, its inventory and what stands against relying on it     *)
(* (history/candle.repository.ts, history/historical-integrity.ts).        *)
(*                                                                         *)
(* A candle is a record of whole numbers, one of which is not finite.  A   *)
(* score and a move are fractions, <<numerator, denominator>>.             *)
(***************************************************************************)
EXTENDS Integers, Sequences, FiniteSets

LOCAL SE == INSTANCE SequencesExt

Least(S) == CHOOSE x \in S : \A y \in S : x <= y
Greatest(S) == CHOOSE x \in S : \A y \in S : y <= x
AtLeast(a, b) == a[1] * b[2] >= b[1] * a[2]

-------------------------------------------------------------------------------
(* The clock of bars that are `interval` long; a bar is named by its opening. *)

CandleCloseTime(interval, bar) == bar + interval
IsCandleClosed(interval, bar, now) == now >= CandleCloseTime(interval, bar)
ElapsedInBar(interval, now) == now % interval

NoBar == -1
FormingCandleTime(interval, now) ==
    IF ElapsedInBar(interval, now) = 0 THEN NoBar ELSE now - ElapsedInBar(interval, now)
LastClosedCandleTime(interval, now) == now - ElapsedInBar(interval, now) - interval
MsUntilNextClose(interval, now) == interval - (now % interval)

(* `second` is the shortest period there is. *)
IngestionPeriod(interval, cap, second) ==
    Greatest({second, Least({interval, cap, Greatest({1, interval \div 8})})})

-------------------------------------------------------------------------------
NotFinite == 1000000
Prices(c) == {c.open, c.high, c.low, c.close}

Malformed(c) ==
    IF \E x \in {c.at, c.volume} \cup Prices(c) : x = NotFinite THEN "not_finite"
    ELSE IF \E x \in Prices(c) \cup {c.volume} : x < 0 THEN "negative"
    ELSE IF c.high < c.low \/ \E x \in {c.open, c.close} : x > c.high \/ x < c.low
         THEN "ohlc_inconsistent"
    ELSE "none"

Follows(c, previous) ==
    IF c.at = previous.at THEN "duplicate"
    ELSE IF c.at < previous.at THEN "not_increasing" ELSE "none"

(* The checks of one bar, in their order. *)
BarIssue(candles, i, now) ==
    LET c == candles[i] IN
    IF Malformed(c) # "none" THEN Malformed(c)
    ELSE IF i > 1 /\ Follows(c, candles[i - 1]) # "none" THEN Follows(c, candles[i - 1])
    ELSE IF c.at > now THEN "from_the_future" ELSE "none"

(* findCandleContinuityIssue *)
HasGap(candles, interval) ==
    \E i \in 2..Len(candles) : candles[i].at - candles[i - 1].at >= 2 * interval

(* findCandleSeriesIssues, of a caller that gives an interval. *)
SeriesIssue(candles, now, most, interval, fresh) ==
    LET bad == {i \in DOMAIN candles : BarIssue(candles, i, now) # "none"} IN
    IF candles = << >> THEN "empty"
    ELSE IF Len(candles) > most THEN "too_many"
    ELSE IF bad # {} THEN BarIssue(candles, Least(bad), now)
    ELSE IF HasGap(candles, interval) THEN "has_gap"
    ELSE IF fresh /\ now - candles[Len(candles)].at > 2 * interval THEN "stale"
    ELSE "none"

(* assertCandleSeries and assertHistoricalCandleSeries throw otherwise. *)
LiveSeriesStands(candles, now, most, interval) ==
    SeriesIssue(candles, now, most, interval, TRUE) = "none"
HistorySeriesStands(candles, now, most, interval) ==
    SeriesIssue(candles, now, most, interval, FALSE) = "none"

-------------------------------------------------------------------------------
(* assessDataQuality *)

FreshnessScore(candles, now, interval) ==
    LET age == now - Greatest({candles[i].at : i \in DOMAIN candles}) IN
    IF candles = << >> \/ age > 2 * interval THEN <<0, 1>>
    ELSE IF age > interval THEN <<1, 2>> ELSE <<1, 1>>

CoverageScore(candles, required) == <<Least({Len(candles), required}), required>>

(* Math.abs of the distance: the order does not matter to this factor. *)
GapsScore(candles, interval) ==
    LET gaps == {i \in 2..Len(candles) :
                    \/ candles[i].at - candles[i - 1].at >= 2 * interval
                    \/ candles[i - 1].at - candles[i].at >= 2 * interval}
    IN IF Len(candles) < 2 \/ gaps # {} THEN <<0, 1>> ELSE <<1, 1>>

VenueScore(venue) ==
    CASE venue = "silent" -> <<0, 1>> [] venue = "fallback" -> <<4, 5>> [] OTHER -> <<1, 1>>

ValidationScore(candles, issues) ==
    LET bars == Greatest({1, Len(candles)}) IN <<Greatest({0, bars - issues}), bars>>

Factors == <<"freshness", "coverage", "gaps", "venue", "validation">>

(* The first of the worst; a snapshot that may not be used is a veto beside it. *)
AssessDataQuality(input) ==
    LET score == <<FreshnessScore(input.candles, input.now, input.interval),
                   CoverageScore(input.candles, input.required),
                   GapsScore(input.candles, input.interval),
                   VenueScore(input.venue),
                   ValidationScore(input.candles, input.issues)>>
        worst == Least({k \in 1..5 : \A j \in 1..5 : AtLeast(score[j], score[k])})
        usable == /\ AtLeast(score[worst], input.threshold)
                  /\ input.snapshot \in {"unknown", "fresh", "provider_failed"}
    IN [floor |-> score[worst], worst |-> Factors[worst], usable |-> usable,
        blockedBy |-> IF usable THEN "none" ELSE Factors[worst]]

-------------------------------------------------------------------------------
(* The audit of a stored history: nothing is from the future or stale there.
   `listed` bars off the grid are named at most. *)

Misaligned(candles, interval, listed) ==
    LET off == SelectSeq(candles, LAMBDA c : c.at % interval # 0)
    IN SubSeq(off, 1, Least({listed, Len(off)}))

(* The bars whose close is further than the threshold from the one before. *)
Move(candles, i) ==
    LET from == candles[i - 1].close
        to == candles[i].close
    IN <<IF to > from THEN to - from ELSE from - to, from>>

Outliers(candles, threshold) ==
    {i \in 2..Len(candles) :
        candles[i - 1].close > 0 /\ ~AtLeast(threshold, Move(candles, i))}

AuditCandleHistory(candles, interval, threshold, listed) ==
    [issue |-> SeriesIssue(candles, NotFinite, NotFinite, interval, FALSE),
     misaligned |-> Misaligned(candles, interval, listed),
     outliers |-> Outliers(candles, threshold)]

-------------------------------------------------------------------------------
(* Days of `day` hours that begin `offset` hours into the count. *)

StartOfDay(at, offset, day) == ((at - offset) \div day) * day + offset

Opened(c, start) == [at |-> start, open |-> c.open, high |-> c.high, low |-> c.low,
                     close |-> c.close, volume |-> 0]
Joined(current, c) ==
    [current EXCEPT !.high = Greatest({@, c.high}), !.low = Least({@, c.low}),
                    !.close = c.close, !.volume = @ + c.volume]

(* resampleToDaily, over hours in order: one pass that closes a day when the
   next one begins, and drops it if it has too few bars. *)
ResampleToDaily(hourly, offset, day, minimum) ==
    LET done(state) == IF state.bars >= minimum THEN Append(state.days, state.current)
                                                ELSE state.days
        after[i \in 1..Len(hourly)] ==
            LET c == hourly[i]
                start == StartOfDay(c.at, offset, day)
                fresh(days) == [days |-> days, current |-> Joined(Opened(c, start), c), bars |-> 1]
            IN IF i = 1 THEN fresh(<< >>)
               ELSE IF after[i - 1].current.at # start THEN fresh(done(after[i - 1]))
               ELSE [after[i - 1] EXCEPT !.current = Joined(@, c), !.bars = @ + 1]
    IN IF hourly = << >> THEN << >> ELSE done(after[Len(hourly)])

(* resampleWithCoverage: an hour belongs to a day here when it is not before it
   and less than a day and the offset after it. *)
ResampleWithCoverage(hourly, offset, day, minimum) ==
    LET complete == ResampleToDaily(hourly, offset, day, minimum)
        all == ResampleToDaily(hourly, offset, day, 0)
        kept == {complete[i].at : i \in DOMAIN complete}
        hours(start) == Cardinality({i \in DOMAIN hourly :
            hourly[i].at >= start /\ hourly[i].at < start + day + offset})
        left == SelectSeq(all, LAMBDA d : d.at \notin kept)
    IN [complete |-> complete, withPartial |-> all,
        dropped |-> [i \in DOMAIN left |-> [at |-> left[i].at, hours |-> hours(left[i].at)]]]

(* channelInflation: the channel before a bar, by its place in each series. *)
WidthOf(series, at, period) ==
    LET slice == {series[i] : i \in Greatest({1, at - period})..at - 1}
    IN Greatest({c.high : c \in slice}) - Least({c.low : c \in slice})

ChannelInflation(complete, withPartial, period) ==
    LET clean(i) == WidthOf(complete, i, period)
        windows == {i \in period + 1..Len(complete) : clean(i) > 0}
        inflation(i) == <<WidthOf(withPartial, i, period) - clean(i), clean(i)>>
    IN [windows |-> windows, inflation |-> [i \in windows |-> inflation(i)]]

-------------------------------------------------------------------------------
(* How a venue's history is read (market/providers/).  A page is a set of the   *)
(* openings of its bars; a time that was not given is Unbounded.                *)
(* A venue is [bars, whole, paged, heeds]: of a request without an end it gives  *)
(* `whole` bars at most, one with an end and a larger page than `paged` it       *)
(* answers with nothing, and one that does not heed the end gives its newest.    *)
(* The largest page that is asked for is `largest`, Bitget's cursor takes        *)
(* `small` ones and goes `margin` further than the bars it was asked for.        *)

Unbounded == 1000000
NewestOf(n, bars) == {b \in bars : Cardinality({c \in bars : c > b}) < n}
EndTimeBefore(before) == IF before = Unbounded THEN Unbounded ELSE before - 1

VenueRows(venue, limit, end) ==
    CASE end = Unbounded -> NewestOf(Least({limit, venue.whole}), venue.bars)
      [] end # Unbounded /\ limit > venue.paged -> {}
      [] end # Unbounded /\ limit <= venue.paged ->
            NewestOf(limit, {b \in venue.bars : venue.heeds => b <= end})

(* Binance tells the last moment of a bar, of Bitget's the next one is reckoned. *)
DropStillFormingCandles(rows, clock) == {b \in rows : b + clock.interval - 1 <= clock.now}
ToCandles(rows, clock) == {b \in rows : IsCandleClosed(clock.interval, b, clock.now)}

(* One page more, older than all that was seen; the walk is over when there is none. *)
NextPage(walk, page, horizon) ==
    IF page = {} \/ Least(page) >= walk.oldestSeen THEN [walk EXCEPT !.over = TRUE]
    ELSE [collected |-> walk.collected \cup {b \in page : b < walk.oldestSeen},
          oldestSeen |-> Least(page), over |-> Least(page) <= horizon]
(* `pages` gives the page that ends before a time. *)
WalkBack(start, pages, limit, horizon) ==
    LET walk[n \in 0..limit] ==
            IF n = 0 THEN start
            ELSE LET w == walk[n - 1] IN
                 IF w.over \/ Cardinality(w.collected) >= limit THEN w
                 ELSE NextPage(w, pages[w.oldestSeen], horizon)
    IN NewestOf(limit, walk[limit].collected)

BinanceHistory(venue, clock, limit, before, largest) ==
    LET FetchKlines(size, seen) ==
            DropStillFormingCandles(VenueRows(venue, size, EndTimeBefore(seen)), clock)
    IN IF limit <= largest THEN {b \in FetchKlines(limit, before) : b < before}
       ELSE WalkBack([collected |-> {}, oldestSeen |-> before, over |-> FALSE],
                     [seen \in Nat |-> FetchKlines(largest, seen)], limit, -Unbounded)

BitgetHistory(venue, clock, limit, before, largest, small, margin) ==
    LET FetchCandles(size, seen) == ToCandles(VenueRows(venue, size, EndTimeBefore(seen)), clock)
        first == {b \in FetchCandles(Least({limit, largest}), before) : b < before}
        horizon == (IF before = Unbounded THEN clock.now ELSE before) - limit * clock.interval - margin
    IN WalkBack([collected |-> first, oldestSeen |-> Least(first \cup {before}), over |-> FALSE],
                [seen \in Nat |-> FetchCandles(small, seen)], limit, horizon)

(* The mock ends with the bar before the forming one, whatever it was asked. *)
MockHistory(clock, limit) ==
    {clock.now - ElapsedInBar(clock.interval, clock.now) - k * clock.interval : k \in 1..limit - 1}

-------------------------------------------------------------------------------
(* Reads of one stored series (history/candle.repository.ts), a function from its bars to
   whether each is closed.  Only the bars a read returns are kept, not their order, which
   goes down below a bar and up otherwise. *)
OldestOf(n, bars) == {b \in bars : Cardinality({c \in bars : c < b}) < n}
Readable(table, closedOnly) == {b \in DOMAIN table : closedOnly => table[b]}
GetLatest(table, closedOnly) == NewestOf(1, Readable(table, closedOnly))
GetRange(table, from, to, closedOnly) == {b \in Readable(table, closedOnly) : from <= b /\ b <= to}
GetBefore(table, bar, limit, closedOnly) == NewestOf(limit, {b \in Readable(table, closedOnly) : b < bar})
GetAfter(table, bar, limit, closedOnly) == OldestOf(limit, {b \in Readable(table, closedOnly) : b > bar})
CountStored(table, closedOnly) == Cardinality(Readable(table, closedOnly))

(* The table's market_candles_ohlc_sane; the database orders NaN above every number. *)
TableTakes(c) ==
    /\ \A x \in Prices(c) : 0 < x /\ c.low <= x /\ x <= c.high
    /\ c.volume >= 0

(* The inventory of one stored series: candles that know whether they are closed and under
   which symbol their instrument is listed now.  Volumes are compared with their median,
   the mean of the middle two of an even number. *)
TwiceMedian(rows) ==
    LET sorted == SE!SetToSortSeq(rows, LAMBDA a, b : \/ a.volume < b.volume
                                                    \/ (a.volume = b.volume /\ a.at < b.at))
        n == Len(sorted)
    IN sorted[(n + 1) \div 2].volume + sorted[(n + 2) \div 2].volume

Inventory(series, rows) ==
    LET closed == {r \in rows : r.closed}
        Count(Test(_)) == Cardinality({r \in rows : Test(r)})
        Sound(r) == /\ \A x \in Prices(r) \cup {r.volume} : x # NotFinite
                    /\ \A x \in Prices(r) : 0 < x /\ r.low <= x /\ x <= r.high
                    /\ r.volume >= 0
        AfterGap(r) ==
            LET before == {p.at : p \in {q \in closed : q.at < r.at}}
            IN r.closed /\ before # {} /\ r.at - Greatest(before) > series.step
    IN [series |-> series, count |-> Cardinality(rows), closedCount |-> Cardinality(closed),
        oldest |-> OldestOf(1, {r.at : r \in closed}), newest |-> NewestOf(1, {r.at : r \in closed}),
        duplicateCount |-> Cardinality(rows) - Cardinality({r.at : r \in rows}),
        gapCount |-> Count(AfterGap),
        misalignedCount |-> Count(LAMBDA r : r.at % series.step # 0),
        identityMismatchCount |-> Count(LAMBDA r : r.listed # series.symbol),
        invalidCount |-> Count(LAMBDA r : ~Sound(r)),
        unknownProvenanceCount |-> Cardinality(rows),
        provenanceMismatchCount |-> IF series.provider \in {"", "failover"} THEN Cardinality(rows) ELSE 0,
        volumeAnomalyCount |-> Count(LAMBDA r : 2 * r.volume > 100 * TwiceMedian(rows) /\ r.volume > 0)]

(* history/historical-integrity.ts: what stands against a stored series that is to be
   relied on from one bar to another.  A window that is not closed yet is refused. *)
SupportedSeries(capabilities) ==
    UNION {[provider : {c.venue}, symbol : c.instruments, step : c.intervals] : c \in capabilities}

WindowStands(window) == window.from <= window.to /\ window.to < window.now

Counted ==
    [duplicate_timestamp |-> "duplicateCount", timestamp_gap |-> "gapCount",
     timestamp_misaligned |-> "misalignedCount", instrument_mismatch |-> "identityMismatchCount",
     provenance_unknown |-> "unknownProvenanceCount",
     provenance_mismatch |-> "provenanceMismatchCount", invalid_candle |-> "invalidCount"]

Blockers(key, inventory, window) ==
    LET oldest == Least(inventory.oldest)
        newest == Greatest(inventory.newest)
        wrong == [invalid_inventory |-> inventory.closedCount > inventory.count \/ oldest < 0 \/ oldest > newest,
                  series_mismatch |-> inventory.series # key,
                  coverage_incomplete |-> oldest > window.from \/ newest < window.to,
                  stale_series |-> window.now - newest > 2 * key.step,
                  future_closed_bar |-> newest + key.step > window.now]
    IN IF inventory.closedCount = 0 THEN {"empty_series"}
       ELSE {reason \in DOMAIN Counted : inventory[Counted[reason]] > 0}
              \cup {reason \in DOMAIN wrong : wrong[reason]}

EvaluateHistoricalIntegrity(key, inventory, window) ==
    LET blockers == Blockers(key, inventory, window)
    IN [activationAllowed |-> blockers = {}, blockers |-> blockers,
        warnings |-> IF inventory.closedCount > 0 /\ inventory.volumeAnomalyCount > 0
                     THEN {"volume_anomaly"} ELSE {}]
================================================================================
