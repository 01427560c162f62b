--------------------------- MODULE MarketDataChecks ----------------------------
(* What CandleSeries and MarketRegistry say of short series, small registries, tables,
   weeks and configurations. *)
EXTENDS Integers, Sequences, FiniteSets

LOCAL CS == INSTANCE CandleSeries

(* The last closed bar is closed and the one after it is not; that one is the
   forming bar, unless the clock stands on a boundary and there is none; and the
   next close is the close of whichever bar comes next.  A series is asked for
   not more often than the shortest period, and where there is time for it eight
   times a bar. *)
ASSUME TheClockAgrees ==
    /\ \A interval \in 1..4, now \in 0..12 :
          LET last == CS!LastClosedCandleTime(interval, now)
              forming == CS!FormingCandleTime(interval, now)
          IN /\ CS!IsCandleClosed(interval, last, now)
             /\ ~CS!IsCandleClosed(interval, last + interval, now)
             /\ forming \in {CS!NoBar, last + interval}
             /\ forming = CS!NoBar <=> now % interval = 0
             /\ now + CS!MsUntilNextClose(interval, now) = last + 2 * interval
    /\ \A interval \in 1..40, cap \in 1..6, second \in 1..3 :
          LET period == CS!IngestionPeriod(interval, cap, second) IN
          /\ period >= second
          /\ period > second => period <= cap /\ 8 * period <= interval

LOCAL Bar(at, price) == [at |-> at, open |-> price, high |-> price, low |-> price,
                         close |-> price, volume |-> 1]
LOCAL Shapes(at) ==
    {Bar(at, 1), Bar(at, 2), Bar(at, -1), [Bar(at, 2) EXCEPT !.low = 3],
     [Bar(at, 2) EXCEPT !.close = 3], [Bar(at, 2) EXCEPT !.low = CS!NotFinite],
     [Bar(at, 2) EXCEPT !.high = 3], [Bar(at, 2) EXCEPT !.volume = -1]}
LOCAL Interval == 2
LOCAL Now == 7
LOCAL Some == UNION {Shapes(at) : at \in {0, 2, 3, 4, 6, 8, CS!NotFinite}}
LOCAL Series == UNION {[1..k -> Some] : k \in 0..2}
                \cup [1..3 -> {Bar(at, 1) : at \in 0..Now}]

LOCAL Stands(series) == CS!LiveSeriesStands(series, Now, 3, Interval)

(* A series that is served has well-formed bars in order, none missing and the
   newest no older than two intervals; if it lies on the grid it is a run of
   consecutive bars.  Then the quality finds no gap in it and does not call it
   stale, and an audit of it as a history has nothing to say. *)
ASSUME ServedSeriesAreWhole ==
    \A series \in Series : Stands(series) =>
        /\ \A i \in DOMAIN series :
              /\ 0 <= series[i].low /\ series[i].low <= series[i].close
              /\ series[i].close <= series[i].high /\ series[i].high < CS!NotFinite
              /\ series[i].at <= Now
        /\ \A i, j \in DOMAIN series : i < j => series[i].at < series[j].at
        /\ Now - series[Len(series)].at <= 2 * Interval
        /\ CS!Misaligned(series, Interval, 5) = << >> =>
              \A i \in DOMAIN series : series[i].at = series[1].at + (i - 1) * Interval
        /\ Len(series) > 1 => CS!GapsScore(series, Interval) = <<1, 1>>
        /\ CS!FreshnessScore(series, Now, Interval) # <<0, 1>>
        /\ CS!AuditCandleHistory(series, Interval, <<1, 4>>, 5).issue = "none"

(* Served series in which every bar has closed, as a provider leaves them. *)
LOCAL Closed(at) == <<Bar(at - Interval, 1), Bar(at, 1)>>
LOCAL Quality(series, now) ==
    CS!AssessDataQuality([candles |-> series, now |-> now, interval |-> Interval, required |-> 2,
                          venue |-> "primary", issues |-> 0, threshold |-> <<3, 5>>,
                          snapshot |-> "unknown"])

(* Between two closes the newest closed bar opened more than an interval ago, so
   the freshness of a read without a forming bar is a half, and the read is not
   usable by the default threshold: it is so on the boundary alone. *)
ASSUME ClosedBarsAreHalfFresh ==
    \A now \in 4..12 :
        LET newest == CS!LastClosedCandleTime(Interval, now)
            quality == Quality(Closed(newest), now)
        IN /\ CS!LiveSeriesStands(Closed(newest), now, 3, Interval)
           /\ quality.usable <=> now % Interval = 0
           /\ ~quality.usable => quality.blockedBy = "freshness"

LOCAL Inputs ==
    [candles : {<< >>, <<Bar(6, 1)>>, Closed(2), Closed(4), Closed(6), <<Bar(6, 1), Bar(0, 1)>>},
     now : {Now}, interval : {Interval}, required : {1, 2, 4},
     venue : {"primary", "fallback", "silent"}, issues : 0..3, threshold : {<<3, 5>>, <<1, 1>>},
     snapshot : {"unknown", "fresh", "expired", "provider_failed", "stale"}]

(* The worst factor is the gate, whatever the mean of the five is: what is usable
   passes on each, and fewer rejected bars or a nearer venue do not make it worse.
   `blockedBy` names a factor that blocks, unless the snapshot alone refused: then
   it names one that passed. *)
ASSUME TheWorstFactorDecides ==
    \A input \in Inputs :
        LET quality == CS!AssessDataQuality(input)
            cleaner == CS!AssessDataQuality([input EXCEPT !.issues = 0, !.venue = "primary"])
            unvetoed == CS!AssessDataQuality([input EXCEPT !.snapshot = "unknown"])
        IN /\ quality.usable =>
                /\ cleaner.usable
                /\ Len(input.candles) > 1 /\ input.venue # "silent"
                /\ input.snapshot \notin {"stale", "expired"}
                /\ 5 * Len(input.candles) >= 3 * input.required
                /\ 5 * input.issues <= 2 * Len(input.candles)
           /\ CS!AtLeast(cleaner.floor, quality.floor)
           /\ ~quality.usable =>
                (CS!AtLeast(quality.floor, input.threshold)
                    <=> unvetoed.usable /\ quality.blockedBy = unvetoed.worst)

LOCAL Hour(at, price) == [Bar(at, price) EXCEPT !.high = price + at]
LOCAL InOrder(S) == [i \in 1..Cardinality(S) |->
                        CHOOSE x \in S : Cardinality({y \in S : y < x}) = i - 1]
LOCAL Hourly(S) == [i \in 1..Cardinality(S) |-> Hour(InOrder(S)[i], 1 + (InOrder(S)[i] % 3))]
LOCAL Day == 3

(* A daily bar is published for every day that has enough hours, in order, from
   its first open to its last close, over exactly its own hours; the others are
   dropped, and a day is in one list or the other.  What is dropped is reported
   with the number of its hours when days begin at midnight; with an offset the
   count reaches into the next day. *)
ASSUME DaysAreTheirOwnHours ==
    \A S \in SUBSET (0..7), offset \in 0..1, minimum \in 0..Day :
        LET hourly == Hourly(S)
            report == CS!ResampleWithCoverage(hourly, offset, Day, minimum)
            days == report.complete
            of(start) == {i \in DOMAIN hourly : CS!StartOfDay(hourly[i].at, offset, Day) = start}
            starts == {CS!StartOfDay(hourly[i].at, offset, Day) : i \in DOMAIN hourly}
        IN /\ {days[i].at : i \in DOMAIN days} = {s \in starts : Cardinality(of(s)) >= minimum}
           /\ \A i, j \in DOMAIN days : i < j => days[i].at < days[j].at
           /\ \A i \in DOMAIN days :
                 LET hours == of(days[i].at) IN
                 /\ days[i].open = hourly[CS!Least(hours)].open
                 /\ days[i].close = hourly[CS!Greatest(hours)].close
                 /\ days[i].high = CS!Greatest({hourly[k].high : k \in hours})
                 /\ days[i].low = CS!Least({hourly[k].low : k \in hours})
                 /\ days[i].volume = Cardinality(hours)
           /\ {report.dropped[i].at : i \in DOMAIN report.dropped}
                = starts \ {days[i].at : i \in DOMAIN days}
           /\ \A i \in DOMAIN report.dropped :
                 LET hours == Cardinality(of(report.dropped[i].at)) IN
                 /\ report.dropped[i].hours >= hours
                 /\ report.dropped[i].hours > hours =>
                        offset > 0 /\ report.dropped[i].at + Day \in starts

(* The channels before a bar are compared by its place in the two lists, so they
   are channels of the same days only up to the first dropped one: until then
   nothing is inflated, and behind it a channel may even be the narrower. *)
ASSUME ChannelsMeetUntilADayIsDropped ==
    LET report(S) == CS!ResampleWithCoverage(Hourly(S), 0, Day, Day)
        channels(S) == CS!ChannelInflation(report(S).complete, report(S).withPartial, 1)
        first(S) == IF report(S).dropped = << >> THEN 99 ELSE report(S).dropped[1].at
    IN /\ \A S \in SUBSET (0..8) : \A i \in channels(S).windows :
             report(S).complete[i - 1].at < first(S) => channels(S).inflation[i][1] = 0
       /\ \E S \in SUBSET (0..8) : \E i \in channels(S).windows : channels(S).inflation[i][1] < 0

(* An outlier is a close that moved by more than the threshold, up or down; a bar
   off the grid is named whether or not its neighbours are. *)
ASSUME OutliersMovedTooFar ==
    \A a, b \in 0..9 :
        LET pair == <<Bar(2, a), Bar(5, b)>> IN
        /\ CS!Outliers(pair, <<1, 4>>) # {} <=> a > 0 /\ (4 * b > 5 * a \/ 4 * b < 3 * a)
        /\ CS!Misaligned(pair, Interval, 1) = <<pair[2]>>

(* Venues that hold some of six bars of three units, the last of which is forming. *)
LOCAL Opened == {0, 3, 6, 9, 12, 15}
LOCAL Clock(now) == [interval |-> 3, now |-> now]
LOCAL Venues(whole, paged, heeds) ==
    [bars : SUBSET Opened, whole : whole, paged : paged, heeds : heeds]
LOCAL Cursors == {CS!Unbounded, 3, 9, 12, 15}
LOCAL Binance(venue, now, limit, before) == CS!BinanceHistory(venue, Clock(now), limit, before, 3)
LOCAL Bitget(venue, now, limit, before, margin) ==
    CS!BitgetHistory(venue, Clock(now), limit, before, 3, 2, margin)
LOCAL Wanted(venue, limit, before) ==
    CS!NewestOf(limit, {b \in venue.bars \ {15} : b < before})

(* Of a venue that gives as large a page as it is asked for, both cursors return the newest
   closed bars before the end: but Bitget's none of those older than its horizon, which
   lie beyond it only if bars are missing, and Binance's one bar fewer when a single page
   is enough and the forming bar is on it. *)
ASSUME HistoriesAreTheNewest ==
    /\ \A venue \in Venues({3}, {3}, {TRUE}), limit \in 1..6, before \in Cursors :
          LET got == Binance(venue, 16, limit, before)
              short == limit <= 3 /\ before = CS!Unbounded /\ 15 \in venue.bars
          IN got = Wanted(venue, IF short THEN limit - 1 ELSE limit, before)
    /\ \A venue \in Venues({2, 3}, {2, 3}, {TRUE}), limit \in 1..6, before \in Cursors :
          LET got == Bitget(venue, 16, limit, before, 1)
              horizon == (IF before = CS!Unbounded THEN 16 ELSE before) - 3 * limit - 1
          IN /\ got \subseteq Wanted(venue, limit, before)
             /\ \A b \in Wanted(venue, limit, before) \ got : b < horizon
             /\ venue.bars = Opened => got = Wanted(venue, limit, before)

(* Whatever a venue answers, a history is of closed bars before the end, no more of them
   than were asked for, and none is missing between its oldest and the newest there is; so
   what an older page than the venue gives would have held is only ever missing at the
   far end, where it is not told from bars that do not exist. *)
ASSUME HistoriesAreMissingNothingBetween ==
    /\ \A venue \in Venues(1..3, {0, 2}, BOOLEAN), limit \in {1, 3, 4, 6}, before \in Cursors :
          \A got \in {Binance(venue, 16, limit, before), Bitget(venue, 16, limit, before, 1)} :
              /\ got \subseteq Wanted(venue, limit, before)
              /\ got = Wanted(venue, Cardinality(got), before)
    /\ LET deaf == [bars |-> Opened, whole |-> 3, paged |-> 0, heeds |-> TRUE]
       IN Bitget(deaf, 16, 6, CS!Unbounded, 1) = {9, 12} /\ Bitget(deaf, 16, 6, 9, 1) = {}

(* The venues agree on which bars are closed but for the last moment of a bar, and the mock
   is as short of them as a single page of Binance. *)
ASSUME VenuesAgreeOnClosedBars ==
    \A now \in 15..20, limit \in 1..3 :
        LET rows == {0, 3, 6, 9, 12, 15, 18}
            all == [bars |-> {b \in rows : b <= now}, whole |-> 3, paged |-> 3, heeds |-> TRUE]
            early == CS!DropStillFormingCandles(rows, Clock(now)) \ CS!ToCandles(rows, Clock(now))
        IN /\ early = {b \in rows : b + 2 = now}
           /\ early = {} => CS!MockHistory(Clock(now), limit) = Binance(all, now, limit, CS!Unbounded)

--------------------------------------------------------------------------------
LOCAL CandleTables == UNION {[bars -> BOOLEAN] : bars \in SUBSET (0..4)}

(* A reader that goes down from a bar and one that goes up from it see, with the bar
   itself, all that is stored and nothing twice; a page leaves out no bar that is nearer
   than one it has, so the next page goes on where it ended; and a bar that is still
   forming neither counts nor is the latest, but hides none that has closed. *)
ASSUME StoredReadsMeet ==
    \A table \in CandleTables, bar \in 0..4, limit \in 1..3, closedOnly \in BOOLEAN :
        LET down == CS!GetBefore(table, bar, limit, closedOnly)
            up == CS!GetAfter(table, bar, limit, closedOnly)
            all == CS!Readable(table, closedOnly)
            Rest(page) == CS!GetAfter(table, CS!Greatest(page), 5, closedOnly)
        IN /\ down \cap up = {} /\ bar \notin down \cup up
           /\ CS!GetBefore(table, bar, 5, closedOnly) \cup CS!GetAfter(table, bar, 5, closedOnly)
                 = all \ {bar}
           /\ up # {} => up \cup Rest(up) = CS!GetAfter(table, bar, 5, closedOnly) /\ up \cap Rest(up) = {}
           /\ Cardinality(down) < limit => CS!GetRange(table, 0, bar - 1, closedOnly) = down
           /\ ~closedOnly => all = DOMAIN table
           /\ CS!GetLatest(table, closedOnly) = CS!GetBefore(table, 5, 1, closedOnly)
           /\ CS!CountStored(table, closedOnly) = Cardinality(CS!GetRange(table, 0, 4, closedOnly))
           /\ table \in [DOMAIN table -> {FALSE}] => CS!GetLatest(table, TRUE) = {}

LOCAL Key == [provider |-> "a", symbol |-> "s", step |-> Interval]
LOCAL Stored(at, price, closed, listed) ==
    [at |-> at, open |-> price, high |-> price, low |-> price, close |-> price, volume |-> 1,
     closed |-> closed, listed |-> listed]
LOCAL StoredRows ==
    {Stored(at, 1, closed, "s") : at \in 0..6, closed \in BOOLEAN}
      \cup {Stored(4, CS!NotFinite, TRUE, "s"), Stored(4, 1, TRUE, "other")}
LOCAL SmallTables == {{a, b, c} : a, b, c \in StoredRows} \cup {{}}
LOCAL Windows == {w \in [from : 0..4, to : 0..4, now : {5, 6, 7}] : CS!WindowStands(w)}
LOCAL Vouched(inventory) == [inventory EXCEPT !.unknownProvenanceCount = 0]

(* The database vouches for no row, so no inventory of it allows a series to be relied
   on.  One that somebody vouches for is allowed only if every bar of the window is
   stored, closed, sound and of the instrument, and the newest is neither stale nor to come. *)
ASSUME NothingStoredIsReliedOn ==
    \A rows \in SmallTables :
        LET inventory == CS!Inventory(Key, rows)
            closed == {r \in rows : r.closed}
        IN \A window \in Windows :
              LET Report(of) == CS!EvaluateHistoricalIntegrity(Key, of, window)
              IN /\ ~Report(inventory).activationAllowed
                 /\ Report(Vouched(inventory)).activationAllowed =>
                       /\ {b \in window.from..window.to : b % Interval = 0} \subseteq {r.at : r \in closed}
                       /\ \A r \in rows : r.open \in 1..2 /\ r.listed = "s" /\ r.at % Interval = 0
                       /\ \A r \in closed : CS!IsCandleClosed(Interval, r.at, window.now)
                       /\ \E r \in closed : window.now - r.at <= 2 * Interval

(* Every row looked at here is one the table takes, and somebody can be allowed. *)
ASSUME SomebodyCanBeAllowed ==
    /\ \A r \in StoredRows : CS!TableTakes(r)
    /\ LET rows == {Stored(at, 1, TRUE, "s") : at \in {0, 2, 4}}
       IN CS!EvaluateHistoricalIntegrity(Key, Vouched(CS!Inventory(Key, rows)),
                                         [from |-> 0, to |-> 4, now |-> 6]).activationAllowed

LOCAL FiniteBars == [at : {4}, open : -1..1, high : -1..2, low : -1..1, close : -1..1, volume : -1..1]

(* The validation of a series and the constraint of its table do not refuse the same
   bars: what the table takes of finite bars stands, and of what stands the table refuses
   exactly the bars with a price of 0.  What it takes and the inventory counts as invalid
   is not finite. *)
ASSUME TheTableIsStricter ==
    /\ \A c \in FiniteBars :
          CS!TableTakes(c) <=> CS!Malformed(c) = "none" /\ 0 \notin CS!Prices(c)
    /\ \A r \in StoredRows :
          CS!Inventory(Key, {r}).invalidCount = 1 <=> CS!Malformed(r) = "not_finite"

(* A volume is odd only beside the others: never the only one, nor one of two. *)
ASSUME OddVolumesNeedOthers ==
    \A volumes \in UNION {[1..n -> {0, 1, 101, 1000}] : n \in 1..3} :
        LET rows == {[Stored(i, 1, TRUE, "s") EXCEPT !.volume = volumes[i]] : i \in DOMAIN volumes}
            odd == CS!Inventory(Key, rows).volumeAnomalyCount
        IN /\ odd > 0 => Len(volumes) = 3
           /\ 2 * odd < Len(volumes)

-------------------------------------------------------------------------------
LOCAL MR == INSTANCE MarketRegistry WITH Day <- 2

LOCAL Upto(S, n) == UNION {[1..k -> S] : k \in 0..n}
LOCAL Front(s) == SubSeq(s, 1, Len(s) - 1)
LOCAL Last(s) == s[Len(s)]

LOCAL BT == <<"B", "T">>
LOCAL TB == <<"T", "B">>
LOCAL US == <<"U", "S">>
LOCAL ST == <<"S", "T">>
LOCAL UST == <<"U", "S", "T">>
LOCAL Crypto == [category |-> "crypto", status |-> "active"]
LOCAL Fiat == [category |-> "fiat", status |-> "active"]
LOCAL Registry ==
    [assets |-> [s \in {BT, US, UST} |-> IF s = US THEN Fiat ELSE Crypto], quotes |-> {US, UST, ST}]

(* A ticker is split at the longest quote it ends in, and there is no other split
   into two letters or more before a quote: halves put together are the ticker. *)
ASSUME TheLongestQuoteSplits ==
    \A ticker \in Upto({"B", "T", "U", "S"}, 5) :
        LET split == MR!SplitTicker(ticker, Registry.quotes)
            Halves == {i \in 2..(Len(ticker) - 1) : SubSeq(ticker, i + 1, Len(ticker)) \in Registry.quotes}
        IN IF Halves = {} THEN split = MR!Unresolved
           ELSE /\ split.base \o split.quote = ticker /\ split.quote \in Registry.quotes
                /\ \A i \in Halves : Len(split.base) <= i

(* A quote the registry does not know makes the market unknown, a fiat one a fiat
   market; of a base only a registered fiat under a crypto quote is told apart. *)
ASSUME TheQuoteNamesTheMarket ==
    \A base, quote \in {Crypto, Fiat, MR!UnknownAsset} :
        LET kind == MR!MarketKind(base, quote)
        IN /\ (kind = "unknown") = (quote = MR!UnknownAsset)
           /\ (kind = "fiat") = (quote = Fiat)
           /\ (kind = "mixed") = (base = Fiat /\ quote = Crypto)

-------------------------------------------------------------------------------
LOCAL EveryDay(first, last) == {2 * d : d \in first..last}
LOCAL Weekdays(first, last) == {2 * d : d \in {e \in first..last : ~MR!IsWeekend(e)}}

(* The week-ends are those of the calendar: 3 and 4 January 1970, and every seventh
   day from them. *)
ASSUME TheCalendarsWeekends == \A d \in 0..20 : MR!IsWeekend(d) = (d % 7 \in {2, 3})

(* What trades every day and was watched for the fortnight is crypto, what rests on
   week-ends is fiat, and fewer days decide nothing. *)
ASSUME TheWeekTellsTheMarket ==
    \A first \in 0..7, length \in 0..24 :
        LET last == first + length
            Verdict(times) == MR!ClassifyByTradingWeek(times, 2 * last)
        IN /\ Verdict(EveryDay(first, last)) = (IF length < 14 THEN "unknown" ELSE "crypto")
           /\ Verdict(Weekdays(first, last)) \in {"unknown", "fiat"}
           /\ length >= 18 => Verdict(Weekdays(first, last)) = "fiat"

(* The window ends now and not at the last bar: of bars that stopped a while ago too
   few days of it are left, and when those have no week-end a market that traded
   every day is said to be fiat. *)
ASSUME OldBarsMayReadAsFiat ==
    LET Verdict(first, idle) == MR!ClassifyByTradingWeek(EveryDay(first, first + 20), 2 * (first + 20 + idle))
    IN /\ \A first \in 0..6, idle \in 0..20 :
              /\ idle > 12 => Verdict(first, idle) = "unknown"
              /\ Verdict(first, idle) = "fiat" =>
                    \A d \in (first + 6 + idle)..(first + 20) : ~MR!IsWeekend(d)
       /\ \E first \in 0..6, idle \in 0..20 : Verdict(first, idle) = "fiat"

-------------------------------------------------------------------------------
LOCAL Markets == {BT \o UST, TB \o UST, TB \o ST, UST \o US}
LOCAL AlwaysOpen == EveryDay(0, 20)
LOCAL Rests == Weekdays(0, 20)
LOCAL Steps == {<<"boot">>} \cup {<<"record", m>> : m \in Markets}
                 \cup {<<"learn", m, w>> : m \in {BT \o UST, TB \o ST, UST \o US}, w \in {AlwaysOpen, Rests}}
                 \cup {<<"suspend", s>> : s \in {BT, TB}}
LOCAL Apply(tables, step) ==
    CASE step[1] = "boot" -> MR!SeedConfiguredRegistry(tables, Registry, <<BT \o UST, BT \o UST>>)
      [] step[1] = "record" -> MR!RecordInstrument(tables, Registry, step[2])
      [] step[1] = "learn" -> MR!LearnCategory(tables, Registry, step[2], step[3], 40)
      [] step[1] = "suspend" -> MR!SuspendAsset(tables, step[2])
RECURSIVE TablesAfter(_)
LOCAL TablesAfter(steps) ==
    IF steps = << >> THEN MR!NoTables ELSE Apply(TablesAfter(Front(steps)), Last(steps))

(* Over any starts, cycles and suspensions: nothing leaves the tables, the halves of
   an instrument are assets, what is suspended stays so through every start, a category
   is learned once and never again, and an asset the configuration does not name is
   unknown at first and never classified: its market is not tradable and no week it
   trades changes that. *)
ASSUME TheTablesKeepWhatTheyLearned ==
    \A steps \in Upto(Steps, 2) : \A step \in Steps :
        LET before == TablesAfter(steps)
            after == Apply(before, step)
        IN /\ DOMAIN before.asset \subseteq DOMAIN after.asset
           /\ \A t \in DOMAIN before.instrument : after.instrument[t] = before.instrument[t]
           /\ \A t \in DOMAIN after.instrument :
                  {after.instrument[t].base, after.instrument[t].quote} \subseteq DOMAIN after.asset
           /\ \A s \in DOMAIN after.asset \ DOMAIN before.asset :
                  (after.asset[s].status = "active") = (step[1] = "boot" /\ s \in DOMAIN Registry.assets)
           /\ \A s \in DOMAIN before.asset :
                  LET was == before.asset[s] is == after.asset[s] IN
                  /\ was.status = "inactive" => is.status = "inactive"
                  /\ was.status = "unknown" => is.status # "active"
                  /\ was.source = "learned" => is.source = "learned" /\ is.category = was.category
                  /\ is.category # was.category => step[1] = "learn" /\ is.source = "learned"

(* An instrument is tradable exactly where both its halves are active; the kind it
   was recorded with stays, whatever the category of its base is learned to be. *)
ASSUME TradableIsBothHalvesActive ==
    \A steps \in Upto(Steps, 3) :
        LET tables == TablesAfter(steps)
            list == MR!ListInstruments(tables)
        IN \A t \in Markets :
            IF t \notin DOMAIN tables.instrument THEN MR!Tradability(tables, t) = "unknown_instrument"
            ELSE LET i == tables.instrument[t] IN
                 /\ (MR!Tradability(tables, t) = "tradable")
                       = (tables.asset[i.base].status = "active" /\ tables.asset[i.quote].status = "active")
                 /\ list[t].market = MR!ResolveInstrument(Registry, t).market

-------------------------------------------------------------------------------
LOCAL VenueNames == {"binance", "bitget"}
LOCAL Intervals == {"1h", "4h"}
LOCAL Entry(v, ms, is) == [venue |-> v, instruments |-> ms, intervals |-> is]
LOCAL Tables == {<<Entry("binance", a, i), Entry("bitget", b, j)>> :
                    a, b \in SUBSET {BT \o UST, UST \o US}, i, j \in {{"1h"}, {"1h", "4h"}}}
                  \cup {<<Entry("bitget", a, {"1h", "4h"})>> : a \in SUBSET {BT \o UST}}
LOCAL Raws == {[provider |-> p, fallbacks |-> f, symbol |-> BT \o UST, fallbackSymbol |-> s,
                extra |-> e, interval |-> "1h", capabilities |-> c] :
                  p \in VenueNames \cup {"mock"}, f \in Upto(VenueNames \cup {"mock"}, 2),
                  s \in {BT \o UST, UST \o US}, e \in {<< >>, <<UST \o US, BT \o UST>>, <<BT>>}, c \in Tables}
LOCAL Configs == {c \in {MR!MarketConfig(Registry, r, FALSE) : r \in Raws} : c # MR!Refused}

(* What starts has no invented prices, observes each market once and has a backup on
   the primary market itself. Every market it observes is served by a venue of the
   table, and a market is without a chain exactly where those venues are not configured:
   the start looks for any entry of the table, and such a process does start. *)
ASSUME WhatStartsIsServed ==
    LET Chain(c, i) == MR!MarketProviderFor(c, c.symbols[i], "1h")
        Servers(c, i) == {k \in DOMAIN c.capabilities : MR!Serves(c.capabilities[k], c.symbols[i], "1h")}
        Configured(c) == {c.provider} \cup {c.fallbacks[k] : k \in DOMAIN c.fallbacks}
    IN /\ \A c \in Configs :
             /\ "mock" \notin Configured(c) /\ c.fallbackSymbol = c.symbol
             /\ c.provider \notin {c.fallbacks[k] : k \in DOMAIN c.fallbacks}
             /\ \A i, j \in DOMAIN c.symbols : c.symbols[i] = c.symbols[j] => i = j
             /\ Chain(c, 1) = <<c.provider>> \o c.fallbacks
             /\ \A i \in DOMAIN c.symbols :
                   /\ Servers(c, i) # {}
                   /\ i # 1 => {Chain(c, i)[k] : k \in DOMAIN Chain(c, i)}
                                  = Configured(c) \cap {c.capabilities[k].venue : k \in Servers(c, i)}
       /\ \E c \in Configs : \E i \in DOMAIN c.symbols : Chain(c, i) = << >>

(* A chain that is routed asks every venue that serves the market at the interval, in
   their order; a refusal names the interval only where the market is served at another. *)
ASSUME RoutesFollowTheOrder ==
    \A c \in Configs : \A m \in {BT \o UST, UST \o US}, interval \in Intervals :
        LET found == MR!RouteOf(c, m, interval)
            serving == MR!VenuesServing(c, m, interval)
            Somewhere(i) == MR!VenuesServing(c, m, i) # << >>
        IN /\ found.ok = (serving # << >>)
           /\ found.ok => found.venue = serving[1]
           /\ ~found.ok => (found.reason = "interval_not_served")
                              = (\E i \in Intervals \ {interval} : Somewhere(i))
           /\ m # c.symbol \/ interval # "1h" =>
                  {MR!MarketProviderFor(c, m, interval)[k] : k \in DOMAIN MR!MarketProviderFor(c, m, interval)}
                    = {serving[k] : k \in DOMAIN serving}

(* The venue a market is filed under leads the chain that is asked for it, but for the
   primary market at another interval than the configured one: there the rows are
   filed under the provider, whoever serves it, where the comment says the two agree. *)
ASSUME FiledUnderTheLeader ==
    /\ \A c \in Configs : \A m \in {BT \o UST, UST \o US}, interval \in Intervals :
          LET chain == MR!MarketProviderFor(c, m, interval)
              filed == MR!ConfiguredVenueFor(c, m, interval)
          IN m # c.symbol \/ interval = "1h" =>
                IF chain = << >> THEN filed = MR!None ELSE filed = chain[1]
    /\ \E c \in Configs : LET chain == MR!MarketProviderFor(c, c.symbol, "4h")
                          IN chain # << >> /\ MR!ConfiguredVenueFor(c, c.symbol, "4h") # chain[1]

(* The defaults of a process that was told nothing start, with the other venue as the
   primary's backup or with none. *)
ASSUME DefaultsStart ==
    \A p \in VenueNames :
        LET raw == [provider |-> p, fallbacks |-> MR!DefaultFallbackProviders(p), symbol |-> BT \o UST,
                    fallbackSymbol |-> BT \o UST, extra |-> << >>, interval |-> "1h",
                    capabilities |-> MR!DefaultCapabilities(p, BT \o UST, BT \o UST, Intervals)]
            config == MR!MarketConfig(Registry, raw, FALSE)
        IN config # MR!Refused /\ MR!MarketProviderFor(config, BT \o UST, "1h")
                                 = (IF p = "bitget" THEN <<p>> ELSE <<p, "bitget">>)

-------------------------------------------------------------------------------
RECURSIVE Watched(_)
LOCAL Watched(seen) ==
    IF seen = << >> THEN [last |-> MR!NotLooked, says |-> "nothing"]
    ELSE MR!WatchVenue(Watched(Front(seen)).last, Last(seen))

(* A venue is announced when it is not the one of the last look; a look that found
   none is silent, and the venue after it is announced as a switch even if it is the
   one before. *)
ASSUME SwitchesAreAnnounced ==
    \A seen \in Upto(VenueNames \cup {MR!None}, 4) : seen # << >> =>
        LET n == Len(seen)
        IN (Watched(seen).says # "nothing")
              = (seen[n] # MR!None /\ (n = 1 \/ seen[n] # seen[n - 1]))
================================================================================
