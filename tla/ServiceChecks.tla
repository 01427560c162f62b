----------------------------- MODULE ServiceChecks -----------------------------
(* What ApiReads and ServiceHealth say of every small history, header, burst,
   error and run of observations. *)
EXTENDS Integers, Sequences, FiniteSets

LOCAL Collides(bucket) == bucket % 3
LOCAL AR == INSTANCE ApiReads WITH
    Hour <- 4, MaxEntries <- 3, MaxLimit <- 3, TrimEvery <- 2, Sign <- Collides,
    Budget <- 2, Window <- 2000

LOCAL Upto(S, n) == UNION {[1..k -> S] : k \in 0..n}
LOCAL Front(s) == SubSeq(s, 1, Len(s) - 1)
LOCAL Last(s) == s[Len(s)]
LOCAL Row(t, s) == [timestamp |-> t, signal |-> s]
LOCAL Signals == {"BUY", "WAIT"}
LOCAL Tables(hours, offsets) ==
    UNION {{[h \in hs |-> Row(4 * h + at[h][1], at[h][2])] : at \in [hs -> offsets \X Signals]} : hs \in SUBSET hours}
LOCAL Short == Tables(0..4, {0})
LOCAL Entries(table) == AR!List(table, 100, AR!Everything)

-------------------------------------------------------------------------------
(* Whatever order the rows of a series arrive in, an hour ends with its newest row, and
   a trim leaves the newest hours and no row but theirs; a row that comes late brings
   back an hour a trim took, until the next one. *)
RECURSIVE Recorded(_)
LOCAL Recorded(rows) ==
    IF rows = << >> THEN << >> ELSE AR!Upsert(Recorded(Front(rows)), Last(rows))
ASSUME TheNewestOfEachHourStays ==
    \A rows \in Upto({Row(t, "BUY") : t \in {0, 3, 4, 9, 12}}, 4) :
        LET table == Recorded(rows)
            hours == {AR!BucketOf(rows[i].timestamp) : i \in DOMAIN rows}
            kept == AR!TrimRetention(table)
        IN /\ DOMAIN table = hours
           /\ \A h \in hours : \A i \in DOMAIN rows :
                 AR!BucketOf(rows[i].timestamp) = h => rows[i].timestamp <= table[h].timestamp
           /\ \A h \in hours : \E i \in DOMAIN rows : rows[i] = table[h]
           /\ Cardinality(DOMAIN kept) = (IF Cardinality(hours) < 3 THEN Cardinality(hours) ELSE 3)
           /\ \A h \in DOMAIN kept : kept[h] = table[h] /\ \A g \in hours \ DOMAIN kept : g < h
           /\ AR!TrimRetention(kept) = kept
           /\ \A late \in hours \ DOMAIN kept :
                 AR!TrimRetention(AR!Upsert(kept, table[late])) = kept

(* Trims of one series are TrimEvery apart, failed ones as well: one that fails is not
   tried again before then. *)
RECURSIVE Trims(_)
LOCAL Trims(steps) ==
    IF steps = << >> THEN [table |-> [h \in 0..4 |-> Row(4 * h, "BUY")], last |-> AR!Null]
    ELSE AR!MaybeTrimRetention(Trims(Front(steps)).table, Trims(Front(steps)).last, Len(steps), Last(steps))
ASSUME AFailedTrimWaitsItsTurn ==
    \A steps \in Upto(BOOLEAN, 6) :
        /\ (Cardinality(DOMAIN Trims(steps).table) = 3) = (\E i \in DOMAIN steps : i % 2 = 1 /\ steps[i])
        /\ steps # << >> => Trims(steps).last.at = Len(steps) - ((Len(steps) + 1) % 2)

-------------------------------------------------------------------------------
(* A client that follows the cursors reads every row once, newest first, whatever is
   written in a newer hour while it does. Only a page as long as what is kept ends the
   walk early: a table between two trims holds more, and the first page says there is
   no next one. *)
LOCAL Ask(table, limit, cursor) == AR!GetSignalHistory(table, [limit |-> limit, cursor |-> cursor], TRUE)
RECURSIVE WalkFrom(_, _, _)
LOCAL WalkFrom(table, limit, cursor) ==
    LET page == Ask(table, limit, cursor)
    IN page.entries \o (IF page.next = AR!Null THEN << >> ELSE WalkFrom(table, limit, page.next))
ASSUME PagesCoverTheHistory ==
    \A table \in Short : \A limit \in 1..3 :
        LET first == Ask(table, limit, AR!Null)
            later == AR!Upsert(table, Row(21, "BUY"))
            walked == first.entries \o (IF first.next = AR!Null THEN << >> ELSE WalkFrom(later, limit, first.next))
        IN IF limit < 3 \/ Cardinality(DOMAIN table) <= 3 THEN walked = Entries(table)
           ELSE first.next = AR!Null /\ walked = SubSeq(Entries(table), 1, 3)

(* The summary is of what is kept and does not move as the client walks. *)
ASSUME TheSummaryIsOfTheWhole ==
    \A table \in Short : \A limit \in 1..3 : \A bucket \in 0..4 :
        Ask(table, limit, AR!EncodeCursor(bucket)).summary
            = AR!SummarizeHistory(AR!List(table, 3, AR!Everything))

(* A cursor that was changed is refused unless its signature happens to fit; nothing
   but a cursor's absence gives the first page. *)
ASSUME AChangedCursorIsRefused ==
    \A made, bucket \in 0..6 : \A version \in {"h0", "h1"} :
        LET cursor == [AR!EncodeCursor(made) EXCEPT !.bucket = bucket, !.version = version]
            answer == Ask([h \in 0..4 |-> Row(4 * h, "BUY")], 3, cursor)
        IN IF "refused" \in DOMAIN answer THEN answer.status = 400 /\ cursor # AR!EncodeCursor(bucket)
           ELSE /\ version = "h1" /\ made % 3 = bucket % 3
                /\ \A i \in DOMAIN answer.entries : answer.entries[i].timestamp < 4 * bucket

-------------------------------------------------------------------------------
LOCAL Days == Tables({0, 1, 2, 24, 26}, {0, 2}) \cup Tables(0..3, {0, 1, 3})

(* A signal is bounded exactly when the rows show another before it. The last
   transition is the start of the signal held, and is said only when it is within a
   day of the newest row: an older one is not, though the hours held are. *)
ASSUME TheTransitionStartsTheRun ==
    \A table \in Days : table # << >> =>
        LET rows == Entries(table)
            s == AR!SummarizeHistory(rows)
            others == {i \in DOMAIN rows : rows[i].signal # rows[1].signal}
        IN /\ s.bounded = (others # {})
           /\ s.observed = Cardinality({i \in DOMAIN rows : \A o \in others : i < o})
           /\ (s.transition # AR!Null)
                 = (s.bounded /\ rows[s.observed].timestamp >= rows[1].timestamp - 24 * 4)
           /\ s.transition # AR!Null =>
                 /\ s.transition.to = s.current /\ s.transition.timestamp = rows[s.observed].timestamp
                 /\ s.duration + s.previous <= s.sample
                 /\ s.previousBounded = (\E o \in others : \E i \in DOMAIN rows \ others : o < i)
           /\ s.duration <= s.sample
           /\ s.gaps = Cardinality({i \in 2..s.observed : rows[i - 1].timestamp - rows[i].timestamp > 6})
           /\ (s.changes = 0) = (s.transition = AR!Null)
           /\ s.changes < Cardinality({i \in DOMAIN rows :
                                         rows[i].timestamp >= rows[1].timestamp - 24 * 4}) + 1

(* The hours held are the time between two rows and not a count of rows: whatever hours
   between them are missing, they are those between the two buckets, or one less. *)
ASSUME ElapsedAndNotCounted ==
    \A table \in Days : table # << >> =>
        LET s == AR!SummarizeHistory(Entries(table))
            top == AR!BucketOf(Entries(table)[1].timestamp)
            first == AR!BucketOf(Entries(table)[s.observed].timestamp)
        IN /\ s.observed <= top - first + 1
           /\ s.duration \in {top - first - 1, top - first}

(* A jump of more than an hour and a half is counted as a hole. It may be none: two
   rows of neighbouring hours, one early and one late, are counted; and a missing hour
   between a late row and an early one is not. *)
LOCAL Held(a, b) == AR!SummarizeHistory(<<Row(b, "BUY"), Row(a, "BUY")>>).gaps = 1
ASSUME GapsAreJumps ==
    /\ \A a \in 0..3, b \in 4..20 : Held(a, b) = (b - a > 6)
    /\ \A a \in 0..3, b \in 12..20 : Held(a, b)
    /\ \E a \in 0..3, b \in 4..7 : Held(a, b)
    /\ \E a \in 0..3, b \in 8..11 : ~Held(a, b)

-------------------------------------------------------------------------------
LOCAL Payloads == [{"timestamp", "signal", "stale"} -> 0..1]
LOCAL Result(p) == [payload |-> p, stale |-> p["stale"] = 1, age |-> p["timestamp"] - 1,
                    freshness |-> "f", provider |-> "v"]
LOCAL Send(header, p, fields) == AR!SendWithEtag(header, Result(p), fields)

(* A client that sends back the tag of the answer it holds is told nothing changed
   exactly when no field but the moving ones did, and is told how fresh the unchanged
   answer is now; a repeated answer is never to be cached. *)
ASSUME NothingChangedIsTrue ==
    \A held, now \in Payloads : \A fields \in {{}, {"timestamp"}} :
        LET tag == Send([any |-> FALSE, tags |-> {}], held, fields).etag
            answer == Send([any |-> FALSE, tags |-> {tag}], now, fields)
        IN /\ (answer.status = 304) = (\A f \in DOMAIN now \ fields : held[f] = now[f])
           /\ answer.status = 200 => answer.body = now
           /\ answer.headers.cacheable = (now["stale"] = 0) /\ answer.headers.age >= 0
           /\ tag.weak = (fields # {})
           /\ Send([any |-> TRUE, tags |-> {}], now, fields).status = 304
           /\ Send([any |-> FALSE, tags |-> {}], now, fields).status = 200

-------------------------------------------------------------------------------
(* Requests of two clients at rising times, some while the store is down. *)
LOCAL Requests == [key : {"a"}, step : {0, 500, 1500}, works : BOOLEAN]
                    \cup {[key |-> "b", step |-> 0, works |-> TRUE]}
RECURSIVE Served(_)
LOCAL Served(requests) ==
    IF requests = << >> THEN [windows |-> << >>, now |-> 0, passed |-> << >>, last |-> AR!Passes]
    ELSE LET before == Served(Front(requests))
             r == Last(requests)
             now == before.now + r.step
             out == AR!OnRequest(before.windows, "/api/market", r.key, now, now + 600, r.works)
         IN [windows |-> out.windows, now |-> now, last |-> out.answer,
             passed |-> IF "passes" \in DOMAIN out.answer /\ r.works
                        THEN Append(before.passed, [key |-> r.key, at |-> now]) ELSE before.passed]

(* In one window a client passes the budget and no more, though up to twice that in
   less than a window's time across two; a request that is refused is counted, one
   that finds no store is not and passes; who is told to wait until a second comes
   back after the window has ended. *)
ASSUME TheBudgetIsOfAWindow ==
    /\ \A requests \in Upto(Requests, 4) : requests # << >> =>
          LET out == Served(requests)
              r == Last(requests)
              In(key, start) == {i \in DOMAIN out.passed : /\ out.passed[i].key = key
                                                          /\ out.passed[i].at \in start..(start + 1999)}
          IN /\ \A key \in {"a", "b"}, w \in 0..3 : Cardinality(In(key, 2000 * w)) <= 2
             /\ ~r.works => "passes" \in DOMAIN out.last
             /\ "retryAfter" \in DOMAIN out.last =>
                    /\ out.last.retryAfter >= 1
                    /\ out.now + 600 + 1000 * out.last.retryAfter >= AR!WindowStart(out.now) + 2000
                    /\ out.windows[<<r.key, AR!WindowStart(out.now)>>] > 2
    /\ \E requests \in Upto(Requests, 4) :
          LET out == Served(requests)
          IN Cardinality({i \in DOMAIN out.passed : out.passed[i].at \in 1500..2000}) > 2
    /\ \A path \in AR!ExemptPaths : AR!OnRequest(<< >>, path, "a", 0, 0, TRUE).windows = << >>

-------------------------------------------------------------------------------
LOCAL Kinds == {"unavailable", "timeout", "rate_limited", "invalid_response", "circuit_open",
                "insufficient_history"}
LOCAL Codes == {"FST_ERR_CTP_BODY_TOO_LARGE", "FST_ERR_CTP_INVALID_MEDIA_TYPE", "FST_ERR_VALIDATION",
                "FST_ERR_BAD_HOST", "FST_ERR_OTHER"}
LOCAL Errors == {AR!ProviderError(k, "venue", 7) : k \in Kinds} \cup {AR!RateLimitError(n) : n \in 0..3}
                  \cup [kind : {"framework"}, code : Codes] \cup [kind : {"zod", "other"}, code : {"E"}]

(* The two tables of what a venue's failure costs agree; a venue's failure is never the
   client's fault and a client's is never the server's; what the program did not raise
   itself is said to be internal; and a log names a venue only where the error does. *)
ASSUME ErrorsKeepTheirSide ==
    /\ \A k \in Kinds : AR!StatusForKind(k) = AR!StatusCodeFor(AR!CodeForKind(k))
    /\ \A error \in Errors :
          LET answer == AR!AnswerError(error)
          IN /\ error.kind = "provider" => answer.body.status \in {502, 503, 504}
             /\ (answer.body.code = "INVALID_REQUEST")
                   = (error.kind = "framework" /\ error.code # "FST_ERR_OTHER")
             /\ (answer.body.code \in {"INVALID_REQUEST", "RATE_LIMITED"}) = (answer.body.status \in 400..499)
             /\ (answer.body.code = "INTERNAL_ERROR") = (answer.body.status = 500)
             /\ (error.kind = "provider") = (answer.logged.venue # {})

(* Whatever a read throws, its client is told that a venue failed and which one; what the
   transport has classified is not classified again, so the wait it was told of is kept.
   An answer that arrived is rows only if its code says so, whatever it carries; and one
   that was refused may be tried again just when its code is not that of a request. *)
ASSUME ReadsFailAsVenues ==
    /\ \A thrown \in Errors \cup {[kind |-> "timed_out"]} :
          LET told == AR!NormalizeError(thrown, "venue")
          IN /\ AR!NormalizeError(told, "other") = told
             /\ AR!AnswerError(told).body.status \in {502, 503, 504}
             /\ AR!AnswerError(told).logged.venue = {"venue"}
             /\ thrown.kind = "provider" => AR!AnswerError(told).retryAfter = 7
    /\ \A code \in {"00000", "40034", "400171", "50000"}, wellFormed \in BOOLEAN :
          LET read == AR!ReadBitget([code |-> code, wellFormed |-> wellFormed])
          IN /\ read.kind = "rows" <=> code = "00000" /\ wellFormed
             /\ AR!Retryable(read) <=> code = "50000"
             /\ read.kind # "rows" => AR!AnswerError(read).body.status = 502

LOCAL Failures == {AR!ProviderError(k, "venue", 7) : k \in Kinds} \cup {[kind |-> "other", code |-> "E"]}

(* What a chain says when all its venues failed does not depend on their order; it says
   that it was refused if any of them was, without the wait that venue asked for, and
   otherwise that the read may be tried again, though none of them may say so.  Its
   status is that of its kind, so it says a venue was late where another was not. *)
ASSUME TheChainForgetsItsVenues ==
    /\ \A failures \in Upto(Failures, 3) : failures # << >> =>
          LET told == AR!ChainError(failures)
              backwards == [i \in DOMAIN failures |-> failures[Len(failures) + 1 - i]]
          IN /\ AR!ChainError(backwards) = told /\ AR!ChainError(Tail(failures) \o <<Head(failures)>>) = told
             /\ (told.cause = "rate_limited") =
                   \E i \in DOMAIN failures : failures[i].kind = "provider" /\ failures[i].cause = "rate_limited"
             /\ AR!AnswerError(told).retryAfter = AR!Null
             /\ told.cause # "rate_limited" => AR!Retryable(told)
             /\ told.status = AR!StatusForKind(told.cause)
             /\ (\A i \in DOMAIN failures : ~AR!Retryable(failures[i])) /\ told.cause # "rate_limited"
                   => told.status = 502
    /\ AR!ChainError(<<AR!ProviderError("timeout", "a", 7), AR!ProviderError("circuit_open", "b", 7)>>).status = 504

(* A read of history that stands carries the name of the venue that was asked, a live one
   the name it came with if it had one. *)
ASSUME ReadsCarryTheirVenue ==
    \A asked, said \in {"a", "b"}, attributes \in BOOLEAN :
        LET live == AR!AttributedCandles(asked, [kind |-> "rows", venue |-> said])
            one == AR!AskHistory([name |-> asked, attributes |-> attributes, read |-> [kind |-> "rows", venue |-> said]])
            stands == one.kind = "rows" /\ AR!AttributedHistoricalCandles(asked, one).kind = "rows"
        IN /\ live.venue = said
           /\ AR!AttributedCandles(asked, [kind |-> "rows", venue |-> AR!Unnamed]).venue = asked
           /\ stands = (attributes /\ said = asked)

--------------------------------------------------------------------------------
LOCAL Backlog == "write_backlog_dropped_total"
LOCAL SH == INSTANCE ServiceHealth WITH
    FreshWithin <- 1, BarInterval <- 1, DegradedAfter <- 2,
    Counters <- {"provider_requests_total", "provider_errors_total", "provider_rate_limits",
                 "provider_retries", "signal_generation_total", "signal_changes_total",
                 "market_cache_hits", Backlog},
    Gauges <- {"provider_error_rate"}, Distributions <- {"provider_latency"},
    SafeValues <- {"venue", "BTC", "ETH", "LONG", "SHORT"},
    Capacity <- 2, WarmUp <- 1, SampleSize <- 2

LOCAL Markets == <<"a", "b", "c">>
LOCAL Names == {"a", "b", "c"}
LOCAL Lowest(f, S) == CHOOSE x \in S : \A y \in S : f[x] <= f[y]

(* The bar that is reported is that of the market furthest behind of those that have
   one, unless the last market has none: a market without bars before it is passed
   over for the next, where the comment calls it the oldest and the one reported. *)
ASSUME TheMissingMarketIsPassedOver ==
    \A stored \in [Names -> 0..3] :
        LET oldest == SH!OldestCandle(Markets, stored)
            least == Lowest(stored, Names)
        IN /\ stored[oldest.market] = oldest.at
           /\ stored[least] > 0 => oldest.at = stored[least]
           /\ (oldest.at = 0) = (stored["c"] = 0)

(* Of the observed markets the oldest bar decides; before there is one nothing is
   known to be old, and the component is well. *)
ASSUME TheOldestObservedDecides ==
    \A seen \in SUBSET Names : \A newest \in [seen -> 0..3] :
        LET oldest == SH!OldestObservedBar(Markets, newest, 3) IN
        IF seen = {} THEN oldest.market = SH!NoMarket /\ SH!MarketFreshness(oldest.age).state = "ok"
        ELSE /\ newest[oldest.market] = newest[Lowest(newest, seen)]
             /\ oldest.age = 3 - newest[oldest.market]

(* The service is well exactly where it has no problem to tell, and what it tells
   first is the worst of them; a database that does not answer takes the stored bars
   with it. *)
ASSUME ProblemsAreTold ==
    \A answers \in BOOLEAN, stored \in [Names -> {0, 2, 6}], seen \in SUBSET Names, policies \in 0..1 :
        \A newest \in [seen -> {1, 6}] :
            LET report == SH!Report(answers, Markets, stored, newest, policies, 7)
                states == {report.components[i].state : i \in DOMAIN report.components}
            IN /\ Len(report.components) = 4
               /\ report.healthy = (report.problems = << >>)
               /\ report.healthy = (report.state = "ok")
               /\ \A s \in states : SH!Severity[s] <= SH!Severity[report.state]
               /\ ~answers => /\ report.components[1].name = "database"
                              /\ report.components[2].name = "market-provider"
                              /\ report.components[2].state = "failing"

-------------------------------------------------------------------------------
LOCAL IncidentKinds == {"degraded", "failing", "open", "recovered", "closed"}
LOCAL Incidents == {<<c, k>> : c \in {"x", "y"}, k \in IncidentKinds}
RECURSIVE LogOf(_)
LOCAL LogOf(events) ==
    IF events = << >> THEN << >>
    ELSE SH!Record(LogOf(SubSeq(events, 1, Len(events) - 1)), events[Len(events)][1],
                   events[Len(events)][2], Len(events))
LOCAL Bad == {"degraded", "failing", "open"}

(* Whatever is recorded, in whatever order: of a component at most one incident is
   open, it is open exactly where the last thing said of it was bad, it lasts from the
   first bad thing after the last good one, and its severity is the worst said in it;
   incidents of a component do not overlap. *)
ASSUME IncidentsPair ==
    \A n \in 0..4 : \A events \in [1..n -> Incidents] :
        LET log == LogOf(events)
            said(c) == {i \in 1..n : events[i][1] = c}
            openOf(c) == {i \in DOMAIN log : log[i].component = c /\ log[i].closedAt = SH!Open}
        IN /\ \A c \in {"x", "y"} :
                 LET goods == {i \in said(c) : events[i][2] \notin Bad}
                     since == {i \in said(c) : \A g \in goods : i > g}
                 IN /\ Cardinality(openOf(c)) = (IF since = {} THEN 0 ELSE 1)
                    /\ \A i \in openOf(c) :
                          /\ log[i].openedAt \in since /\ \A j \in since : log[i].openedAt <= j
                          /\ (log[i].severity = "failing") = (\E j \in since : events[j][2] = "failing")
           /\ \A i, j \in DOMAIN log : i < j /\ log[i].component = log[j].component =>
                 log[i].closedAt # SH!Open /\ log[i].closedAt < log[j].openedAt

-------------------------------------------------------------------------------
(* Everything a venue may do, one thing at each time. *)
LOCAL Deeds == {"success", "failure", "refusal", "limit"}
RECURSIVE RecordOf(_)
LOCAL RecordOf(deeds) ==
    IF deeds = << >> THEN SH!EmptyRecord
    ELSE LET n == Len(deeds)
             before == RecordOf(SubSeq(deeds, 1, n - 1))
         IN CASE deeds[n] = "success" -> SH!RecordSuccess(before, n)
              [] deeds[n] = "failure" -> SH!RecordFailure(before, n, TRUE)
              [] deeds[n] = "refusal" -> SH!RecordFailure(before, n, FALSE)
              [] deeds[n] = "limit" -> SH!RecordRateLimit(before, n, 2)
LOCAL Latest(deeds, deed) == {i \in DOMAIN deeds : deeds[i] = deed /\ \A j \in i + 1..Len(deeds) : deeds[j] # deed}
LOCAL Histories == UNION {[1..n -> Deeds] : n \in 0..5}

(* A venue is not counted out for good: with its circuit closed it is available again
   once its rate limit is over, unless it has never answered and has failed; one
   success undoes any number of failures but no rate limit; and what the circuit
   refuses changes nothing. *)
ASSUME AvailabilityReturns ==
    \A deeds \in Histories, later \in 0..3 :
        LET record == RecordOf(deeds)
            now == Len(deeds) + later
            state == SH!ProviderHealthState(record, "closed", now)
            successes == {i \in DOMAIN deeds : deeds[i] = "success"}
            failures == {i \in DOMAIN deeds : deeds[i] = "failure"}
            limits == Latest(deeds, "limit")
        IN /\ (state = "rate_limited") = (\E i \in limits : i + 2 > now)
           /\ SH!IsAvailable(state) = (state # "rate_limited" /\ (failures = {} \/ successes # {}))
           /\ (state = "healthy") =
                 /\ state # "rate_limited"
                 /\ \E i \in successes : (\A j \in failures : j < i) /\ now - i <= 2
           /\ SH!ProviderHealthState(SH!RecordFailure(record, now, FALSE), "closed", now) = state

LOCAL Few == {RecordOf(d) : d \in UNION {[1..n -> Deeds] : n \in 0..2}}
LOCAL Circuits == {"open", "probing", "closed"}

(* A venue's summary is available only if every market of it is; it is of the first of
   the markets in the worst state, which need not be the one that fails the most. *)
ASSUME TheWorstMarketSpeaks ==
    /\ \A records \in [1..2 -> Few], circuits \in [1..2 -> Circuits], now \in {2, 5} :
          LET summary == SH!VenueHealthSummary(records, circuits, now)
              states == [i \in 1..2 |-> SH!ProviderHealthState(records[i], circuits[i], now)]
          IN SH!IsAvailable(summary.state) = (\A i \in 1..2 : SH!IsAvailable(states[i]))
    /\ SH!IsAvailable(SH!VenueHealthSummary(<< >>, << >>, 0).state)
    /\ \E records \in [1..2 -> Few] :
          SH!VenueHealthSummary(records, <<"open", "closed">>, 5).failures
              < SH!VenueHealthSummary(records, <<"closed", "closed">>, 5).failures

(* Nothing but the database takes the service out of rotation. *)
ASSUME OnlyTheDatabaseDecides ==
    \A answers, readable \in BOOLEAN, version \in 1..3, venues \in SUBSET DOMAIN SH!VenueSeverity :
        SH!Ready(SH!DatabaseIsUsable(answers, readable, version, 2), venues).code = 200
            <=> answers /\ readable /\ version <= 2

--------------------------------------------------------------------------------
LOCAL Finite(values) == SelectSeq(values, LAMBDA v : v # SH!NotFinite)
LOCAL Put(f, key, value) == SH!Put(f, key, value)

RECURSIVE ReservoirOf(_)
LOCAL ReservoirOf(values) ==
    IF values = << >> THEN SH!EmptyReservoir
    ELSE SH!RecordValue(ReservoirOf(Front(values)), Last(values))
RECURSIVE Total(_)
LOCAL Total(values) == IF values = << >> THEN 0 ELSE Last(values) + Total(Front(values))
LOCAL Highest(values) ==
    IF values = << >> THEN 0
    ELSE CHOOSE v \in {values[i] : i \in DOMAIN values} : \A i \in DOMAIN values : values[i] <= v

(* The sum, the count and the maximum of a reservoir cover everything recorded; its
   quantiles only the values it keeps, which are the first of the process's life for
   ever and the latest after them: a start that was slow stays in the tail. *)
ASSUME TheFirstValuesStay ==
    \A values \in Upto({SH!NotFinite, 1, 2, 9}, 5) :
        LET r == ReservoirOf(values)
            all == Finite(values)
            n == Len(all)
        IN /\ r.seen = n /\ r.sum = Total(all) /\ r.largest = Highest(all)
           /\ n <= 3 => SH!Samples(r) = all
           /\ n > 3 => SH!Samples(r) = <<all[1], all[n - 1], all[n]>>
           /\ n > 3 /\ all[1] = 9 => SH!Percentile(SH!Samples(r), 99, 0) = 9

(* A percentile is a value that was measured, at least the share it names of the
   samples are no larger, and a higher rank is no smaller a value. *)
ASSUME APercentileWasMeasured ==
    \A samples \in Upto(1..4, 4) : \A rank \in {0, 50, 95, 99, 100} :
        LET v == SH!Percentile(samples, rank, 0)
            Below(w) == Cardinality({i \in DOMAIN samples : samples[i] <= w})
        IN IF samples = << >> THEN v = 0
           ELSE /\ \E i \in DOMAIN samples : samples[i] = v
                /\ 100 * Below(v) >= rank * Len(samples)
                /\ \A lower \in {0, 50, 95} : lower <= rank => SH!Percentile(samples, lower, 0) <= v

-------------------------------------------------------------------------------
LOCAL Pair == <<"venue", "BTC">>
LOCAL Nothing == [registry |-> SH!EmptyRegistry, books |-> << >>]
LOCAL Endings == {"answered", "refused", "abandoned", "throttled", "turned_away"}
LOCAL Attempts == {<<e, FALSE>> : e \in Endings \cup {"unreachable", "server_error"}}
                    \cup {<<"unreachable", TRUE>>, <<"server_error", TRUE>>}
RECURSIVE After(_)
LOCAL After(attempts) ==
    IF attempts = << >> THEN Nothing
    ELSE LET a == Last(attempts)
         IN SH!Attempted(After(Front(attempts)), Pair, Len(attempts), a[1], a[2])
LOCAL Ended(attempts, endings) == Cardinality({i \in DOMAIN attempts : attempts[i][1] \in endings})

(* The registry and the telemetry count the same events of a venue: requests,
   failures, throttles and retries agree after any run of attempts, a failure is
   always of a request that was made, a retry of one that failed; what is abandoned
   by its caller or refused by the venue is a request and no failure. *)
ASSUME TwoBooksAgree ==
    \A attempts \in Upto(Attempts, 4) :
        LET after == After(attempts)
            s == SH!SeriesOf(after.books, Pair)
            Reads(name) == SH!ValueOf(after.registry, name, SH!At2(Pair))
        IN /\ s.requests = Reads("provider_requests_total")
           /\ s.failures = Reads("provider_errors_total")
           /\ s.rateLimits = Reads("provider_rate_limits")
           /\ s.retries = Reads("provider_retries")
           /\ s.requests = Len(attempts) - Ended(attempts, {"turned_away"})
           /\ s.failures = Ended(attempts, {"throttled", "unreachable", "server_error"})
           /\ s.retries <= s.failures /\ s.rateLimits <= s.failures /\ s.failures <= s.requests
           /\ s.timed = s.requests /\ Len(s.samples) = (IF s.timed > 2 THEN 2 ELSE s.timed)

(* Everything declared is shown, at zero before it happened, and what happened stays
   shown; every pair that was called or is served has its share of failures. *)
ASSUME NothingDeclaredIsMissing ==
    \A attempts \in Upto(Attempts, 2), served \in SUBSET {Pair, <<"venue", "ETH">>} :
        LET after == After(attempts)
            published == SH!PublishProviderGauges(after.registry, after.books, served)
            lines == SH!Render(published)
            pairs == served \cup DOMAIN after.books
        IN /\ \A name \in {"provider_requests_total", "provider_error_rate", "provider_latency",
                           "signal_changes_total"} : \E l \in lines : l.name = name
           /\ {l.labels : l \in {m \in lines : m.name = "provider_error_rate"}}
                = (IF pairs = {} THEN {SH!Unlabelled} ELSE {SH!At2(p) : p \in pairs})
           /\ \A l \in lines : l.name = "provider_error_rate" => l.value \in 0..100
           /\ \A k \in DOMAIN after.registry.counters :
                  SH!Line(k.name, k.labels, "value", after.registry.counters[k]) \in lines

-------------------------------------------------------------------------------
(* A counter never falls and a refused write changes nothing but says so; no limit
   stands in the way of a new label value. *)
ASSUME CountersOnlyRise ==
    \A name \in {"market_cache_hits", "provider_error_rate", "never_declared"},
       amounts \in Upto(-1..2, 3), value \in {"BTC", "b{c"} :
        LET key == SH!SeriesKey(name, {<<"market", value>>})
            Once(reg, n) == SH!Counter(reg, name, n, {<<"market", value>>})
        IN \A i \in DOMAIN amounts :
            LET before == [SH!EmptyRegistry EXCEPT !.counters = Put(@, key, 5)]
                after == Once(before, amounts[i])
            IN /\ (after = SH!Refused) = (name # "market_cache_hits" \/ amounts[i] < 0 \/ value # "BTC")
               /\ after # SH!Refused => after.counters[key] = 5 + amounts[i]

RECURSIVE Hits(_)
LOCAL Hits(markets) ==
    IF markets = << >> THEN SH!EmptyRegistry
    ELSE SH!CountCacheEvent(Hits(Front(markets)), "market_cache_hits", Last(markets))

(* A cache event is shown twice under one name, once without a label and once with
   its market: the sum over the series is twice what happened. *)
ASSUME TotalsStandBesideTheirParts ==
    \A markets \in Upto({"BTC", "ETH"}, 4) :
        LET reg == Hits(markets)
            Of(m) == SH!ValueOf(reg, "market_cache_hits", {<<"market", m>>})
        IN /\ SH!ValueOf(reg, "market_cache_hits", SH!Unlabelled) = Len(markets)
           /\ Of("BTC") + Of("ETH") = Len(markets)

(* The totals of a backlog are shown by hand and, as their names are declared and
   nothing records them, a second time by the registry as zero: one name and no label
   with two values as soon as the backlog is not empty. Nothing else is shown twice. *)
ASSUME BacklogTotalsAreShownTwice ==
    \A all \in 0..2, ofBtc \in 0..1, attempts \in Upto(Attempts, 1) :
        LET state == [buffered |-> [name |-> "held", all |-> all, byMarket |-> << >>],
                      spooled |-> [name |-> "kept", all |-> all, byMarket |-> << >>],
                      dropped |-> [name |-> Backlog, all |-> all,
                                   byMarket |-> Put(<< >>, "BTC", ofBtc)]]
            after == After(attempts)
            shown == SH!RenderMetrics([history |-> state], after.registry, after.books, {})
            Twice == {l \in shown.byHand : \E m \in shown.byRegistry : l.name = m.name /\ l.labels = m.labels}
        IN /\ {<<l.name, l.labels>> : l \in Twice} = {<<Backlog, SH!Unlabelled>>}
           /\ \A l \in Twice : l \in shown.byRegistry <=> all = 0

-------------------------------------------------------------------------------
RECURSIVE Published(_)
LOCAL Published(signals) ==
    IF signals = << >> THEN [registry |-> SH!EmptyRegistry, last |-> << >>]
    ELSE LET before == Published(Front(signals))
         IN SH!RecordPublishedSignal(before.registry, before.last, Last(signals)[1], Last(signals)[2])

(* Every signal is counted, and those that differ from the one before of their market;
   the first of a market after a start is no change, where the comment says it is. *)
ASSUME TheFirstSignalIsNoChange ==
    \A signals \in Upto({"LONG", "SHORT"} \X {"BTC", "ETH"}, 4) :
        LET after == Published(signals)
            Earlier(i) == {j \in 1..(i - 1) : signals[j][2] = signals[i][2]}
            Changes == {i \in DOMAIN signals : /\ Earlier(i) # {}
                          /\ LET j == CHOOSE k \in Earlier(i) : \A l \in Earlier(i) : l <= k
                             IN signals[j][1] # signals[i][1]}
        IN /\ SH!ValueOf(after.registry, "signal_changes_total", SH!Unlabelled) = Cardinality(Changes)
           /\ SH!ChurnRate(after.registry) = (IF signals = << >> THEN SH!NoRate
                ELSE [changed |-> Cardinality(Changes), of |-> Len(signals)])
           /\ \A d \in {"LONG", "SHORT"} :
                  SH!ValueOf(after.registry, "signal_generation_total", {<<"signal", d>>}) = 0

LOCAL RequestEvents == {<<"started", r>> : r \in {"/a", "unmatched"}} \cup {<<"finished", s>> : s \in {200, 404, 500}}
RECURSIVE RequestsOf(_)
LOCAL RequestsOf(events) ==
    IF events = << >> THEN SH!NoRequests
    ELSE IF Last(events)[1] = "started" THEN SH!RequestStarted(RequestsOf(Front(events)), Last(events)[2])
    ELSE SH!RequestFinished(RequestsOf(Front(events)), Last(events)[2])
LOCAL Of(events, kind) == Cardinality({i \in DOMAIN events : events[i][1] = kind})

(* While no more requests finish than started, those in flight are the difference,
   whatever the order; the routes add up to the requests, and only answers of 400 and
   above are failures. *)
ASSUME RequestsAddUp ==
    \A events \in Upto(RequestEvents, 4) :
        LET s == RequestsOf(events)
            Prefix(n) == SubSeq(events, 1, n)
            inOrder == \A n \in DOMAIN events : Of(Prefix(n), "finished") <= Of(Prefix(n), "started")
        IN /\ s.requests = Of(events, "started") /\ s.inFlight \in 0..s.requests
           /\ inOrder => s.inFlight = s.requests - Of(events, "finished")
           /\ SH!At(s.byRoute, "/a", 0) + SH!At(s.byRoute, "unmatched", 0) = s.requests
           /\ s.failures = Of(events, "finished") - SH!At(s.byClass, 2, 0)

(* An alert needs enough events, and more of either kind of trouble never silences it. *)
ASSUME AlertsNeedASample ==
    \A values \in Upto({1, 9}, 4), succeeded \in 0..3, failed \in 0..3 :
        LET Judged(f) == SH!JudgeSnapshot([query |-> ReservoirOf(values)], succeeded, f, 5, 50, 3)
        IN /\ Len(values) < 3 /\ succeeded + failed < 3 => Judged(failed) = {}
           /\ (\E f \in 0..3 : <<"failing", f>> \in Judged(failed))
                 => \E f \in 0..4 : <<"failing", f>> \in Judged(failed + 1)
           /\ <<"slow", "query">> \in Judged(failed)
                 <=> Len(values) >= 3 /\ \E i \in DOMAIN SH!Samples(ReservoirOf(values)) :
                                            SH!Samples(ReservoirOf(values))[i] = 9
================================================================================
