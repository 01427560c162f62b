------------------------------ MODULE ServiceHealth ------------------------------
(***************************************************************************)
(* What the service says of itself.  Of its health: of the bars of its     *)
(* markets (observability/health.registry.ts), of its components and its   *)
(* incidents (observability/health.ts), of each venue and market           *)
(* (market/providers/provider-health.ts), and whether it is ready          *)
(* (api/routes/health.ts).  Of what it counts: the registry of metrics and *)
(* its reservoirs (observability/registry.ts, observability/metrics.ts),   *)
(* the telemetry of each venue and market (market/providers/               *)
(* provider-telemetry.ts) with the gauges derived from it (provider-       *)
(* metrics.ts), the requests of the api and the whole exposition           *)
(* (api/lib/metrics.ts), and the signals that were news                    *)
(* (signals/signal-publication.ts).                                        *)
(*                                                                         *)
(* A series is a name with a set of <<label, value>>; sorting and the text *)
(* of an exposition are left out, and a line is a record of what it says.  *)
(***************************************************************************)
EXTENDS Integers, SequencesExt, FiniteSetsExt

CONSTANTS FreshWithin,      \* of the newest stored bar: two days
          BarInterval,      \* candleIntervalMs of the configuration
          DegradedAfter,    \* providerDegradedAfterMs
          Counters, Gauges, Distributions,  \* the declared names of each kind
          SafeValues,                       \* label values of the exposition's alphabet
          Capacity, WarmUp,                 \* of a reservoir
          SampleSize                        \* providerLatencySampleSize

NoMarket == "none"

-------------------------------------------------------------------------------
(* The newest stored bar of each configured market, and of these the oldest; a
   market without rows is said to be of time 0. *)
OldestCandle(markets, stored) ==
    FoldLeft(LAMBDA oldest, market :
                 IF oldest.at = 0 \/ stored[market] < oldest.at
                 THEN [market |-> market, at |-> stored[market]] ELSE oldest,
             [market |-> markets[1], at |-> 0], markets)

(* Of the markets that were observed, the one furthest behind. *)
OldestObservedBar(markets, newest, now) ==
    FoldLeft(LAMBDA oldest, market :
                 LET age == IF newest[market] > now THEN 0 ELSE now - newest[market]
                 IN IF oldest.market = NoMarket \/ age > oldest.age
                    THEN [market |-> market, age |-> age] ELSE oldest,
             [market |-> NoMarket, age |-> 0],
             SelectSeq(markets, LAMBDA market : market \in DOMAIN newest))

Component(name, state) == [name |-> name, state |-> state]

(* A check that throws is a component that fails. *)
Database(answers) == Component("database", IF answers THEN "ok" ELSE "failing")
MarketProvider(answers, age) ==
    Component("market-provider",
              IF ~answers \/ age < 0 \/ age > 5 * FreshWithin THEN "failing"
              ELSE IF age > FreshWithin THEN "degraded" ELSE "ok")
MarketFreshness(age) ==
    Component("market-freshness", IF age > 2 * BarInterval THEN "degraded" ELSE "ok")
Retention(policies) == Component("retention", IF policies = 0 THEN "failing" ELSE "ok")

Severity == [ok |-> 0, skipped |-> 1, degraded |-> 2, failing |-> 3]

(* The worst first, and among equals as they came. *)
BySeverity(components) ==
    LET of(state) == SelectSeq(components, LAMBDA c : c.state = state)
    IN of("failing") \o of("degraded") \o of("skipped") \o of("ok")

Summarize(components) ==
    LET sorted == BySeverity(components)
    IN [state |-> IF sorted = << >> THEN "ok" ELSE sorted[1].state,
        components |-> sorted,
        problems |-> SelectSeq(sorted, LAMBDA c : c.state # "ok"),
        healthy |-> \A i \in DOMAIN sorted : sorted[i].state \in {"ok", "skipped"}]

(* healthRegistry.report; a probe of the stored bars is asked of the database. *)
Report(answers, markets, stored, newest, policies, now) ==
    Summarize(<<Database(answers),
                MarketProvider(answers, now - OldestCandle(markets, stored).at),
                MarketFreshness(OldestObservedBar(markets, newest, now).age),
                Retention(policies)>>)

-------------------------------------------------------------------------------
(* The incident log: of a component at most one is open, it worsens in place and the
   next recovery closes it; a recovery of nothing is an incident of no length. *)
Incident(component, severity, openedAt, closedAt, events) ==
    [component |-> component, severity |-> severity, openedAt |-> openedAt, closedAt |-> closedAt,
     events |-> events]
Open == -1
Worsens(kind, severity) ==
    Severity[IF kind = "open" THEN "degraded" ELSE kind] > Severity[severity]

Record(log, component, kind, at) ==
    LET opened == {i \in DOMAIN log : log[i].component = component /\ log[i].closedAt = Open}
        i == Min(opened)
    IN CASE kind \in {"degraded", "failing", "open"} /\ opened = {} ->
                Append(log, Incident(component, IF kind = "failing" THEN kind ELSE "degraded", at, Open,
                                     <<kind>>))
         [] kind \in {"degraded", "failing", "open"} /\ opened # {} ->
                IF ~Worsens(kind, log[i].severity) THEN log
                ELSE [log EXCEPT ![i].severity = IF kind = "failing" THEN kind ELSE @,
                                 ![i].events = Append(@, kind)]
         [] OTHER ->
                IF opened = {} THEN Append(log, Incident(component, "degraded", at, at, <<kind>>))
                ELSE [log EXCEPT ![i].closedAt = at, ![i].events = Append(@, kind)]

-------------------------------------------------------------------------------
(* The record of a venue and a market. *)
Never == -1
EmptyRecord == [success |-> Never, failure |-> Never, failures |-> 0, limitedUntil |-> 0]

RecordSuccess(record, now) == [record EXCEPT !.success = now, !.failures = 0]

(* A refusal by the circuit itself is not definitive: it says nothing of the venue. *)
RecordFailure(record, now, definitive) ==
    [record EXCEPT !.failure = now, !.failures = IF definitive THEN @ + 1 ELSE @]

RecordRateLimit(record, now, retryAfter) ==
    [record EXCEPT !.failure = now, !.limitedUntil = now + retryAfter]

ProviderHealthState(record, circuit, now) ==
    CASE circuit = "open" -> "circuit_open"
      [] circuit # "open" /\ record.limitedUntil > now -> "rate_limited"
      [] circuit = "probing" /\ record.limitedUntil <= now -> "recovering"
      [] circuit = "closed" /\ record.limitedUntil <= now ->
            IF record.failures > 0
            THEN IF record.success = Never THEN "unavailable" ELSE "recovering"
            ELSE IF record.success = Never \/ now - record.success > DegradedAfter
                 THEN "degraded" ELSE "healthy"

IsAvailable(state) == state \in {"healthy", "degraded", "recovering"}

VenueSeverity == [healthy |-> 0, recovering |-> 1, degraded |-> 2, rate_limited |-> 3,
                  circuit_open |-> 4, unavailable |-> 5]

(* venueHealthSummary: the first of the worst of a venue's markets, and of a venue
   nobody has asked the state of one that never answered. *)
VenueHealthSummary(records, circuits, now) ==
    LET states == [i \in DOMAIN records |-> ProviderHealthState(records[i], circuits[i], now)]
        worse(i, j) == VenueSeverity[states[j]] > VenueSeverity[states[i]]
        worst == CHOOSE i \in DOMAIN states :
                     \A j \in DOMAIN states : ~worse(i, j) /\ (j < i => worse(j, i))
    IN IF records = << >> THEN [state |-> ProviderHealthState(EmptyRecord, "closed", now), failures |-> 0]
       ELSE [state |-> states[worst], failures |-> records[worst].failures]

(* anyMarketProviderAvailable, of the states of one market at the venues serving it *)
AnyMarketProviderAvailable(states) == \E state \in states : IsAvailable(state)

-------------------------------------------------------------------------------
(* The answer of /readyz: the database alone decides, everything else is told. *)
DatabaseIsUsable(answers, readable, version, supported) ==
    IF ~answers THEN "database_unusable"
    ELSE IF version > supported THEN "schema_too_new"
    ELSE IF ~readable THEN "database_unusable" ELSE "ok"

Ready(database, venues) ==
    [code |-> IF database = "ok" THEN 200 ELSE 503,
     marketData |-> \E state \in venues : IsAvailable(state)]

-------------------------------------------------------------------------------
Refused == [refused |-> TRUE]
Unlabelled == {}
SeriesKey(name, labels) == [name |-> name, labels |-> labels]
LabelsStand(labels) == \A l \in labels : l[2] \in SafeValues

-------------------------------------------------------------------------------
(* A reservoir: its first values for good, then the latest; not a number is not a
   value. *)
NotFinite == -1
EmptyReservoir == [warm |-> << >>, recent |-> << >>, seen |-> 0, sum |-> 0, largest |-> 0]
Latest(values, limit) ==
    SubSeq(values, IF Len(values) > limit THEN Len(values) - limit + 1 ELSE 1, Len(values))
RecordValue(r, value) ==
    IF value = NotFinite THEN r
    ELSE LET counted == [r EXCEPT !.seen = @ + 1, !.sum = @ + value,
                                  !.largest = IF r.seen = 0 \/ value > @ THEN value ELSE @]
         IN IF Len(r.warm) < WarmUp THEN [counted EXCEPT !.warm = Append(@, value)]
            ELSE [counted EXCEPT !.recent = Latest(Append(@, value), Capacity)]
Samples(r) == r.warm \o r.recent

(* The nearest rank, in hundredths. *)
Percentile(samples, rank, none) ==
    IF samples = << >> THEN none
    ELSE LET n == Len(samples)
             place == (rank * n + 99) \div 100
         IN SortSeq(samples, <)[IF place > n THEN n ELSE IF place < 1 THEN 1 ELSE place]

-------------------------------------------------------------------------------
(* The registry: of each series its count, its level or its reservoir. *)
EmptyRegistry == [counters |-> << >>, gauges |-> << >>, distributions |-> << >>]
Put(series, key, value) ==
    [k \in DOMAIN series \cup {key} |-> IF k = key THEN value ELSE series[k]]
At(series, key, otherwise) == IF key \in DOMAIN series THEN series[key] ELSE otherwise

Counter(reg, name, amount, labels) ==
    LET key == SeriesKey(name, labels)
    IN IF name \notin Counters \/ amount < 0 \/ ~LabelsStand(labels) THEN Refused
       ELSE [reg EXCEPT !.counters = Put(@, key, At(@, key, 0) + amount)]
Gauge(reg, name, value, labels) ==
    IF name \notin Gauges \/ ~LabelsStand(labels) THEN Refused
    ELSE [reg EXCEPT !.gauges = Put(@, SeriesKey(name, labels), value)]
Observe(reg, name, value, labels) ==
    LET key == SeriesKey(name, labels)
    IN IF name \notin Distributions \/ ~LabelsStand(labels) THEN Refused
       ELSE [reg EXCEPT !.distributions =
                Put(@, key, RecordValue(At(@, key, EmptyReservoir), value))]

(* A declared name that has no series reads as zero; a distribution has no value. *)
NoReading == -1
ValueOf(reg, name, labels) ==
    LET key == SeriesKey(name, labels)
    IN IF key \in DOMAIN reg.counters THEN reg.counters[key]
       ELSE IF key \in DOMAIN reg.gauges THEN reg.gauges[key]
       ELSE IF name \in Distributions THEN NoReading ELSE 0

(* Every declared name is shown: its series, or an unlabelled zero while it has none;
   of a distribution the sum, the count, three quantiles and the maximum. *)
Line(name, labels, part, value) == [name |-> name, labels |-> labels, part |-> part, value |-> value]
Level(names, series) ==
    {Line(k.name, k.labels, "value", series[k]) : k \in DOMAIN series}
      \cup {Line(n, Unlabelled, "value", 0) : n \in {m \in names : \A k \in DOMAIN series : k.name # m}}
Summary(k, r) ==
    {Line(k.name, k.labels, "sum", r.sum), Line(k.name, k.labels, "count", r.seen),
     Line(k.name, k.labels, "max", r.largest)}
      \cup {Line(k.name, k.labels, q[1], Percentile(Samples(r), q[2], 0)) :
               q \in {<<"p50", 50>>, <<"p95", 95>>, <<"p99", 99>>}}
Render(reg) ==
    Level(Counters, reg.counters) \cup Level(Gauges, reg.gauges)
      \cup UNION {Summary(k, reg.distributions[k]) : k \in DOMAIN reg.distributions}
      \cup {Line(n, Unlabelled, "count", 0) :
               n \in {m \in Distributions : \A k \in DOMAIN reg.distributions : k.name # m}}

-------------------------------------------------------------------------------
(* The telemetry of the venues: a series per venue and market, next to the registry
   that counts the same events. *)
EmptySeries == [requests |-> 0, failures |-> 0, rateLimits |-> 0, retries |-> 0,
                circuitOpens |-> 0, last |-> NotFinite, total |-> 0, timed |-> 0, samples |-> << >>]
At2(pair) == {<<"provider", pair[1]>>, <<"market", pair[2]>>}
SeriesOf(books, pair) == At(books, pair, EmptySeries)
Counted(both, name, pair) == [both EXCEPT !.registry = Counter(@, name, 1, At2(pair))]
Booked(both, pair, series) == [both EXCEPT !.books = Put(@, pair, series)]

RecordProviderRequest(both, pair, latency) ==
    LET counted == Counted(both, "provider_requests_total", pair)
        s == SeriesOf(both.books, pair)
        asked == [s EXCEPT !.requests = @ + 1, !.last = latency]
    IN IF latency = NotFinite THEN Booked(counted, pair, asked)
       ELSE Booked([counted EXCEPT !.registry = Observe(@, "provider_latency", latency, At2(pair))], pair,
                   [asked EXCEPT !.total = @ + latency, !.timed = @ + 1,
                                 !.samples = Latest(Append(@, latency), SampleSize)])
RecordProviderError(both, pair) ==
    Booked(Counted(both, "provider_errors_total", pair), pair,
           [SeriesOf(both.books, pair) EXCEPT !.failures = @ + 1])
RecordProviderRateLimited(both, pair) ==
    Booked(Counted(both, "provider_rate_limits", pair), pair,
           [SeriesOf(both.books, pair) EXCEPT !.rateLimits = @ + 1])
RecordProviderRetry(both, pair) ==
    Booked(Counted(both, "provider_retries", pair), pair,
           [SeriesOf(both.books, pair) EXCEPT !.retries = @ + 1])

RecordProviderCircuitOpen(both, pair) ==
    Booked(both, pair, [SeriesOf(both.books, pair) EXCEPT !.circuitOpens = @ + 1])

(* What one attempt of the transport records, by how it ended and whether another
   follows it. *)
Attempted(both, pair, latency, ending, again) ==
    LET asked == RecordProviderRequest(both, pair, latency)
        retried(b) == IF again THEN RecordProviderRetry(b, pair) ELSE b
    IN CASE ending = "turned_away" -> RecordProviderCircuitOpen(both, pair)
         [] ending \in {"answered", "refused", "abandoned"} -> asked
         [] ending = "throttled" ->
                RecordProviderError(RecordProviderRateLimited(asked, pair), pair)
         [] ending \in {"unreachable", "server_error"} -> retried(RecordProviderError(asked, pair))

(* The gauges are set when somebody looks: for every pair that is served or that was
   called, its share of failed requests. *)
PublishProviderGauges(reg, books, served) ==
    FoldSet(LAMBDA pair, r :
                LET s == SeriesOf(books, pair)
                IN Gauge(r, "provider_error_rate",
                         IF s.requests = 0 THEN 0 ELSE (100 * s.failures) \div s.requests, At2(pair)),
            reg, served \cup DOMAIN books)

-------------------------------------------------------------------------------
(* The requests of the api. *)
NoRequests == [requests |-> 0, failures |-> 0, inFlight |-> 0, byRoute |-> << >>, byClass |-> << >>]
RequestStarted(snapshot, route) ==
    [snapshot EXCEPT !.inFlight = @ + 1, !.requests = @ + 1,
                     !.byRoute = Put(@, route, At(@, route, 0) + 1)]
RequestFinished(snapshot, status) ==
    [snapshot EXCEPT !.inFlight = IF @ > 0 THEN @ - 1 ELSE 0,
                     !.failures = IF status >= 400 THEN @ + 1 ELSE @,
                     !.byClass = Put(@, status \div 100, At(@, status \div 100, 0) + 1)]

(* A backlog is shown in full and by market; then comes everything the registry has. *)
BacklogParts == {"buffered", "dropped", "spooled"}
BacklogLines(states) ==
    UNION {{Line(states[b][part].name, Unlabelled, "value", states[b][part].all)}
             \cup {Line(states[b][part].name, {<<"market", m>>}, "value", states[b][part].byMarket[m]) :
                      m \in DOMAIN states[b][part].byMarket} : b \in DOMAIN states, part \in BacklogParts}
RenderMetrics(states, reg, books, served) ==
    [byHand |-> BacklogLines(states), byRegistry |-> Render(PublishProviderGauges(reg, books, served))]

-------------------------------------------------------------------------------
(* Signals that were published, and those that were news to their market. *)
RecordPublishedSignal(reg, last, direction, market) ==
    LET total == Counter(Counter(reg, "signal_generation_total", 1, Unlabelled),
                         "signal_generation_total", 0, {<<"signal", direction>>})
    IN [registry |-> IF market \in DOMAIN last /\ last[market] # direction
                     THEN Counter(total, "signal_changes_total", 1, Unlabelled) ELSE total,
        last |-> Put(last, market, direction)]
NoRate == [rate |-> "none"]
ChurnRate(reg) ==
    LET generated == ValueOf(reg, "signal_generation_total", Unlabelled)
    IN IF generated = 0 THEN NoRate
       ELSE [changed |-> ValueOf(reg, "signal_changes_total", Unlabelled), of |-> generated]

(* A cache event is counted for the deployment and for its market. *)
CountCacheEvent(reg, name, market) ==
    Counter(Counter(reg, name, 1, Unlabelled), name, 1, {<<"market", market>>})

-------------------------------------------------------------------------------
(* An alert on a snapshot: only of what was seen often enough. *)
JudgeSnapshot(durations, succeeded, failed, p99Limit, failurePercent, minSample) ==
    {<<"slow", name>> : name \in {n \in DOMAIN durations :
        /\ durations[n].seen >= minSample
        /\ Percentile(Samples(durations[n]), 99, 0) > p99Limit}}
      \cup {<<"failing", f>> : f \in
               IF /\ succeeded + failed >= minSample
                  /\ 100 * failed > failurePercent * (succeeded + failed)
               THEN {failed} ELSE {}}
===============================================================================
