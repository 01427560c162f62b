-------------------------------- MODULE ApiReads --------------------------------
(***************************************************************************)
(* What the API answers from what is stored: the summary of a signal's     *)
(* history (history/signal-history.service.ts), its rows and their         *)
(* trimming (history/signal-history.repository.ts), the pages a client     *)
(* walks (api/controllers/signal-history.controller.ts,                    *)
(* api/lib/history-cursor.ts), conditional reads and freshness headers     *)
(* (api/lib), the shared request budget (api/middleware) and the envelope  *)
(* of an error (api/error-handler.ts, errors/), of a venue or of a chain   *)
(* of them (market/failover.provider.ts).                                  *)
(*                                                                         *)
(* A table of history is a function from the buckets it holds to rows      *)
(* [timestamp, signal]; the other columns of a row are carried only. A     *)
(* digest of a payload is the payload it was taken of.                     *)
(***************************************************************************)
EXTENDS Integers, SequencesExt, FiniteSetsExt, Functions

CONSTANTS
    Hour,                  \* milliseconds of an hour
    MaxEntries, MaxLimit,  \* rows kept of a series, the longest page
    TrimEvery,             \* RETENTION_MIN_INTERVAL_MS
    Sign(_),               \* the signature inside a cursor
    Budget, Window         \* requests of one client in one window

Null == [value |-> "null"]

-------------------------------------------------------------------------------
(* The rows of one series: the newest analysis of an hour wins, a trim keeps the newest
   MaxEntries buckets, a read goes from the newest down, below a bucket or not. *)
BucketOf(timestamp) == timestamp \div Hour
Upsert(table, row) ==
    LET bucket == BucketOf(row.timestamp)
    IN IF bucket \in DOMAIN table /\ row.timestamp <= table[bucket].timestamp THEN table
       ELSE [b \in DOMAIN table \cup {bucket} |-> IF b = bucket THEN row ELSE table[b]]
Buckets(table) == SetToSortSeq(DOMAIN table, LAMBDA a, b : a > b)
TrimRetention(table) ==
    IF Cardinality(DOMAIN table) < MaxEntries THEN table
    ELSE Restrict(table, {b \in DOMAIN table : b >= Buckets(table)[MaxEntries]})
(* One trim of a series in TrimEvery, counted from the attempt and not from its end. *)
TrimIsDue(last, now) == last = Null \/ now - last.at >= TrimEvery
MaybeTrimRetention(table, last, now, works) ==
    IF ~TrimIsDue(last, now) THEN [table |-> table, last |-> last]
    ELSE [table |-> IF works THEN TrimRetention(table) ELSE table, last |-> [at |-> now]]
Everything == Null
List(table, limit, before) ==
    LET below == SelectSeq(Buckets(table), LAMBDA b : before = Everything \/ b < before.bucket)
        taken == SubSeq(below, 1, IF Len(below) < limit THEN Len(below) ELSE limit)
    IN [i \in DOMAIN taken |-> table[taken[i]]]

-------------------------------------------------------------------------------
(* How long the signal has held and what it followed, of rows newest first. *)
ChangesWindow == 24 * Hour
IsGap(newer, older) == 2 * (newer.timestamp - older.timestamp) > 3 * Hour
RunDurationHours(newest, start) ==
    IF newest.timestamp < start.timestamp THEN 0
    ELSE (newest.timestamp - start.timestamp) \div Hour
(* Where the run of one signal that starts at a row ends. *)
EndOfRun(entries, first) ==
    CHOOSE last \in first..Len(entries) :
        /\ \A i \in first..last : entries[i].signal = entries[first].signal
        /\ last < Len(entries) => entries[last + 1].signal # entries[first].signal
Turns(entries) ==
    {i \in 1..(Len(entries) - 1) :
        /\ entries[i].signal # entries[i + 1].signal
        /\ entries[i].timestamp >= entries[1].timestamp - ChangesWindow}
EmptySummary ==
    [current |-> Null, duration |-> Null, bounded |-> FALSE, observed |-> Null, gaps |-> 0,
     changes |-> 0, transition |-> Null, previous |-> Null, previousBounded |-> FALSE, sample |-> 0]
SummarizeHistory(entries) ==
    IF entries = << >> THEN EmptySummary
    ELSE LET newest == entries[1]
             end == EndOfRun(entries, 1)
             turn == Min(Turns(entries))
             previous == EndOfRun(entries, turn + 1)
             Turned(value, otherwise) == IF Turns(entries) = {} THEN otherwise ELSE value
         IN [current |-> newest.signal,
             duration |-> RunDurationHours(newest, entries[end]),
             bounded |-> end < Len(entries),
             observed |-> end,
             gaps |-> Cardinality({i \in 2..end : IsGap(entries[i - 1], entries[i])}),
             changes |-> Cardinality(Turns(entries)),
             transition |-> Turned([from |-> entries[turn + 1].signal, to |-> entries[turn].signal,
                                    timestamp |-> entries[turn].timestamp], Null),
             previous |-> Turned(RunDurationHours(entries[turn + 1], entries[previous]), Null),
             previousBounded |-> Turned(previous < Len(entries), FALSE),
             sample |-> RunDurationHours(newest, Last(entries))]

-------------------------------------------------------------------------------
(* A page of the history. A cursor names the last bucket of the page before, signed;
   one that was not made here is refused and never taken for the first page. *)
EncodeCursor(bucket) == [version |-> "h1", bucket |-> bucket, signature |-> Sign(bucket)]
DecodeCursor(cursor) ==
    IF cursor.version = "h1" /\ cursor.bucket >= 0 /\ cursor.signature = Sign(cursor.bucket)
    THEN [bucket |-> cursor.bucket] ELSE Null
Refusal(code, status) == [refused |-> code, status |-> status]
GetSignalHistory(table, query, known) ==
    LET before == IF query.cursor = Null THEN Everything ELSE DecodeCursor(query.cursor)
        full == List(table, MaxEntries, Everything)
        entries == IF before = Everything
                   THEN SubSeq(full, 1, IF Len(full) < query.limit + 1 THEN Len(full) ELSE query.limit + 1)
                   ELSE List(table, query.limit + 1, before)
        more == Len(entries) > query.limit
        page == IF more THEN SubSeq(entries, 1, query.limit) ELSE entries
    IN IF query.limit \notin 1..MaxLimit \/ (query.cursor # Null /\ before = Null)
       THEN Refusal("INVALID_REQUEST", 400)
       ELSE IF ~known THEN Refusal("VALIDATION_ERROR", 400)
       ELSE [entries |-> page, summary |-> SummarizeHistory(full),
             next |-> IF more THEN EncodeCursor(BucketOf(Last(page).timestamp)) ELSE Null]

-------------------------------------------------------------------------------
(* A tag is taken of the payload without the fields that move by themselves, and is
   weak when there are any. A header names tags, or every tag. *)
ComputeEtag(payload, volatileFields) ==
    [weak |-> volatileFields # {}, digest |-> Restrict(payload, DOMAIN payload \ volatileFields)]
IfNoneMatchSatisfied(header, etag) == header.any \/ \E tag \in header.tags : tag.digest = etag.digest
(* How old what is answered is, said before it is known whether anything is sent. *)
DataFreshnessHeaders(result) ==
    [stale |-> result.stale, freshness |-> result.freshness, provider |-> result.provider,
     age |-> IF result.age < 0 THEN 0 ELSE result.age,
     cacheable |-> ~result.stale]
SendWithEtag(header, result, volatileFields) ==
    LET etag == ComputeEtag(result.payload, volatileFields)
    IN [etag |-> etag, headers |-> DataFreshnessHeaders(result)]
         @@ (IF IfNoneMatchSatisfied(header, etag) THEN [status |-> 304]
             ELSE [status |-> 200, body |-> result.payload])

-------------------------------------------------------------------------------
(* The budget of a client in the window of the wall clock, one row of the database that
   every process counts in. A store that cannot answer lets the request pass. *)
WindowStart(now) == (now \div Window) * Window
Counted(windows, key, now) ==
    IF <<key, WindowStart(now)>> \in DOMAIN windows THEN windows[<<key, WindowStart(now)>>] + 1 ELSE 1
Consume(windows, key, now) ==
    LET count == Counted(windows, key, now)
    IN [windows |-> [w \in DOMAIN windows \cup {<<key, WindowStart(now)>>} |->
                        IF w = <<key, WindowStart(now)>> THEN count ELSE windows[w]],
        allowed |-> count <= Budget,
        remaining |-> IF count < Budget THEN Budget - count ELSE 0,
        resetAt |-> WindowStart(now) + Window]
Ceil(a, b) == (a + b - 1) \div b
RateLimitError(seconds) ==
    [kind |-> "application", code |-> "RATE_LIMITED", status |-> 429,
     retryAfter |-> IF seconds < 1 THEN 1 ELSE seconds]
ExemptPaths == {"/healthz", "/readyz", "/metrics"}
Passes == [passes |-> TRUE]
OnRequest(windows, path, key, now, later, works) ==
    LET decision == Consume(windows, key, now)
    IN CASE path \in ExemptPaths \/ ~works -> [windows |-> windows, answer |-> Passes]
         [] path \notin ExemptPaths /\ works ->
              [windows |-> decision.windows,
               answer |-> IF decision.allowed THEN Passes @@ [remaining |-> decision.remaining]
                          ELSE RateLimitError(Ceil(decision.resetAt - later, 1000))]

(* A browser of another origin is told it may read only when its origin is named. *)
CorsHeaders(origin, allowedOrigins) ==
    [vary |-> TRUE, allow |-> IF origin \in allowedOrigins THEN {origin} ELSE {}]

-------------------------------------------------------------------------------
(* What a client is told of an error: the code and the status of the program's own
   errors, a refusal for the framework's request errors, and nothing of the rest. *)
StatusCodeFor(code) ==
    CASE code = "MARKET_PROVIDER_TIMEOUT" -> 504
      [] code \in {"MARKET_INSUFFICIENT_HISTORY", "MARKET_RATE_LIMITED"} -> 503
      [] code \in {"MARKET_DATA_UNAVAILABLE", "MARKET_PROVIDER_ERROR"} -> 502
      [] OTHER -> 500
CodeForKind(kind) ==
    CASE kind = "timeout" -> "MARKET_PROVIDER_TIMEOUT"
      [] kind = "rate_limited" -> "MARKET_RATE_LIMITED"
      [] kind = "insufficient_history" -> "MARKET_INSUFFICIENT_HISTORY"
      [] kind = "invalid_response" -> "MARKET_PROVIDER_ERROR"
      [] kind \in {"unavailable", "circuit_open"} -> "MARKET_DATA_UNAVAILABLE"
StatusForKind(kind) ==
    CASE kind = "timeout" -> 504
      [] kind \in {"rate_limited", "insufficient_history"} -> 503
      [] kind \in {"invalid_response", "unavailable", "circuit_open"} -> 502
ProviderError(kind, provider, retryAfter) ==
    [kind |-> "provider", cause |-> kind, code |-> CodeForKind(kind), status |-> StatusCodeFor(CodeForKind(kind)),
     provider |-> provider, retryAfter |-> retryAfter]
RequestErrorStatus(code) ==
    CASE code = "FST_ERR_CTP_INVALID_MEDIA_TYPE" -> 415
      [] code = "FST_ERR_CTP_BODY_TOO_LARGE" -> 413
      [] code \in {"FST_ERR_CTP_EMPTY_JSON_BODY", "FST_ERR_CTP_INVALID_JSON_BODY",
                   "FST_ERR_VALIDATION", "FST_ERR_BAD_URL", "FST_ERR_BAD_HOST"} -> 400
      [] OTHER -> 0
ToPublicError(error) ==
    CASE error.kind \in {"application", "provider"} -> [status |-> error.status, code |-> error.code]
      [] error.kind = "framework" ->
            IF RequestErrorStatus(error.code) # 0
            THEN [status |-> RequestErrorStatus(error.code), code |-> "INVALID_REQUEST"]
            ELSE [status |-> 500, code |-> "INTERNAL_ERROR"]
      [] error.kind \notin {"application", "provider", "framework"} ->
            [status |-> 500, code |-> "INTERNAL_ERROR"]
(* What is answered and what is logged of it; a venue only where the error names one. *)
AnswerError(error) ==
    [body |-> ToPublicError(error),
     retryAfter |-> IF error.kind \in {"application", "provider"} THEN error.retryAfter ELSE Null,
     logged |-> [code |-> IF error.kind \in {"application", "provider"} THEN error.code ELSE "INTERNAL_ERROR",
                 venue |-> IF error.kind = "provider" THEN {error.provider} ELSE {}]]

-------------------------------------------------------------------------------
(* What escapes a read of a venue (market/providers/).  Bitget tells a failure in the code
   of an answer that arrived, and its data is looked at only when there was none.  Whether
   a failure may be tried again is told of each; nothing asks yet. *)
Retryable(error) == error.kind = "provider" /\ error.cause \in {"unavailable", "timeout"}
SuccessCode == "00000"
RequestErrorCodes == {"40034", "40053", "400100", "400171", "40404"}
NormalizeError(thrown, provider) ==
    CASE thrown.kind = "provider" -> thrown
      [] thrown.kind = "timed_out" -> ProviderError("timeout", provider, Null)
      [] thrown.kind = "zod" -> ProviderError("invalid_response", provider, Null)
      [] thrown.kind \notin {"provider", "timed_out", "zod"} -> ProviderError("unavailable", provider, Null)
ReadBitget(body) ==
    CASE body.code # SuccessCode ->
            ProviderError(IF body.code \in RequestErrorCodes THEN "invalid_response" ELSE "unavailable",
                          "bitget", Null)
      [] body.code = SuccessCode /\ ~body.wellFormed -> NormalizeError([kind |-> "zod"], "bitget")
      [] body.code = SuccessCode /\ body.wellFormed -> [kind |-> "rows"]

-------------------------------------------------------------------------------
(* What a chain of venues answers (market/failover.provider.ts).  Every venue has failed:
   one failure stands for all of theirs, whose kinds are known of the venues' own errors
   only, and with it go neither their waits nor their refusals. *)
AggregateKind(failures) ==
    LET kinds == {f.cause : f \in {g \in ToSet(failures) : g.kind = "provider"}}
    IN CASE "rate_limited" \in kinds -> "rate_limited"
         [] "rate_limited" \notin kinds /\ "timeout" \in kinds /\ "unavailable" \notin kinds -> "timeout"
         [] OTHER -> "unavailable"
AggregateStatus(failures, kind) ==
    IF kind = "timeout" /\ \A f \in ToSet(failures) : f.kind = "provider" /\ f.cause = "timeout"
    THEN StatusForKind("timeout") ELSE StatusForKind(kind)
ChainError(failures) ==
    LET kind == AggregateKind(failures)
    IN [ProviderError(kind, "failover", Null) EXCEPT !.status = AggregateStatus(failures, kind)]

(* One did answer.  A live read without a name gets the name of who was asked; a read of
   history must carry that very name, and a venue that cannot name itself has failed. *)
Unnamed == ""
AttributedCandles(asked, read) == [read EXCEPT !.venue = IF @ = Unnamed THEN asked ELSE @]
AskHistory(venue) ==
    IF venue.attributes THEN venue.read ELSE ProviderError("invalid_response", venue.name, Null)
AttributedHistoricalCandles(asked, read) ==
    IF read.venue = asked THEN read ELSE ProviderError("invalid_response", asked, Null)
===============================================================================
