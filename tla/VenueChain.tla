------------------------------- MODULE VenueChain -------------------------------
(***************************************************************************)
(* The way to the venues for one market: the chain of                      *)
(* market/failover.provider.ts, and under it the request and the breaker   *)
(* of each venue, market/providers/provider-http.ts and circuit-breaker.ts.*)
(*                                                                         *)
(* Requests of the dashboard, the cycle and the ingestion overlap; all of  *)
(* them share the chain's preferred venue and the venues' breakers, and    *)
(* read them again after every await.  A venue's answer can come at any    *)
(* time, also long after the breaker has opened or probed.                 *)
(*                                                                         *)
(* Venue 0 is the primary.  Time is the end of a cooldown, at any moment.  *)
(* A call of a venue is one HTTP request; no caller in the program aborts  *)
(* one, so only the answers and the timeout end it.                        *)
(***************************************************************************)
EXTENDS Naturals, FiniteSets

CONSTANTS
    Request,            \* requests that may be in flight at once
    Venues,             \* length of the chain
    MaxRetries,
    FailureThreshold,
    RecoverySuccesses

Venue == 0..Venues - 1

ASSUME ChainAssumption ==
    /\ {Venues, FailureThreshold, RecoverySuccesses} \subseteq Nat \ {0}
    /\ MaxRetries \in Nat

VARIABLES
    preferred,  \* the venue asked first
    recovery,   \* consecutiveBackupSuccesses
    failures,   \* failures[v]: consecutiveFailures, counted up to the threshold
    cooling,    \* cooling[v]: openUntil lies in the future
    probing,    \* probing[v]: probeInFlight
    call,       \* call[r]: where request r is, and its locals
    disturbed   \* disturbed[v]: while a probe of v was out, another request of
                \* v has reset the breaker

breaker == <<failures, cooling, probing>>
chain == <<preferred, recovery>>
vars == <<chain, breaker, call, disturbed>>

(* `asked` and `moved` are not in the code: the venues the request has turned
   to, and whether the preference has changed since it began. *)
Idle ==
    [at |-> "idle", venue |-> 0, step |-> 0, attempt |-> 0, probe |-> FALSE,
     asked |-> {}, moved |-> FALSE]

Call ==
    [at : {"idle", "fetch", "backoff", "body", "thrown"}, venue : Venue,
     step : Venue, attempt : 0..MaxRetries, probe : BOOLEAN,
     asked : SUBSET Venue, moved : BOOLEAN]

TypeOK ==
    /\ preferred \in Venue
    /\ recovery \in 0..RecoverySuccesses - 1
    /\ failures \in [Venue -> 0..FailureThreshold]
    /\ cooling \in [Venue -> BOOLEAN]
    /\ probing \in [Venue -> BOOLEAN]
    /\ call \in [Request -> Call]
    /\ disturbed \in [Venue -> BOOLEAN]
    /\ \A v \in Venue : cooling[v] => failures[v] = FailureThreshold

Init ==
    /\ preferred = 0 /\ recovery = 0
    /\ failures = [v \in Venue |-> 0]
    /\ cooling = [v \in Venue |-> FALSE]
    /\ probing = [v \in Venue |-> FALSE]
    /\ call = [r \in Request |-> Idle]
    /\ disturbed = [v \in Venue |-> FALSE]

Holders(calls, v) == {r \in Request : calls[r].venue = v /\ calls[r].probe}

(* The request of r to its venue is over, or it resets the breaker under the
   probe of another one. *)
Disturbs(r, resets) ==
    LET v == call[r].venue IN
    disturbed' = [disturbed EXCEPT ![v] =
        /\ Holders(call', v) # {}
        /\ @ \/ (resets /\ Holders(call, v) \ {r} # {})]

(***************************************************************************)
(* circuit-breaker.ts, for venue v.                                        *)
(***************************************************************************)

Closed(v) == failures[v] < FailureThreshold
Open(v) == ~Closed(v) /\ cooling[v]

Admits(v) == Closed(v) \/ (~Open(v) /\ ~probing[v])

(* Plausible bug: every failed attempt gives the reservation back. *)
RecordFailure(v, over) ==
    /\ failures' = [failures EXCEPT ![v] = IF Closed(v) THEN @ + 1 ELSE @]
    /\ cooling' = [cooling EXCEPT ![v] = failures'[v] = FailureThreshold]
    /\ probing' = [probing EXCEPT ![v] = FALSE]

(* A failed attempt counts, and opens the breaker or starts its cooldown
   again; a probe that is over gives its reservation back. *)
RecordAttemptFailure(v, over) ==
    /\ failures' = [failures EXCEPT ![v] = IF Closed(v) THEN @ + 1 ELSE @]
    /\ cooling' = [cooling EXCEPT ![v] = failures'[v] = FailureThreshold]
    /\ probing' = [probing EXCEPT ![v] = @ /\ ~over]

RecordSuccess(v) ==
    /\ failures' = [failures EXCEPT ![v] = 0]
    /\ cooling' = [cooling EXCEPT ![v] = FALSE]
    /\ probing' = [probing EXCEPT ![v] = FALSE]

(* Plausible bug: a dictated window keeps the reservation. *)
OpenForKeepsProbe(v) ==
    /\ failures' = [failures EXCEPT ![v] = FailureThreshold]
    /\ cooling' = [cooling EXCEPT ![v] = TRUE]
    /\ UNCHANGED probing

(* Plausible bug: a dictated window is set without opening the breaker. *)
OpenForUncounted(v) ==
    /\ cooling' = [cooling EXCEPT ![v] = TRUE]
    /\ probing' = [probing EXCEPT ![v] = FALSE]
    /\ UNCHANGED failures

(* A rate limit opens the breaker whatever the count, and ends a probe. *)
OpenFor(v) ==
    /\ failures' = [failures EXCEPT ![v] = FailureThreshold]
    /\ cooling' = [cooling EXCEPT ![v] = TRUE]
    /\ probing' = [probing EXCEPT ![v] = FALSE]

CooldownEnds(v) ==
    /\ cooling[v]
    /\ cooling' = [cooling EXCEPT ![v] = FALSE]
    /\ UNCHANGED <<chain, failures, probing, call, disturbed>>

(***************************************************************************)
(* failover.provider.ts: the loop of runAttributed.                        *)
(***************************************************************************)

(* Plausible bug: the loop starts behind the preferred venue. *)
VenueAfter(step) == (preferred + step + 1) % Venues

(* The venue of a step, counted from what is preferred by then. *)
VenueAt(step) == (preferred + step) % Venues

(* The loop turns to a venue, whose breaker admits the request or refuses. *)
Turn(r, step, asked, moved) ==
    LET v == VenueAt(step) IN
    /\ call' = [call EXCEPT ![r] =
            [at |-> IF Admits(v) THEN "fetch" ELSE "thrown", venue |-> v,
             step |-> step, attempt |-> 0, probe |-> Admits(v) /\ ~Closed(v),
             asked |-> asked \cup {v}, moved |-> moved]]
    /\ probing' = [probing EXCEPT ![v] = @ \/ (Admits(v) /\ ~Closed(v))]
    /\ UNCHANGED <<failures, cooling, disturbed>>

Begin(r) ==
    /\ call[r].at = "idle"
    /\ Turn(r, 0, {}, FALSE)
    /\ UNCHANGED chain

(* Plausible bug: the loop leaves the last venue out. *)
LastStepEarly(r) == call[r].step + 2 >= Venues

LastStep(r) == call[r].step + 1 >= Venues

(* The venue's error is caught: on to the next venue, or out with the errors
   of all of them.  An error of the primary starts its recovery anew. *)
CatchNext(r) ==
    /\ call[r].at = "thrown"
    /\ recovery' = IF call[r].venue = 0 THEN 0 ELSE recovery
    /\ \/ /\ ~LastStep(r)
          /\ Turn(r, call[r].step + 1, call[r].asked, call[r].moved)
       \/ /\ LastStep(r)
          /\ call' = [call EXCEPT ![r] = Idle]
          /\ UNCHANGED <<breaker, disturbed>>
    /\ UNCHANGED preferred

(* recordSuccess: who is preferred after venue v has answered. *)
Prefer(v) ==
    \/ /\ v = preferred
       /\ UNCHANGED chain
    \/ /\ v # preferred /\ preferred = 0
       /\ preferred' = v /\ recovery' = 0
    \/ /\ v # preferred /\ preferred # 0
       /\ IF recovery + 1 >= RecoverySuccesses
          THEN preferred' = 0 /\ recovery' = 0
          ELSE recovery' = recovery + 1 /\ UNCHANGED preferred

(***************************************************************************)
(* provider-http.ts: one request to a venue.                               *)
(***************************************************************************)

(* No connection, a timeout or a 5xx: again after a backoff, or given up with
   the reservation returned. *)
Unreachable(r) ==
    /\ call[r].at = "fetch"
    /\ \/ /\ call[r].attempt < MaxRetries
          /\ RecordAttemptFailure(call[r].venue, FALSE)
          /\ call' = [call EXCEPT ![r].at = "backoff"]
          /\ UNCHANGED disturbed
       \/ /\ call[r].attempt >= MaxRetries
          /\ RecordAttemptFailure(call[r].venue, call[r].probe)
          /\ call' = [call EXCEPT ![r].at = "thrown", ![r].probe = FALSE]
          /\ Disturbs(r, call[r].probe)
    /\ UNCHANGED chain

(* Plausible bug: the attempts are not counted. *)
RetryUncounted(r) ==
    /\ call[r].at = "backoff"
    /\ call' = [call EXCEPT ![r].at = "fetch"]
    /\ UNCHANGED <<chain, breaker, disturbed>>

Retry(r) ==
    /\ call[r].at = "backoff"
    /\ call' = [call EXCEPT ![r].at = "fetch", ![r].attempt = @ + 1]
    /\ UNCHANGED <<chain, breaker, disturbed>>

(* A rate limit, which dictates how long the venue is let alone. *)
Throttled(r) ==
    /\ call[r].at = "fetch"
    /\ OpenFor(call[r].venue)
    /\ call' = [call EXCEPT ![r].at = "thrown", ![r].probe = FALSE]
    /\ Disturbs(r, TRUE)
    /\ UNCHANGED chain

(* An answer, or a 4xx, which is an answer to the breaker only. *)
Answered(r) ==
    /\ call[r].at = "fetch"
    /\ RecordSuccess(call[r].venue)
    /\ \E next \in {"body", "thrown"} :
            call' = [call EXCEPT ![r].at = next, ![r].probe = FALSE]
    /\ Disturbs(r, TRUE)
    /\ UNCHANGED chain

(* The body is no market data. *)
Unreadable(r) ==
    /\ call[r].at = "body"
    /\ call' = [call EXCEPT ![r].at = "thrown"]
    /\ UNCHANGED <<chain, breaker, disturbed>>

(* The body is read and the chain returns it. *)
Read(r) ==
    /\ call[r].at = "body"
    /\ Prefer(call[r].venue)
    /\ call' = [q \in Request |->
            IF q = r \/ call[q].at = "idle" THEN Idle
            ELSE [call[q] EXCEPT !.moved = @ \/ preferred' # preferred]]
    /\ UNCHANGED <<breaker, disturbed>>

Next ==
    \/ \E v \in Venue : CooldownEnds(v)
    \/ \E r \in Request : Begin(r)
    \/ \E r \in Request : CatchNext(r)
    \/ \E r \in Request : Unreachable(r)
    \/ \E r \in Request : Retry(r)
    \/ \E r \in Request : Throttled(r)
    \/ \E r \in Request : Answered(r)
    \/ \E r \in Request : Unreadable(r)
    \/ \E r \in Request : Read(r)

Spec == Init /\ [][Next]_vars

(* A fetch is answered or times out, a backoff is over, a body is read, and an
   error is caught. *)
FairSpec ==
    /\ Spec
    /\ \A r \in Request :
        /\ WF_vars(Unreachable(r) \/ Throttled(r) \/ Answered(r))
        /\ WF_vars(Retry(r))
        /\ WF_vars(Unreadable(r) \/ Read(r))
        /\ WF_vars(CatchNext(r))
(***************************************************************************)
(* What must hold.                                                         *)
(***************************************************************************)

(* A reservation is never stranded: while the flag is set, some request of
   that venue is still out as its probe and will give it back.  A flag without
   a holder would keep a healthy venue silent for the life of the process. *)
ReservationHasHolder ==
    \A v \in Venue : probing[v] => Holders(call, v) # {}

(* circuit-breaker.ts:68, "let exactly one caller through": a venue that has
   refused is tested by one request at a time, through all of the attempts of
   that request, unless another answer has reset the breaker under the probe. *)
ProbesAlone ==
    \A v \in Venue : disturbed[v] \/ Cardinality(Holders(call, v)) <= 1

(* Request r gives up. *)
Fails(r) == call[r].at = "thrown" /\ call'[r].at = "idle"

(* A request during which the preference did not move fails only after every
   venue of the chain has been asked. *)
UndisturbedRequestAsksAll ==
    [][\A r \in Request : Fails(r) /\ ~call[r].moved => call[r].asked = Venue]_vars

(* failover.provider.ts:276, "the primary could not answer, and something else
   did": a request during which the preference did not move takes the site away
   from the primary only after it has asked the primary itself. *)
SwitchesOnFailure ==
    [][\A r \in Request :
        /\ preferred = 0 /\ preferred' # 0
        /\ call[r].at = "body" /\ call'[r] = Idle
        => call[r].moved \/ 0 \in call[r].asked]_vars

(* A request ends, in an answer or in the errors of the venues: retries,
   refusals and switches under it do not keep it going for ever. *)
RequestsEnd ==
    \A r \in Request : call[r].at # "idle" ~> call[r].at = "idle"
=================================================================================
