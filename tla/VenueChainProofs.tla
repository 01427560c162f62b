---------------------------- MODULE VenueChainProofs ----------------------------
(* Theorems about VenueChain, for any requests, venues and thresholds. *)
EXTENDS VenueChain, FiniteSetTheorems, TLAPS

(* Only a request in an attempt or between two holds a reservation. *)
ProbesAreOut ==
    \A r \in Request : call[r].probe => call[r].at \in {"fetch", "backoff"}

(* A request waits for another attempt only while it has one left. *)
AttemptsLeft ==
    \A r \in Request : call[r].at = "backoff" => call[r].attempt < MaxRetries

(* Unless the breaker was reset under it, the probe of a venue is alone and
   has the flag. *)
OneHolder ==
    \A v \in Venue : ~disturbed[v] =>
        /\ \A r, q \in Holders(call, v) : r = q
        /\ Holders(call, v) # {} => probing[v]

(* A request that saw no switch has asked the venue of each of its steps, as
   they are counted from what is preferred now. *)
AskedInOrder ==
    \A r \in Request :
        call[r].at # "idle" /\ ~call[r].moved =>
            \A s \in 0..call[r].step : VenueAt(s) \in call[r].asked

IInv ==
    /\ TypeOK
    /\ ProbesAreOut
    /\ AttemptsLeft
    /\ ReservationHasHolder
    /\ OneHolder
    /\ AskedInOrder

(* The primary is a venue. *)
LEMMA PrimaryExists == 0 \in Venue
BY ChainAssumption DEF Venue

(* The venue of a step is a venue, and that of the first step is the
   preferred one. *)
LEMMA VenueAtStep ==
    ASSUME NEW step \in Nat, preferred \in Venue
    PROVE  VenueAt(step) \in Venue
BY ChainAssumption DEF Venue, VenueAt

LEMMA FirstStep ==
    ASSUME preferred \in Venue
    PROVE  VenueAt(0) = preferred
BY ChainAssumption DEF Venue, VenueAt

(* Initially nothing is out and nothing has happened. *)
LEMMA InitIInv == Init => IInv
<1> SUFFICES ASSUME Init PROVE IInv
    OBVIOUS
<1>1. TypeOK
    BY PrimaryExists, ChainAssumption DEF Init, TypeOK, Call, Idle
<1>2. \A v \in Venue : Holders(call, v) = {}
    BY DEF Init, Holders, Idle
<1> QED
    BY <1>1, <1>2 DEF Init, IInv, ProbesAreOut, AttemptsLeft, ReservationHasHolder,
        OneHolder, AskedInOrder, Idle

(***************************************************************************)
(* Who holds a reservation after a step.                                   *)
(***************************************************************************)

(* The step changes the locals of request r at most. *)
OnlyCall(r) ==
    /\ call' \in [Request -> Call]
    /\ \A q \in Request \ {r} : call'[q] = call[q]

(* A request that holds nothing after a step of its own is no holder. *)
LEMMA HolderLeaves ==
    ASSUME NEW r \in Request, OnlyCall(r), call'[r].probe = FALSE, NEW v \in Venue
    PROVE  Holders(call', v) = Holders(call, v) \ {r}
BY DEF OnlyCall, Holders

(* A step that changes no request's venue or reservation changes no holder. *)
LEMMA HoldersStay ==
    ASSUME NEW v \in Venue,
           \A q \in Request : call'[q].venue = call[q].venue /\ call'[q].probe = call[q].probe
    PROVE  Holders(call', v) = Holders(call, v)
BY DEF Holders

(* A request that held nothing becomes a holder of the venue it turns to, if
   it is admitted as a probe, and of no other. *)
LEMMA HolderJoins ==
    ASSUME NEW r \in Request, OnlyCall(r), call[r].probe = FALSE, NEW v \in Venue
    PROVE  Holders(call', v) = Holders(call, v) \cup
                (IF call'[r].venue = v /\ call'[r].probe THEN {r} ELSE {})
BY DEF OnlyCall, Holders

(***************************************************************************)
(* The operations of the breaker keep its types.                           *)
(***************************************************************************)

BreakerType ==
    /\ failures \in [Venue -> 0..FailureThreshold]
    /\ cooling \in [Venue -> BOOLEAN]
    /\ probing \in [Venue -> BOOLEAN]
    /\ \A v \in Venue : cooling[v] => failures[v] = FailureThreshold

LEMMA FailureCounts ==
    ASSUME BreakerType, NEW v \in Venue, NEW over \in BOOLEAN,
           RecordAttemptFailure(v, over)
    PROVE  BreakerType'
BY ChainAssumption DEF BreakerType, RecordAttemptFailure, Closed

LEMMA SuccessResets ==
    ASSUME BreakerType, NEW v \in Venue, RecordSuccess(v)
    PROVE  BreakerType'
BY ChainAssumption DEF BreakerType, RecordSuccess

LEMMA RateLimitOpens ==
    ASSUME BreakerType, NEW v \in Venue, OpenFor(v)
    PROVE  BreakerType'
BY ChainAssumption DEF BreakerType, OpenFor

(***************************************************************************)
(* Reservations.                                                           *)
(***************************************************************************)

(* A reservation and its holders, for one venue. *)
HoldersOK(v) ==
    /\ probing[v] => Holders(call, v) # {}
    /\ ~disturbed[v] =>
        /\ \A r, q \in Holders(call, v) : r = q
        /\ Holders(call, v) # {} => probing[v]

LEMMA HoldersSplit ==
    (\A v \in Venue : HoldersOK(v)) <=> (ReservationHasHolder /\ OneHolder)
BY DEF HoldersOK, ReservationHasHolder, OneHolder

LEMMA HoldersSplitNext ==
    (\A v \in Venue : HoldersOK(v)') <=> (ReservationHasHolder' /\ OneHolder')
BY DEF HoldersOK, ReservationHasHolder, OneHolder

(* A request that ends its call of a venue leaves the reservations in order,
   whether the breaker was reset or the reservation returned. *)
LEMMA CallOver ==
    ASSUME TypeOK, \A v \in Venue : HoldersOK(v),
           NEW r \in Request, OnlyCall(r), call'[r].probe = FALSE,
           NEW resets \in BOOLEAN, Disturbs(r, resets),
           call[r].probe => resets,
           probing' = [probing EXCEPT ![call[r].venue] = @ /\ ~resets]
    PROVE  \A v \in Venue : HoldersOK(v)'
<1> DEFINE w == call[r].venue
<1> SUFFICES ASSUME NEW v \in Venue PROVE HoldersOK(v)'
    OBVIOUS
<1>1. w \in Venue /\ call[r].probe \in BOOLEAN
    BY DEF TypeOK, Call
<1>2. Holders(call', v) = Holders(call, v) \ {r}
    BY HolderLeaves
<1>3. HoldersOK(v)
    OBVIOUS
<1>4. CASE v # w
    <2>1. r \notin Holders(call, v)
        BY <1>4 DEF Holders
    <2>2. Holders(call', v) = Holders(call, v)
        BY <1>2, <2>1
    <2>3. probing'[v] = probing[v] /\ disturbed'[v] = disturbed[v]
        BY <1>4, <1>1 DEF TypeOK, Disturbs
    <2> QED
        BY <1>3, <2>2, <2>3 DEF HoldersOK
<1>5. CASE v = w
    <2>1. probing'[v] = (probing[v] /\ ~resets)
        BY <1>5, <1>1 DEF TypeOK
    <2>2. disturbed'[v] = (/\ Holders(call', v) # {}
                           /\ disturbed[v] \/ (resets /\ Holders(call, v) \ {r} # {}))
        BY <1>5, <1>1 DEF TypeOK, Disturbs
    <2>3. CASE resets
        BY <1>2, <2>1, <2>2, <2>3 DEF HoldersOK
    <2>4. CASE ~resets
        <3>1. r \notin Holders(call, v)
            BY <2>4, <1>5 DEF Holders
        <3>2. Holders(call', v) = Holders(call, v)
            BY <1>2, <3>1
        <3> QED
            BY <1>3, <2>1, <2>2, <2>4, <3>2 DEF HoldersOK
    <2> QED
        BY <2>3, <2>4
<1> QED
    BY <1>4, <1>5

(***************************************************************************)
(* Each step keeps the invariant.                                          *)
(***************************************************************************)

(* What the chain has in common with the part of the invariant that a step of
   the HTTP request does not touch. *)
ChainType == preferred \in Venue /\ recovery \in 0..RecoverySuccesses - 1

LEMMA TypeSplit ==
    TypeOK <=> /\ ChainType /\ BreakerType
               /\ call \in [Request -> Call] /\ disturbed \in [Venue -> BOOLEAN]
BY DEF TypeOK, ChainType, BreakerType

LEMMA TypeSplitNext ==
    TypeOK' <=> /\ ChainType' /\ BreakerType'
                /\ call' \in [Request -> Call] /\ disturbed' \in [Venue -> BOOLEAN]
BY DEF TypeOK, ChainType, BreakerType

(* The locals of one request, as far as the other parts speak of them. *)
LocalsOK(r) ==
    /\ call[r].probe => call[r].at \in {"fetch", "backoff"}
    /\ call[r].at = "backoff" => call[r].attempt < MaxRetries
    /\ call[r].at # "idle" /\ ~call[r].moved =>
          \A s \in 0..call[r].step : VenueAt(s) \in call[r].asked

LEMMA LocalsSplit ==
    (\A r \in Request : LocalsOK(r)) <=> (ProbesAreOut /\ AttemptsLeft /\ AskedInOrder)
BY DEF LocalsOK, ProbesAreOut, AttemptsLeft, AskedInOrder

LEMMA LocalsSplitNext ==
    (\A r \in Request : LocalsOK(r)')
        <=> (ProbesAreOut' /\ AttemptsLeft' /\ AskedInOrder')
BY DEF LocalsOK, ProbesAreOut, AttemptsLeft, AskedInOrder

LEMMA CooldownEndsKeeps ==
    ASSUME IInv, NEW v \in Venue, CooldownEnds(v)
    PROVE  IInv'
<1>1. TypeOK'
    BY DEF IInv, TypeOK, CooldownEnds, chain
<1>2. \A w \in Venue : Holders(call', w) = Holders(call, w)
    BY DEF CooldownEnds
<1> QED
    BY <1>1, <1>2 DEF IInv, CooldownEnds, chain, ProbesAreOut, AttemptsLeft,
        ReservationHasHolder, OneHolder, AskedInOrder, VenueAt

(* The loop turns to a venue. *)
LEMMA TurnKeeps ==
    ASSUME IInv, NEW r \in Request, NEW step \in Venue, NEW asked \in SUBSET Venue,
           NEW moved \in BOOLEAN, ~call[r].probe, Turn(r, step, asked, moved),
           ChainType', preferred' = preferred,
           ~moved => \A s \in Nat : s < step => VenueAt(s) \in asked
    PROVE  IInv'
<1> DEFINE w == VenueAt(step)
           probes == Admits(w) /\ ~Closed(w)
           c == [at |-> IF Admits(w) THEN "fetch" ELSE "thrown", venue |-> w,
                 step |-> step, attempt |-> 0, probe |-> probes,
                 asked |-> asked \cup {w}, moved |-> moved]
<1>0. TypeOK
    BY DEF IInv
<1>1. w \in Venue
    BY VenueAtStep, <1>0 DEF TypeOK, Venue
<1>2. probes \in BOOLEAN
    BY DEF Admits, Closed
<1>3. c \in Call
    BY <1>1, <1>2, ChainAssumption DEF Call
<1>4. call' = [call EXCEPT ![r] = c] /\ probing' = [probing EXCEPT ![w] = @ \/ probes]
        /\ UNCHANGED <<failures, cooling, disturbed>>
    BY DEF Turn
<1> HIDE DEF w, probes
<1>5. OnlyCall(r) /\ call'[r] = c
    BY <1>0, <1>3, <1>4 DEF OnlyCall, TypeOK
<1>6. TypeOK'
    <2>1. BreakerType'
        BY <1>0, <1>1, <1>2, <1>4, TypeSplit DEF BreakerType
    <2> QED
        BY <1>0, <1>4, <1>5, <2>1, TypeSplit, TypeSplitNext DEF OnlyCall
<1>7. \A q \in Request : LocalsOK(q)'
    <2> SUFFICES ASSUME NEW q \in Request PROVE LocalsOK(q)'
        OBVIOUS
    <2>1. CASE q # r
        BY <2>1, <1>5, LocalsSplit DEF IInv, OnlyCall, LocalsOK, VenueAt
    <2>2. CASE q = r
        <3>1. probes => Admits(w)
            BY DEF probes
        <3>2. ~moved => \A s \in 0..step : VenueAt(s) \in asked \cup {w}
            BY DEF w, Venue
        <3>3. \A s : VenueAt(s)' = VenueAt(s)
            BY DEF VenueAt
        <3> QED
            BY <2>2, <1>5, <3>1, <3>2, <3>3 DEF LocalsOK
    <2> QED
        BY <2>1, <2>2
<1>8. \A v \in Venue : HoldersOK(v)'
    <2> SUFFICES ASSUME NEW v \in Venue PROVE HoldersOK(v)'
        OBVIOUS
    <2>1. HoldersOK(v)
        BY HoldersSplit DEF IInv
    <2>2. call[r].probe = FALSE
        BY <1>0 DEF TypeOK, Call
    <2>3. Holders(call', v) = Holders(call, v) \cup (IF w = v /\ probes THEN {r} ELSE {})
        <3>1. Holders(call', v) = Holders(call, v) \cup
                    (IF call'[r].venue = v /\ call'[r].probe THEN {r} ELSE {})
            BY HolderJoins, <1>5, <2>2
        <3>2. call'[r].venue = w /\ call'[r].probe = probes
            BY <1>5
        <3> QED
            BY <3>1, <3>2
    <2>4. disturbed'[v] = disturbed[v]
        BY <1>4
    <2>5. CASE w = v /\ probes
        <3>1. ~probing[v]
            BY <2>5 DEF probes, Admits
        <3>2. probing'[v]
            BY <2>5, <1>0, <1>4 DEF TypeOK
        <3>3. Holders(call', v) = Holders(call, v) \cup {r}
            BY <2>3, <2>5
        <3> QED
            BY <2>1, <2>4, <3>1, <3>2, <3>3 DEF HoldersOK
    <2>6. CASE ~(w = v /\ probes)
        <3>1. Holders(call', v) = Holders(call, v)
            BY <2>3, <2>6
        <3>2. probing'[v] = probing[v]
            BY <2>6, <1>0, <1>1, <1>2, <1>4 DEF TypeOK
        <3> QED
            BY <2>1, <2>4, <3>1, <3>2 DEF HoldersOK
    <2> QED
        BY <2>5, <2>6
<1> QED
    BY <1>6, <1>7, <1>8, LocalsSplitNext, HoldersSplitNext DEF IInv

LEMMA BeginKeeps ==
    ASSUME IInv, NEW r \in Request, Begin(r)
    PROVE  IInv'
<1>1. ~call[r].probe
    BY DEF IInv, ProbesAreOut, Begin
<1>2. ChainType' /\ preferred' = preferred
    BY DEF IInv, TypeOK, ChainType, Begin, chain
<1>3. \A s \in Nat : s < 0 => VenueAt(s) \in {}
    OBVIOUS
<1>4. Turn(r, 0, {}, FALSE) /\ {} \in SUBSET Venue /\ FALSE \in BOOLEAN
    BY DEF Begin
<1> QED
    BY <1>1, <1>2, <1>3, <1>4, TurnKeeps, PrimaryExists

LEMMA CatchNextKeeps ==
    ASSUME IInv, NEW r \in Request, CatchNext(r)
    PROVE  IInv'
<1>0. TypeOK /\ call[r] \in Call
    BY DEF IInv, TypeOK
<1>1. ~call[r].probe
    BY DEF IInv, ProbesAreOut, CatchNext
<1>2. ChainType' /\ preferred' = preferred
    BY <1>0, ChainAssumption DEF TypeOK, ChainType, CatchNext
<1>3. CASE ~LastStep(r) /\ Turn(r, call[r].step + 1, call[r].asked, call[r].moved)
    <2>1. call[r].step + 1 \in Venue
        BY <1>0, <1>3, ChainAssumption DEF Call, Venue, LastStep
    <2>2. call[r].asked \in SUBSET Venue /\ call[r].moved \in BOOLEAN
        BY <1>0 DEF Call
    <2>3. ~call[r].moved =>
            \A s \in Nat : s < call[r].step + 1 => VenueAt(s) \in call[r].asked
        BY <1>0 DEF IInv, AskedInOrder, CatchNext, Call, Venue
    <2> QED
        BY <1>1, <1>2, <1>3, <2>1, <2>2, <2>3, TurnKeeps
<1>4. CASE call' = [call EXCEPT ![r] = Idle] /\ UNCHANGED <<breaker, disturbed>>
    <2>1. Idle \in Call
        BY PrimaryExists, ChainAssumption DEF Idle, Call
    <2>2. OnlyCall(r) /\ call'[r] = Idle
        BY <1>0, <1>4, <2>1 DEF TypeOK, OnlyCall
    <2>3. TypeOK'
        BY <1>0, <1>2, <1>4, <2>2, TypeSplit, TypeSplitNext DEF OnlyCall, BreakerType, breaker
    <2>4. \A q \in Request : LocalsOK(q)'
        BY <1>2, <2>2, LocalsSplit DEF IInv, OnlyCall, LocalsOK, Idle, VenueAt
    <2>5. \A v \in Venue : HoldersOK(v)'
        <3> SUFFICES ASSUME NEW v \in Venue PROVE HoldersOK(v)'
            OBVIOUS
        <3>1. call[r].probe = FALSE
            BY <1>0, <1>1 DEF Call
        <3>2. Holders(call', v) = Holders(call, v)
            BY <2>2, <3>1 DEF Holders, OnlyCall, Idle
        <3> QED
            BY <1>4, <3>2, HoldersSplit DEF IInv, HoldersOK, breaker
    <2> QED
        BY <2>3, <2>4, <2>5, LocalsSplitNext, HoldersSplitNext DEF IInv
<1> QED
    BY <1>3, <1>4 DEF CatchNext

(* The request of r to its venue is over. *)
LEMMA EndKeeps ==
    ASSUME IInv, NEW r \in Request, NEW next \in {"body", "thrown"}, NEW resets \in BOOLEAN,
           call[r].at = "fetch",
           call' = [call EXCEPT ![r].at = next, ![r].probe = FALSE],
           Disturbs(r, resets), call[r].probe => resets, UNCHANGED chain, BreakerType',
           probing' = [probing EXCEPT ![call[r].venue] = @ /\ ~resets]
    PROVE  IInv'
<1> DEFINE c == [call[r] EXCEPT !.at = next, !.probe = FALSE]
<1>0. TypeOK /\ call[r] \in Call
    BY DEF IInv, TypeOK
<1>1. c \in Call /\ c.probe = FALSE /\ c.at = next
        /\ c.asked = call[r].asked /\ c.moved = call[r].moved /\ c.step = call[r].step
    BY <1>0 DEF Call
<1>2. call' = [call EXCEPT ![r] = c]
    OBVIOUS
<1> HIDE DEF c
<1>3. OnlyCall(r) /\ call'[r] = c
    BY <1>0, <1>1, <1>2 DEF TypeOK, OnlyCall
<1>4. TypeOK'
    <2>1. disturbed' \in [Venue -> BOOLEAN]
        BY <1>0 DEF Disturbs, TypeOK
    <2> QED
        BY <1>0, <1>3, <2>1, TypeSplit, TypeSplitNext DEF OnlyCall, ChainType, chain
<1>5. \A q \in Request : LocalsOK(q)'
    BY <1>1, <1>3, LocalsSplit DEF IInv, LocalsOK, OnlyCall, chain, VenueAt
<1>6. \A v \in Venue : HoldersOK(v)'
    <2>1. \A v \in Venue : HoldersOK(v)
        BY HoldersSplit DEF IInv
    <2>2. call'[r].probe = FALSE
        BY <1>1, <1>3
    <2> QED
        BY <1>0, <1>3, <2>1, <2>2, CallOver
<1> QED
    BY <1>4, <1>5, <1>6, LocalsSplitNext, HoldersSplitNext DEF IInv

(* A step inside the request that changes no reservation. *)
LEMMA InsideKeeps ==
    ASSUME IInv, NEW r \in Request, OnlyCall(r), call[r].at # "idle",
           UNCHANGED <<chain, probing, disturbed>>, BreakerType',
           call'[r].venue = call[r].venue, call'[r].probe = call[r].probe,
           call'[r].step = call[r].step,
           call'[r].asked = call[r].asked, call'[r].moved = call[r].moved,
           call[r].probe => call'[r].at \in {"fetch", "backoff"},
           call'[r].at = "backoff" => call'[r].attempt < MaxRetries
    PROVE  IInv'
<1>1. TypeOK'
    BY TypeSplit, TypeSplitNext DEF IInv, OnlyCall, ChainType, chain
<1>2. \A q \in Request : LocalsOK(q)'
    BY LocalsSplit DEF IInv, LocalsOK, OnlyCall, chain, VenueAt
<1>3. \A v \in Venue : HoldersOK(v)'
    <2> SUFFICES ASSUME NEW v \in Venue PROVE HoldersOK(v)'
        OBVIOUS
    <2>1. Holders(call', v) = Holders(call, v)
        BY DEF OnlyCall, Holders
    <2> QED
        BY <2>1, HoldersSplit DEF IInv, HoldersOK
<1> QED
    BY <1>1, <1>2, <1>3, LocalsSplitNext, HoldersSplitNext DEF IInv

LEMMA UnreachableKeeps ==
    ASSUME IInv, NEW r \in Request, Unreachable(r)
    PROVE  IInv'
<1>0. TypeOK /\ call[r] \in Call /\ call[r].at = "fetch" /\ UNCHANGED chain
    BY DEF IInv, TypeOK, Unreachable
<1>1. call[r].venue \in Venue /\ call[r].probe \in BOOLEAN
    BY <1>0 DEF Call
<1>2. CASE /\ call[r].attempt < MaxRetries
           /\ RecordAttemptFailure(call[r].venue, FALSE)
           /\ call' = [call EXCEPT ![r].at = "backoff"]
           /\ UNCHANGED disturbed
    <2> DEFINE c == [call[r] EXCEPT !.at = "backoff"]
    <2>1. BreakerType'
        BY <1>0, <1>1, <1>2, TypeSplit, FailureCounts
    <2>2. probing' = probing
        BY <1>0, <1>1, <1>2 DEF TypeOK, RecordAttemptFailure
    <2>3. call' = [call EXCEPT ![r] = c] /\ c \in Call
        BY <1>0, <1>2 DEF Call
    <2>4. OnlyCall(r) /\ call'[r] = c
        BY <1>0, <2>3 DEF TypeOK, OnlyCall
    <2> QED
        BY <1>0, <1>2, <2>1, <2>2, <2>4, InsideKeeps DEF Call
<1>3. CASE /\ call[r].attempt >= MaxRetries
           /\ RecordAttemptFailure(call[r].venue, call[r].probe)
           /\ call' = [call EXCEPT ![r].at = "thrown", ![r].probe = FALSE]
           /\ Disturbs(r, call[r].probe)
    <2>1. BreakerType'
        BY <1>0, <1>1, <1>3, TypeSplit, FailureCounts
    <2>2. probing' = [probing EXCEPT ![call[r].venue] = @ /\ ~call[r].probe]
        BY <1>3 DEF RecordAttemptFailure
    <2> QED
        BY <1>0, <1>1, <1>3, <2>1, <2>2, EndKeeps
<1> QED
    BY <1>2, <1>3 DEF Unreachable

LEMMA RetryKeeps ==
    ASSUME IInv, NEW r \in Request, Retry(r)
    PROVE  IInv'
<1> DEFINE c == [call[r] EXCEPT !.at = "fetch", !.attempt = @ + 1]
<1>0. TypeOK /\ call[r] \in Call /\ call[r].at = "backoff"
    BY DEF IInv, TypeOK, Retry
<1>1. call[r].attempt + 1 \in 0..MaxRetries
    BY <1>0, ChainAssumption DEF IInv, AttemptsLeft, Call
<1>2. call' = [call EXCEPT ![r] = c] /\ c \in Call
    BY <1>0, <1>1 DEF Retry, Call
<1>3. OnlyCall(r) /\ call'[r] = c
    BY <1>0, <1>2 DEF TypeOK, OnlyCall
<1>4. BreakerType' /\ UNCHANGED <<chain, probing, disturbed>>
    BY <1>0, TypeSplit DEF Retry, breaker, BreakerType
<1> QED
    BY <1>0, <1>3, <1>4, InsideKeeps DEF Call

LEMMA ThrottledKeeps ==
    ASSUME IInv, NEW r \in Request, Throttled(r)
    PROVE  IInv'
<1>1. call[r].venue \in Venue /\ probing \in [Venue -> BOOLEAN] /\ BreakerType
    BY TypeSplit DEF IInv, TypeOK, Call
<1>2. BreakerType'
    BY <1>1, RateLimitOpens DEF Throttled
<1>3. probing' = [probing EXCEPT ![call[r].venue] = @ /\ ~TRUE]
    BY <1>1 DEF Throttled, OpenFor
<1> QED
    BY <1>2, <1>3, EndKeeps DEF Throttled

LEMMA AnsweredKeeps ==
    ASSUME IInv, NEW r \in Request, Answered(r)
    PROVE  IInv'
<1>1. call[r].venue \in Venue /\ probing \in [Venue -> BOOLEAN] /\ BreakerType
    BY TypeSplit DEF IInv, TypeOK, Call
<1>2. BreakerType'
    BY <1>1, SuccessResets DEF Answered
<1>3. probing' = [probing EXCEPT ![call[r].venue] = @ /\ ~TRUE]
    BY <1>1 DEF Answered, RecordSuccess
<1> QED
    BY <1>2, <1>3, EndKeeps DEF Answered

LEMMA UnreadableKeeps ==
    ASSUME IInv, NEW r \in Request, Unreadable(r)
    PROVE  IInv'
<1> DEFINE c == [call[r] EXCEPT !.at = "thrown"]
<1>0. TypeOK /\ call[r] \in Call /\ call[r].at = "body" /\ ~call[r].probe
    BY DEF IInv, TypeOK, ProbesAreOut, Unreadable
<1>1. call' = [call EXCEPT ![r] = c] /\ c \in Call
    BY <1>0 DEF Unreadable, Call
<1>2. OnlyCall(r) /\ call'[r] = c
    BY <1>0, <1>1 DEF TypeOK, OnlyCall
<1>3. BreakerType' /\ UNCHANGED <<chain, probing, disturbed>>
    BY <1>0, TypeSplit DEF Unreadable, breaker, BreakerType
<1> QED
    BY <1>0, <1>2, <1>3, InsideKeeps DEF Call

LEMMA PreferTypes ==
    ASSUME TypeOK, NEW v \in Venue, Prefer(v)
    PROVE  ChainType'
BY PrimaryExists, ChainAssumption DEF TypeOK, ChainType, Prefer, chain

(* A switch marks every request that is out, so none of them is held to the
   place it began at. *)
LEMMA ReadKeeps ==
    ASSUME IInv, NEW r \in Request, Read(r)
    PROVE  IInv'
<1>0. TypeOK /\ call[r] \in Call /\ call[r].at = "body" /\ UNCHANGED <<breaker, disturbed>>
    BY DEF IInv, TypeOK, Read
<1>1. ChainType'
    BY <1>0, PreferTypes DEF Read, Call
<1>2. \A q \in Request : call[q] \in Call
    BY <1>0 DEF TypeOK
<1>3. Idle \in Call
    BY PrimaryExists, ChainAssumption DEF Idle, Call
<1>4. \A q \in Request :
        \/ call'[q] = Idle /\ (q = r \/ call[q].at = "idle")
        \/ call'[q] = [call[q] EXCEPT !.moved = @ \/ preferred' # preferred] /\ q # r
    BY DEF Read
<1>5. call' \in [Request -> Call]
    BY <1>2, <1>3 DEF Read, Call
<1>6. TypeOK'
    BY <1>0, <1>1, <1>5, TypeSplit, TypeSplitNext DEF BreakerType, breaker
<1>7. \A q \in Request : LocalsOK(q)'
    <2> SUFFICES ASSUME NEW q \in Request PROVE LocalsOK(q)'
        OBVIOUS
    <2>1. CASE call'[q] = Idle
        BY <2>1 DEF LocalsOK, Idle
    <2>2. CASE call'[q] = [call[q] EXCEPT !.moved = @ \/ preferred' # preferred]
        <3>1. /\ call'[q].at = call[q].at /\ call'[q].probe = call[q].probe
              /\ call'[q].attempt = call[q].attempt /\ call'[q].asked = call[q].asked
              /\ call'[q].step = call[q].step
              /\ call'[q].moved = (call[q].moved \/ preferred' # preferred)
            BY <1>2, <2>2 DEF Call
        <3> QED
            BY <3>1, LocalsSplit DEF IInv, LocalsOK, VenueAt
    <2> QED
        BY <1>4, <2>1, <2>2
<1>8. \A v \in Venue : HoldersOK(v)'
    <2> SUFFICES ASSUME NEW v \in Venue PROVE HoldersOK(v)'
        OBVIOUS
    <2>1. \A q \in Request : call[q].at \in {"idle", "body"} => ~call[q].probe
        BY DEF IInv, ProbesAreOut
    <2>2. \A q \in Request : (call'[q].venue = v /\ call'[q].probe)
                                <=> (call[q].venue = v /\ call[q].probe)
        <3> SUFFICES ASSUME NEW q \in Request
                     PROVE  (call'[q].venue = v /\ call'[q].probe)
                                <=> (call[q].venue = v /\ call[q].probe)
            OBVIOUS
        <3>1. CASE call'[q] = Idle /\ (q = r \/ call[q].at = "idle")
            BY <1>0, <2>1, <3>1 DEF Idle
        <3>2. CASE call'[q] = [call[q] EXCEPT !.moved = @ \/ preferred' # preferred]
            <4>1. call'[q].venue = call[q].venue /\ call'[q].probe = call[q].probe
                BY <1>2, <3>2 DEF Call
            <4> QED
                BY <4>1
        <3> QED
            BY <1>4, <3>1, <3>2
    <2>3. Holders(call', v) = Holders(call, v)
        BY <2>2 DEF Holders
    <2> QED
        BY <1>0, <2>3, HoldersSplit DEF IInv, HoldersOK, breaker
<1> QED
    BY <1>6, <1>7, <1>8, LocalsSplitNext, HoldersSplitNext DEF IInv

LEMMA StutterKeeps ==
    ASSUME IInv, UNCHANGED vars
    PROVE  IInv'
BY DEF IInv, vars, chain, breaker, TypeOK, ProbesAreOut, AttemptsLeft,
    ReservationHasHolder, OneHolder, AskedInOrder, Holders, VenueAt

(* The invariant is inductive, and so holds of every reachable state. *)
THEOREM Inductive == Spec => []IInv
<1>1. IInv /\ [Next]_vars => IInv'
    <2> SUFFICES ASSUME IInv, [Next]_vars PROVE IInv'
        OBVIOUS
    <2> QED
        BY CooldownEndsKeeps, BeginKeeps, CatchNextKeeps, UnreachableKeeps, RetryKeeps,
            ThrottledKeeps, AnsweredKeeps, UnreadableKeeps, ReadKeeps, StutterKeeps DEF Next
<1> QED
    BY <1>1, InitIInv, PTL DEF Spec

(* The types of the chain, of the breakers and of a request's locals, and that
   a breaker cools only when it is open. *)
THEOREM TypeCorrect == Spec => []TypeOK
BY Inductive, PTL DEF IInv

(* No reservation of a probe is ever stranded: the flag of a breaker is given
   back, because a request of that venue is still out with it. *)
THEOREM NoStrandedProbe == Spec => []ReservationHasHolder
BY Inductive, PTL DEF IInv

(* A breaker lets one probe through at a time, unless it was reset under it. *)
THEOREM OneProbeAtATime == Spec => []ProbesAlone
<1>1. IInv => ProbesAlone
    <2> SUFFICES ASSUME IInv, NEW v \in Venue, ~disturbed[v]
                 PROVE  Cardinality(Holders(call, v)) <= 1
        BY DEF ProbesAlone
    <2>1. \A r, q \in Holders(call, v) : r = q
        BY DEF IInv, OneHolder
    <2>2. CASE Holders(call, v) = {}
        BY <2>2, FS_EmptySet
    <2>3. CASE Holders(call, v) # {}
        <3>1. PICK r : r \in Holders(call, v)
            BY <2>3
        <3>2. Holders(call, v) = {r}
            BY <2>1, <3>1
        <3>3. Cardinality({r}) = 1
            BY FS_Singleton
        <3> QED
            BY <3>2, <3>3
    <2> QED
        BY <2>2, <2>3
<1> QED
    BY <1>1, Inductive, PTL

(* A request that saw no switch moves the site off its primary only after it
   has asked the primary. *)
THEOREM SwitchNeedsThePrimaryAsked == Spec => SwitchesOnFailure
<1>1. ASSUME IInv, NEW r \in Request, preferred = 0, call[r].at = "body", ~call[r].moved
      PROVE  0 \in call[r].asked
    <2>1. preferred \in Venue /\ 0 \in 0..call[r].step
        BY <1>1, PrimaryExists DEF IInv, TypeOK, Call, Venue
    <2>2. VenueAt(0) \in call[r].asked
        BY <1>1, <2>1 DEF IInv, AskedInOrder
    <2> QED
        BY <1>1, <2>1, <2>2, FirstStep
<1>2. IInv => [\A r \in Request :
                /\ preferred = 0 /\ preferred' # 0
                /\ call[r].at = "body" /\ call'[r] = Idle
                => call[r].moved \/ 0 \in call[r].asked]_vars
    BY <1>1
<1> QED
    BY <1>2, Inductive, PTL DEF SwitchesOnFailure

(* From any preferred venue on, as many steps as there are venues come to each
   of them: in this round of the chain or past its end. *)
LEMMA EveryVenueComesUp ==
    ASSUME preferred \in Venue, NEW v \in Venue
    PROVE  \E s \in Venue : VenueAt(s) = v
<1> USE ChainAssumption
<1>1. CASE v >= preferred
    <2>1. v - preferred \in Venue /\ preferred + (v - preferred) = v /\ v % Venues = v
        BY <1>1 DEF Venue
    <2> QED
        BY <2>1 DEF VenueAt
<1>2. CASE v < preferred
    <2>1. /\ v - preferred + Venues \in Venue
          /\ preferred + (v - preferred + Venues) = v + Venues
        BY <1>2 DEF Venue
    <2>2. (v + Venues) % Venues = v
        BY DEF Venue
    <2> QED
        BY <2>1, <2>2 DEF VenueAt
<1> QED
    BY <1>1, <1>2 DEF Venue

(* Only the loop's end gives a request up: after its last step. *)
LEMMA GivingUp ==
    ASSUME IInv, [Next]_vars, NEW r \in Request, Fails(r)
    PROVE  LastStep(r)
<1>1. call \in [Request -> Call] /\ call[r].at = "thrown" /\ call'[r].at = "idle"
    BY DEF IInv, TypeOK, Fails
<1>2. CASE CatchNext(r)
    BY <1>1, <1>2 DEF CatchNext, Turn
<1>3. ASSUME NEW q \in Request \ {r}, CatchNext(q)
      PROVE  call'[r] = call[r]
    BY <1>1, <1>3 DEF CatchNext, Turn
<1>4. ASSUME NEW q \in Request, Begin(q)
      PROVE  call'[r].at # "idle" \/ call'[r] = call[r]
    BY <1>1, <1>4 DEF Begin, Turn
<1>5. ASSUME NEW q \in Request,
             Unreachable(q) \/ Retry(q) \/ Throttled(q) \/ Answered(q) \/ Unreadable(q)
      PROVE  call'[r].at # "idle" \/ call'[r] = call[r]
    BY <1>1, <1>5 DEF Unreachable, Retry, Throttled, Answered, Unreadable, Call
<1>6. ASSUME NEW q \in Request, Read(q)
      PROVE  call'[r].at # "idle"
    <2>1. call[r] \in Call /\ r # q
        BY <1>1, <1>6 DEF Read
    <2>2. call'[r].at = call[r].at
        BY <1>1, <1>6, <2>1 DEF Read, Call
    <2> QED
        BY <1>1, <2>2
<1>7. CASE UNCHANGED vars \/ \E v \in Venue : CooldownEnds(v)
    BY <1>1, <1>7 DEF vars, CooldownEnds
<1> QED
    BY <1>1, <1>2, <1>3, <1>4, <1>5, <1>6, <1>7 DEF Next

(* A request that saw no switch gives up only after every venue of the chain
   has been asked. *)
THEOREM NoVenueIsSkipped == Spec => UndisturbedRequestAsksAll
<1>1. ASSUME IInv, [Next]_vars, NEW r \in Request, Fails(r), ~call[r].moved
      PROVE  call[r].asked = Venue
    <2>1. preferred \in Venue /\ call[r].step \in Venue /\ call[r].asked \subseteq Venue
        BY <1>1 DEF IInv, TypeOK, Call
    <2>2. LastStep(r)
        BY <1>1, GivingUp
    <2>3. 0..call[r].step = Venue
        BY <2>1, <2>2, ChainAssumption DEF LastStep, Venue
    <2>4. \A s \in Venue : VenueAt(s) \in call[r].asked
        BY <1>1, <2>3 DEF IInv, AskedInOrder, Fails
    <2>5. ASSUME NEW v \in Venue PROVE v \in call[r].asked
        <3>1. PICK s \in Venue : VenueAt(s) = v
            BY <2>1, EveryVenueComesUp
        <3> QED
            BY <2>4, <3>1
    <2> QED
        BY <2>1, <2>5
<1>2. IInv /\ [Next]_vars =>
        [\A r \in Request : Fails(r) /\ ~call[r].moved => call[r].asked = Venue]_vars
    BY <1>1
<1> QED
    BY <1>2, Inductive, PTL DEF UndisturbedRequestAsksAll, Spec
=================================================================================
