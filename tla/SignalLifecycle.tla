---------------------------- MODULE SignalLifecycle ----------------------------
(***************************************************************************)
(* One market's signal, from the panel's verdict to the measured outcome:  *)
(* the decision of signals/lifecycle.ts, the write of signals/publish.ts   *)
(* and signals/lifecycle.repository.ts, the settlement of outcomes/, in    *)
(* the order services/market-cycle.ts calls them.                          *)
(*                                                                         *)
(* A market cycle reads the bars, decides against the row it read, writes  *)
(* row and transition in one transaction and settles the closed signal.    *)
(* It can fail or crash between any two of these.  Two cycles are in       *)
(* flight at once only while two processes lead (MarketPipeline).          *)
(*                                                                         *)
(* Prices and confidences are levels, and the percentages of the           *)
(* configuration are distances between levels.  A snapshot is told apart   *)
(* by the rule that produced it.                                           *)
(***************************************************************************)
EXTENDS Integers

CONSTANTS
    Cycle,              \* market cycles that may be in flight at once
    Price, Confidence,  \* levels
    RepublishMove, RepublishDelta, InvalidationMove,
    ExpiryBars,
    Horizon,            \* horizons of a measurement, in bars
    Window,             \* bars a market read returns
    Rule,               \* strategy versions a snapshot can name
    None,
    LastOverlap,        \* bound: the last bar at which a cycle begins beside another
    MaxBar, MaxSignal   \* bounds: bars of the market, signals opened

ASSUME LifecycleAssumption ==
    /\ Price \subseteq Nat /\ Confidence \subseteq Nat
    /\ RepublishMove \in Nat \ {0}
    /\ RepublishDelta \in Nat /\ InvalidationMove \in Nat
    /\ ExpiryBars \in Nat \ {0}
    /\ Horizon \subseteq Nat \ {0}
    /\ Window \in Nat \ {0}
    /\ {LastOverlap, MaxBar, MaxSignal} \subseteq Nat
    /\ None \notin Rule

Direction == {"LONG", "SHORT"}
Closed == {"INVALIDATED", "EXPIRED", "CLOSED"}
Status == {"GENERATED", "ACTIVE", "UPDATED"} \cup Closed

VARIABLES
    now,        \* the newest closed bar of the market
    row,        \* the signal_state row of the series, or None
    signals,    \* how many signals were opened (no column; tells them apart)
    trail,      \* the last row of signal_transition, or None
    outcome,    \* outcome[h]: the signal_outcome row at horizon h, or None
    cycle       \* cycle[c]: what market cycle c is doing, and on what

vars == <<now, row, signals, trail, outcome, cycle>>

Candidate == [direction : Direction, price : Price, confidence : Confidence]

Bar == 0..MaxBar

State ==
    [direction : Direction, status : Status, price : Price,
     confidence : Confidence, bar : Bar, snapshot : Rule \cup {None},
     signal : 1..MaxSignal]

Transition == [from : Status \cup {None}, to : Status, direction : Direction]

(* `signal` is the one whose direction, entry bar and rule the row got when it
   was inserted; `measured` and `from`, the signal and the entry bar that the
   prices, the verdict and the exit of the last write were taken from. *)
Outcome ==
    [signal : 1..MaxSignal, measured : 1..MaxSignal, from : Bar,
     verdict : {"unknown", "expired", "resolved"}, exit : Bar \cup {None}]

(* What is there is not None. *)
ASSUME NoneAssumption ==
    /\ None \notin Status /\ None \notin Bar /\ None \notin Candidate
    /\ None \notin State /\ None \notin Transition /\ None \notin Outcome

Idle == [at |-> "idle"]

Job ==
    {Idle}
    \cup [at : {"publish"}, bar : Bar, candidate : Candidate \cup {None},
          snapshot : Rule \cup {None}]
    \cup [at : {"write"}, bar : Bar, candidate : Candidate \cup {None},
          snapshot : Rule \cup {None}, previous : State \cup {None}]
    \cup [at : {"reconcile"}, bar : Bar]
    \cup [at : {"settle"}, bar : Bar, closed : State]

TypeOK ==
    /\ now \in Bar
    /\ row \in State \cup {None}
    /\ signals \in 0..MaxSignal
    /\ trail \in Transition \cup {None}
    /\ outcome \in [Horizon -> Outcome \cup {None}]
    /\ cycle \in [Cycle -> Job]

Init ==
    /\ now = 0
    /\ row = None
    /\ signals = 0
    /\ trail = None
    /\ outcome = [h \in Horizon |-> None]
    /\ cycle = [c \in Cycle |-> Idle]

(***************************************************************************)
(* signals/lifecycle.ts: decideNext.                                       *)
(***************************************************************************)

Distance(a, b) == IF a < b THEN b - a ELSE a - b

(* The candidate's price has gone against the live signal far enough. *)
HasFailed(live, candidate) ==
    /\ candidate # None
    /\ Distance(live.price, candidate.price) >= InvalidationMove
    /\ IF live.direction = "LONG" THEN candidate.price < live.price
                                  ELSE candidate.price > live.price

(* Plausible bug: the distance to the bar of a panel that has gone quiet. *)
HasExpiredByCandidate(live, candidate, bar) ==
    candidate # None /\ bar - live.bar >= ExpiryBars

(* The live signal has run out of bars, whether or not the panel spoke. *)
HasExpired(live, candidate, bar) == bar - live.bar >= ExpiryBars

(* The same direction, moved or convinced enough. *)
WorthRepublishing(live, candidate) ==
    \/ Distance(live.price, candidate.price) >= RepublishMove
    \/ Distance(live.confidence, candidate.confidence) >= RepublishDelta

(* The end of the live signal is decided before the candidate has a say. *)
DecideNext(live, candidate, bar) ==
    CASE live = None /\ candidate = None -> "unchanged"
      [] live = None /\ candidate # None -> "open"
      [] live # None /\ HasFailed(live, candidate) -> "invalidate"
      [] live # None /\ ~HasFailed(live, candidate)
            /\ HasExpired(live, candidate, bar) -> "expire"
      [] OTHER ->
            CASE candidate = None -> "unchanged"
              [] candidate # None /\ candidate.direction # live.direction -> "reversal"
              [] OTHER -> IF WorthRepublishing(live, candidate)
                          THEN "update" ELSE "unchanged"

ToStatus(decision) ==
    CASE decision \in {"open", "reversal"} -> "GENERATED"
      [] decision = "update" -> "UPDATED"
      [] decision = "expire" -> "EXPIRED"
      [] OTHER -> "INVALIDATED"

(***************************************************************************)
(* signals/publish.ts: what a decision writes.                             *)
(***************************************************************************)

(* Plausible bug: a close records the bar at which the end was noticed. *)
ClosingFromNow(previous, decision, bar) ==
    [previous EXCEPT !.status = ToStatus(decision), !.bar = bar]

(* A close describes the signal that was there, at its own bar and price. *)
Closing(previous, decision, bar) ==
    [previous EXCEPT !.status = ToStatus(decision)]

(* An opening, a reversal or an update describes what the panel just said;
   the snapshot of the row, once there is a row with one, is kept. *)
Publishing(previous, decision, candidate, bar, snapshot) ==
    [direction |-> candidate.direction, status |-> ToStatus(decision),
     price |-> candidate.price, confidence |-> candidate.confidence, bar |-> bar,
     snapshot |-> IF previous # None /\ previous.snapshot # None
                  THEN previous.snapshot ELSE snapshot,
     signal |-> IF decision = "update" THEN previous.signal ELSE signals + 1]

Written(job, decision) ==
    IF decision \in {"expire", "invalidate"}
    THEN Closing(job.previous, decision, job.bar)
    ELSE Publishing(job.previous, decision, job.candidate, job.bar, job.snapshot)

(***************************************************************************)
(* outcomes/: the measurement of a closed signal.                          *)
(***************************************************************************)

OldestBar(bar) == IF bar < Window THEN 0 ELSE bar - Window + 1

(* Bars of a market read at `bar` that lie after the entry: first..bar. *)
FirstForward(entry, bar) ==
    IF entry + 1 > OldestBar(bar) THEN entry + 1 ELSE OldestBar(bar)

(* Plausible bug: the window of a horizon ends one bar late. *)
ExitBarLate(entry, h, bar) == FirstForward(entry, bar) + h

(* The last bar of the horizon: `forward[bars - 1]`. *)
ExitBar(entry, h, bar) == FirstForward(entry, bar) + h - 1

(* Plausible bug: any bar after the entry will do as the end. *)
MeasureOutcomeOpenEnded(entry, h, bar) ==
    IF FirstForward(entry, bar) > bar THEN "expired" ELSE "resolved"

(* A horizon whose last bar was not read waits for it; `expired` is the answer
   when no bar after the entry was. *)
MeasureOutcome(entry, h, bar) ==
    CASE ExitBar(entry, h, bar) <= bar -> "resolved"
      [] FirstForward(entry, bar) > bar -> "expired"
      [] OTHER -> "unknown"

(* Plausible bug: the upsert updates a row whatever its verdict. *)
SettledAnyway(old, signal, h, bar) ==
    LET verdict == MeasureOutcome(signal.bar, h, bar) IN
    [signal |-> IF old = None THEN signal.signal ELSE old.signal,
     measured |-> signal.signal, from |-> signal.bar, verdict |-> verdict,
     exit |-> IF verdict = "resolved" THEN ExitBar(signal.bar, h, bar) ELSE None]

(* The upsert of one horizon: a row still waiting for bars is finished in
   place, keeping the columns of its insert; a resolved one is history. *)
Settled(old, signal, h, bar) ==
    IF old # None /\ old.verdict = "resolved" THEN old
    ELSE SettledAnyway(old, signal, h, bar)

(***************************************************************************)
(* services/market-cycle.ts: one cycle.                                    *)
(***************************************************************************)

BarCloses ==
    /\ now < MaxBar
    /\ now' = now + 1
    /\ UNCHANGED <<row, signals, trail, outcome, cycle>>

(* The market read, the analysis and the snapshot, whose store may fail. *)
Observe(c, candidate, snapshot) ==
    /\ cycle[c] = Idle
    /\ now <= LastOverlap \/ \A d \in Cycle : cycle[d] = Idle
    /\ cycle' = [cycle EXCEPT ![c] = [at |-> "publish", bar |-> now,
                    candidate |-> candidate, snapshot |-> snapshot]]
    /\ UNCHANGED <<now, row, signals, trail, outcome>>

(* publishSignal reads the row of the series, whatever its status. *)
GetLive(c) ==
    LET job == cycle[c] IN
    /\ job.at = "publish"
    /\ cycle' = [cycle EXCEPT ![c] = [at |-> "write", bar |-> job.bar,
                    candidate |-> job.candidate, snapshot |-> job.snapshot,
                    previous |-> row]]
    /\ UNCHANGED <<now, row, signals, trail, outcome>>

(* Plausible bug: row and transition in two transactions, the process gone
   between them. *)
PublishInTwoWrites(c) ==
    LET job == cycle[c]
        decision == DecideNext(job.previous, job.candidate, job.bar)
    IN
    /\ job.at = "write"
    /\ decision # "unchanged"
    /\ decision \in {"open", "reversal"} => signals < MaxSignal
    /\ row' = Written(job, decision)
    /\ signals' = IF decision \in {"open", "reversal"} THEN signals + 1 ELSE signals
    /\ cycle' = [cycle EXCEPT ![c] = Idle]
    /\ UNCHANGED <<now, trail, outcome>>

(* publishSignal decides, and a recorded decision writes row and transition
   in one transaction. *)
Publish(c) ==
    LET job == cycle[c]
        decision == DecideNext(job.previous, job.candidate, job.bar)
    IN
    /\ job.at = "write"
    /\ cycle' = [cycle EXCEPT ![c] = [at |-> "reconcile", bar |-> job.bar]]
    /\ IF decision = "unchanged"
       THEN UNCHANGED <<row, signals, trail>>
       ELSE /\ decision \in {"open", "reversal"} => signals < MaxSignal
            /\ row' = Written(job, decision)
            /\ signals' = IF decision \in {"open", "reversal"} THEN signals + 1 ELSE signals
            /\ trail' = [from |-> IF job.previous = None THEN None ELSE job.previous.status,
                         to |-> row'.status, direction |-> row'.direction]
    /\ UNCHANGED <<now, outcome>>

(* reconcileSignalOutcomes looks for a closed signal of the series. *)
FindClosed(c) ==
    LET job == cycle[c] IN
    /\ job.at = "reconcile"
    /\ cycle' = [cycle EXCEPT ![c] =
                    IF row # None /\ row.status \in Closed
                    THEN [at |-> "settle", bar |-> job.bar, closed |-> row]
                    ELSE Idle]
    /\ UNCHANGED <<now, row, signals, trail, outcome>>

(* settle: every horizon of the signal in one transaction. *)
Settle(c) ==
    LET job == cycle[c] IN
    /\ job.at = "settle"
    /\ outcome' = [h \in Horizon |-> Settled(outcome[h], job.closed, h, job.bar)]
    /\ cycle' = [cycle EXCEPT ![c] = Idle]
    /\ UNCHANGED <<now, row, signals, trail>>

(* A step of the cycle rejects, or its process dies: the cycle is over, and
   the transactions it committed stay. *)
CycleFails(c) ==
    /\ cycle[c] # Idle
    /\ cycle' = [cycle EXCEPT ![c] = Idle]
    /\ UNCHANGED <<now, row, signals, trail, outcome>>

Next ==
    \/ BarCloses
    \/ \E c \in Cycle, candidate \in Candidate \cup {None}, snapshot \in Rule \cup {None} :
            Observe(c, candidate, snapshot)
    \/ \E c \in Cycle : GetLive(c)
    \/ \E c \in Cycle : Publish(c)
    \/ \E c \in Cycle : FindClosed(c)
    \/ \E c \in Cycle : Settle(c)
    \/ \E c \in Cycle : CycleFails(c)

Spec == Init /\ [][Next]_vars

(***************************************************************************)
(* What must hold.                                                         *)
(***************************************************************************)

(* A publish by c, and one that decided on what the row still says: no other
   cycle has written between its read and its write. *)
Publishes(c) == cycle[c].at = "write" /\ cycle'[c].at = "reconcile"
PublishesUndisturbed(c) == Publishes(c) /\ cycle[c].previous = row

(* No signal outlives its bars: once a cycle that looked at bar b has published,
   undisturbed, whatever is live stands on a bar less than ExpiryBars back, even
   if the panel said nothing. *)
NothingOutlivesItsBars ==
    [][\A c \in Cycle :
        PublishesUndisturbed(c) /\ row' # None /\ row'.status \notin Closed
            => cycle[c].bar - row'.bar < ExpiryBars]_vars

(* Closing a signal moves neither its bar, price, direction nor rule: the entry
   that is measured is the one the signal had while it was live.  Only a cycle
   that closes a signal which another one has replaced since it was read puts
   back an entry the row no longer had. *)
ClosingKeepsTheEntry ==
    [][\A c \in Cycle :
        PublishesUndisturbed(c) /\ row # None /\ row' # row /\ row'.status \in Closed
            => row' = [row EXCEPT !.status = row'.status]]_vars

(* The last transition says what the row says: the two are one fact, however
   cycles fail or overlap. *)
TrailMatchesRow ==
    IF row = None THEN trail = None
    ELSE trail # None /\ trail.to = row.status /\ trail.direction = row.direction

(* A measurement resolves once, and on its bar: no later settlement, failed
   cycle or reopened series touches a resolved horizon, and horizon h resolves
   on the h-th bar after the entry, a bar that has closed, if the market read
   that resolved it still held the bar after the entry. *)
ResolvesOnceOnItsBar ==
    [][\A h \in Horizon : outcome'[h] # outcome[h] =>
        /\ outcome[h] = None \/ outcome[h].verdict # "resolved"
        /\ \A c \in Cycle :
              /\ cycle[c].at = "settle" /\ cycle'[c] = Idle
              /\ outcome'[h].verdict = "resolved"
              /\ OldestBar(cycle[c].bar) <= outcome'[h].from + 1
              => outcome'[h].exit = outcome'[h].from + h /\ outcome'[h].exit <= now]_vars

(* The doc of lifecycle.ts:43, "Nothing live, and the panel has an opinion:
   open a new signal": once the series' signal has expired, a panel with an
   opinion gets a new one. *)
OpensAfterExpiry ==
    [][\A c \in Cycle :
        /\ Publishes(c)
        /\ row # None /\ row.status = "EXPIRED"
        /\ cycle[c].candidate # None
        => row'.status = "GENERATED"]_vars

(* outcome.repository.ts:223, "the same signal re-measured against the same
   series": the row of a measurement is only ever that of one signal. *)
MeasuresOneSignal ==
    \A h \in Horizon : outcome[h] # None => outcome[h].signal = outcome[h].measured
================================================================================
