------------------------- MODULE SignalLifecycleProofs -------------------------
(* Theorems about SignalLifecycle, for any number of cycles, any levels and any
   horizons. *)
EXTENDS SignalLifecycle, TLAPS

(* A cycle works on a bar that has closed. *)
JobsAreOfThePast == \A c \in Cycle : cycle[c] # Idle => cycle[c].bar <= now

IInv == TypeOK /\ TrailMatchesRow /\ JobsAreOfThePast

(* What a decision is: nothing without a panel or a signal, the end of a live
   signal before anything the candidate says. *)
LEMMA Decisions ==
    ASSUME NEW live \in State \cup {None}, NEW candidate \in Candidate \cup {None},
           NEW bar \in Bar
    PROVE  LET decision == DecideNext(live, candidate, bar) IN
           /\ decision \in {"unchanged", "open", "invalidate", "expire", "reversal", "update"}
           /\ decision \in {"open", "reversal", "update"} => candidate # None
           /\ decision \in {"invalidate", "expire", "update"} => live # None
           /\ decision = "unchanged" /\ live # None => ~HasExpired(live, candidate, bar)
<1>1. CASE live = None
    BY <1>1 DEF DecideNext
<1>2. CASE live # None /\ HasFailed(live, candidate)
    BY <1>2 DEF DecideNext
<1>3. CASE live # None /\ ~HasFailed(live, candidate) /\ HasExpired(live, candidate, bar)
    BY <1>3 DEF DecideNext
<1>4. CASE live # None /\ ~HasFailed(live, candidate) /\ ~HasExpired(live, candidate, bar)
    BY <1>4 DEF DecideNext
<1> QED
    BY <1>1, <1>2, <1>3, <1>4

(* A job in each of its stages. *)
LEMMA JobFields ==
    ASSUME NEW job \in Job
    PROVE  /\ job.at \in {"idle", "publish", "write", "reconcile", "settle"}
           /\ job.at = "idle" <=> job = Idle
           /\ job.at # "idle" => job.bar \in Bar
           /\ job.at \in {"publish", "write"} =>
                /\ job.candidate \in Candidate \cup {None}
                /\ job.snapshot \in Rule \cup {None}
           /\ job.at = "write" => job.previous \in State \cup {None}
           /\ job.at = "settle" => job.closed \in State
BY DEF Job, Idle

(* What a recorded decision writes: a state, closed exactly when the decision is
   to close, and then the previous one but for its status; a live one stands on
   the bar of the decision. *)
LEMMA WhatIsWritten ==
    ASSUME NEW job \in Job, job.at = "write", signals \in 0..MaxSignal,
           NEW decision \in {"open", "invalidate", "expire", "reversal", "update"},
           decision = DecideNext(job.previous, job.candidate, job.bar),
           decision \in {"open", "reversal"} => signals < MaxSignal
    PROVE  LET new == Written(job, decision) IN
           /\ new \in State
           /\ new.status \in Closed => new = [job.previous EXCEPT !.status = new.status]
           /\ new.status \notin Closed => new.bar = job.bar
<1>1. /\ job.bar \in Bar /\ job.candidate \in Candidate \cup {None}
      /\ job.snapshot \in Rule \cup {None} /\ job.previous \in State \cup {None}
    BY JobFields
<1>2. CASE decision \in {"expire", "invalidate"}
    <2>1. job.previous \in State
        BY <1>1, <1>2, Decisions
    <2>2. Written(job, decision) = [job.previous EXCEPT !.status = ToStatus(decision)]
        BY <1>2 DEF Written, Closing
    <2>3. ToStatus(decision) \in Closed
        BY <1>2 DEF ToStatus, Closed
    <2>4. Written(job, decision).status = ToStatus(decision)
        BY <2>1, <2>2 DEF State
    <2> QED
        BY <2>1, <2>2, <2>3, <2>4 DEF State, Status
<1>3. CASE decision \in {"open", "reversal", "update"}
    <2>1. job.candidate \in Candidate
        BY <1>1, <1>3, Decisions
    <2>2. ToStatus(decision) \in Status \ Closed
        BY <1>3 DEF ToStatus, Status, Closed
    <2>3. decision = "update" => job.previous \in State
        BY <1>1, <1>3, Decisions
    <2>4. IF job.previous # None /\ job.previous.snapshot # None
          THEN job.previous.snapshot \in Rule ELSE job.snapshot \in Rule \cup {None}
        BY <1>1 DEF State
    <2>5. IF decision = "update" THEN job.previous.signal \in 1..MaxSignal
          ELSE signals + 1 \in 1..MaxSignal
        BY <1>3, <2>3, LifecycleAssumption DEF State
    <2>6. Written(job, decision) =
            Publishing(job.previous, decision, job.candidate, job.bar, job.snapshot)
        BY <1>3 DEF Written
    <2>7. Written(job, decision) \in State
        BY <1>1, <2>1, <2>2, <2>4, <2>5, <2>6 DEF Publishing, State, Candidate
    <2>8. /\ Written(job, decision).status = ToStatus(decision)
          /\ Written(job, decision).bar = job.bar
        BY <2>6 DEF Publishing
    <2> QED
        BY <2>2, <2>7, <2>8
<1> QED
    BY <1>2, <1>3

LEMMA InitIInv == Init => IInv
BY LifecycleAssumption DEF Init, IInv, TypeOK, TrailMatchesRow, JobsAreOfThePast, Bar, Job

(* A step that changes the cycle c at most, and of the rest nothing. *)
LEMMA OnlyCycle ==
    ASSUME IInv, NEW c \in Cycle, NEW job \in Job, job # Idle => job.bar <= now,
           cycle' = [cycle EXCEPT ![c] = job],
           UNCHANGED <<now, row, signals, trail, outcome>>
    PROVE  IInv'
BY DEF IInv, TypeOK, TrailMatchesRow, JobsAreOfThePast

LEMMA BarClosesInv ==
    ASSUME IInv, BarCloses
    PROVE  IInv'
<1>1. now' \in Bar /\ now' = now + 1 /\ now \in Nat
    BY LifecycleAssumption DEF IInv, TypeOK, BarCloses, Bar
<1>2. JobsAreOfThePast'
    <2> SUFFICES ASSUME NEW c \in Cycle, cycle[c] # Idle PROVE cycle[c].bar <= now + 1
        BY <1>1 DEF BarCloses, JobsAreOfThePast
    <2>1. cycle[c].bar \in Bar /\ cycle[c].bar <= now
        BY JobFields DEF IInv, TypeOK, JobsAreOfThePast
    <2> QED
        BY <1>1, <2>1 DEF Bar
<1> QED
    BY <1>1, <1>2 DEF IInv, TypeOK, TrailMatchesRow, BarCloses

LEMMA ObserveInv ==
    ASSUME IInv, NEW c \in Cycle, NEW candidate \in Candidate \cup {None},
           NEW snapshot \in Rule \cup {None}, Observe(c, candidate, snapshot)
    PROVE  IInv'
<1> DEFINE job == [at |-> "publish", bar |-> now, candidate |-> candidate,
                   snapshot |-> snapshot]
<1>1. job \in Job /\ job.bar <= now
    BY LifecycleAssumption DEF IInv, TypeOK, Job, Bar
<1> QED
    BY <1>1, OnlyCycle DEF Observe

LEMMA GetLiveInv ==
    ASSUME IInv, NEW c \in Cycle, GetLive(c)
    PROVE  IInv'
<1> DEFINE job == [at |-> "write", bar |-> cycle[c].bar, candidate |-> cycle[c].candidate,
                   snapshot |-> cycle[c].snapshot, previous |-> row]
<1>1. cycle[c] \in Job /\ cycle[c].at = "publish" /\ cycle[c] # Idle
    BY DEF IInv, TypeOK, GetLive, Idle
<1>2. job \in Job /\ job.bar <= now
    BY <1>1, JobFields DEF IInv, TypeOK, JobsAreOfThePast, Job
<1> QED
    BY <1>2, OnlyCycle DEF GetLive

(* The row and its transition are written together. *)
LEMMA PublishInv ==
    ASSUME IInv, NEW c \in Cycle, Publish(c)
    PROVE  IInv'
<1> DEFINE job == cycle[c]
           decision == DecideNext(job.previous, job.candidate, job.bar)
           next == [at |-> "reconcile", bar |-> job.bar]
<1>1. job \in Job /\ job.at = "write" /\ job # Idle
    BY DEF IInv, TypeOK, Publish, Idle
<1>2. /\ job.bar \in Bar /\ job.bar <= now /\ job.candidate \in Candidate \cup {None}
      /\ job.previous \in State \cup {None}
    BY <1>1, JobFields DEF IInv, JobsAreOfThePast
<1>3. next \in Job /\ next.bar <= now
    BY <1>2 DEF Job
<1>4. cycle' = [cycle EXCEPT ![c] = next] /\ UNCHANGED <<now, outcome>>
    BY DEF Publish
<1>5. CASE decision = "unchanged"
    BY <1>3, <1>4, <1>5, OnlyCycle DEF Publish
<1>6. CASE decision # "unchanged"
    <2>1. decision \in {"open", "invalidate", "expire", "reversal", "update"}
        BY <1>2, <1>6, Decisions
    <2>2. /\ decision \in {"open", "reversal"} => signals < MaxSignal
          /\ row' = Written(job, decision)
          /\ signals' = IF decision \in {"open", "reversal"} THEN signals + 1 ELSE signals
          /\ trail' = [from |-> IF job.previous = None THEN None ELSE job.previous.status,
                       to |-> row'.status, direction |-> row'.direction]
        BY <1>6 DEF Publish
    <2>3. row' \in State
        BY <1>1, <2>1, <2>2, WhatIsWritten DEF IInv, TypeOK
    <2>4. signals' \in 0..MaxSignal
        BY <2>2, LifecycleAssumption DEF IInv, TypeOK
    <2>5. trail' \in Transition
        BY <1>2, <2>2, <2>3 DEF Transition, State
    <2>6. TypeOK'
        BY <1>3, <1>4, <2>3, <2>4, <2>5 DEF IInv, TypeOK
    <2>7. TrailMatchesRow'
        BY <2>2, <2>3, <2>5, NoneAssumption DEF TrailMatchesRow
    <2>8. JobsAreOfThePast'
        BY <1>3, <1>4 DEF IInv, TypeOK, JobsAreOfThePast
    <2> QED
        BY <2>6, <2>7, <2>8 DEF IInv
<1> QED
    BY <1>5, <1>6

LEMMA FindClosedInv ==
    ASSUME IInv, NEW c \in Cycle, FindClosed(c)
    PROVE  IInv'
<1> DEFINE job == IF row # None /\ row.status \in Closed
                  THEN [at |-> "settle", bar |-> cycle[c].bar, closed |-> row] ELSE Idle
<1>1. cycle[c] \in Job /\ cycle[c].at = "reconcile" /\ cycle[c] # Idle
    BY DEF IInv, TypeOK, FindClosed, Idle
<1>2. job \in Job /\ (job # Idle => job.bar <= now)
    BY <1>1, JobFields DEF IInv, TypeOK, JobsAreOfThePast, Job
<1> QED
    BY <1>2, OnlyCycle DEF FindClosed

(* The bar a resolved horizon ends on has been read. *)
LEMMA ExitIsABar ==
    ASSUME NEW entry \in Bar, NEW bar \in Bar, NEW h \in Horizon
    PROVE  /\ MeasureOutcome(entry, h, bar) \in {"unknown", "expired", "resolved"}
           /\ MeasureOutcome(entry, h, bar) = "resolved" =>
                /\ ExitBar(entry, h, bar) \in Bar /\ ExitBar(entry, h, bar) <= bar
                /\ OldestBar(bar) <= entry + 1 => ExitBar(entry, h, bar) = entry + h
<1>1. entry \in Nat /\ bar \in Nat /\ h \in Nat \ {0} /\ bar <= MaxBar
    BY LifecycleAssumption DEF Bar
<1>2. OldestBar(bar) \in Nat /\ FirstForward(entry, bar) \in Nat
    BY <1>1, LifecycleAssumption DEF OldestBar, FirstForward
<1>3. ExitBar(entry, h, bar) \in Nat
    BY <1>1, <1>2 DEF ExitBar
<1>4. /\ MeasureOutcome(entry, h, bar) \in {"unknown", "expired", "resolved"}
      /\ MeasureOutcome(entry, h, bar) = "resolved" => ExitBar(entry, h, bar) <= bar
    BY DEF MeasureOutcome
<1>5. OldestBar(bar) <= entry + 1 => ExitBar(entry, h, bar) = entry + h
    BY <1>1, <1>2 DEF ExitBar, FirstForward
<1> QED
    BY <1>1, <1>3, <1>4, <1>5, LifecycleAssumption DEF Bar

LEMMA SettledIsOutcome ==
    ASSUME NEW old \in Outcome \cup {None}, NEW signal \in State, NEW h \in Horizon,
           NEW bar \in Bar
    PROVE  Settled(old, signal, h, bar) \in Outcome
<1>1. CASE old # None /\ old.verdict = "resolved"
    BY <1>1 DEF Settled
<1>2. CASE ~(old # None /\ old.verdict = "resolved")
    <2>1. signal.bar \in Bar /\ signal.signal \in 1..MaxSignal
        BY DEF State
    <2>2. IF MeasureOutcome(signal.bar, h, bar) = "resolved"
          THEN ExitBar(signal.bar, h, bar) \in Bar ELSE TRUE
        BY <2>1, ExitIsABar
    <2>3. MeasureOutcome(signal.bar, h, bar) \in {"unknown", "expired", "resolved"}
        BY <2>1, ExitIsABar
    <2> QED
        BY <1>2, <2>1, <2>2, <2>3 DEF Settled, SettledAnyway, Outcome
<1> QED
    BY <1>1, <1>2

LEMMA SettleInv ==
    ASSUME IInv, NEW c \in Cycle, Settle(c)
    PROVE  IInv'
<1>1. cycle[c].bar \in Bar /\ cycle[c].closed \in State
    BY JobFields DEF IInv, TypeOK, Settle
<1>2. outcome' \in [Horizon -> Outcome \cup {None}]
    BY <1>1, SettledIsOutcome DEF IInv, TypeOK, Settle
<1> QED
    BY <1>2 DEF IInv, TypeOK, TrailMatchesRow, JobsAreOfThePast, Settle, Job

LEMMA CycleFailsInv ==
    ASSUME IInv, NEW c \in Cycle, CycleFails(c)
    PROVE  IInv'
<1>1. Idle \in Job
    BY DEF Job
<1> QED
    BY <1>1, OnlyCycle DEF CycleFails

LEMMA NextIInv ==
    ASSUME IInv, [Next]_vars
    PROVE  IInv'
<1>1. CASE UNCHANGED vars
    BY <1>1 DEF vars, IInv, TypeOK, TrailMatchesRow, JobsAreOfThePast
<1> QED
    BY <1>1, BarClosesInv, ObserveInv, GetLiveInv, PublishInv, FindClosedInv, SettleInv,
        CycleFailsInv DEF Next

(* Every variable keeps its type, the last transition says what the row says,
   and no cycle works on a bar that has not closed. *)
THEOREM InductiveInvariant == Spec => []IInv
<1>1. IInv /\ [Next]_vars => IInv'
    BY NextIInv
<1> QED
    BY InitIInv, <1>1, PTL DEF Spec

(* Rows, transitions, measurements and cycles are what they are declared to be:
   no resolved horizon ends on a bar the market has not had. *)
THEOREM TypeCorrect == Spec => []TypeOK
<1>1. IInv => TypeOK
    BY DEF IInv
<1> QED
    BY <1>1, InductiveInvariant, PTL

(* However cycles overlap, fail or crash, the last transition is that of the
   row that is stored. *)
THEOREM TrailAndRowAgree == Spec => []TrailMatchesRow
<1>1. IInv => TrailMatchesRow
    BY DEF IInv
<1> QED
    BY <1>1, InductiveInvariant, PTL
(***************************************************************************)
(* What a step may never do.                                               *)
(***************************************************************************)

(* A cycle that goes from deciding to reconciling has published. *)
LEMMA PublishingStep ==
    ASSUME IInv, Next, NEW c \in Cycle, Publishes(c)
    PROVE  Publish(c)
<1>1. cycle[c].at = "write" /\ cycle'[c].at = "reconcile" /\ cycle \in [Cycle -> Job]
    BY DEF Publishes, IInv, TypeOK
<1>2. ~BarCloses
    BY <1>1 DEF BarCloses
<1>3. ASSUME NEW d \in Cycle, NEW candidate \in Candidate \cup {None},
             NEW snapshot \in Rule \cup {None}, Observe(d, candidate, snapshot)
      PROVE  FALSE
    BY <1>1, <1>3 DEF Observe
<1>4. ASSUME NEW d \in Cycle, GetLive(d) PROVE FALSE
    BY <1>1, <1>4 DEF GetLive
<1>5. ASSUME NEW d \in Cycle, FindClosed(d) PROVE FALSE
    BY <1>1, <1>5 DEF FindClosed, Idle
<1>6. ASSUME NEW d \in Cycle, Settle(d) \/ CycleFails(d) PROVE FALSE
    BY <1>1, <1>6 DEF Settle, CycleFails, Idle
<1>7. ASSUME NEW d \in Cycle, Publish(d) PROVE d = c
    BY <1>1, <1>7 DEF Publish
<1> QED
    BY <1>2, <1>3, <1>4, <1>5, <1>6, <1>7 DEF Next

(* The row after a publish: what it was, or what the decision wrote. *)
LEMMA PublishedRow ==
    ASSUME IInv, NEW c \in Cycle, Publish(c)
    PROVE  LET job == cycle[c] IN
           /\ job \in Job /\ job.at = "write" /\ job.bar \in Bar
           /\ job.previous \in State \cup {None}
           /\ \/ row' = row /\ (job.previous # None =>
                                   ~HasExpired(job.previous, job.candidate, job.bar))
              \/ /\ row' \in State
                 /\ row'.status \in Closed =>
                        row' = [job.previous EXCEPT !.status = row'.status]
                 /\ row'.status \notin Closed => row'.bar = job.bar
<1> DEFINE job == cycle[c]
           decision == DecideNext(job.previous, job.candidate, job.bar)
<1>1. job \in Job /\ job.at = "write"
    BY DEF IInv, TypeOK, Publish
<1>2. /\ job.bar \in Bar /\ job.candidate \in Candidate \cup {None}
      /\ job.previous \in State \cup {None}
    BY <1>1, JobFields
<1>3. CASE decision = "unchanged"
    <2>1. row' = row
        BY <1>3 DEF Publish
    <2>2. job.previous # None => ~HasExpired(job.previous, job.candidate, job.bar)
        BY <1>2, <1>3, Decisions
    <2> QED
        BY <1>1, <1>2, <2>1, <2>2
<1>4. CASE decision # "unchanged"
    <2>1. decision \in {"open", "invalidate", "expire", "reversal", "update"}
        BY <1>2, <1>4, Decisions
    <2>2. /\ decision \in {"open", "reversal"} => signals < MaxSignal
          /\ row' = Written(job, decision)
        BY <1>4 DEF Publish
    <2>3. /\ row' \in State
          /\ row'.status \in Closed => row' = [job.previous EXCEPT !.status = row'.status]
          /\ row'.status \notin Closed => row'.bar = job.bar
        BY <1>1, <2>1, <2>2, WhatIsWritten DEF IInv, TypeOK
    <2> QED
        BY <1>1, <1>2, <2>3
<1> QED
    BY <1>3, <1>4

(* Once a cycle has published on the row it read, what is live stands on a bar
   less than ExpiryBars before the one the cycle looked at. *)
THEOREM LiveSignalsAreYoung == Spec => NothingOutlivesItsBars
<1> DEFINE Step == \A c \in Cycle :
                      PublishesUndisturbed(c) /\ row' # None /\ row'.status \notin Closed
                          => cycle[c].bar - row'.bar < ExpiryBars
<1>1. IInv /\ [Next]_vars => [Step]_vars
    <2> SUFFICES ASSUME IInv, Next, NEW c \in Cycle, PublishesUndisturbed(c),
                        row' # None, row'.status \notin Closed
                 PROVE  cycle[c].bar - row'.bar < ExpiryBars
        OBVIOUS
    <2>1. Publish(c) /\ cycle[c].previous = row
        BY PublishingStep DEF PublishesUndisturbed
    <2>2. CASE row' = row /\ ~HasExpired(row, cycle[c].candidate, cycle[c].bar)
        <3>1. row \in State /\ cycle[c].bar \in Bar
            BY <2>1, <2>2, PublishedRow DEF IInv, TypeOK
        <3>2. row.bar \in Int /\ cycle[c].bar \in Int
            BY <3>1 DEF State, Bar
        <3> QED
            BY <2>2, <3>2, LifecycleAssumption DEF HasExpired
    <2>3. CASE row'.bar = cycle[c].bar
        <3>1. cycle[c].bar \in Int
            BY <2>1, PublishedRow DEF Bar
        <3> QED
            BY <2>3, <3>1, LifecycleAssumption
    <2> QED
        BY <2>1, <2>2, <2>3, PublishedRow
<1> QED
    BY <1>1, InductiveInvariant, PTL DEF Spec, NothingOutlivesItsBars

(* A publish that closes the row it read changes its status and nothing else:
   the entry that is measured is the one the signal had. *)
THEOREM EntryIsKept == Spec => ClosingKeepsTheEntry
<1> DEFINE Step == \A c \in Cycle :
                      PublishesUndisturbed(c) /\ row # None /\ row' # row /\ row'.status \in Closed
                          => row' = [row EXCEPT !.status = row'.status]
<1>1. IInv /\ [Next]_vars => [Step]_vars
    <2> SUFFICES ASSUME IInv, Next, NEW c \in Cycle, PublishesUndisturbed(c),
                        row # None, row' # row, row'.status \in Closed
                 PROVE  row' = [row EXCEPT !.status = row'.status]
        OBVIOUS
    <2>1. Publish(c) /\ cycle[c].previous = row
        BY PublishingStep DEF PublishesUndisturbed
    <2> QED
        BY <2>1, PublishedRow
<1> QED
    BY <1>1, InductiveInvariant, PTL DEF Spec, ClosingKeepsTheEntry

(* What a settlement leaves of a horizon: a resolved row as it was; and one it
   resolves on the h-th bar after the entry, if the market read held the bar
   after the entry. *)
LEMMA SettledOnItsBar ==
    ASSUME NEW old \in Outcome \cup {None}, NEW signal \in State, NEW h \in Horizon,
           NEW bar \in Bar, Settled(old, signal, h, bar) # old
    PROVE  LET new == Settled(old, signal, h, bar) IN
           /\ old = None \/ old.verdict # "resolved"
           /\ new.verdict = "resolved" /\ OldestBar(bar) <= new.from + 1
                => new.exit = new.from + h /\ new.exit \in Bar /\ new.exit <= bar
<1>1. old = None \/ old.verdict # "resolved"
    BY DEF Settled
<1>2. Settled(old, signal, h, bar) = SettledAnyway(old, signal, h, bar)
    BY <1>1 DEF Settled
<1>3. signal.bar \in Bar
    BY DEF State
<1> DEFINE verdict == MeasureOutcome(signal.bar, h, bar)
           new == SettledAnyway(old, signal, h, bar)
<1>4. /\ new.verdict = verdict /\ new.from = signal.bar
      /\ new.exit = IF verdict = "resolved" THEN ExitBar(signal.bar, h, bar) ELSE None
    BY DEF SettledAnyway
<1> HIDE DEF verdict, new
<1>5. verdict = "resolved" =>
          /\ ExitBar(signal.bar, h, bar) \in Bar /\ ExitBar(signal.bar, h, bar) <= bar
          /\ OldestBar(bar) <= signal.bar + 1 => ExitBar(signal.bar, h, bar) = signal.bar + h
    BY <1>3, ExitIsABar DEF verdict
<1> QED
    BY <1>1, <1>2, <1>4, <1>5 DEF new

(* Nothing but a settlement touches a measurement. *)
LEMMA SettlingStep ==
    ASSUME Next, outcome' # outcome
    PROVE  \E c \in Cycle : Settle(c)
BY DEF Next, BarCloses, Observe, GetLive, Publish, FindClosed, CycleFails

(* A measurement resolves once, on the h-th bar after the entry, which has
   closed. *)
THEOREM ResolvedOnceOnTime == Spec => ResolvesOnceOnItsBar
<1> DEFINE Resolved(h) ==
                /\ outcome[h] = None \/ outcome[h].verdict # "resolved"
                /\ \A c \in Cycle :
                      /\ cycle[c].at = "settle" /\ cycle'[c] = Idle
                      /\ outcome'[h].verdict = "resolved"
                      /\ OldestBar(cycle[c].bar) <= outcome'[h].from + 1
                      => outcome'[h].exit = outcome'[h].from + h /\ outcome'[h].exit <= now
           Step == \A h \in Horizon : outcome'[h] # outcome[h] => Resolved(h)
<1>1. IInv /\ [Next]_vars => [Step]_vars
    <2> SUFFICES ASSUME IInv, Next, NEW h \in Horizon, outcome'[h] # outcome[h]
                 PROVE  Resolved(h)
        OBVIOUS
    <2>1. PICK d \in Cycle : Settle(d)
        BY SettlingStep
    <2> DEFINE job == cycle[d]
    <2>2. /\ job.bar \in Bar /\ job.closed \in State /\ job.bar <= now /\ now \in Bar
        BY <2>1, JobFields DEF IInv, TypeOK, JobsAreOfThePast, Settle, Idle
    <2>3. /\ outcome[h] \in Outcome \cup {None}
          /\ outcome'[h] = Settled(outcome[h], job.closed, h, job.bar)
        BY <2>1 DEF IInv, TypeOK, Settle
    <2>4. \A c \in Cycle : cycle[c].at = "settle" /\ cycle'[c] = Idle => c = d
        BY <2>1 DEF IInv, TypeOK, Settle, Idle
    <2> HIDE DEF job
    <2>5. /\ outcome[h] = None \/ outcome[h].verdict # "resolved"
          /\ outcome'[h].verdict = "resolved" /\ OldestBar(job.bar) <= outcome'[h].from + 1
                => /\ outcome'[h].exit = outcome'[h].from + h
                   /\ outcome'[h].exit \in Bar /\ outcome'[h].exit <= job.bar
        BY <2>2, <2>3, SettledOnItsBar
    <2>6. \A e \in Bar : e <= job.bar => e <= now
        BY <2>2, LifecycleAssumption DEF Bar
    <2> QED
        BY <2>4, <2>5, <2>6 DEF job
<1> QED
    BY <1>1, InductiveInvariant, PTL DEF Spec, ResolvesOnceOnItsBar

===============================================================================
