----------------------------- MODULE MarketPipeline -----------------------------
(***************************************************************************)
(* The market pipeline of several backend processes over one PostgreSQL:   *)
(* the lease of db/lease.ts, the loops of services/poller.ts that ask it   *)
(* before every cycle, and the start and stop order of                     *)
(* bootstrap/workers.ts and bootstrap/shutdown.ts.                         *)
(*                                                                         *)
(* A session is one database connection.  Its two ends fail separately:    *)
(* `open` is the client's end, `backend` the server's, and the advisory    *)
(* lock lives and dies with the server's end.  A query takes three steps   *)
(* (sent, evaluated by the server, answered), so a session can be lost     *)
(* between any two of them.  Session identities are reused once nothing    *)
(* remembers them, which keeps the instance finite.                        *)
(***************************************************************************)
EXTENDS Naturals, Sequences

CONSTANTS
    Process,        \* the backend processes
    Loop,           \* the loops of one process: the analysis poller and
                    \* one ingestion scheduler per market
    Poller,         \* the analysis poller, one of the loops
    StartOrder,     \* StartOrder[p]: the loops workers.start starts in p, in
                    \* order; each process is configured on its own, and one
                    \* that does not poll starts none
    Session,        \* identities of database sessions
    None,
    MaxFaults       \* bound: crashes, lost connections, failed connects

ASSUME LoopAssumption ==
    /\ Poller \in Loop
    /\ StartOrder \in [Process -> Seq(Loop)]
    /\ \A p \in Process : \A i, j \in 1..Len(StartOrder[p]) :
            StartOrder[p][i] = StartOrder[p][j] => i = j

ASSUME SessionAssumption ==
    None \notin Session /\ MaxFaults \in Nat

VARIABLES
    mode,       \* mode[p]: down, up, stopping, releasing or draining
    stopped,    \* stopped[p]: the loops whose stop() has been called
    loop,       \* loop[p][l]: off, timer (tick armed), gate (awaits the lease), run
    grant,      \* grant[p][l]: the session the running cycle was admitted under
    queue,      \* queue[p]: loops awaiting ensureHeld, head first (the tail promise)
    pc,         \* pc[p]: where the lease job of p is
    cur,        \* cur[p]: the session that job works on, or None
    reply,      \* reply[p]: the server's answer to the query in flight
    client,     \* client[p]: the parked session, or None
    home,       \* home[s]: the process that opened s
    open,       \* open[s]: the client's end of s is open
    backend,    \* backend[s]: the server's end of s is alive
    lock,       \* the session that holds the advisory lock, or None
    faults      \* faults so far

worker == <<mode, stopped, loop, grant>>
lease == <<queue, pc, cur, reply, client>>
database == <<home, open, backend, lock>>
vars == <<mode, stopped, loop, grant, queue, pc, cur, reply, client,
          home, open, backend, lock, faults>>

(* The loops of process p. *)
LoopsOf(p) == {StartOrder[p][i] : i \in 1..Len(StartOrder[p])}

Modes == {"down", "up", "stopping", "releasing", "draining"}
LoopStates == {"off", "timer", "gate", "run"}
Querying == {"try", "check", "unlock"}
Replies == {"none", "yes", "no"}

TypeOK ==
    /\ mode \in [Process -> Modes]
    /\ stopped \in [Process -> SUBSET Loop]
    /\ loop \in [Process -> [Loop -> LoopStates]]
    /\ grant \in [Process -> [Loop -> Session \cup {None}]]
    /\ queue \in [Process -> Seq(Loop)]
    /\ pc \in [Process -> {"idle", "connect"} \cup Querying]
    /\ cur \in [Process -> Session \cup {None}]
    /\ reply \in [Process -> Replies]
    /\ client \in [Process -> Session \cup {None}]
    /\ home \in [Session -> Process]
    /\ open \in [Session -> BOOLEAN]
    /\ backend \in [Session -> BOOLEAN]
    /\ lock \in Session \cup {None}
    /\ faults \in 0..MaxFaults
    /\ \A p \in Process : pc[p] \in Querying <=> cur[p] # None
    /\ \A p \in Process, l \in Loop : loop[p][l] = "run" <=> grant[p][l] # None

Init ==
    /\ mode = [p \in Process |-> "down"]
    /\ stopped = [p \in Process |-> {}]
    /\ loop = [p \in Process |-> [l \in Loop |-> "off"]]
    /\ grant = [p \in Process |-> [l \in Loop |-> None]]
    /\ queue = [p \in Process |-> << >>]
    /\ pc = [p \in Process |-> "idle"]
    /\ cur = [p \in Process |-> None]
    /\ reply = [p \in Process |-> "none"]
    /\ client = [p \in Process |-> None]
    /\ home \in [Session -> Process]
    /\ \A s, t \in Session : home[s] = home[t]
    /\ open = [s \in Session |-> FALSE]
    /\ backend = [s \in Session |-> FALSE]
    /\ lock = None
    /\ faults = 0

Pooled(p, s) ==
    open[s] /\ home[s] = p /\ client[p] # s /\ cur[p] # s

Remembered(s) ==
    \E p \in Process : cur[p] = s \/ \E l \in Loop : grant[p][l] = s

Unused(s) == ~open[s] /\ ~backend[s] /\ ~Remembered(s)

Fault == faults < MaxFaults /\ faults' = faults + 1

(* What a loop does when its cycle is over: arm the next tick, unless stopped. *)
Rest(p, l) == IF l \in stopped[p] THEN "off" ELSE "timer"

(* The server ends session s; a lock it held is free. *)
ServerDrops(s) ==
    /\ backend' = [backend EXCEPT ![s] = FALSE]
    /\ lock' = IF lock = s THEN None ELSE lock

(***************************************************************************)
(* services/poller.ts: the loops.                                          *)
(***************************************************************************)

(* Plausible bug: ticks on a fixed interval, whatever the loop is doing. *)
TickOnInterval(p, l) ==
    /\ loop[p][l] \in {"timer", "gate"}
    /\ loop' = [loop EXCEPT ![p][l] = "gate"]
    /\ queue' = [queue EXCEPT ![p] = Append(queue[p], l)]
    /\ UNCHANGED <<mode, stopped, grant, pc, cur, reply, client, database, faults>>

(* The tick fires: a cycle starts and queues its question to the lease. *)
Tick(p, l) ==
    /\ loop[p][l] = "timer"
    /\ loop' = [loop EXCEPT ![p][l] = "gate"]
    /\ queue' = [queue EXCEPT ![p] = Append(queue[p], l)]
    /\ UNCHANGED <<mode, stopped, grant, pc, cur, reply, client, database, faults>>

(* A cycle ends, well or badly: both are logged and the loop goes on. *)
CycleEnds(p, l) ==
    /\ loop[p][l] = "run"
    /\ loop' = [loop EXCEPT ![p][l] = Rest(p, l)]
    /\ grant' = [grant EXCEPT ![p][l] = None]
    /\ UNCHANGED <<mode, stopped, lease, database, faults>>

(* Plausible bug: a finished job keeps its session. *)
JobDoneKeepsSession(p) ==
    /\ pc' = [pc EXCEPT ![p] = "idle"]
    /\ reply' = [reply EXCEPT ![p] = "none"]
    /\ UNCHANGED cur

(* The lease job of p is over; `lease` is ready for the next one. *)
JobDone(p) ==
    /\ pc' = [pc EXCEPT ![p] = "idle"]
    /\ cur' = [cur EXCEPT ![p] = None]
    /\ reply' = [reply EXCEPT ![p] = "none"]

(* ensureHeld answers true: the asking loop runs its cycle. *)
GateOpens(p) ==
    LET l == Head(queue[p]) IN
    /\ loop' = [loop EXCEPT ![p][l] = "run"]
    /\ grant' = [grant EXCEPT ![p][l] = cur[p]]
    /\ queue' = [queue EXCEPT ![p] = Tail(queue[p])]
    /\ JobDone(p)

(* Plausible bug: a skipped cycle does not schedule the next one. *)
GateShutForGood(p) ==
    LET l == Head(queue[p]) IN
    /\ loop' = [loop EXCEPT ![p][l] = "off"]
    /\ queue' = [queue EXCEPT ![p] = Tail(queue[p])]
    /\ JobDone(p)
    /\ UNCHANGED grant

(* ensureHeld answers false or rejects: the cycle is skipped. *)
GateShut(p) ==
    LET l == Head(queue[p]) IN
    /\ loop' = [loop EXCEPT ![p][l] = Rest(p, l)]
    /\ queue' = [queue EXCEPT ![p] = Tail(queue[p])]
    /\ JobDone(p)
    /\ UNCHANGED grant

(***************************************************************************)
(* db/lease.ts: one job at a time.                                         *)
(***************************************************************************)

(* ensureOnce starts: verify the parked session, or acquire. *)
EnsureBegins(p) ==
    /\ pc[p] = "idle"
    /\ queue[p] # << >>
    /\ pc' = [pc EXCEPT ![p] = IF client[p] = None THEN "connect" ELSE "check"]
    /\ cur' = [cur EXCEPT ![p] = client[p]]
    /\ UNCHANGED <<worker, queue, reply, client, database, faults>>

(* acquire gets a session: a pooled one first, a fresh one otherwise. *)
Connect(p, s) ==
    /\ pc[p] = "connect"
    /\ \/ Pooled(p, s)
       \/ Unused(s) /\ \A t \in Session : ~Pooled(p, t)
    /\ pc' = [pc EXCEPT ![p] = "try"]
    /\ cur' = [cur EXCEPT ![p] = s]
    /\ home' = [home EXCEPT ![s] = p]
    /\ backend' = [backend EXCEPT ![s] = backend[s] \/ ~open[s]]
    /\ open' = [open EXCEPT ![s] = TRUE]
    /\ UNCHANGED <<worker, queue, reply, client, lock, faults>>

(* connect() rejects, and so does ensureHeld. *)
ConnectFails(p) ==
    /\ pc[p] = "connect"
    /\ Fault
    /\ GateShut(p)
    /\ UNCHANGED <<mode, stopped, client, database>>

(* Plausible bug: the shared form of the advisory lock, which every session
   that asks is given. *)
ServerEvaluatesShared(p) ==
    LET s == cur[p] IN
    /\ pc[p] \in Querying
    /\ reply[p] = "none"
    /\ backend[s]
    /\ reply' = [reply EXCEPT ![p] = "yes"]
    /\ lock' = CASE pc[p] = "try" -> s
                 [] pc[p] = "unlock" /\ lock = s -> None
                 [] OTHER -> lock
    /\ UNCHANGED <<worker, queue, pc, cur, client, home, open, backend, faults>>

(* The server evaluates the query in flight on p's session, which it may do
   for a client that is already gone. *)
ServerEvaluates(p) ==
    LET s == cur[p] IN
    /\ pc[p] \in Querying
    /\ reply[p] = "none"
    /\ backend[s]
    /\ reply' = [reply EXCEPT ![p] =
            CASE pc[p] = "try" -> IF lock \in {None, s} THEN "yes" ELSE "no"
              [] pc[p] = "check" -> IF lock = s THEN "yes" ELSE "no"
              [] OTHER -> "yes"]
    /\ lock' = CASE pc[p] = "try" /\ lock = None -> s
                 [] pc[p] = "unlock" /\ lock = s -> None
                 [] OTHER -> lock
    /\ UNCHANGED <<worker, queue, pc, cur, client, home, open, backend, faults>>

(* TRY_LOCK answered true: the session is parked and the gate opens. *)
Acquired(p) ==
    /\ pc[p] = "try"
    /\ reply[p] = "yes"
    /\ open[cur[p]]
    /\ client' = [client EXCEPT ![p] = cur[p]]
    /\ GateOpens(p)
    /\ UNCHANGED <<mode, stopped, database, faults>>

(* Plausible bug: the answer of TRY_LOCK is not looked at. *)
ContendedRunsAnyway(p) ==
    /\ pc[p] = "try"
    /\ reply[p] = "no"
    /\ open[cur[p]]
    /\ GateOpens(p)
    /\ UNCHANGED <<mode, stopped, client, database, faults>>

(* TRY_LOCK answered false: the session goes back to the pool. *)
Contended(p) ==
    /\ pc[p] = "try"
    /\ reply[p] = "no"
    /\ open[cur[p]]
    /\ GateShut(p)
    /\ UNCHANGED <<mode, stopped, client, database, faults>>

(* CHECK_LOCK answered: still the leader, or back to contending. *)
Checked(p) ==
    /\ pc[p] = "check"
    /\ reply[p] # "none"
    /\ open[cur[p]]
    /\ IF reply[p] = "yes"
       THEN GateOpens(p) /\ UNCHANGED client
       ELSE /\ client' = [client EXCEPT ![p] = None]
            /\ pc' = [pc EXCEPT ![p] = "connect"]
            /\ cur' = [cur EXCEPT ![p] = None]
            /\ reply' = [reply EXCEPT ![p] = "none"]
            /\ UNCHANGED <<loop, grant, queue>>
    /\ UNCHANGED <<mode, stopped, database, faults>>

(* The query of ensureHeld fails because its session is gone: TRY_LOCK
   rejects to the gate, CHECK_LOCK starts over as a contender. *)
QueryFails(p) ==
    /\ pc[p] \in {"try", "check"}
    /\ ~open[cur[p]]
    /\ IF pc[p] = "try"
       THEN GateShut(p) /\ UNCHANGED client
       ELSE /\ client' = [client EXCEPT ![p] = None]
            /\ pc' = [pc EXCEPT ![p] = "connect"]
            /\ cur' = [cur EXCEPT ![p] = None]
            /\ reply' = [reply EXCEPT ![p] = "none"]
            /\ UNCHANGED <<loop, grant, queue>>
    /\ UNCHANGED <<mode, stopped, database, faults>>

(* Plausible bug: the lease is released while a stopped loop still runs. *)
ReleaseBeforeLoopsEnd(p) ==
    /\ mode[p] = "stopping"
    /\ stopped[p] = LoopsOf(p)
    /\ pc[p] = "idle"
    /\ mode' = [mode EXCEPT ![p] =
                    IF client[p] = None THEN "draining" ELSE "releasing"]
    /\ pc' = [pc EXCEPT ![p] = IF client[p] = None THEN "idle" ELSE "unlock"]
    /\ cur' = [cur EXCEPT ![p] = client[p]]
    /\ client' = [client EXCEPT ![p] = None]
    /\ UNCHANGED <<stopped, loop, grant, queue, reply, database, faults>>

(* releaseOnce, the last job: nothing is left in the queue, because stop()
   awaited every loop.  The parked session is forgotten before the unlock. *)
ReleaseBegins(p) ==
    /\ mode[p] = "stopping"
    /\ stopped[p] = LoopsOf(p)
    /\ \A l \in Loop : loop[p][l] = "off"
    /\ mode' = [mode EXCEPT ![p] =
                    IF client[p] = None THEN "draining" ELSE "releasing"]
    /\ pc' = [pc EXCEPT ![p] = IF client[p] = None THEN "idle" ELSE "unlock"]
    /\ cur' = [cur EXCEPT ![p] = client[p]]
    /\ client' = [client EXCEPT ![p] = None]
    /\ UNCHANGED <<stopped, loop, grant, queue, reply, database, faults>>

(* Plausible bug: the session goes back to the pool before the unlock ran. *)
ReleaseDoesNotWait(p) ==
    /\ pc[p] = "unlock"
    /\ mode' = [mode EXCEPT ![p] = "draining"]
    /\ JobDone(p)
    /\ UNCHANGED <<stopped, loop, grant, queue, client, database, faults>>

(* Plausible bug: an unlock whose session is lost is waited for for ever. *)
ReleaseOnlyAnswered(p) ==
    /\ pc[p] = "unlock"
    /\ reply[p] # "none" /\ open[cur[p]]
    /\ mode' = [mode EXCEPT ![p] = "draining"]
    /\ JobDone(p)
    /\ UNCHANGED <<stopped, loop, grant, queue, client, database, faults>>

(* UNLOCK answered or failed; either way the session is let go. *)
ReleaseEnds(p) ==
    /\ pc[p] = "unlock"
    /\ reply[p] # "none" \/ ~open[cur[p]]
    /\ mode' = [mode EXCEPT ![p] = "draining"]
    /\ JobDone(p)
    /\ UNCHANGED <<stopped, loop, grant, queue, client, database, faults>>

(***************************************************************************)
(* The sessions: lost connections, and what the two ends make of them.     *)
(***************************************************************************)

(* The client's end closes: onError drops the session for good. *)
ClientDrops(s) ==
    LET p == home[s] IN
    /\ open' = [open EXCEPT ![s] = FALSE]
    /\ client' = [client EXCEPT ![p] = IF client[p] = s THEN None ELSE client[p]]

(* The client loses its connection while the server's end lives on, or a
   query of the lease fails on the server. *)
ConnectionLost(s) ==
    /\ open[s] /\ backend[s]
    /\ Fault
    /\ ClientDrops(s)
    /\ UNCHANGED <<worker, queue, pc, cur, reply, home, backend, lock>>

(* The server ends the session; the client does not know yet. *)
BackendDies(s) ==
    /\ open[s] /\ backend[s]
    /\ Fault
    /\ ServerDrops(s)
    /\ UNCHANGED <<worker, lease, home, open>>

(* The client learns that its session is gone. *)
ClientNotices(s) ==
    /\ open[s] /\ ~backend[s]
    /\ ClientDrops(s)
    /\ UNCHANGED <<worker, queue, pc, cur, reply, home, backend, lock, faults>>

(* The server learns that the client is gone and releases what it held. *)
BackendReaped(s) ==
    /\ ~open[s] /\ backend[s]
    /\ ServerDrops(s)
    /\ UNCHANGED <<worker, lease, home, open, faults>>

(* The pool closes a session that has been idle too long. *)
PoolIdleTimeout(s) ==
    /\ Pooled(home[s], s)
    /\ open' = [open EXCEPT ![s] = FALSE]
    /\ UNCHANGED <<worker, lease, home, backend, lock, faults>>

(***************************************************************************)
(* bootstrap: start, stop, crash.                                          *)
(***************************************************************************)

(* workers.start: every loop starts its first cycle at once. *)
Boot(p) ==
    /\ mode[p] = "down"
    /\ mode' = [mode EXCEPT ![p] = "up"]
    /\ loop' = [loop EXCEPT ![p] =
                    [l \in Loop |-> IF l \in LoopsOf(p) THEN "gate" ELSE "off"]]
    /\ queue' = [queue EXCEPT ![p] = StartOrder[p]]
    /\ UNCHANGED <<stopped, grant, pc, cur, reply, client, database, faults>>

(* SIGTERM or SIGINT; a second one is ignored. *)
Signal(p) ==
    /\ mode[p] = "up"
    /\ mode' = [mode EXCEPT ![p] = "stopping"]
    /\ UNCHANGED <<stopped, loop, grant, lease, database, faults>>

(* workers.stop stops one loop: the schedulers in turn and then the poller,
   each only after the cycle of the one before has ended. *)
StopLoop(p, l) ==
    /\ mode[p] = "stopping"
    /\ l \in LoopsOf(p) \ stopped[p]
    /\ \A m \in stopped[p] : loop[p][m] = "off"
    /\ l = Poller => stopped[p] = LoopsOf(p) \ {Poller}
    /\ stopped' = [stopped EXCEPT ![p] = stopped[p] \cup {l}]
    /\ loop' = [loop EXCEPT ![p][l] = IF loop[p][l] = "timer" THEN "off" ELSE loop[p][l]]
    /\ UNCHANGED <<mode, grant, lease, database, faults>>

(* The process is gone: its memory, and the client's end of its sessions. *)
ProcessGone(p) ==
    /\ mode' = [mode EXCEPT ![p] = "down"]
    /\ stopped' = [stopped EXCEPT ![p] = {}]
    /\ loop' = [loop EXCEPT ![p] = [l \in Loop |-> "off"]]
    /\ grant' = [grant EXCEPT ![p] = [l \in Loop |-> None]]
    /\ queue' = [queue EXCEPT ![p] = << >>]
    /\ JobDone(p)
    /\ client' = [client EXCEPT ![p] = None]
    /\ open' = [s \in Session |-> open[s] /\ home[s] # p]
    /\ UNCHANGED <<home, backend, lock>>

(* The backlogs are drained, the server closed, the pool ended. *)
Exit(p) ==
    /\ mode[p] = "draining"
    /\ ProcessGone(p)
    /\ UNCHANGED faults

Crash(p) ==
    /\ mode[p] # "down"
    /\ Fault
    /\ ProcessGone(p)

Next ==
    \/ \E p \in Process, l \in Loop : Tick(p, l)
    \/ \E p \in Process, l \in Loop : CycleEnds(p, l)
    \/ \E p \in Process : EnsureBegins(p)
    \/ \E p \in Process, s \in Session : Connect(p, s)
    \/ \E p \in Process : ConnectFails(p)
    \/ \E p \in Process : ServerEvaluates(p)
    \/ \E p \in Process : Acquired(p)
    \/ \E p \in Process : Contended(p)
    \/ \E p \in Process : Checked(p)
    \/ \E p \in Process : QueryFails(p)
    \/ \E p \in Process : ReleaseBegins(p)
    \/ \E p \in Process : ReleaseEnds(p)
    \/ \E s \in Session : ConnectionLost(s)
    \/ \E s \in Session : BackendDies(s)
    \/ \E s \in Session : ClientNotices(s)
    \/ \E s \in Session : BackendReaped(s)
    \/ \E s \in Session : PoolIdleTimeout(s)
    \/ \E p \in Process : Boot(p)
    \/ \E p \in Process : Signal(p)
    \/ \E p \in Process, l \in Loop : StopLoop(p, l)
    \/ \E p \in Process : Exit(p)
    \/ \E p \in Process : Crash(p)

Spec == Init /\ [][Next]_vars

(***************************************************************************)
(* Fairness.  Timers fire, cycles and queries end (statements are bounded  *)
(* by statement_timeout, connects by connectionTimeoutMillis), each end of *)
(* a dead connection learns of it, and a stopping process goes on          *)
(* stopping.  Nothing makes a process start, stop or crash.  Fairness of   *)
(* Connect is strong because the finite set of session identities can run  *)
(* out for a moment, which no real database does to a connect.             *)
(***************************************************************************)
LoopsGoOn(p) ==
    \A l \in Loop : WF_vars(Tick(p, l)) /\ WF_vars(CycleEnds(p, l))

LeaseGoesOn(p) ==
    /\ WF_vars(EnsureBegins(p))
    /\ SF_vars(\E s \in Session : Connect(p, s))
    /\ WF_vars(ServerEvaluates(p))
    /\ WF_vars(Acquired(p) \/ Contended(p) \/ Checked(p) \/ QueryFails(p))
    /\ WF_vars(ReleaseBegins(p))
    /\ WF_vars(ReleaseEnds(p))

StopGoesOn(p) ==
    WF_vars(\E l \in Loop : StopLoop(p, l)) /\ WF_vars(Exit(p))

DeathIsNoticed(s) ==
    WF_vars(ClientNotices(s)) /\ WF_vars(BackendReaped(s))

FairSpec ==
    /\ Spec
    /\ \A p \in Process : LoopsGoOn(p) /\ LeaseGoesOn(p) /\ StopGoesOn(p)
    /\ \A s \in Session : DeathIsNoticed(s)

(***************************************************************************)
(* What must hold.                                                         *)
(***************************************************************************)

(* q holds each loop that waits at the gate exactly once, and no other. *)
AtTheGate(q, states) ==
    /\ \A i, j \in 1..Len(q) : q[i] = q[j] => i = j
    /\ \A i \in 1..Len(q) : states[q[i]] = "gate"
    /\ \A l \in Loop : states[l] = "gate" => \E i \in 1..Len(q) : q[i] = l

(* A loop never overlaps itself, and it is never lost: it has one question in
   the lease's queue while it waits at the gate, and none otherwise. *)
NeverOverlapsItself ==
    \A p \in Process : AtTheGate(queue[p], loop[p])

(* A cycle that is running still has the lock behind it for as long as the
   server's end of the session that admitted it is alive: no path through
   ensureHeld, release, stop or an error gives the lock away under a cycle. *)
CoveredUntilLost ==
    \A p \in Process, l \in Loop :
        loop[p][l] = "run" /\ backend[grant[p][l]] => lock = grant[p][l]

(* Cycles of two processes overlap only after one of them has lost the
   session it was admitted under: the lease is exclusive between losses. *)
OverlapNeedsLoss ==
    \A p, q \in Process, l, m \in Loop :
        /\ p # q
        /\ loop[p][l] = "run"
        /\ loop[q][m] = "run"
        => ~backend[grant[p][l]] \/ ~backend[grant[q][m]]

(* A session that is back in the pool holds no lock.  One that did would
   shut every process out, its own included, while it looks healthy. *)
PoolHoldsNoLock ==
    \A s \in Session : Pooled(home[s], s) => lock # s

(* After workers.stop has released the lease, the process has no cycle, no
   question to the lease and no lock: what drains afterwards is the backlog
   alone, and a contender can lead at once. *)
ReleasedForGood ==
    \A p \in Process : mode[p] \in {"draining", "down"} =>
        /\ client[p] = None /\ pc[p] = "idle" /\ queue[p] = << >>
        /\ \A l \in Loop : loop[p][l] = "off"
        /\ \A s \in Session : open[s] /\ home[s] = p => lock # s

(* The pipeline implements leadership terms: the lock's session is the term,
   and a cycle works under the session that admitted it. *)
Terms == INSTANCE LeaderTerms WITH
    Term <- Session, term <- lock, owner <- home, work <- grant

ImplementsTerms == Terms!Spec

(* If some process stays up, then whatever crashes, lost sessions and stops
   befall the others, cycles keep being run: a dead leader is replaced. *)
PipelineGoesOn ==
    (\E p \in Process : <>[](mode[p] = "up"))
        => []<>(\E p \in Process, l \in Loop : loop[p][l] = "run")

(* A process that was told to stop comes down: the loops it waits for, the
   queue they wait in and the unlock all end, lost sessions included.  From
   stopping the way to up leads through down, so a stop that never ends is a
   process that is from some point on neither. *)
StopCompletes ==
    \A p \in Process : []<>(mode[p] \in {"up", "down"})
=================================================================================
