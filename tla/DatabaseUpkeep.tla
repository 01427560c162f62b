---------------------------- MODULE DatabaseUpkeep ----------------------------
(***************************************************************************)
(* The two things that change the tables apart from the pipeline: the      *)
(* db:migrate jobs of a deployment (db/migrations.ts), which bring the     *)
(* schema to the version of their build under an advisory lock, and the    *)
(* daily retention of the running servers (services/retention.runner.ts    *)
(* over db/retention.store.ts).  They meet at two places.  A server starts *)
(* only on the schema of its own build (bootstrap/database.ts), and goes   *)
(* on when a later build migrates under it; and a migration holds the      *)
(* tables it alters until it commits, or until the database has noticed    *)
(* that its job died, while every statement gives up after lock_timeout.   *)
(***************************************************************************)
EXTENDS Integers, FiniteSets, Sequences

CONSTANTS
    Job,            \* runs of db:migrate, each may be repeated
    Server,
    Build,          \* Build[x]: LATEST_SCHEMA_VERSION of the image x runs
    Alters,         \* Alters[v]: the tables migration v touches
    Patience,       \* MIGRATION_LOCK_WAIT_MS, in tries
    Policies,       \* listPolicies, in its order: what is kept, for how many days
    LastDay,        \* bound of the clock
    Nobody

Table == {Policies[i].table : i \in DOMAIN Policies}
Versions == 1..Len(Alters)
Days == 0..LastDay

ASSUME UpkeepAssumption ==
    /\ Patience \in Nat /\ LastDay \in Nat
    /\ Nobody \notin Job
    /\ Alters \in Seq(SUBSET Table)
    /\ Build \in [Job \cup Server -> Versions]
    /\ Policies \in Seq([table : Table, keepDays : Nat \ {0}, protected : BOOLEAN])
    /\ \A i, k \in DOMAIN Policies : Policies[i].table = Policies[k].table => i = k

VARIABLES
    lock,       \* whose session holds the migration lock, or Nobody
    ledger,     \* schema_migrations: <<version, the job that applied it>>
    job,        \* job[j]: where applyMigrations is
    today,
    rows,       \* rows[t]: the days of t's rows
    server      \* server[s]: Down, or its retention runner

schemaVars == <<lock, ledger, job>>
dataVars == <<today, rows, server>>
vars == <<schemaVars, dataVars>>

Applied == {e[1] : e \in ledger}

(* readStoredVersion *)
Stored == Cardinality(Applied)

(* What a job has come to.  `next` is the migration it is at. *)
At(place, n) == [at |-> place, n |-> n]
Ended == {"done", "failed", "conflict"}
Places == Ended \cup {"new", "asking", "inspecting", "between", "open", "dead"}
Live == Places \ (Ended \cup {"new", "dead"})

Never == -1
Down == [up |-> FALSE, lastRun |-> Never, at |-> Never, left |-> {}]

(* prune waits for the database with the policies `left` to apply, for the run
   of day `at`. *)
Pruning(s) == server[s].at # Never

TypeOK ==
    /\ lock \in Job \cup {Nobody}
    /\ ledger \subseteq Versions \X Job
    /\ job \in [Job -> [at : Places, n : Nat]]
    /\ today \in Days
    /\ rows \in [Table -> SUBSET Days]
    /\ server \in [Server -> [up : BOOLEAN, lastRun : Days \cup {Never},
                             at : Days \cup {Never}, left : SUBSET (DOMAIN Policies)]]
    /\ \A s \in Server : ~server[s].up => server[s] = Down

Init ==
    /\ lock = Nobody /\ ledger = {}
    /\ job = [j \in Job |-> At("new", 0)]
    /\ today = 0
    /\ rows = [t \in Table |-> {0}]
    /\ server = [s \in Server |-> Down]
-------------------------------------------------------------------------------
(***************************************************************************)
(* applyMigrations.  Whatever throws goes through `finally`: unlock, which *)
(* does nothing in a session that has no lock, and release.  An unlock may *)
(* get no answer; the session ends with the process, as a dead one does.   *)
(***************************************************************************)
Goto(j, place, n) == job' = [job EXCEPT ![j] = At(place, n)]

Finally(j, outcome) ==
    \/ /\ lock' = IF lock = j THEN Nobody ELSE lock
       /\ Goto(j, outcome, 0)
    \/ /\ lock = j /\ UNCHANGED lock
       /\ Goto(j, "dead", 0)

Start(j) ==
    /\ job[j].at \in {"new"} \cup Ended
    /\ Goto(j, "asking", 0)
    /\ UNCHANGED <<lock, ledger>>

(* Mutation: no deadline. *)
AskLockForever(j) ==
    /\ job[j].at = "asking"
    /\ UNCHANGED ledger
    /\ \/ lock = Nobody /\ lock' = j /\ Goto(j, "inspecting", 0)
       \/ lock # Nobody /\ UNCHANGED lock /\ Goto(j, "asking", 0)

(* Mutation: the version is read whoever has the lock. *)
AskLockAndGoOn(j) ==
    /\ job[j].at = "asking"
    /\ UNCHANGED ledger
    /\ lock' = IF lock = Nobody THEN j ELSE lock
    /\ Goto(j, "inspecting", 0)

(* acquireMigrationLock: pg_try_advisory_lock does not wait. *)
AskLock(j) ==
    /\ job[j].at = "asking"
    /\ UNCHANGED ledger
    /\ \/ lock = Nobody /\ lock' = j /\ Goto(j, "inspecting", 0)
       \/ /\ lock # Nobody /\ job[j].n < Patience
          /\ Goto(j, "asking", job[j].n + 1) /\ UNCHANGED lock
       \/ lock # Nobody /\ job[j].n = Patience /\ Finally(j, "failed")

(* assertContiguous, readStoredVersion, and the refusal of a newer schema. *)
Inspect(j) ==
    /\ job[j].at = "inspecting"
    /\ UNCHANGED ledger
    /\ IF Applied # 1..Stored \/ Stored > Build[j]
       THEN Finally(j, "failed")
       ELSE Goto(j, "between", Stored + 1) /\ UNCHANGED lock

(* The tables a migration that has not committed keeps to itself. *)
HeldBy(j) == IF job[j].at \in {"open", "dead"} /\ job[j].n # 0
             THEN Alters[job[j].n] ELSE {}
Held == UNION {HeldBy(j) : j \in Job}

(* BEGIN, the migration's SQL and its row in the ledger.  The row is refused
   when another job has applied the version. *)
Begin(j) ==
    /\ job[j].at = "between" /\ job[j].n <= Build[j]
    /\ UNCHANGED ledger
    /\ IF job[j].n \in Applied
       THEN Finally(j, "conflict")
       ELSE /\ Alters[job[j].n] \cap Held = {}
            /\ Goto(j, "open", job[j].n) /\ UNCHANGED lock

Commit(j) ==
    /\ job[j].at = "open"
    /\ ledger' = ledger \cup {<<job[j].n, j>>}
    /\ \/ Goto(j, "between", job[j].n + 1) /\ UNCHANGED lock
       \/ Finally(j, "failed")      \* committed, and the answer was lost

Finish(j) ==
    /\ job[j].at = "between" /\ job[j].n > Build[j]
    /\ UNCHANGED ledger
    /\ Finally(j, "done")

(* A query is refused or times out; an open transaction is rolled back. *)
QueryFails(j) ==
    /\ job[j].at \in Live
    /\ UNCHANGED ledger
    /\ Finally(j, "failed")

Crash(j) ==
    /\ job[j].at \in Live
    /\ IF lock = j THEN Goto(j, "dead", IF job[j].at = "open" THEN job[j].n ELSE 0)
                   ELSE Goto(j, "failed", 0)
    /\ UNCHANGED <<lock, ledger>>

(* The database ends the session of a dead job: rollback and unlock. *)
SessionEnds(j) ==
    /\ job[j].at = "dead"
    /\ lock' = Nobody /\ Goto(j, "failed", 0)
    /\ UNCHANGED ledger

GoOn(j) == AskLock(j) \/ Inspect(j) \/ Begin(j) \/ Commit(j) \/ Finish(j)
Migrate(j) == /\ Start(j) \/ GoOn(j) \/ QueryFails(j) \/ Crash(j) \/ SessionEnds(j)
              /\ UNCHANGED dataVars
-------------------------------------------------------------------------------
(* assertSignalHistorySchemaReady *)
Fits(s) == Stored = Build[s]

Boot(s) ==
    /\ ~server[s].up /\ Fits(s)
    /\ server' = [server EXCEPT ![s].up = TRUE]
    /\ UNCHANGED <<today, rows>>

(* Mutation: the day of the last run outlives the process. *)
StopAndRemember(s) ==
    /\ server[s].up
    /\ server' = [server EXCEPT ![s] = [Down EXCEPT !.lastRun = server[s].lastRun]]
    /\ UNCHANGED <<today, rows>>

(* The process ends; when it ran last was in its memory only. *)
Stop(s) ==
    /\ server[s].up
    /\ server' = [server EXCEPT ![s] = Down]
    /\ UNCHANGED <<today, rows>>

Cutoff(policy, at) == at - policy.keepDays

(* planPrune: what there is to apply, in the order of the policies. *)
PlanPrune == {i \in DOMAIN Policies : ~Policies[i].protected}

(* maybeRun, up to the first statement of prune. *)
Due(s) == server[s].lastRun = Never \/ today - server[s].lastRun >= 1

BeginPrune(s) ==
    /\ server[s].up /\ ~Pruning(s) /\ Due(s)
    /\ server' = [server EXCEPT ![s].at = today, ![s].left = PlanPrune]
    /\ UNCHANGED <<today, rows>>

(* DELETE, and the row of retention_run that says so, which may be refused
   when the deletion was not. *)
DeleteOld(s) ==
    /\ Pruning(s)
    /\ \E i \in server[s].left :
          /\ \A k \in server[s].left : i <= k
          /\ Policies[i].table \notin Held
          /\ rows' = [rows EXCEPT ![Policies[i].table] =
                        {d \in @ : d >= Cutoff(Policies[i], server[s].at)}]
          /\ \/ server' = [server EXCEPT ![s].left = @ \ {i}]
             \/ server' = [server EXCEPT ![s].at = Never, ![s].left = {}]
    /\ UNCHANGED today

(* Mutation: the day is marked whatever came of it. *)
PruneFailsAndMarks(s) ==
    /\ Pruning(s)
    /\ server' = [server EXCEPT ![s].lastRun = server[s].at, ![s].at = Never, ![s].left = {}]
    /\ UNCHANGED <<today, rows>>

(* A statement waits for a migration, or for anything, longer than it may. *)
PruneFails(s) ==
    /\ Pruning(s)
    /\ server' = [server EXCEPT ![s].at = Never, ![s].left = {}]
    /\ UNCHANGED <<today, rows>>

EndPrune(s) ==
    /\ Pruning(s) /\ server[s].left = {}
    /\ server' = [server EXCEPT ![s].lastRun = server[s].at, ![s].at = Never]
    /\ UNCHANGED <<today, rows>>

(* A day passes, and every table has rows of it. *)
NextDay ==
    /\ today < LastDay
    /\ today' = today + 1
    /\ rows' = [t \in Table |-> rows[t] \cup {today + 1}]
    /\ UNCHANGED server

Serve(s) ==
    Boot(s) \/ Stop(s) \/ BeginPrune(s) \/ DeleteOld(s) \/ PruneFails(s) \/ EndPrune(s)

Next ==
    \/ \E j \in Job : Migrate(j)
    \/ (\E s \in Server : Serve(s)) /\ UNCHANGED schemaVars
    \/ NextDay /\ UNCHANGED schemaVars

Spec == Init /\ [][Next]_vars

(* A query of a job gets an answer, unless it is refused first.  Nothing is
   assumed of dead sessions, which the database may never notice. *)
Fairness == \A j \in Job : WF_vars(GoOn(j) /\ UNCHANGED dataVars)

FairSpec == Spec /\ Fairness
-------------------------------------------------------------------------------
(* However many jobs of whatever builds overlap, die or are repeated, the
   schema has one history: the versions are the first ones and each was
   applied once, one job at a time is at work on it, none finds its migration
   applied by another, one that reports success left nothing of its build out,
   and no server runs on a schema older than its build. *)
OneHistory ==
    /\ Applied = 1..Stored /\ Cardinality(ledger) = Stored
    /\ \A j \in Job :
          /\ job[j].at \in {"inspecting", "between", "open"} => lock = j
          /\ job[j].at # "conflict"
          /\ job[j].at = "done" => Build[j] <= Stored
    /\ \A s \in Server : server[s].up => Build[s] <= Stored

(* Retention deletes nothing that is protected or younger than its policy,
   whichever day its run began; and a run that counts as the day's has left
   no older row in any table it may prune, whatever failed before it. *)
RetentionKeepsItsPolicy ==
    [][/\ \A i \in DOMAIN Policies : LET p == Policies[i] IN
             \A d \in rows[p.table] \ rows'[p.table] :
                ~p.protected /\ d < Cutoff(p, today)
       /\ \A s \in Server : server'[s].lastRun \notin {Never, server[s].lastRun} =>
             \A i \in DOMAIN Policies : LET p == Policies[i] IN
                ~p.protected =>
                   \A d \in rows'[p.table] : d >= Cutoff(p, server'[s].lastRun)]_vars

(* A job of a deployment ends, also when the holder of the lock has died and
   the database does not notice. *)
RunnersEnd == \A j \in Job : job[j].at \in Live ~> job[j].at \notin Live
===============================================================================
