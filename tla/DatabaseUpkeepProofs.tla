------------------------- MODULE DatabaseUpkeepProofs -------------------------
(* Theorems about DatabaseUpkeep, for any jobs, servers, builds and policies. *)
EXTENDS DatabaseUpkeep, FiniteSetTheorems, TLAPS

(* Who is past the lock has it, a session that is not over included, and goes
   through the versions of its build in order. *)
HolderGoesInOrder ==
    \A j \in Job :
        /\ job[j].at \in {"inspecting", "between", "open", "dead"} => lock = j
        /\ job[j].at \in {"between", "open"} =>
              job[j].n = Stored + 1 /\ job[j].n <= Build[j] + 1
        /\ job[j].at = "open" => job[j].n <= Build[j]

(* A run that prunes is of a day that has come, and is done with every policy
   it does not have left. *)
PruneGoesInOrder ==
    \A s \in Server : Pruning(s) =>
        /\ server[s].at <= today
        /\ server[s].left \subseteq PlanPrune
        /\ \A i \in PlanPrune \ server[s].left :
              \A d \in rows[Policies[i].table] : d >= Cutoff(Policies[i], server[s].at)

IInv ==
    /\ TypeOK
    /\ IsFiniteSet(ledger)
    /\ HolderGoesInOrder
    /\ OneHistory
    /\ PruneGoesInOrder

(***************************************************************************)
(* Lemmas about the ledger.                                                *)
(***************************************************************************)

LEMMA BuildsAreVersions ==
    \A x \in Job \cup Server : Build[x] \in Nat /\ Build[x] <= Len(Alters) /\ Build[x] >= 1
BY UpkeepAssumption DEF Versions

LEMMA StoredIsNat ==
    ASSUME TypeOK
    PROVE  IsFiniteSet(Applied) /\ Stored \in Nat
<1>1. Len(Alters) \in Int /\ 1 \in Int
    BY UpkeepAssumption
<1>2. IsFiniteSet(Versions)
    BY <1>1, FS_Interval DEF Versions
<1>3. Applied \in SUBSET Versions
    BY DEF TypeOK, Applied
<1> QED
    BY <1>2, <1>3, FS_Subset, FS_CardinalityType DEF Stored

(* The next version, applied by anyone, makes the history one longer. *)
LEMMA NextVersion ==
    ASSUME TypeOK, IsFiniteSet(ledger),
           Applied = 1..Stored, Cardinality(ledger) = Stored,
           NEW j \in Job, NEW n, n = Stored + 1,
           ledger' = ledger \cup {<<n, j>>}
    PROVE  /\ IsFiniteSet(ledger')
           /\ Stored' = Stored + 1 /\ Applied' = 1..Stored'
           /\ Cardinality(ledger') = Stored'
<1>1. IsFiniteSet(Applied) /\ Stored \in Nat
    BY StoredIsNat
<1>2. n \notin Applied
    BY <1>1
<1>3. Applied' = Applied \cup {n}
    <2>1. <<n, j>>[1] = n
        OBVIOUS
    <2>2. \A e \in ledger' : e \in ledger \/ e = <<n, j>>
        OBVIOUS
    <2>3. <<n, j>> \in ledger' /\ ledger \subseteq ledger'
        OBVIOUS
    <2>4. \A x : x \in Applied' <=> x \in Applied \/ x = n
        BY <2>1, <2>2, <2>3 DEF Applied
    <2> QED
        BY <2>4
<1>4. <<n, j>> \notin ledger
    BY <1>2 DEF Applied
<1>5. Stored' = Stored + 1
    BY <1>1, <1>2, <1>3, FS_AddElement DEF Stored
<1>6. IsFiniteSet(ledger') /\ Cardinality(ledger') = Stored + 1
    BY <1>4, FS_AddElement
<1>7. Applied' = 1..(Stored + 1)
    BY <1>1, <1>3
<1> QED
    BY <1>5, <1>6, <1>7

(***************************************************************************)
(* The jobs.                                                               *)
(***************************************************************************)

(* A job may go to a place that needs the lock with the lock only, and nobody
   else may lose it by that. *)
LEMMA MoveKeeps ==
    ASSUME IInv, NEW j \in Job, NEW place \in Places \ {"conflict"}, NEW n \in Nat,
           Goto(j, place, n), UNCHANGED <<ledger, dataVars>>,
           lock' \in Job \cup {Nobody},
           \A k \in Job \ {j} : lock = k => lock' = k,
           place \in {"inspecting", "between", "open", "dead"} => lock' = j,
           place \in {"between", "open"} => n = Stored + 1 /\ n <= Build[j] + 1,
           place = "open" => n <= Build[j],
           place = "done" => Build[j] <= Stored
    PROVE  IInv'
<1>1. /\ job' \in [Job -> [at : Places, n : Nat]]
      /\ job'[j].at = place /\ job'[j].n = n
      /\ \A k \in Job \ {j} : job'[k] = job[k]
    BY DEF IInv, TypeOK, Goto, At
<1>2. /\ ledger' = ledger /\ Applied' = Applied /\ Stored' = Stored
      /\ today' = today /\ rows' = rows /\ server' = server
    BY DEF dataVars, Applied, Stored
<1>3. TypeOK'
    BY <1>1, <1>2 DEF IInv, TypeOK
<1>4. HolderGoesInOrder'
    BY <1>1, <1>2 DEF IInv, HolderGoesInOrder
<1>5. OneHistory'
    BY <1>1, <1>2 DEF IInv, OneHistory
<1>6. PruneGoesInOrder'
    BY <1>2 DEF IInv, PruneGoesInOrder, Pruning
<1> QED
    BY <1>2, <1>3, <1>4, <1>5, <1>6 DEF IInv

LEMMA FinallyKeeps ==
    ASSUME IInv, NEW j \in Job, NEW outcome \in {"done", "failed"},
           Finally(j, outcome), UNCHANGED <<ledger, dataVars>>,
           outcome = "done" => Build[j] <= Stored
    PROVE  IInv'
<1>1. CASE (lock' = IF lock = j THEN Nobody ELSE lock) /\ Goto(j, outcome, 0)
    <2>1. /\ lock' \in Job \cup {Nobody}
          /\ \A k \in Job \ {j} : lock = k => lock' = k
          /\ outcome \in Places \ {"conflict"}
        BY <1>1 DEF IInv, TypeOK, Places, Ended
    <2> QED
        BY <1>1, <2>1, MoveKeeps
<1>2. CASE lock = j /\ UNCHANGED lock /\ Goto(j, "dead", 0)
    <2>1. "dead" \in Places \ {"conflict"}
        BY DEF Places, Ended
    <2> QED
        BY <1>2, <2>1, MoveKeeps
<1> QED
    BY <1>1, <1>2 DEF Finally

LEMMA StartKeeps == ASSUME NEW j \in Job PROVE IInv /\ Start(j) /\ UNCHANGED dataVars => IInv'
<1> SUFFICES ASSUME IInv, Start(j), UNCHANGED dataVars PROVE IInv'
    OBVIOUS
<1>1. "asking" \in Places \ {"conflict"} /\ lock' = lock /\ lock \in Job \cup {Nobody}
    BY DEF IInv, TypeOK, Start, Places, Ended
<1> QED
    BY <1>1, MoveKeeps DEF Start

LEMMA AskLockKeeps == ASSUME NEW j \in Job PROVE IInv /\ AskLock(j) /\ UNCHANGED dataVars => IInv'
<1> SUFFICES ASSUME IInv, AskLock(j), UNCHANGED dataVars PROVE IInv'
    OBVIOUS
<1>1. {"asking", "inspecting"} \subseteq Places \ {"conflict"} /\ job[j].n \in Nat
    BY DEF IInv, TypeOK, Places, Ended
<1>2. CASE lock = Nobody /\ lock' = j /\ Goto(j, "inspecting", 0)
    <2>1. \A k \in Job \ {j} : lock # k
        BY <1>2, UpkeepAssumption
    <2> QED
        BY <1>1, <1>2, <2>1, MoveKeeps DEF AskLock
<1>3. CASE Goto(j, "asking", job[j].n + 1) /\ UNCHANGED lock
    <2>1. job[j].n + 1 \in Nat /\ lock' \in Job \cup {Nobody}
        BY <1>1, <1>3 DEF IInv, TypeOK
    <2> QED
        BY <1>1, <1>3, <2>1, MoveKeeps DEF AskLock
<1>4. CASE Finally(j, "failed")
    BY <1>4, FinallyKeeps DEF AskLock
<1> QED
    BY <1>2, <1>3, <1>4 DEF AskLock

LEMMA InspectKeeps == ASSUME NEW j \in Job PROVE IInv /\ Inspect(j) /\ UNCHANGED dataVars => IInv'
<1> SUFFICES ASSUME IInv, Inspect(j), UNCHANGED dataVars PROVE IInv'
    OBVIOUS
<1>1. CASE Finally(j, "failed")
    BY <1>1, FinallyKeeps DEF Inspect
<1>2. CASE /\ Stored <= Build[j]
           /\ Goto(j, "between", Stored + 1) /\ UNCHANGED lock
    <2>1. Stored + 1 \in Nat /\ Build[j] \in Nat /\ "between" \in Places \ {"conflict"}
        BY StoredIsNat, BuildsAreVersions DEF IInv, Places, Ended
    <2>2. lock = j /\ lock' \in Job \cup {Nobody}
        BY <1>2 DEF IInv, TypeOK, HolderGoesInOrder, Inspect
    <2>3. Stored + 1 <= Build[j] + 1
        BY <1>2, <2>1, StoredIsNat DEF IInv
    <2> QED
        BY <1>2, <2>1, <2>2, <2>3, MoveKeeps DEF Inspect
<1> QED
    BY <1>1, <1>2, StoredIsNat, BuildsAreVersions DEF IInv, Inspect

(* No version it begins is applied already: nobody but the holder applies. *)
LEMMA BeginKeeps == ASSUME NEW j \in Job PROVE IInv /\ Begin(j) /\ UNCHANGED dataVars => IInv'
<1> SUFFICES ASSUME IInv, Begin(j), UNCHANGED dataVars PROVE IInv'
    OBVIOUS
<1>1. /\ job[j].n = Stored + 1 /\ job[j].n <= Build[j] /\ lock = j
      /\ job[j].n \in Nat /\ lock \in Job \cup {Nobody}
    BY DEF IInv, TypeOK, HolderGoesInOrder, Begin
<1>2. job[j].n \notin Applied
    BY <1>1, StoredIsNat DEF IInv, OneHistory
<1>3. Goto(j, "open", job[j].n) /\ lock' = lock
    BY <1>2 DEF Begin
<1>4. "open" \in Places \ {"conflict"}
    BY DEF Places, Ended
<1>5. job[j].n <= Build[j] + 1
    BY <1>1, BuildsAreVersions
<1> QED
    BY <1>1, <1>3, <1>4, <1>5, MoveKeeps DEF Begin

LEMMA CommitKeeps == ASSUME NEW j \in Job PROVE IInv /\ Commit(j) /\ UNCHANGED dataVars => IInv'
<1> SUFFICES ASSUME IInv, Commit(j), UNCHANGED dataVars PROVE IInv'
    OBVIOUS
<1> DEFINE n == job[j].n
<1>1. /\ n = Stored + 1 /\ n <= Build[j] /\ lock = j /\ n \in Nat
      /\ \A k \in Job \ {j} : job[k].at \notin {"inspecting", "between", "open", "dead"}
    BY DEF IInv, TypeOK, HolderGoesInOrder, Commit
<1>2. /\ IsFiniteSet(ledger')
      /\ Stored' = Stored + 1 /\ Applied' = 1..Stored'
      /\ Cardinality(ledger') = Stored'
    <2>1. ledger' = ledger \cup {<<n, j>>}
        BY DEF Commit
    <2> HIDE DEF n
    <2> QED
        BY <1>1, <2>1, NextVersion DEF IInv, OneHistory
<1>3. PICK place \in {"between", "failed", "dead"}, m \in Nat :
        /\ job' = [job EXCEPT ![j] = [at |-> place, n |-> m]]
        /\ place = "between" => m = n + 1 /\ lock' = lock
        /\ place = "dead" => lock' = lock
        /\ lock' \in {j, Nobody}
    BY <1>1 DEF Commit, Finally, Goto, At
<1>4. place \in Places /\ place \notin {"conflict", "done", "inspecting", "open"}
    BY <1>3 DEF Places, Ended, Live
<1>5. /\ job' \in [Job -> [at : Places, n : Nat]]
      /\ job'[j].at = place /\ job'[j].n = m
      /\ \A k \in Job \ {j} : job'[k] = job[k]
    BY <1>3, <1>4 DEF IInv, TypeOK
<1>6. Stored \in Nat /\ Build[j] \in Nat /\ Build[j] <= Len(Alters)
    BY StoredIsNat, BuildsAreVersions DEF IInv
<1>7. today' = today /\ rows' = rows /\ server' = server
    BY DEF dataVars
<1>8. TypeOK'
    <2>1. n \in Versions
        BY <1>1, <1>6, UpkeepAssumption DEF Versions
    <2>2. ledger' \subseteq Versions \X Job
        BY <2>1 DEF IInv, TypeOK, Commit
    <2> QED
        BY <1>3, <1>5, <1>7, <2>2 DEF IInv, TypeOK
<1>9. HolderGoesInOrder'
    <2>1. place = "between" => m = Stored' + 1 /\ m <= Build[j] + 1
        BY <1>1, <1>2, <1>3, <1>6
    <2> QED
        BY <1>1, <1>3, <1>4, <1>5, <2>1 DEF IInv, HolderGoesInOrder
<1>10. OneHistory'
    <2>1. ASSUME NEW x \in Job \cup Server, Build[x] <= Stored PROVE Build[x] <= Stored'
        BY <1>2, <1>6, <2>1, BuildsAreVersions
    <2>2. ASSUME NEW k \in Job
          PROVE  /\ job'[k].at \in {"inspecting", "between", "open"} => lock' = k
                 /\ job'[k].at # "conflict"
                 /\ job'[k].at = "done" => Build[k] <= Stored'
        <3>1. CASE k = j
            BY <1>1, <1>3, <1>4, <1>5, <3>1
        <3>2. CASE k # j
            BY <1>1, <1>5, <2>1, <3>2 DEF IInv, OneHistory
        <3> QED
            BY <3>1, <3>2
    <2>3. \A s \in Server : server'[s].up => Build[s] <= Stored'
        BY <1>7, <2>1 DEF IInv, OneHistory
    <2> QED
        BY <1>2, <2>2, <2>3 DEF OneHistory
<1>11. PruneGoesInOrder'
    BY <1>7 DEF IInv, PruneGoesInOrder, Pruning
<1> QED
    BY <1>2, <1>8, <1>9, <1>10, <1>11 DEF IInv

LEMMA FinishKeeps == ASSUME NEW j \in Job PROVE IInv /\ Finish(j) /\ UNCHANGED dataVars => IInv'
<1> SUFFICES ASSUME IInv, Finish(j), UNCHANGED dataVars PROVE IInv'
    OBVIOUS
<1>1. job[j].n = Stored + 1 /\ job[j].n > Build[j]
    BY DEF IInv, HolderGoesInOrder, Finish
<1>2. Build[j] <= Stored
    BY <1>1, StoredIsNat, BuildsAreVersions DEF IInv
<1> QED
    BY <1>2, FinallyKeeps DEF Finish

LEMMA QueryFailsKeeps ==
    ASSUME NEW j \in Job PROVE IInv /\ QueryFails(j) /\ UNCHANGED dataVars => IInv'
BY FinallyKeeps DEF QueryFails

LEMMA CrashKeeps == ASSUME NEW j \in Job PROVE IInv /\ Crash(j) /\ UNCHANGED dataVars => IInv'
<1> SUFFICES ASSUME IInv, Crash(j), UNCHANGED dataVars PROVE IInv'
    OBVIOUS
<1>1. /\ {"dead", "failed"} \subseteq Places \ {"conflict"}
      /\ job[j].n \in Nat /\ lock' = lock /\ lock \in Job \cup {Nobody}
    BY DEF IInv, TypeOK, Crash, Places, Ended
<1>2. CASE lock = j
    <2>1. PICK n \in Nat : Goto(j, "dead", n)
        BY <1>1, <1>2 DEF Crash
    <2> QED
        BY <1>1, <1>2, <2>1, MoveKeeps DEF Crash
<1>3. CASE lock # j
    BY <1>1, <1>3, MoveKeeps DEF Crash
<1> QED
    BY <1>2, <1>3

LEMMA SessionEndsKeeps ==
    ASSUME NEW j \in Job PROVE IInv /\ SessionEnds(j) /\ UNCHANGED dataVars => IInv'
<1> SUFFICES ASSUME IInv, SessionEnds(j), UNCHANGED dataVars PROVE IInv'
    OBVIOUS
<1>1. /\ "failed" \in Places \ {"conflict"} /\ lock = j
      /\ lock' \in Job \cup {Nobody}
    BY DEF IInv, HolderGoesInOrder, SessionEnds, Places, Ended
<1> QED
    BY <1>1, MoveKeeps DEF SessionEnds

LEMMA MigrateKeeps == ASSUME NEW j \in Job PROVE IInv /\ Migrate(j) => IInv'
BY StartKeeps, AskLockKeeps, InspectKeeps, BeginKeeps, CommitKeeps, FinishKeeps,
   QueryFailsKeeps, CrashKeeps, SessionEndsKeeps
DEF Migrate, GoOn

(***************************************************************************)
(* The servers.                                                            *)
(***************************************************************************)

Runner == [up : BOOLEAN, lastRun : Days \cup {Never}, at : Days \cup {Never},
           left : SUBSET (DOMAIN Policies)]

LEMMA PolicyFields ==
    \A i \in DOMAIN Policies : /\ Policies[i].table \in Table
                               /\ Policies[i].keepDays \in Nat /\ Policies[i].keepDays > 0
                               /\ Policies[i].protected \in BOOLEAN
<1> DEFINE Policy == [table : Table, keepDays : Nat \ {0}, protected : BOOLEAN]
<1>1. Policies \in Seq(Policy)
    BY UpkeepAssumption
<1>2. \A i \in DOMAIN Policies : Policies[i] \in Policy
    <2> HIDE DEF Policy
    <2> QED
        BY <1>1
<1> QED
    BY <1>2

LEMMA DaysAreInts == Days \subseteq Nat /\ Never \notin Days /\ Never \in Int
BY UpkeepAssumption DEF Days, Never

(* One server's move, which may delete rows. *)
LEMMA ServerKeeps ==
    ASSUME IInv, NEW s \in Server, UNCHANGED <<today, schemaVars>>,
           server' \in [Server -> Runner],
           \A t \in Server \ {s} : server'[t] = server[t],
           rows' \in [Table -> SUBSET Days],
           \A t \in Table : rows'[t] \subseteq rows[t],
           ~server'[s].up => server'[s] = Down,
           server'[s].up => server[s].up \/ Fits(s),
           server'[s].at # Never =>
              /\ server'[s].at <= today
              /\ server'[s].left \subseteq PlanPrune
              /\ \A i \in PlanPrune \ server'[s].left :
                    \A d \in rows'[Policies[i].table] : d >= Cutoff(Policies[i], server'[s].at)
    PROVE  IInv'
<1>1. /\ lock' = lock /\ ledger' = ledger /\ job' = job /\ today' = today
      /\ Applied' = Applied /\ Stored' = Stored
    BY DEF schemaVars, Applied, Stored
<1>2. TypeOK'
    BY <1>1 DEF IInv, TypeOK, Runner
<1>3. HolderGoesInOrder'
    BY <1>1 DEF IInv, HolderGoesInOrder
<1>4. OneHistory'
    <2>1. Fits(s) => Build[s] <= Stored
        BY BuildsAreVersions DEF Fits
    <2> QED
        BY <1>1, <2>1 DEF IInv, OneHistory
<1>5. PruneGoesInOrder'
    <2> SUFFICES ASSUME NEW t \in Server, server'[t].at # Never
                 PROVE  /\ server'[t].at <= today
                        /\ server'[t].left \subseteq PlanPrune
                        /\ \A i \in PlanPrune \ server'[t].left :
                              \A d \in rows'[Policies[i].table] :
                                 d >= Cutoff(Policies[i], server'[t].at)
        BY <1>1 DEF PruneGoesInOrder, Pruning
    <2>1. CASE t = s
        BY <2>1
    <2>2. CASE t # s
        <3>1. server'[t] = server[t]
            BY <2>2
        <3>2. \A i \in PlanPrune : rows'[Policies[i].table] \subseteq rows[Policies[i].table]
            BY PolicyFields DEF PlanPrune
        <3> QED
            BY <3>1, <3>2 DEF IInv, PruneGoesInOrder, Pruning
    <2> QED
        BY <2>1, <2>2
<1> QED
    BY <1>1, <1>2, <1>3, <1>4, <1>5 DEF IInv

LEMMA BootKeeps == ASSUME NEW s \in Server PROVE IInv /\ Boot(s) /\ UNCHANGED schemaVars => IInv'
<1> SUFFICES ASSUME IInv, Boot(s), UNCHANGED schemaVars PROVE IInv'
    OBVIOUS
<1>1. server[s] = Down /\ Down \in Runner
    BY DaysAreInts DEF IInv, TypeOK, Boot, Down, Runner
<1>2. /\ server' \in [Server -> Runner]
      /\ \A t \in Server \ {s} : server'[t] = server[t]
      /\ server'[s] = [Down EXCEPT !.up = TRUE]
    BY <1>1 DEF IInv, TypeOK, Boot, Runner
<1>3. server'[s].up /\ server'[s].at = Never
    BY <1>2 DEF Down
<1> QED
    BY <1>2, <1>3, ServerKeeps DEF IInv, TypeOK, Boot

LEMMA StopKeeps == ASSUME NEW s \in Server PROVE IInv /\ Stop(s) /\ UNCHANGED schemaVars => IInv'
<1> SUFFICES ASSUME IInv, Stop(s), UNCHANGED schemaVars PROVE IInv'
    OBVIOUS
<1>1. Down \in Runner /\ Down.at = Never /\ Down.up = FALSE
    BY DaysAreInts DEF Down, Runner
<1>2. /\ server' \in [Server -> Runner]
      /\ \A t \in Server \ {s} : server'[t] = server[t]
      /\ server'[s] = Down
    BY <1>1 DEF IInv, TypeOK, Stop, Runner
<1> QED
    BY <1>1, <1>2, ServerKeeps DEF IInv, TypeOK, Stop

(* What is common to the steps of a run: the server stays up. *)
LEMMA RunnerFields ==
    ASSUME IInv, NEW s \in Server
    PROVE  /\ server \in [Server -> Runner] /\ server[s] \in Runner
           /\ Pruning(s) => server[s].up /\ server[s].at \in Days
BY DaysAreInts DEF IInv, TypeOK, Runner, Pruning, Down

LEMMA BeginPruneKeeps ==
    ASSUME NEW s \in Server PROVE IInv /\ BeginPrune(s) /\ UNCHANGED schemaVars => IInv'
<1> SUFFICES ASSUME IInv, BeginPrune(s), UNCHANGED schemaVars PROVE IInv'
    OBVIOUS
<1>1. /\ server[s] \in Runner /\ server \in [Server -> Runner] /\ server[s].up
      /\ PlanPrune \subseteq DOMAIN Policies /\ today \in Days
    BY RunnerFields DEF IInv, TypeOK, BeginPrune, PlanPrune
<1>2. /\ server' \in [Server -> Runner]
      /\ \A t \in Server \ {s} : server'[t] = server[t]
      /\ server'[s].up = server[s].up
      /\ server'[s].at = today /\ server'[s].left = PlanPrune
    BY <1>1 DEF BeginPrune, Runner
<1>3. today <= today
    BY <1>1, DaysAreInts
<1> QED
    BY <1>1, <1>2, <1>3, ServerKeeps DEF IInv, TypeOK, BeginPrune

(* A run ends, whatever for. *)
LEMMA RunEnds ==
    ASSUME IInv, NEW s \in Server, Pruning(s),
           NEW last \in Days \cup {Never},
           server' = [server EXCEPT ![s].lastRun = last, ![s].at = Never, ![s].left = {}]
    PROVE  /\ server' \in [Server -> Runner]
           /\ \A t \in Server \ {s} : server'[t] = server[t]
           /\ server'[s].up /\ server'[s].at = Never /\ server'[s].lastRun = last
<1>1. server[s] \in Runner /\ server \in [Server -> Runner] /\ server[s].up
    BY RunnerFields
<1> QED
    BY <1>1 DEF Runner

(* A failed run keeps the day of the run before it. *)
LEMMA FailedRunEnds ==
    ASSUME IInv, NEW s \in Server,
           server' = [server EXCEPT ![s].at = Never, ![s].left = {}]
    PROVE  server' = [server EXCEPT ![s].lastRun = server[s].lastRun,
                                    ![s].at = Never, ![s].left = {}]
<1>1. server[s] \in Runner /\ server \in [Server -> Runner]
    BY RunnerFields
<1> QED
    BY <1>1 DEF Runner

LEMMA PruneFailsKeeps ==
    ASSUME NEW s \in Server PROVE IInv /\ PruneFails(s) /\ UNCHANGED schemaVars => IInv'
<1> SUFFICES ASSUME IInv, PruneFails(s), UNCHANGED schemaVars PROVE IInv'
    OBVIOUS
<1>1. server[s].lastRun \in Days \cup {Never} /\ server[s].up
    BY RunnerFields DEF Runner, PruneFails
<1>2. /\ server' \in [Server -> Runner]
      /\ \A t \in Server \ {s} : server'[t] = server[t]
      /\ server'[s].up /\ server'[s].at = Never
    BY <1>1, RunEnds, FailedRunEnds DEF PruneFails
<1> QED
    BY <1>1, <1>2, ServerKeeps DEF IInv, TypeOK, PruneFails

LEMMA EndPruneKeeps ==
    ASSUME NEW s \in Server PROVE IInv /\ EndPrune(s) /\ UNCHANGED schemaVars => IInv'
<1> SUFFICES ASSUME IInv, EndPrune(s), UNCHANGED schemaVars PROVE IInv'
    OBVIOUS
<1>1. /\ server[s] \in Runner /\ server \in [Server -> Runner]
      /\ server[s].up /\ server[s].at \in Days
    BY RunnerFields DEF EndPrune
<1>2. /\ server' \in [Server -> Runner]
      /\ \A t \in Server \ {s} : server'[t] = server[t]
      /\ server'[s].up /\ server'[s].at = Never
    BY <1>1 DEF EndPrune, Runner
<1> QED
    BY <1>1, <1>2, ServerKeeps DEF IInv, TypeOK, EndPrune

(* A statement of a run deletes from one table, by the policy it is at. *)
LEMMA Deletes ==
    ASSUME IInv, NEW s \in Server, DeleteOld(s)
    PROVE  \E i \in server[s].left :
              /\ i \in PlanPrune /\ i \in DOMAIN Policies
              /\ rows' \in [Table -> SUBSET Days]
              /\ \A t \in Table \ {Policies[i].table} : rows'[t] = rows[t]
              /\ rows'[Policies[i].table] =
                    {d \in rows[Policies[i].table] : d >= Cutoff(Policies[i], server[s].at)}
              /\ \/ server' = [server EXCEPT ![s].left = @ \ {i}]
                 \/ server' = [server EXCEPT ![s].at = Never, ![s].left = {}]
<1>1. PICK i \in server[s].left :
        /\ rows' = [rows EXCEPT ![Policies[i].table] =
                        {d \in @ : d >= Cutoff(Policies[i], server[s].at)}]
        /\ \/ server' = [server EXCEPT ![s].left = @ \ {i}]
           \/ server' = [server EXCEPT ![s].at = Never, ![s].left = {}]
    BY DEF DeleteOld
<1>2. i \in PlanPrune
    BY <1>1 DEF IInv, PruneGoesInOrder, DeleteOld
<1>3. i \in DOMAIN Policies /\ Policies[i].table \in Table /\ rows \in [Table -> SUBSET Days]
    BY <1>2, PolicyFields DEF PlanPrune, IInv, TypeOK
<1>4. /\ rows' \in [Table -> SUBSET Days]
      /\ \A t \in Table \ {Policies[i].table} : rows'[t] = rows[t]
      /\ rows'[Policies[i].table] =
            {d \in rows[Policies[i].table] : d >= Cutoff(Policies[i], server[s].at)}
    BY <1>1, <1>3
<1> QED
    BY <1>1, <1>2, <1>3, <1>4

LEMMA DeleteOldKeeps ==
    ASSUME NEW s \in Server PROVE IInv /\ DeleteOld(s) /\ UNCHANGED schemaVars => IInv'
<1> SUFFICES ASSUME IInv, DeleteOld(s), UNCHANGED schemaVars PROVE IInv'
    OBVIOUS
<1>1. PICK i \in server[s].left :
        /\ i \in PlanPrune /\ i \in DOMAIN Policies
        /\ rows' \in [Table -> SUBSET Days]
        /\ \A t \in Table \ {Policies[i].table} : rows'[t] = rows[t]
        /\ rows'[Policies[i].table] =
              {d \in rows[Policies[i].table] : d >= Cutoff(Policies[i], server[s].at)}
        /\ \/ server' = [server EXCEPT ![s].left = @ \ {i}]
           \/ server' = [server EXCEPT ![s].at = Never, ![s].left = {}]
    BY Deletes
<1>2. /\ server[s] \in Runner /\ server \in [Server -> Runner]
      /\ server[s].up /\ server[s].at \in Days /\ today' = today
      /\ server[s].at <= today /\ server[s].left \subseteq PlanPrune
    BY RunnerFields DEF IInv, PruneGoesInOrder, DeleteOld
<1>3. \A t \in Table : rows'[t] \subseteq rows[t]
    BY <1>1
<1>4. CASE server' = [server EXCEPT ![s].left = @ \ {i}]
    <2>1. /\ server' \in [Server -> Runner]
          /\ \A t \in Server \ {s} : server'[t] = server[t]
          /\ server'[s].up = server[s].up
          /\ server'[s].at = server[s].at /\ server'[s].left = server[s].left \ {i}
        BY <1>2, <1>4 DEF Runner
    <2>2. ASSUME NEW k \in PlanPrune \ server'[s].left
          PROVE  \A d \in rows'[Policies[k].table] : d >= Cutoff(Policies[k], server'[s].at)
        <3>1. CASE k = i
            BY <1>1, <2>1, <3>1
        <3>2. CASE k # i
            <4>1. k \in PlanPrune \ server[s].left /\ Policies[k].table \in Table
                BY <2>1, <2>2, <3>2, PolicyFields DEF PlanPrune
            <4> QED
                BY <1>3, <2>1, <4>1 DEF IInv, PruneGoesInOrder, DeleteOld
        <3> QED
            BY <3>1, <3>2
    <2>3. /\ server'[s].left \subseteq PlanPrune /\ server'[s].at <= today /\ server'[s].up
        BY <1>2, <2>1
    <2> QED
        BY <1>1, <1>2, <1>3, <2>1, <2>2, <2>3, ServerKeeps
<1>5. CASE server' = [server EXCEPT ![s].at = Never, ![s].left = {}]
    <2>1. server[s].lastRun \in Days \cup {Never}
        BY <1>2 DEF Runner
    <2>2. /\ server' \in [Server -> Runner]
          /\ \A t \in Server \ {s} : server'[t] = server[t]
          /\ server'[s].up /\ server'[s].at = Never
        BY <1>5, <2>1, RunEnds, FailedRunEnds DEF DeleteOld
    <2> QED
        BY <1>1, <1>2, <1>3, <2>2, ServerKeeps
<1> QED
    BY <1>1, <1>4, <1>5

LEMMA NextDayKeeps == IInv /\ NextDay /\ UNCHANGED schemaVars => IInv'
<1> SUFFICES ASSUME IInv, NextDay, UNCHANGED schemaVars PROVE IInv'
    OBVIOUS
<1>1. /\ lock' = lock /\ ledger' = ledger /\ job' = job /\ server' = server
      /\ Applied' = Applied /\ Stored' = Stored
    BY DEF schemaVars, Applied, Stored, NextDay
<1>2. /\ today \in Nat /\ today' = today + 1 /\ today' \in Days
      /\ rows' \in [Table -> SUBSET Days]
      /\ \A t \in Table : rows'[t] = rows[t] \cup {today'}
    BY UpkeepAssumption DEF IInv, TypeOK, NextDay, Days
<1>3. TypeOK'
    BY <1>1, <1>2 DEF IInv, TypeOK
<1>4. HolderGoesInOrder' /\ OneHistory'
    BY <1>1 DEF IInv, HolderGoesInOrder, OneHistory
<1>5. PruneGoesInOrder'
    <2> SUFFICES ASSUME NEW s \in Server, Pruning(s)
                 PROVE  /\ server[s].at <= today'
                        /\ server[s].left \subseteq PlanPrune
                        /\ \A i \in PlanPrune \ server[s].left :
                              \A d \in rows'[Policies[i].table] :
                                 d >= Cutoff(Policies[i], server[s].at)
        BY <1>1 DEF PruneGoesInOrder, Pruning
    <2>1. /\ server[s].at \in Nat /\ server[s].at <= today
          /\ server[s].left \subseteq PlanPrune
        BY RunnerFields, DaysAreInts DEF IInv, PruneGoesInOrder
    <2>2. ASSUME NEW i \in PlanPrune \ server[s].left, NEW d \in rows'[Policies[i].table]
          PROVE  d >= Cutoff(Policies[i], server[s].at)
        <3>1. Policies[i].table \in Table /\ Policies[i].keepDays \in Nat
            BY PolicyFields DEF PlanPrune
        <3>2. CASE d \in rows[Policies[i].table]
            BY <3>2 DEF IInv, PruneGoesInOrder
        <3>3. CASE d = today'
            BY <1>2, <2>1, <3>1, <3>3 DEF Cutoff
        <3> QED
            BY <1>2, <3>1, <3>2, <3>3
    <2> QED
        BY <1>2, <2>1, <2>2
<1> QED
    BY <1>1, <1>3, <1>4, <1>5 DEF IInv

(***************************************************************************)
(* The theorems.                                                           *)
(***************************************************************************)

LEMMA InitIInv == Init => IInv
<1> SUFFICES ASSUME Init PROVE IInv
    OBVIOUS
<1>1. Applied = {} /\ IsFiniteSet(ledger) /\ Cardinality(ledger) = 0 /\ Stored = 0
    BY FS_EmptySet DEF Init, Applied, Stored
<1>2. TypeOK
    BY UpkeepAssumption, DaysAreInts DEF Init, TypeOK, At, Places, Down, Days
<1>3. HolderGoesInOrder /\ PruneGoesInOrder
    BY DEF Init, HolderGoesInOrder, PruneGoesInOrder, Pruning, At, Down
<1>4. OneHistory
    BY <1>1 DEF Init, OneHistory, At, Down
<1> QED
    BY <1>1, <1>2, <1>3, <1>4 DEF IInv

LEMMA NextIInv == IInv /\ [Next]_vars => IInv'
<1> SUFFICES ASSUME IInv, [Next]_vars PROVE IInv'
    OBVIOUS
<1>1. CASE UNCHANGED vars
    BY <1>1 DEF vars, schemaVars, dataVars, IInv, TypeOK, HolderGoesInOrder, OneHistory,
        PruneGoesInOrder, Pruning, Applied, Stored
<1>2. ASSUME NEW j \in Job, Migrate(j) PROVE IInv'
    BY <1>2, MigrateKeeps
<1>3. ASSUME NEW s \in Server, Serve(s), UNCHANGED schemaVars PROVE IInv'
    BY <1>3, BootKeeps, StopKeeps, BeginPruneKeeps, DeleteOldKeeps, PruneFailsKeeps,
       EndPruneKeeps
    DEF Serve
<1> QED
    BY <1>1, <1>2, <1>3, NextDayKeeps DEF Next

(* However the jobs, the servers and their failures interleave: the conjuncts
   above hold together. *)
THEOREM InductiveInvariant == Spec => []IInv
<1>1. Init => IInv
    BY InitIInv
<1>2. IInv /\ [Next]_vars => IInv'
    BY NextIInv
<1> QED
    BY <1>1, <1>2, PTL DEF Spec

(* A server that is down has no retention run and no memory of one. *)
THEOREM TypeCorrect == Spec => []TypeOK
<1>1. IInv => TypeOK
    BY DEF IInv
<1> QED
    BY <1>1, InductiveInvariant, PTL

(* The schema has one history: each version is applied once and in order, one
   job at a time is at work, and a server that runs finds what it needs. *)
THEOREM SchemaHasOneHistory == Spec => []OneHistory
<1>1. IInv => OneHistory
    BY DEF IInv
<1> QED
    BY <1>1, InductiveInvariant, PTL

(* No step deletes what a policy keeps, and a run that marks the day has been
   through every table it may prune. *)
THEOREM PolicyIsKept == Spec => RetentionKeepsItsPolicy
<1> DEFINE Deleting == \A i \in DOMAIN Policies : LET p == Policies[i] IN
                          \A d \in rows[p.table] \ rows'[p.table] :
                             ~p.protected /\ d < Cutoff(p, today)
           Marking == \A s \in Server :
                         server'[s].lastRun \notin {Never, server[s].lastRun} =>
                            \A i \in DOMAIN Policies : LET p == Policies[i] IN
                               ~p.protected =>
                                  \A d \in rows'[p.table] : d >= Cutoff(p, server'[s].lastRun)
<1>1. IInv /\ [Next]_vars => Deleting
    <2> SUFFICES ASSUME IInv, [Next]_vars, NEW i \in DOMAIN Policies,
                        NEW d \in rows[Policies[i].table], d \notin rows'[Policies[i].table]
                 PROVE  ~Policies[i].protected /\ d < Cutoff(Policies[i], today)
        OBVIOUS
    <2>1. /\ Policies[i].table \in Table /\ Policies[i].keepDays \in Nat
          /\ d \in Nat /\ today \in Nat
        BY PolicyFields, DaysAreInts DEF IInv, TypeOK
    <2>2. \E s \in Server : DeleteOld(s)
        BY <2>1 DEF Next, vars, dataVars, Migrate, Serve, Boot, Stop, BeginPrune, PruneFails,
            EndPrune, NextDay
    <2>3. PICK s \in Server : DeleteOld(s)
        BY <2>2
    <2>4. PICK k \in PlanPrune :
            /\ k \in DOMAIN Policies
            /\ \A t \in Table \ {Policies[k].table} : rows'[t] = rows[t]
            /\ rows'[Policies[k].table] =
                  {e \in rows[Policies[k].table] : e >= Cutoff(Policies[k], server[s].at)}
        BY <2>3, Deletes
    <2>5. k = i
        BY <2>1, <2>4, UpkeepAssumption
    <2>6. server[s].at \in Nat /\ server[s].at <= today
        BY <2>3, RunnerFields, DaysAreInts DEF IInv, PruneGoesInOrder, DeleteOld
    <2>7. ~(d >= server[s].at - Policies[i].keepDays)
        BY <2>4, <2>5 DEF Cutoff
    <2> QED
        BY <2>1, <2>4, <2>5, <2>6, <2>7 DEF PlanPrune, Cutoff
<1>2. IInv /\ [Next]_vars => Marking
    <2> SUFFICES ASSUME IInv, [Next]_vars, NEW s \in Server,
                        server'[s].lastRun # Never, server'[s].lastRun # server[s].lastRun,
                        NEW i \in DOMAIN Policies, ~Policies[i].protected,
                        NEW d \in rows'[Policies[i].table]
                 PROVE  d >= Cutoff(Policies[i], server'[s].lastRun)
        OBVIOUS
    <2>1. server \in [Server -> Runner] /\ \A t \in Server : server[t] \in Runner
        BY RunnerFields DEF IInv, TypeOK, Runner
    <2>2. ASSUME NEW t \in Server, Boot(t) \/ Stop(t) \/ BeginPrune(t) \/ PruneFails(t)
          PROVE  FALSE
        BY <2>1, <2>2 DEF Boot, Stop, BeginPrune, PruneFails, Down, Runner
    <2>3. ASSUME NEW t \in Server, DeleteOld(t) PROVE FALSE
        <3>1. \/ \E x : server' = [server EXCEPT ![t].left = x]
              \/ server' = [server EXCEPT ![t].at = Never, ![t].left = {}]
            BY <2>3, Deletes
        <3> QED
            BY <2>1, <3>1 DEF Runner
    <2>4. \E t \in Server : EndPrune(t)
        BY <2>2, <2>3 DEF Next, vars, dataVars, Migrate, Serve, NextDay
    <2>5. PICK t \in Server : EndPrune(t)
        BY <2>4
    <2>6. s = t /\ server'[s].lastRun = server[s].at /\ rows' = rows
        BY <2>1, <2>5 DEF EndPrune, Runner
    <2>7. i \in PlanPrune \ server[s].left /\ Pruning(s)
        BY <2>5, <2>6 DEF EndPrune, PlanPrune
    <2> QED
        BY <2>6, <2>7 DEF IInv, PruneGoesInOrder
<1>3. [Next]_vars /\ IInv => [Deleting /\ Marking]_vars
    <2> HIDE DEF Deleting, Marking
    <2> QED
        BY <1>1, <1>2
<1> QED
    BY <1>3, InductiveInvariant, PTL DEF Spec, RetentionKeepsItsPolicy

===============================================================================
