-------------------------- MODULE MarketPipelineProofs --------------------------
(***************************************************************************)
(* Proofs about MarketPipeline, for any processes, loops, sessions and     *)
(* bound on faults.                                                        *)
(***************************************************************************)
EXTENDS MarketPipeline, TLAPS

(* A session that a process works on, has parked, or runs a cycle under is
   one it opened itself; a parked session is open on the client's side. *)
Ownership ==
    \A p \in Process :
        /\ cur[p] # None => home[cur[p]] = p
        /\ client[p] # None => home[client[p]] = p /\ open[client[p]]
        /\ \A l \in Loop : grant[p][l] # None => home[grant[p][l]] = p

(* While a job of the lease runs, the parked session is the one it checks;
   no answer is left over from an earlier query. *)
Parking ==
    \A p \in Process :
        /\ pc[p] \in {"connect", "try", "unlock"} => client[p] = None
        /\ pc[p] = "check" => client[p] = cur[p] \/ (client[p] = None /\ ~open[cur[p]])
        /\ pc[p] \in {"idle", "connect"} => reply[p] = "none"

(* What the lock says of the sessions the processes use. *)
Locking ==
    /\ lock # None => backend[lock]
    /\ \A p \in Process :
        /\ client[p] # None /\ backend[client[p]] => lock = client[p]
        /\ pc[p] \in {"try", "check"} /\ reply[p] = "yes" /\ backend[cur[p]]
                => lock = cur[p]
        /\ pc[p] \in {"try", "check"} /\ reply[p] = "no" => lock # cur[p]
        /\ pc[p] = "unlock" /\ reply[p] # "none" => lock # cur[p]

(* How far the stopping of a process has come. *)
Stopping ==
    \A p \in Process :
        /\ pc[p] = "unlock" <=> mode[p] = "releasing"
        /\ mode[p] \in {"releasing", "draining", "down"} =>
                client[p] = None /\ \A l \in Loop : loop[p][l] = "off"
        /\ mode[p] \in {"draining", "down"} => pc[p] = "idle"
        /\ pc[p] \in {"connect", "try", "check"} => queue[p] # << >>

IInv ==
    /\ TypeOK
    /\ NeverOverlapsItself
    /\ Ownership
    /\ Parking
    /\ Locking
    /\ Stopping
    /\ CoveredUntilLost
    /\ PoolHoldsNoLock

(***************************************************************************)
(* The queue of the lease: what a question joining or leaving it keeps.    *)
(***************************************************************************)

(* The head of a non-empty queue is a loop, and the tail is the rest. *)
LEMMA QueueHead ==
  ASSUME TypeOK, NEW p \in Process, queue[p] # << >>
  PROVE  /\ Head(queue[p]) \in Loop
         /\ Tail(queue[p]) \in Seq(Loop)
         /\ Head(queue[p]) = queue[p][1]
         /\ 1 \in 1..Len(queue[p])
         /\ Len(Tail(queue[p])) = Len(queue[p]) - 1
         /\ \A i \in 1..Len(Tail(queue[p])) : Tail(queue[p])[i] = queue[p][i+1]
<1>1. queue[p] \in Seq(Loop)
  BY DEF TypeOK
<1> QED
  BY <1>1, queue[p] # << >>

(* The loop at the head leaves the queue as it leaves the gate. *)
LEMMA QueuePopped ==
  ASSUME TypeOK, NeverOverlapsItself, NEW p \in Process, queue[p] # << >>,
         NEW x \in LoopStates, x # "gate",
         loop' = [loop EXCEPT ![p][Head(queue[p])] = x],
         queue' = [queue EXCEPT ![p] = Tail(queue[p])]
  PROVE  NeverOverlapsItself'
<1> DEFINE q == queue[p]
           h == Head(q)
           t == Tail(q)
<1>1. /\ q \in Seq(Loop) /\ h \in Loop /\ t \in Seq(Loop)
      /\ h = q[1] /\ 1 \in 1..Len(q)
      /\ Len(q) \in Nat /\ Len(t) = Len(q) - 1
      /\ \A i \in 1..Len(t) : t[i] = q[i+1]
  BY QueueHead DEF TypeOK
<1>2. /\ loop \in [Process -> [Loop -> LoopStates]]
      /\ queue \in [Process -> Seq(Loop)]
  BY DEF TypeOK
<1>3. queue'[p] = t /\ \A r \in Process : r # p => queue'[r] = queue[r]
  BY <1>2
<1>4. /\ loop'[p][h] = x
      /\ \A l \in Loop : l # h => loop'[p][l] = loop[p][l]
      /\ \A r \in Process : r # p => loop'[r] = loop[r]
  BY <1>1, <1>2
<1>5. \A i \in 1..Len(t) : i+1 \in 1..Len(q) /\ i+1 # 1 /\ t[i] = q[i+1] /\ t[i] \in Loop
  BY <1>1
<1>6. \A i, j \in 1..Len(q) : q[i] = q[j] => i = j
  BY DEF NeverOverlapsItself, AtTheGate
<1>7. \A i \in 1..Len(t) : t[i] # h
  BY <1>1, <1>5, <1>6
<1>8. \A i, j \in 1..Len(t) : t[i] = t[j] => i = j
  <2> SUFFICES ASSUME NEW i \in 1..Len(t), NEW j \in 1..Len(t), t[i] = t[j]
               PROVE  i = j
    OBVIOUS
  <2>1. q[i+1] = q[j+1] /\ i+1 \in 1..Len(q) /\ j+1 \in 1..Len(q)
    BY <1>5
  <2>2. i + 1 = j + 1
    BY <2>1, <1>6
  <2> QED
    BY <2>2
<1>9. \A i \in 1..Len(t) : loop'[p][t[i]] = "gate"
  <2>1. \A i \in 1..Len(q) : loop[p][q[i]] = "gate"
    BY DEF NeverOverlapsItself, AtTheGate
  <2>2. \A i \in 1..Len(t) : loop[p][t[i]] = "gate"
    BY <2>1, <1>5
  <2> QED
    BY <2>2, <1>4, <1>5, <1>7
<1>10. \A l \in Loop : loop'[p][l] = "gate" => \E i \in 1..Len(t) : t[i] = l
  <2> SUFFICES ASSUME NEW l \in Loop, loop'[p][l] = "gate"
               PROVE  \E i \in 1..Len(t) : t[i] = l
    OBVIOUS
  <2>1. l # h /\ loop[p][l] = "gate"
    BY <1>4
  <2>2. PICK k \in 1..Len(q) : q[k] = l
    BY <2>1 DEF NeverOverlapsItself, AtTheGate
  <2>3. k # 1 /\ k - 1 \in 1..Len(t) /\ (k - 1) + 1 = k
    BY <1>1, <2>1, <2>2
  <2>4. t[k - 1] = l
    BY <1>1, <2>2, <2>3
  <2> QED
    BY <2>3, <2>4
<1>11. ASSUME NEW r \in Process, r # p
       PROVE  AtTheGate(queue'[r], loop'[r])
  BY <1>3, <1>4, <1>11 DEF NeverOverlapsItself
<1>12. AtTheGate(queue'[p], loop'[p])
  BY <1>3, <1>8, <1>9, <1>10 DEF AtTheGate
<1> QED
  BY <1>11, <1>12 DEF NeverOverlapsItself, AtTheGate

(* A loop that was not at the gate joins the queue as it comes to the gate. *)
LEMMA QueueJoined ==
  ASSUME TypeOK, NeverOverlapsItself, NEW p \in Process, NEW m \in Loop,
         loop[p][m] # "gate",
         loop' = [loop EXCEPT ![p][m] = "gate"],
         queue' = [queue EXCEPT ![p] = Append(queue[p], m)]
  PROVE  NeverOverlapsItself'
<1> DEFINE q == queue[p]
           a == Append(q, m)
<1>1. /\ loop \in [Process -> [Loop -> LoopStates]]
      /\ queue \in [Process -> Seq(Loop)]
      /\ q \in Seq(Loop)
  BY DEF TypeOK
<1>2. /\ Len(q) \in Nat /\ Len(a) = Len(q) + 1 /\ a[Len(q) + 1] = m
      /\ \A i \in 1..Len(q) : a[i] = q[i] /\ q[i] \in Loop
  BY <1>1
<1>3. queue'[p] = a /\ \A r \in Process : r # p => queue'[r] = queue[r]
  BY <1>1
<1>4. /\ loop'[p][m] = "gate"
      /\ \A l \in Loop : l # m => loop'[p][l] = loop[p][l]
      /\ \A r \in Process : r # p => loop'[r] = loop[r]
  BY <1>1
<1>5. \A i \in 1..Len(q) : q[i] # m
  BY DEF NeverOverlapsItself, AtTheGate
<1>6. \A i \in 1..Len(a) : i \in 1..Len(q) \/ i = Len(q) + 1
  BY <1>2
<1>7. \A i, j \in 1..Len(a) : a[i] = a[j] => i = j
  <2>1. \A i, j \in 1..Len(q) : q[i] = q[j] => i = j
    BY DEF NeverOverlapsItself, AtTheGate
  <2> QED
    BY <2>1, <1>2, <1>5, <1>6
<1>8. \A i \in 1..Len(a) : loop'[p][a[i]] = "gate"
  <2>1. \A i \in 1..Len(q) : loop[p][q[i]] = "gate"
    BY DEF NeverOverlapsItself, AtTheGate
  <2> QED
    BY <2>1, <1>2, <1>4, <1>5, <1>6
<1>9. \A l \in Loop : loop'[p][l] = "gate" => \E i \in 1..Len(a) : a[i] = l
  <2> SUFFICES ASSUME NEW l \in Loop, loop'[p][l] = "gate"
               PROVE  \E i \in 1..Len(a) : a[i] = l
    OBVIOUS
  <2>1. CASE l = m
    BY <2>1, <1>2
  <2>2. CASE l # m
    <3>1. PICK k \in 1..Len(q) : q[k] = l
      BY <2>2, <1>4 DEF NeverOverlapsItself, AtTheGate
    <3> QED
      BY <3>1, <1>2
  <2> QED
    BY <2>1, <2>2
<1>10. ASSUME NEW r \in Process, r # p
       PROVE  AtTheGate(queue'[r], loop'[r])
  BY <1>3, <1>4, <1>10 DEF NeverOverlapsItself
<1>11. AtTheGate(queue'[p], loop'[p])
  BY <1>3, <1>7, <1>8, <1>9 DEF AtTheGate
<1> QED
  BY <1>10, <1>11 DEF NeverOverlapsItself, AtTheGate

(* While a question is in the queue, some loop is at the gate; so the queue of
   a process whose loops are all off is empty, and its lease is idle. *)
LEMMA QueueMeansGate ==
  ASSUME TypeOK, NeverOverlapsItself, NEW p \in Process, queue[p] # << >>
  PROVE  \E l \in Loop : loop[p][l] = "gate"
<1>1. Head(queue[p]) \in Loop /\ Head(queue[p]) = queue[p][1] /\ 1 \in 1..Len(queue[p])
  BY QueueHead
<1> QED
  BY <1>1 DEF NeverOverlapsItself, AtTheGate

(***************************************************************************)
(* The invariant: it holds at the start, and every action keeps it.        *)
(***************************************************************************)

LEMMA InitIInv == Init => IInv
  BY LoopAssumption, SessionAssumption
  DEF Init, IInv, TypeOK, Modes, LoopStates, Querying, Replies,
      NeverOverlapsItself, AtTheGate, Ownership, Parking, Locking, Stopping,
      CoveredUntilLost, PoolHoldsNoLock, Pooled

(* The cycle is skipped: a failed connect, a lost or a refused TRY_LOCK. *)
LEMMA GateShutKeeps ==
  ASSUME IInv, NEW p \in Process, GateShut(p),
         UNCHANGED <<mode, stopped, client, home, open, backend, lock>>,
         faults' \in 0..MaxFaults,
         \/ pc[p] = "connect"
         \/ pc[p] = "try" /\ (reply[p] = "no" \/ ~open[cur[p]])
  PROVE  IInv'
<1>0. /\ queue[p] # << >> /\ TypeOK /\ NeverOverlapsItself
      /\ Head(queue[p]) \in Loop /\ Tail(queue[p]) \in Seq(Loop)
  <2>1. queue[p] # << >> /\ TypeOK /\ NeverOverlapsItself
    BY DEF IInv, Stopping
  <2> QED
    BY <2>1, QueueHead
<1>1. TypeOK'
  <2>1. grant[p][Head(queue[p])] = None
    BY <1>0, QueueHead DEF NeverOverlapsItself, AtTheGate, TypeOK
  <2>2. Rest(p, Head(queue[p])) \in {"off", "timer"}
    BY DEF Rest
  <2>3. /\ loop' \in [Process -> [Loop -> LoopStates]]
        /\ queue' \in [Process -> Seq(Loop)]
    BY <1>0, <2>2 DEF TypeOK, LoopStates, GateShut
  <2>4. \A q \in Process, l \in Loop : loop'[q][l] = "run" <=> grant'[q][l] # None
    BY <1>0, <2>1, <2>2 DEF TypeOK, GateShut
  <2>5. /\ cur' \in [Process -> Session \cup {None}]
        /\ reply' \in [Process -> Replies]
        /\ pc' \in [Process -> {"idle", "connect"} \cup Querying]
        /\ \A q \in Process : pc'[q] \in Querying <=> cur'[q] # None
    BY <1>0 DEF TypeOK, Querying, Replies, GateShut, JobDone
  <2>6. /\ grant' \in [Process -> [Loop -> Session \cup {None}]]
        /\ UNCHANGED <<mode, stopped, client, home, open, backend, lock>>
        /\ faults' \in 0..MaxFaults
    BY <1>0 DEF TypeOK, GateShut
  <2> QED
    BY <1>0, <2>3, <2>4, <2>5, <2>6 DEF TypeOK
<1>2. NeverOverlapsItself'
  BY <1>0, QueuePopped DEF LoopStates, GateShut, Rest
<1>3. Ownership'
  BY <1>0, SessionAssumption DEF IInv, TypeOK, Modes, LoopStates, Querying,
      Replies, Ownership, Parking, GateShut, JobDone, Rest
<1>4. Parking'
  BY <1>0 DEF IInv, TypeOK, Modes, LoopStates, Querying, Replies, Parking,
      Ownership, Stopping, GateShut, JobDone, Rest
<1>5. Locking'
  BY <1>0, SessionAssumption DEF IInv, TypeOK, Modes, LoopStates, Querying,
      Replies, Locking, Ownership, Parking, GateShut, JobDone, Rest
<1>6. Stopping'
  BY <1>0 DEF IInv, TypeOK, Modes, LoopStates, Querying, Replies, Stopping,
      Parking, NeverOverlapsItself, AtTheGate, GateShut, JobDone, Rest
<1>7. CoveredUntilLost'
  BY <1>0, SessionAssumption DEF IInv, TypeOK, Modes, LoopStates, Querying,
      Replies, CoveredUntilLost, Ownership, Locking, Stopping, GateShut,
      JobDone, Rest
<1>8. PoolHoldsNoLock'
  BY <1>0, SessionAssumption DEF IInv, TypeOK, Modes, LoopStates, Querying,
      Replies, PoolHoldsNoLock, Ownership, Parking, Locking, Pooled,
      GateShut, JobDone, Rest
<1> QED
  BY <1>1, <1>2, <1>3, <1>4, <1>5, <1>6, <1>7, <1>8 DEF IInv

(* The cycle is admitted: the lock was acquired or verified. *)
LEMMA GateOpensKeeps ==
  ASSUME IInv, NEW p \in Process, GateOpens(p),
         UNCHANGED <<mode, stopped, home, open, backend, lock, faults>>,
         client' = [client EXCEPT ![p] = cur[p]],
         pc[p] \in {"try", "check"}, reply[p] = "yes", open[cur[p]]
  PROVE  IInv'
<1>0. /\ queue[p] # << >> /\ TypeOK /\ NeverOverlapsItself
      /\ Head(queue[p]) \in Loop /\ Tail(queue[p]) \in Seq(Loop)
  <2>1. queue[p] # << >> /\ TypeOK /\ NeverOverlapsItself
    BY DEF IInv, Stopping
  <2> QED
    BY <2>1, QueueHead
<1>1. TypeOK'
  BY <1>0, SessionAssumption DEF IInv, TypeOK, Modes, LoopStates, Querying,
      Replies, Parking, Stopping, Ownership, GateOpens, JobDone
<1>2. NeverOverlapsItself'
  BY <1>0, QueuePopped DEF LoopStates, GateOpens
<1>3. Ownership'
  BY <1>0, SessionAssumption DEF IInv, TypeOK, Modes, LoopStates, Querying,
      Replies, Ownership, Parking, GateOpens, JobDone
<1>4. Parking'
  BY <1>0 DEF IInv, TypeOK, Modes, LoopStates, Querying, Replies, Parking,
      Ownership, Stopping, GateOpens, JobDone
<1>5. Locking'
  BY <1>0, SessionAssumption DEF IInv, TypeOK, Modes, LoopStates, Querying,
      Replies, Locking, Ownership, Parking, GateOpens, JobDone
<1>6. Stopping'
  BY <1>0 DEF IInv, TypeOK, Modes, LoopStates, Querying, Replies, Stopping,
      Parking, NeverOverlapsItself, AtTheGate, GateOpens, JobDone
<1>7. CoveredUntilLost'
  BY <1>0, SessionAssumption DEF IInv, TypeOK, Modes, LoopStates, Querying,
      Replies, CoveredUntilLost, Ownership, Locking, Stopping, GateOpens,
      JobDone
<1>8. PoolHoldsNoLock'
  BY <1>0, SessionAssumption DEF IInv, TypeOK, Modes, LoopStates, Querying,
      Replies, PoolHoldsNoLock, Ownership, Parking, Locking, Pooled,
      GateOpens, JobDone
<1> QED
  BY <1>1, <1>2, <1>3, <1>4, <1>5, <1>6, <1>7, <1>8 DEF IInv

(* The parked session is given up, and the process contends again. *)
LEMMA RetryKeeps ==
  ASSUME IInv, NEW p \in Process, pc[p] = "check",
         reply[p] = "no" \/ ~open[cur[p]],
         client' = [client EXCEPT ![p] = None],
         pc' = [pc EXCEPT ![p] = "connect"],
         cur' = [cur EXCEPT ![p] = None],
         reply' = [reply EXCEPT ![p] = "none"],
         UNCHANGED <<mode, stopped, loop, grant, queue, home, open, backend, lock, faults>>
  PROVE  IInv'
<1>1. TypeOK'
  BY SessionAssumption DEF IInv, TypeOK, Modes, LoopStates, Querying,
      Replies, Parking, Stopping, Ownership
<1>2. NeverOverlapsItself'
  <2>1. NeverOverlapsItself
    BY DEF IInv
  <2> QED
    BY <2>1 DEF NeverOverlapsItself
<1>3. Ownership'
  BY SessionAssumption DEF IInv, TypeOK, Modes, LoopStates, Querying,
      Replies, Ownership, Parking
<1>4. Parking'
  BY DEF IInv, TypeOK, Modes, LoopStates, Querying, Replies, Parking,
      Ownership, Stopping
<1>5. Locking'
  BY SessionAssumption DEF IInv, TypeOK, Modes, LoopStates, Querying,
      Replies, Locking, Ownership, Parking
<1>6. Stopping'
  BY DEF IInv, TypeOK, Modes, LoopStates, Querying, Replies, Stopping,
      Parking, NeverOverlapsItself, AtTheGate
<1>7. CoveredUntilLost'
  BY SessionAssumption DEF IInv, TypeOK, Modes, LoopStates, Querying,
      Replies, CoveredUntilLost, Ownership, Locking, Stopping
<1>8. PoolHoldsNoLock'
  BY SessionAssumption DEF IInv, TypeOK, Modes, LoopStates, Querying,
      Replies, PoolHoldsNoLock, Ownership, Parking, Locking, Pooled
<1> QED
  BY <1>1, <1>2, <1>3, <1>4, <1>5, <1>6, <1>7, <1>8 DEF IInv

LEMMA TickKeeps ==
  ASSUME IInv, NEW p \in Process, NEW l \in Loop, Tick(p, l)
  PROVE  IInv'
<1>1. TypeOK'
  BY SessionAssumption DEF IInv, TypeOK, Modes, LoopStates, Querying,
      Replies, Parking, Stopping, Ownership, Tick, database
<1>2. NeverOverlapsItself'
  <2>1. TypeOK /\ NeverOverlapsItself
    BY DEF IInv
  <2> QED
    BY <2>1, QueueJoined DEF Tick
<1>3. Ownership'
  BY SessionAssumption DEF IInv, TypeOK, Modes, LoopStates, Querying,
      Replies, Ownership, Parking, Tick, database
<1>4. Parking'
  BY DEF IInv, TypeOK, Modes, LoopStates, Querying, Replies, Parking,
      Ownership, Stopping, Tick, database
<1>5. Locking'
  BY SessionAssumption DEF IInv, TypeOK, Modes, LoopStates, Querying,
      Replies, Locking, Ownership, Parking, Tick, database
<1>6. Stopping'
  <2>1. Append(queue[p], l) # << >>
    <3>1. queue[p] \in Seq(Loop)
      BY DEF IInv, TypeOK
    <3>2. Len(Append(queue[p], l)) = Len(queue[p]) + 1 /\ Len(queue[p]) \in Nat
      BY <3>1
    <3> QED
      BY <3>2
  <2>2. \A q \in Process : queue[q] # << >> => queue'[q] # << >>
    BY <2>1 DEF IInv, TypeOK, Tick
  <2>3. mode[p] \notin {"releasing", "draining", "down"}
    BY DEF IInv, Stopping, Tick
  <2>4. \A q \in Process : q # p => loop'[q] = loop[q]
    BY DEF IInv, TypeOK, Tick
  <2>5. UNCHANGED <<mode, client, pc>>
    BY DEF Tick
  <2> QED
    BY <2>2, <2>3, <2>4, <2>5 DEF IInv, Stopping
<1>7. CoveredUntilLost'
  BY SessionAssumption DEF IInv, TypeOK, Modes, LoopStates, Querying,
      Replies, CoveredUntilLost, Ownership, Locking, Stopping, Tick, database
<1>8. PoolHoldsNoLock'
  BY SessionAssumption DEF IInv, TypeOK, Modes, LoopStates, Querying,
      Replies, PoolHoldsNoLock, Ownership, Parking, Locking, Pooled, Tick,
      database
<1> QED
  BY <1>1, <1>2, <1>3, <1>4, <1>5, <1>6, <1>7, <1>8 DEF IInv

LEMMA CycleEndsKeeps ==
  ASSUME IInv, NEW p \in Process, NEW l \in Loop, CycleEnds(p, l)
  PROVE  IInv'
<1>1. TypeOK'
  BY SessionAssumption DEF IInv, TypeOK, Modes, LoopStates, Querying,
      Replies, Parking, Stopping, Ownership, CycleEnds, Rest, lease, database
<1>2. NeverOverlapsItself'
  BY DEF IInv, TypeOK, Modes, LoopStates, Querying, Replies,
      NeverOverlapsItself, AtTheGate, CycleEnds, Rest, lease, database
<1>3. Ownership'
  BY SessionAssumption DEF IInv, TypeOK, Modes, LoopStates, Querying,
      Replies, Ownership, Parking, CycleEnds, Rest, lease, database
<1>4. Parking'
  BY DEF IInv, TypeOK, Modes, LoopStates, Querying, Replies, Parking,
      Ownership, Stopping, CycleEnds, Rest, lease, database
<1>5. Locking'
  BY SessionAssumption DEF IInv, TypeOK, Modes, LoopStates, Querying,
      Replies, Locking, Ownership, Parking, CycleEnds, Rest, lease, database
<1>6. Stopping'
  BY DEF IInv, TypeOK, Modes, LoopStates, Querying, Replies, Stopping,
      Parking, NeverOverlapsItself, AtTheGate, CycleEnds, Rest, lease,
      database
<1>7. CoveredUntilLost'
  BY SessionAssumption DEF IInv, TypeOK, Modes, LoopStates, Querying,
      Replies, CoveredUntilLost, Ownership, Locking, Stopping, CycleEnds,
      Rest, lease, database
<1>8. PoolHoldsNoLock'
  BY SessionAssumption DEF IInv, TypeOK, Modes, LoopStates, Querying,
      Replies, PoolHoldsNoLock, Ownership, Parking, Locking, Pooled,
      CycleEnds, Rest, lease, database
<1> QED
  BY <1>1, <1>2, <1>3, <1>4, <1>5, <1>6, <1>7, <1>8 DEF IInv

LEMMA EnsureBeginsKeeps ==
  ASSUME IInv, NEW p \in Process, EnsureBegins(p)
  PROVE  IInv'
<1>1. TypeOK'
  BY SessionAssumption DEF IInv, TypeOK, Modes, LoopStates, Querying,
      Replies, Parking, Stopping, Ownership, EnsureBegins, worker, database
<1>2. NeverOverlapsItself'
  <2>1. NeverOverlapsItself /\ UNCHANGED <<queue, loop>>
    BY DEF IInv, EnsureBegins, worker
  <2> QED
    BY <2>1 DEF NeverOverlapsItself
<1>3. Ownership'
  BY SessionAssumption DEF IInv, TypeOK, Modes, LoopStates, Querying,
      Replies, Ownership, Parking, EnsureBegins, worker, database
<1>4. Parking'
  BY DEF IInv, TypeOK, Modes, LoopStates, Querying, Replies, Parking,
      Ownership, Stopping, EnsureBegins, worker, database
<1>5. Locking'
  BY SessionAssumption DEF IInv, TypeOK, Modes, LoopStates, Querying,
      Replies, Locking, Ownership, Parking, EnsureBegins, worker, database
<1>6. Stopping'
  <2>1. \E l \in Loop : loop[p][l] = "gate"
    BY QueueMeansGate DEF IInv, EnsureBegins
  <2> QED
    BY <2>1 DEF IInv, TypeOK, Stopping, Parking, EnsureBegins, worker
<1>7. CoveredUntilLost'
  BY SessionAssumption DEF IInv, TypeOK, Modes, LoopStates, Querying,
      Replies, CoveredUntilLost, Ownership, Locking, Stopping, EnsureBegins,
      worker, database
<1>8. PoolHoldsNoLock'
  <2>1. cur[p] = None
    BY DEF IInv, TypeOK, Querying, EnsureBegins
  <2>2. \A t \in Session : Pooled(home[t], t)' => Pooled(home[t], t)
    BY <2>1, SessionAssumption DEF IInv, TypeOK, Pooled, EnsureBegins, database
  <2> QED
    BY <2>2 DEF IInv, PoolHoldsNoLock, EnsureBegins, database
<1> QED
  BY <1>1, <1>2, <1>3, <1>4, <1>5, <1>6, <1>7, <1>8 DEF IInv

LEMMA ConnectKeeps ==
  ASSUME IInv, NEW p \in Process, NEW s \in Session, Connect(p, s)
  PROVE  IInv'
<1>1. TypeOK'
  BY SessionAssumption DEF IInv, TypeOK, Modes, LoopStates, Querying,
      Replies, Parking, Stopping, Ownership, Connect, Unused, Remembered,
      Pooled, worker
<1>2. NeverOverlapsItself'
  <2>1. NeverOverlapsItself /\ UNCHANGED <<queue, loop>>
    BY DEF IInv, Connect, worker
  <2> QED
    BY <2>1 DEF NeverOverlapsItself
<1>3. Ownership'
  BY SessionAssumption DEF IInv, TypeOK, Modes, LoopStates, Querying,
      Replies, Ownership, Parking, Connect, Unused, Remembered, Pooled,
      worker
<1>4. Parking'
  BY DEF IInv, TypeOK, Modes, LoopStates, Querying, Replies, Parking,
      Ownership, Stopping, Connect, Unused, Remembered, Pooled, worker
<1>5. Locking'
  BY SessionAssumption DEF IInv, TypeOK, Modes, LoopStates, Querying,
      Replies, Locking, Ownership, Parking, PoolHoldsNoLock, Connect, Unused,
      Remembered, Pooled, worker
<1>6. Stopping'
  BY DEF IInv, TypeOK, Modes, LoopStates, Querying, Replies, Stopping,
      Parking, NeverOverlapsItself, AtTheGate, Connect, Unused, Remembered,
      Pooled, worker
<1>7. CoveredUntilLost'
  BY SessionAssumption DEF IInv, TypeOK, Modes, LoopStates, Querying,
      Replies, CoveredUntilLost, Ownership, Locking, Stopping, Connect,
      Unused, Remembered, Pooled, worker
<1>8. PoolHoldsNoLock'
  <2>1. cur[p] = None
    BY DEF IInv, TypeOK, Querying, Connect
  <2>2. ~Pooled(home[s], s)'
    BY DEF IInv, TypeOK, Pooled, Connect
  <2>3. \A t \in Session : t # s /\ Pooled(home[t], t)' => Pooled(home[t], t)
    BY <2>1, SessionAssumption DEF IInv, TypeOK, Pooled, Connect
  <2>4. \A t \in Session : t # s => home'[t] = home[t]
    BY DEF IInv, TypeOK, Connect
  <2>5. IInv /\ lock' = lock
    BY DEF Connect
  <2> QED
    BY <2>2, <2>3, <2>4, <2>5 DEF IInv, PoolHoldsNoLock
<1> QED
  BY <1>1, <1>2, <1>3, <1>4, <1>5, <1>6, <1>7, <1>8 DEF IInv

LEMMA ServerEvaluatesKeeps ==
  ASSUME IInv, NEW p \in Process, ServerEvaluates(p)
  PROVE  IInv'
<1>1. TypeOK'
  BY SessionAssumption DEF IInv, TypeOK, Modes, LoopStates, Querying,
      Replies, Parking, Stopping, Ownership, ServerEvaluates, worker
<1>2. NeverOverlapsItself'
  <2>1. NeverOverlapsItself /\ UNCHANGED <<queue, loop>>
    BY DEF IInv, ServerEvaluates, worker
  <2> QED
    BY <2>1 DEF NeverOverlapsItself
<1>3. Ownership'
  BY SessionAssumption DEF IInv, TypeOK, Modes, LoopStates, Querying,
      Replies, Ownership, Parking, ServerEvaluates, worker
<1>4. Parking'
  BY DEF IInv, TypeOK, Modes, LoopStates, Querying, Replies, Parking,
      Ownership, Stopping, ServerEvaluates, worker
<1>5. Locking'
  BY SessionAssumption DEF IInv, TypeOK, Modes, LoopStates, Querying,
      Replies, Locking, Ownership, Parking, ServerEvaluates, worker
<1>6. Stopping'
  BY DEF IInv, TypeOK, Modes, LoopStates, Querying, Replies, Stopping,
      Parking, NeverOverlapsItself, AtTheGate, ServerEvaluates, worker
<1>7. CoveredUntilLost'
  BY SessionAssumption DEF IInv, TypeOK, Modes, LoopStates, Querying,
      Replies, CoveredUntilLost, Ownership, Locking, Stopping,
      ServerEvaluates, worker
<1>8. PoolHoldsNoLock'
  BY SessionAssumption DEF IInv, TypeOK, Modes, LoopStates, Querying,
      Replies, PoolHoldsNoLock, Ownership, Parking, Locking, Pooled,
      ServerEvaluates, worker
<1> QED
  BY <1>1, <1>2, <1>3, <1>4, <1>5, <1>6, <1>7, <1>8 DEF IInv

LEMMA ReleaseBeginsKeeps ==
  ASSUME IInv, NEW p \in Process, ReleaseBegins(p)
  PROVE  IInv'
<1>1. TypeOK'
  BY SessionAssumption DEF IInv, TypeOK, Modes, LoopStates, Querying,
      Replies, Parking, Stopping, Ownership, ReleaseBegins, database
<1>2. NeverOverlapsItself'
  <2>1. NeverOverlapsItself /\ UNCHANGED <<queue, loop>>
    BY DEF IInv, ReleaseBegins
  <2> QED
    BY <2>1 DEF NeverOverlapsItself
<1>3. Ownership'
  BY SessionAssumption DEF IInv, TypeOK, Modes, LoopStates, Querying,
      Replies, Ownership, Parking, ReleaseBegins, database
<1>4. Parking'
  <2>1. pc[p] = "idle" /\ cur[p] = None
    BY QueueMeansGate DEF IInv, TypeOK, Stopping, ReleaseBegins, Querying
  <2> QED
    BY <2>1 DEF IInv, TypeOK, Querying, Parking, ReleaseBegins, database
<1>5. Locking'
  <2>1. pc[p] = "idle" /\ cur[p] = None
    BY QueueMeansGate DEF IInv, TypeOK, Stopping, ReleaseBegins, Querying
  <2> QED
    BY <2>1, SessionAssumption DEF IInv, TypeOK, Parking, Ownership, Locking, ReleaseBegins, database
<1>6. Stopping'
  BY DEF IInv, TypeOK, Modes, LoopStates, Querying, Replies, Stopping,
      Parking, NeverOverlapsItself, AtTheGate, ReleaseBegins, database
<1>7. CoveredUntilLost'
  BY SessionAssumption DEF IInv, TypeOK, Modes, LoopStates, Querying,
      Replies, CoveredUntilLost, Ownership, Locking, Stopping, ReleaseBegins,
      database
<1>8. PoolHoldsNoLock'
  <2>1. pc[p] = "idle" /\ cur[p] = None
    BY QueueMeansGate DEF IInv, TypeOK, Stopping, ReleaseBegins, Querying
  <2> QED
    BY <2>1, SessionAssumption DEF IInv, TypeOK, PoolHoldsNoLock, Pooled, ReleaseBegins, database
<1> QED
  BY <1>1, <1>2, <1>3, <1>4, <1>5, <1>6, <1>7, <1>8 DEF IInv

LEMMA ReleaseEndsKeeps ==
  ASSUME IInv, NEW p \in Process, ReleaseEnds(p)
  PROVE  IInv'
<1>1. TypeOK'
  BY SessionAssumption DEF IInv, TypeOK, Modes, LoopStates, Querying,
      Replies, Parking, Stopping, Ownership, ReleaseEnds, JobDone, database
<1>2. NeverOverlapsItself'
  <2>1. NeverOverlapsItself /\ UNCHANGED <<queue, loop>>
    BY DEF IInv, ReleaseEnds
  <2> QED
    BY <2>1 DEF NeverOverlapsItself
<1>3. Ownership'
  BY SessionAssumption DEF IInv, TypeOK, Modes, LoopStates, Querying,
      Replies, Ownership, Parking, ReleaseEnds, JobDone, database
<1>4. Parking'
  BY DEF IInv, TypeOK, Modes, LoopStates, Querying, Replies, Parking,
      Ownership, Stopping, ReleaseEnds, JobDone, database
<1>5. Locking'
  BY SessionAssumption DEF IInv, TypeOK, Modes, LoopStates, Querying,
      Replies, Locking, Ownership, Parking, ReleaseEnds, JobDone, database
<1>6. Stopping'
  BY DEF IInv, TypeOK, Modes, LoopStates, Querying, Replies, Stopping,
      Parking, NeverOverlapsItself, AtTheGate, ReleaseEnds, JobDone, database
<1>7. CoveredUntilLost'
  BY SessionAssumption DEF IInv, TypeOK, Modes, LoopStates, Querying,
      Replies, CoveredUntilLost, Ownership, Locking, Stopping, ReleaseEnds,
      JobDone, database
<1>8. PoolHoldsNoLock'
  BY SessionAssumption DEF IInv, TypeOK, Modes, LoopStates, Querying,
      Replies, PoolHoldsNoLock, Ownership, Parking, Locking, Pooled,
      ReleaseEnds, JobDone, database
<1> QED
  BY <1>1, <1>2, <1>3, <1>4, <1>5, <1>6, <1>7, <1>8 DEF IInv

LEMMA ConnectionLostKeeps ==
  ASSUME IInv, NEW s \in Session, ConnectionLost(s)
  PROVE  IInv'
<1>1. TypeOK'
  BY SessionAssumption DEF IInv, TypeOK, Modes, LoopStates, Querying,
      Replies, Parking, Stopping, Ownership, ConnectionLost, ClientDrops,
      Fault, worker
<1>2. NeverOverlapsItself'
  <2>1. NeverOverlapsItself /\ UNCHANGED <<queue, loop>>
    BY DEF IInv, ConnectionLost, ClientDrops, worker
  <2> QED
    BY <2>1 DEF NeverOverlapsItself
<1>3. Ownership'
  BY SessionAssumption DEF IInv, TypeOK, Modes, LoopStates, Querying,
      Replies, Ownership, Parking, ConnectionLost, ClientDrops, Fault, worker
<1>4. Parking'
  BY DEF IInv, TypeOK, Modes, LoopStates, Querying, Replies, Parking,
      Ownership, Stopping, ConnectionLost, ClientDrops, Fault, worker
<1>5. Locking'
  BY SessionAssumption DEF IInv, TypeOK, Modes, LoopStates, Querying,
      Replies, Locking, Ownership, Parking, ConnectionLost, ClientDrops,
      Fault, worker
<1>6. Stopping'
  BY DEF IInv, TypeOK, Modes, LoopStates, Querying, Replies, Stopping,
      Parking, NeverOverlapsItself, AtTheGate, ConnectionLost, ClientDrops,
      Fault, worker
<1>7. CoveredUntilLost'
  BY SessionAssumption DEF IInv, TypeOK, Modes, LoopStates, Querying,
      Replies, CoveredUntilLost, Ownership, Locking, Stopping,
      ConnectionLost, ClientDrops, Fault, worker
<1>8. PoolHoldsNoLock'
  BY SessionAssumption DEF IInv, TypeOK, Modes, LoopStates, Querying,
      Replies, PoolHoldsNoLock, Ownership, Parking, Locking, Pooled,
      ConnectionLost, ClientDrops, Fault, worker
<1> QED
  BY <1>1, <1>2, <1>3, <1>4, <1>5, <1>6, <1>7, <1>8 DEF IInv

LEMMA BackendDiesKeeps ==
  ASSUME IInv, NEW s \in Session, BackendDies(s)
  PROVE  IInv'
<1>1. TypeOK'
  BY SessionAssumption DEF IInv, TypeOK, Modes, LoopStates, Querying,
      Replies, Parking, Stopping, Ownership, BackendDies, ServerDrops, Fault,
      worker, lease
<1>2. NeverOverlapsItself'
  <2>1. NeverOverlapsItself /\ UNCHANGED <<queue, loop>>
    BY DEF IInv, BackendDies, worker, lease
  <2> QED
    BY <2>1 DEF NeverOverlapsItself
<1>3. Ownership'
  BY SessionAssumption DEF IInv, TypeOK, Modes, LoopStates, Querying,
      Replies, Ownership, Parking, BackendDies, ServerDrops, Fault, worker,
      lease
<1>4. Parking'
  BY DEF IInv, TypeOK, Modes, LoopStates, Querying, Replies, Parking,
      Ownership, Stopping, BackendDies, ServerDrops, Fault, worker, lease
<1>5. Locking'
  BY SessionAssumption DEF IInv, TypeOK, Modes, LoopStates, Querying,
      Replies, Locking, Ownership, Parking, BackendDies, ServerDrops, Fault,
      worker, lease
<1>6. Stopping'
  BY DEF IInv, TypeOK, Modes, LoopStates, Querying, Replies, Stopping,
      Parking, NeverOverlapsItself, AtTheGate, BackendDies, ServerDrops,
      Fault, worker, lease
<1>7. CoveredUntilLost'
  BY SessionAssumption DEF IInv, TypeOK, Modes, LoopStates, Querying,
      Replies, CoveredUntilLost, Ownership, Locking, Stopping, BackendDies,
      ServerDrops, Fault, worker, lease
<1>8. PoolHoldsNoLock'
  BY SessionAssumption DEF IInv, TypeOK, Modes, LoopStates, Querying,
      Replies, PoolHoldsNoLock, Ownership, Parking, Locking, Pooled,
      BackendDies, ServerDrops, Fault, worker, lease
<1> QED
  BY <1>1, <1>2, <1>3, <1>4, <1>5, <1>6, <1>7, <1>8 DEF IInv

LEMMA ClientNoticesKeeps ==
  ASSUME IInv, NEW s \in Session, ClientNotices(s)
  PROVE  IInv'
<1>1. TypeOK'
  BY SessionAssumption DEF IInv, TypeOK, Modes, LoopStates, Querying,
      Replies, Parking, Stopping, Ownership, ClientNotices, ClientDrops,
      worker
<1>2. NeverOverlapsItself'
  <2>1. NeverOverlapsItself /\ UNCHANGED <<queue, loop>>
    BY DEF IInv, ClientNotices, ClientDrops, worker
  <2> QED
    BY <2>1 DEF NeverOverlapsItself
<1>3. Ownership'
  BY SessionAssumption DEF IInv, TypeOK, Modes, LoopStates, Querying,
      Replies, Ownership, Parking, ClientNotices, ClientDrops, worker
<1>4. Parking'
  BY DEF IInv, TypeOK, Modes, LoopStates, Querying, Replies, Parking,
      Ownership, Stopping, ClientNotices, ClientDrops, worker
<1>5. Locking'
  BY SessionAssumption DEF IInv, TypeOK, Modes, LoopStates, Querying,
      Replies, Locking, Ownership, Parking, ClientNotices, ClientDrops,
      worker
<1>6. Stopping'
  BY DEF IInv, TypeOK, Modes, LoopStates, Querying, Replies, Stopping,
      Parking, NeverOverlapsItself, AtTheGate, ClientNotices, ClientDrops,
      worker
<1>7. CoveredUntilLost'
  BY SessionAssumption DEF IInv, TypeOK, Modes, LoopStates, Querying,
      Replies, CoveredUntilLost, Ownership, Locking, Stopping, ClientNotices,
      ClientDrops, worker
<1>8. PoolHoldsNoLock'
  BY SessionAssumption DEF IInv, TypeOK, Modes, LoopStates, Querying,
      Replies, PoolHoldsNoLock, Ownership, Parking, Locking, Pooled,
      ClientNotices, ClientDrops, worker
<1> QED
  BY <1>1, <1>2, <1>3, <1>4, <1>5, <1>6, <1>7, <1>8 DEF IInv

LEMMA BackendReapedKeeps ==
  ASSUME IInv, NEW s \in Session, BackendReaped(s)
  PROVE  IInv'
<1>1. TypeOK'
  BY SessionAssumption DEF IInv, TypeOK, Modes, LoopStates, Querying,
      Replies, Parking, Stopping, Ownership, BackendReaped, ServerDrops,
      worker, lease
<1>2. NeverOverlapsItself'
  <2>1. NeverOverlapsItself /\ UNCHANGED <<queue, loop>>
    BY DEF IInv, BackendReaped, worker, lease
  <2> QED
    BY <2>1 DEF NeverOverlapsItself
<1>3. Ownership'
  BY SessionAssumption DEF IInv, TypeOK, Modes, LoopStates, Querying,
      Replies, Ownership, Parking, BackendReaped, ServerDrops, worker, lease
<1>4. Parking'
  BY DEF IInv, TypeOK, Modes, LoopStates, Querying, Replies, Parking,
      Ownership, Stopping, BackendReaped, ServerDrops, worker, lease
<1>5. Locking'
  BY SessionAssumption DEF IInv, TypeOK, Modes, LoopStates, Querying,
      Replies, Locking, Ownership, Parking, BackendReaped, ServerDrops,
      worker, lease
<1>6. Stopping'
  BY DEF IInv, TypeOK, Modes, LoopStates, Querying, Replies, Stopping,
      Parking, NeverOverlapsItself, AtTheGate, BackendReaped, ServerDrops,
      worker, lease
<1>7. CoveredUntilLost'
  BY SessionAssumption DEF IInv, TypeOK, Modes, LoopStates, Querying,
      Replies, CoveredUntilLost, Ownership, Locking, Stopping, BackendReaped,
      ServerDrops, worker, lease
<1>8. PoolHoldsNoLock'
  BY SessionAssumption DEF IInv, TypeOK, Modes, LoopStates, Querying,
      Replies, PoolHoldsNoLock, Ownership, Parking, Locking, Pooled,
      BackendReaped, ServerDrops, worker, lease
<1> QED
  BY <1>1, <1>2, <1>3, <1>4, <1>5, <1>6, <1>7, <1>8 DEF IInv

LEMMA PoolIdleTimeoutKeeps ==
  ASSUME IInv, NEW s \in Session, PoolIdleTimeout(s)
  PROVE  IInv'
<1>1. TypeOK'
  BY SessionAssumption DEF IInv, TypeOK, Modes, LoopStates, Querying,
      Replies, Parking, Stopping, Ownership, PoolIdleTimeout, Pooled, worker,
      lease
<1>2. NeverOverlapsItself'
  <2>1. NeverOverlapsItself /\ UNCHANGED <<queue, loop>>
    BY DEF IInv, PoolIdleTimeout, worker, lease
  <2> QED
    BY <2>1 DEF NeverOverlapsItself
<1>3. Ownership'
  BY SessionAssumption DEF IInv, TypeOK, Modes, LoopStates, Querying,
      Replies, Ownership, Parking, PoolIdleTimeout, Pooled, worker, lease
<1>4. Parking'
  BY DEF IInv, TypeOK, Modes, LoopStates, Querying, Replies, Parking,
      Ownership, Stopping, PoolIdleTimeout, Pooled, worker, lease
<1>5. Locking'
  BY SessionAssumption DEF IInv, TypeOK, Modes, LoopStates, Querying,
      Replies, Locking, Ownership, Parking, PoolIdleTimeout, Pooled, worker,
      lease
<1>6. Stopping'
  BY DEF IInv, TypeOK, Modes, LoopStates, Querying, Replies, Stopping,
      Parking, NeverOverlapsItself, AtTheGate, PoolIdleTimeout, Pooled,
      worker, lease
<1>7. CoveredUntilLost'
  BY SessionAssumption DEF IInv, TypeOK, Modes, LoopStates, Querying,
      Replies, CoveredUntilLost, Ownership, Locking, Stopping,
      PoolIdleTimeout, Pooled, worker, lease
<1>8. PoolHoldsNoLock'
  BY SessionAssumption DEF IInv, TypeOK, Modes, LoopStates, Querying,
      Replies, PoolHoldsNoLock, Ownership, Parking, Locking, Pooled,
      PoolIdleTimeout, worker, lease
<1> QED
  BY <1>1, <1>2, <1>3, <1>4, <1>5, <1>6, <1>7, <1>8 DEF IInv

(* What workers.start puts in place: a question for each loop it starts. *)
LEMMA StartAtTheGate ==
  ASSUME NEW p \in Process
  PROVE  /\ StartOrder[p] \in Seq(Loop)
         /\ AtTheGate(StartOrder[p],
                [l \in Loop |-> IF l \in LoopsOf(p) THEN "gate" ELSE "off"])
<1>1. StartOrder[p] \in Seq(Loop)
  BY LoopAssumption
<1>2. \A i \in 1..Len(StartOrder[p]) :
        StartOrder[p][i] \in Loop /\ StartOrder[p][i] \in LoopsOf(p)
  BY <1>1 DEF LoopsOf
<1>3. \A l \in LoopsOf(p) : \E i \in 1..Len(StartOrder[p]) : StartOrder[p][i] = l
  BY DEF LoopsOf
<1> QED
  BY <1>1, <1>2, <1>3, LoopAssumption DEF AtTheGate

LEMMA BootKeeps ==
  ASSUME IInv, NEW p \in Process, Boot(p)
  PROVE  IInv'
<1> DEFINE started == [l \in Loop |-> IF l \in LoopsOf(p) THEN "gate" ELSE "off"]
<1>a. /\ loop' = [loop EXCEPT ![p] = started]
      /\ queue' = [queue EXCEPT ![p] = StartOrder[p]]
      /\ UNCHANGED <<stopped, grant, pc, cur, reply, client, home, open,
                     backend, lock, faults>>
  BY DEF Boot, database
<1>b. started \in [Loop -> {"off", "gate"}]
  OBVIOUS
<1>c. StartOrder[p] \in Seq(Loop) /\ AtTheGate(StartOrder[p], started)
  BY StartAtTheGate
<1>d. \A l \in Loop : grant[p][l] = None
  BY DEF IInv, TypeOK, Stopping, Boot
<1>1. TypeOK'
  <2>1. /\ loop' \in [Process -> [Loop -> LoopStates]]
        /\ queue' \in [Process -> Seq(Loop)]
        /\ mode' \in [Process -> Modes]
    BY <1>a, <1>b, <1>c DEF IInv, TypeOK, LoopStates, Modes, Boot
  <2>2. \A q \in Process, l \in Loop : loop'[q][l] = "run" <=> grant'[q][l] # None
    BY <1>a, <1>b, <1>d DEF IInv, TypeOK
  <2> QED
    BY <1>a, <2>1, <2>2 DEF IInv, TypeOK
<1>2. NeverOverlapsItself'
  <2> SUFFICES ASSUME NEW q \in Process
               PROVE  AtTheGate(queue[q], loop[q])'
    BY DEF NeverOverlapsItself
  <2>1. CASE q = p
    <3>1. queue'[q] = StartOrder[p] /\ loop'[q] = started
      BY <1>a, <2>1 DEF IInv, TypeOK
    <3> QED
      BY <1>c, <3>1 DEF AtTheGate
  <2>2. CASE q # p
    <3>1. queue'[q] = queue[q] /\ loop'[q] = loop[q]
      BY <1>a, <2>2 DEF IInv, TypeOK
    <3> QED
      BY <3>1 DEF IInv, NeverOverlapsItself, AtTheGate
  <2> QED
    BY <2>1, <2>2
<1>3. Ownership'
  BY SessionAssumption, LoopAssumption DEF IInv, TypeOK, Modes, LoopStates,
      Querying, Replies, Ownership, Parking, Boot, database
<1>4. Parking'
  BY LoopAssumption DEF IInv, TypeOK, Modes, LoopStates, Querying, Replies,
      Parking, Ownership, Stopping, Boot, database
<1>5. Locking'
  BY SessionAssumption, LoopAssumption DEF IInv, TypeOK, Modes, LoopStates,
      Querying, Replies, Locking, Ownership, Parking, Boot, database
<1>6. Stopping'
  BY LoopAssumption DEF IInv, TypeOK, Modes, LoopStates, Querying, Replies,
      Stopping, Parking, NeverOverlapsItself, AtTheGate, Boot, database
<1>7. CoveredUntilLost'
  BY SessionAssumption, LoopAssumption DEF IInv, TypeOK, Modes, LoopStates,
      Querying, Replies, CoveredUntilLost, Ownership, Locking, Stopping,
      Boot, database
<1>8. PoolHoldsNoLock'
  BY SessionAssumption, LoopAssumption DEF IInv, TypeOK, Modes, LoopStates,
      Querying, Replies, PoolHoldsNoLock, Ownership, Parking, Locking,
      Pooled, Boot, database
<1> QED
  BY <1>1, <1>2, <1>3, <1>4, <1>5, <1>6, <1>7, <1>8 DEF IInv

LEMMA SignalKeeps ==
  ASSUME IInv, NEW p \in Process, Signal(p)
  PROVE  IInv'
<1>1. TypeOK'
  BY SessionAssumption DEF IInv, TypeOK, Modes, LoopStates, Querying,
      Replies, Parking, Stopping, Ownership, Signal, lease, database
<1>2. NeverOverlapsItself'
  <2>1. NeverOverlapsItself /\ UNCHANGED <<queue, loop>>
    BY DEF IInv, Signal, lease
  <2> QED
    BY <2>1 DEF NeverOverlapsItself
<1>3. Ownership'
  BY SessionAssumption DEF IInv, TypeOK, Modes, LoopStates, Querying,
      Replies, Ownership, Parking, Signal, lease, database
<1>4. Parking'
  BY DEF IInv, TypeOK, Modes, LoopStates, Querying, Replies, Parking,
      Ownership, Stopping, Signal, lease, database
<1>5. Locking'
  BY SessionAssumption DEF IInv, TypeOK, Modes, LoopStates, Querying,
      Replies, Locking, Ownership, Parking, Signal, lease, database
<1>6. Stopping'
  BY DEF IInv, TypeOK, Modes, LoopStates, Querying, Replies, Stopping,
      Parking, NeverOverlapsItself, AtTheGate, Signal, lease, database
<1>7. CoveredUntilLost'
  BY SessionAssumption DEF IInv, TypeOK, Modes, LoopStates, Querying,
      Replies, CoveredUntilLost, Ownership, Locking, Stopping, Signal, lease,
      database
<1>8. PoolHoldsNoLock'
  BY SessionAssumption DEF IInv, TypeOK, Modes, LoopStates, Querying,
      Replies, PoolHoldsNoLock, Ownership, Parking, Locking, Pooled, Signal,
      lease, database
<1> QED
  BY <1>1, <1>2, <1>3, <1>4, <1>5, <1>6, <1>7, <1>8 DEF IInv

LEMMA StopLoopKeeps ==
  ASSUME IInv, NEW p \in Process, NEW l \in Loop, StopLoop(p, l)
  PROVE  IInv'
<1>1. TypeOK'
  BY SessionAssumption DEF IInv, TypeOK, Modes, LoopStates, Querying,
      Replies, Parking, Stopping, Ownership, StopLoop, lease, database
<1>2. NeverOverlapsItself'
  BY DEF IInv, TypeOK, Modes, LoopStates, Querying, Replies,
      NeverOverlapsItself, AtTheGate, StopLoop, lease, database
<1>3. Ownership'
  BY SessionAssumption DEF IInv, TypeOK, Modes, LoopStates, Querying,
      Replies, Ownership, Parking, StopLoop, lease, database
<1>4. Parking'
  BY DEF IInv, TypeOK, Modes, LoopStates, Querying, Replies, Parking,
      Ownership, Stopping, StopLoop, lease, database
<1>5. Locking'
  BY SessionAssumption DEF IInv, TypeOK, Modes, LoopStates, Querying,
      Replies, Locking, Ownership, Parking, StopLoop, lease, database
<1>6. Stopping'
  BY DEF IInv, TypeOK, Modes, LoopStates, Querying, Replies, Stopping,
      Parking, NeverOverlapsItself, AtTheGate, StopLoop, lease, database
<1>7. CoveredUntilLost'
  BY SessionAssumption DEF IInv, TypeOK, Modes, LoopStates, Querying,
      Replies, CoveredUntilLost, Ownership, Locking, Stopping, StopLoop,
      lease, database
<1>8. PoolHoldsNoLock'
  BY SessionAssumption DEF IInv, TypeOK, Modes, LoopStates, Querying,
      Replies, PoolHoldsNoLock, Ownership, Parking, Locking, Pooled,
      StopLoop, lease, database
<1> QED
  BY <1>1, <1>2, <1>3, <1>4, <1>5, <1>6, <1>7, <1>8 DEF IInv

LEMMA ExitKeeps ==
  ASSUME IInv, NEW p \in Process, Exit(p)
  PROVE  IInv'
<1>1. TypeOK'
  BY SessionAssumption DEF IInv, TypeOK, Modes, LoopStates, Querying,
      Replies, Parking, Stopping, Ownership, Exit, ProcessGone, JobDone
<1>2. NeverOverlapsItself'
  BY DEF IInv, TypeOK, Modes, LoopStates, Querying, Replies,
      NeverOverlapsItself, AtTheGate, Exit, ProcessGone, JobDone
<1>3. Ownership'
  BY SessionAssumption DEF IInv, TypeOK, Modes, LoopStates, Querying,
      Replies, Ownership, Parking, Exit, ProcessGone, JobDone
<1>4. Parking'
  BY DEF IInv, TypeOK, Modes, LoopStates, Querying, Replies, Parking,
      Ownership, Stopping, Exit, ProcessGone, JobDone
<1>5. Locking'
  BY SessionAssumption DEF IInv, TypeOK, Modes, LoopStates, Querying,
      Replies, Locking, Ownership, Parking, Exit, ProcessGone, JobDone
<1>6. Stopping'
  BY DEF IInv, TypeOK, Modes, LoopStates, Querying, Replies, Stopping,
      Parking, NeverOverlapsItself, AtTheGate, Exit, ProcessGone, JobDone
<1>7. CoveredUntilLost'
  BY SessionAssumption DEF IInv, TypeOK, Modes, LoopStates, Querying,
      Replies, CoveredUntilLost, Ownership, Locking, Stopping, Exit,
      ProcessGone, JobDone
<1>8. PoolHoldsNoLock'
  <2>1. \A t \in Session : Pooled(home[t], t)' => Pooled(home[t], t)
    BY DEF IInv, TypeOK, Pooled, Exit, ProcessGone, JobDone
  <2> QED
    BY <2>1 DEF IInv, PoolHoldsNoLock, Exit, ProcessGone
<1> QED
  BY <1>1, <1>2, <1>3, <1>4, <1>5, <1>6, <1>7, <1>8 DEF IInv

LEMMA CrashKeeps ==
  ASSUME IInv, NEW p \in Process, Crash(p)
  PROVE  IInv'
<1>1. TypeOK'
  BY SessionAssumption DEF IInv, TypeOK, Modes, LoopStates, Querying,
      Replies, Parking, Stopping, Ownership, Crash, ProcessGone, JobDone,
      Fault
<1>2. NeverOverlapsItself'
  BY DEF IInv, TypeOK, Modes, LoopStates, Querying, Replies,
      NeverOverlapsItself, AtTheGate, Crash, ProcessGone, JobDone, Fault
<1>3. Ownership'
  BY SessionAssumption DEF IInv, TypeOK, Modes, LoopStates, Querying,
      Replies, Ownership, Parking, Crash, ProcessGone, JobDone, Fault
<1>4. Parking'
  BY DEF IInv, TypeOK, Modes, LoopStates, Querying, Replies, Parking,
      Ownership, Stopping, Crash, ProcessGone, JobDone, Fault
<1>5. Locking'
  BY SessionAssumption DEF IInv, TypeOK, Modes, LoopStates, Querying,
      Replies, Locking, Ownership, Parking, Crash, ProcessGone, JobDone,
      Fault
<1>6. Stopping'
  BY DEF IInv, TypeOK, Modes, LoopStates, Querying, Replies, Stopping,
      Parking, NeverOverlapsItself, AtTheGate, Crash, ProcessGone, JobDone,
      Fault
<1>7. CoveredUntilLost'
  BY SessionAssumption DEF IInv, TypeOK, Modes, LoopStates, Querying,
      Replies, CoveredUntilLost, Ownership, Locking, Stopping, Crash,
      ProcessGone, JobDone, Fault
<1>8. PoolHoldsNoLock'
  <2>1. \A t \in Session : Pooled(home[t], t)' => Pooled(home[t], t)
    BY DEF IInv, TypeOK, Pooled, Crash, ProcessGone, JobDone
  <2> QED
    BY <2>1 DEF IInv, PoolHoldsNoLock, Crash, ProcessGone
<1> QED
  BY <1>1, <1>2, <1>3, <1>4, <1>5, <1>6, <1>7, <1>8 DEF IInv

LEMMA ConnectFailsKeeps ==
  ASSUME IInv, NEW p \in Process, ConnectFails(p)
  PROVE  IInv'
<1>1. faults' \in 0..MaxFaults
  BY SessionAssumption DEF IInv, TypeOK, ConnectFails, Fault
<1> QED
  BY <1>1, GateShutKeeps DEF ConnectFails, database

LEMMA ContendedKeeps ==
  ASSUME IInv, NEW p \in Process, Contended(p)
  PROVE  IInv'
<1>1. faults' \in 0..MaxFaults
  BY DEF IInv, TypeOK, Contended
<1> QED
  BY <1>1, GateShutKeeps DEF Contended, database

LEMMA AcquiredKeeps ==
  ASSUME IInv, NEW p \in Process, Acquired(p)
  PROVE  IInv'
  BY GateOpensKeeps DEF Acquired, database

LEMMA CheckedKeeps ==
  ASSUME IInv, NEW p \in Process, Checked(p)
  PROVE  IInv'
<1>1. CASE reply[p] = "yes"
  <2>1. client[p] = cur[p]
    BY DEF IInv, Parking, Checked
  <2>2. client' = [client EXCEPT ![p] = cur[p]]
    BY <1>1, <2>1 DEF IInv, TypeOK, Checked
  <2> QED
    BY <1>1, <2>2, GateOpensKeeps DEF Checked, database
<1>2. CASE reply[p] # "yes"
  <2>1. reply[p] = "no"
    BY <1>2 DEF IInv, TypeOK, Replies, Checked
  <2> QED
    BY <1>2, <2>1, RetryKeeps DEF Checked, database
<1> QED
  BY <1>1, <1>2

LEMMA QueryFailsKeeps ==
  ASSUME IInv, NEW p \in Process, QueryFails(p)
  PROVE  IInv'
<1>1. faults' \in 0..MaxFaults
  BY DEF IInv, TypeOK, QueryFails
<1>2. CASE pc[p] = "try"
  BY <1>1, <1>2, GateShutKeeps DEF QueryFails, database
<1>3. CASE pc[p] = "check"
  BY <1>3, RetryKeeps DEF QueryFails, database
<1> QED
  BY <1>2, <1>3 DEF QueryFails

(* Every step of the pipeline keeps the invariant. *)
LEMMA NextKeeps == IInv /\ [Next]_vars => IInv'
<1> SUFFICES ASSUME IInv, [Next]_vars
             PROVE  IInv'
  OBVIOUS
<1>1. CASE Next
  BY <1>1, TickKeeps, CycleEndsKeeps, EnsureBeginsKeeps, ConnectKeeps,
     ConnectFailsKeeps, ServerEvaluatesKeeps, AcquiredKeeps, ContendedKeeps,
     CheckedKeeps, QueryFailsKeeps, ReleaseBeginsKeeps, ReleaseEndsKeeps,
     ConnectionLostKeeps, BackendDiesKeeps, ClientNoticesKeeps,
     BackendReapedKeeps, PoolIdleTimeoutKeeps, BootKeeps, SignalKeeps,
     StopLoopKeeps, ExitKeeps, CrashKeeps DEF Next
<1>2. CASE UNCHANGED vars
  <2>1. TypeOK' /\ NeverOverlapsItself' /\ Ownership' /\ Parking'
    BY <1>2 DEF IInv, TypeOK, NeverOverlapsItself, AtTheGate, Ownership, Parking, vars
  <2>2. Locking' /\ Stopping'
    BY <1>2 DEF IInv, Locking, Stopping, vars
  <2>3. CoveredUntilLost' /\ PoolHoldsNoLock'
    BY <1>2 DEF IInv, CoveredUntilLost, PoolHoldsNoLock, Pooled, vars
  <2> QED
    BY <2>1, <2>2, <2>3 DEF IInv
<1> QED
  BY <1>1, <1>2

LEMMA Invariance == Spec => []IInv
<1>1. Init => IInv
  BY InitIInv
<1>2. IInv /\ [Next]_vars => IInv'
  BY NextKeeps
<1> QED
  BY <1>1, <1>2, PTL DEF Spec

(***************************************************************************)
(* The theorems.                                                           *)
(***************************************************************************)

(* Every variable of the pipeline keeps its type. *)
THEOREM TypeCorrect == Spec => []TypeOK
<1>1. IInv => TypeOK
  BY DEF IInv
<1> QED
  BY <1>1, Invariance, PTL

(* services/poller.ts: no loop ever has two cycles, and none is lost. *)
THEOREM LoopsNeverOverlap == Spec => []NeverOverlapsItself
<1>1. IInv => NeverOverlapsItself
  BY DEF IInv
<1> QED
  BY <1>1, Invariance, PTL

(* A running cycle has the lock behind it until its session is lost. *)
THEOREM CyclesAreCovered == Spec => []CoveredUntilLost
<1>1. IInv => CoveredUntilLost
  BY DEF IInv
<1> QED
  BY <1>1, Invariance, PTL

(* Cycles of two processes overlap only after a session has been lost. *)
THEOREM ExclusiveBetweenLosses == Spec => []OverlapNeedsLoss
<1>1. IInv => OverlapNeedsLoss
  <2> SUFFICES ASSUME IInv, NEW p \in Process, NEW q \in Process,
                      NEW l \in Loop, NEW m \in Loop, p # q,
                      loop[p][l] = "run", loop[q][m] = "run",
                      backend[grant[p][l]], backend[grant[q][m]]
               PROVE  FALSE
    BY DEF OverlapNeedsLoss
  <2>1. grant[p][l] # None /\ grant[q][m] # None
    BY DEF IInv, TypeOK
  <2>2. home[grant[p][l]] = p /\ home[grant[q][m]] = q
    BY <2>1 DEF IInv, Ownership
  <2>3. grant[p][l] = lock /\ grant[q][m] = lock
    BY DEF IInv, CoveredUntilLost
  <2> QED
    BY <2>2, <2>3
<1> QED
  BY <1>1, Invariance, PTL

(* No pooled session holds the lock. *)
THEOREM NoLeakedLock == Spec => []PoolHoldsNoLock
<1>1. IInv => PoolHoldsNoLock
  BY DEF IInv
<1> QED
  BY <1>1, Invariance, PTL

(* A process that has released the lease has nothing left of it. *)
THEOREM ReleaseIsFinal == Spec => []ReleasedForGood
<1>1. IInv => ReleasedForGood
  <2> SUFFICES ASSUME IInv, NEW p \in Process, mode[p] \in {"draining", "down"}
               PROVE  /\ client[p] = None /\ pc[p] = "idle" /\ queue[p] = << >>
                      /\ \A l \in Loop : loop[p][l] = "off"
                      /\ \A s \in Session : open[s] /\ home[s] = p => lock # s
    BY DEF ReleasedForGood
  <2>1. client[p] = None /\ pc[p] = "idle" /\ \A l \in Loop : loop[p][l] = "off"
    BY DEF IInv, Stopping
  <2>2. queue[p] = << >>
    BY <2>1, QueueMeansGate DEF IInv
  <2>3. cur[p] = None
    BY <2>1 DEF IInv, TypeOK, Querying
  <2>4. \A s \in Session : open[s] /\ home[s] = p => lock # s
    BY <2>1, <2>3, SessionAssumption DEF IInv, PoolHoldsNoLock, Pooled
  <2> QED
    BY <2>1, <2>2, <2>4
<1> QED
  BY <1>1, Invariance, PTL

(***************************************************************************)
(* The pipeline implements LeaderTerms: every step is a step of the terms  *)
(* or leaves them alone.                                                   *)
(***************************************************************************)

(* A step that changes neither the lock, nor who opened which session, nor
   which cycle runs under which session is no step of the terms. *)
LEMMA Unmoved ==
  ASSUME UNCHANGED <<lock, home, grant>>
  PROVE  [Terms!Next]_(Terms!vars)
  BY DEF Terms!vars

LEMMA ConnectStands ==
  ASSUME IInv, NEW p \in Process, NEW s \in Session, Connect(p, s)
  PROVE  [Terms!Next]_(Terms!vars)
<1>1. CASE Pooled(p, s)
  <2>1. home' = home
    BY <1>1 DEF IInv, TypeOK, Pooled, Connect
  <2> QED
    BY <2>1, Unmoved DEF Connect, worker
<1>2. CASE Unused(s)
  <2>1. s # lock
    BY <1>2, SessionAssumption DEF IInv, Locking, Unused
  <2>2. Terms!Stand(p, s)
    BY <1>2, <2>1 DEF Unused, Remembered, Connect, worker, Terms!Stand, Terms!InUse
  <2> QED
    BY <2>2 DEF Terms!Next
<1> QED
  BY <1>1, <1>2 DEF Connect

LEMMA EvaluationOpensOrCloses ==
  ASSUME IInv, NEW p \in Process, ServerEvaluates(p)
  PROVE  [Terms!Next]_(Terms!vars)
<1>1. UNCHANGED <<home, grant>> /\ cur[p] \in Session /\ cur[p] # None
  BY SessionAssumption DEF IInv, TypeOK, ServerEvaluates, worker
<1>2. CASE pc[p] = "try" /\ lock = None
  <2>1. lock' = cur[p]
    BY <1>2 DEF ServerEvaluates
  <2>2. Terms!Open(cur[p])
    BY <1>1, <1>2, <2>1 DEF Terms!Open
  <2> QED
    BY <1>1, <2>2 DEF Terms!Next
<1>3. CASE pc[p] = "unlock" /\ lock = cur[p]
  <2>1. lock' = None
    BY <1>3 DEF ServerEvaluates
  <2>2. Terms!Close
    BY <1>1, <1>3, <2>1 DEF Terms!Close
  <2> QED
    BY <2>2 DEF Terms!Next
<1>4. CASE ~(pc[p] = "try" /\ lock = None) /\ ~(pc[p] = "unlock" /\ lock = cur[p])
  <2>1. lock' = lock
    BY <1>4 DEF ServerEvaluates
  <2> QED
    BY <1>1, <2>1, Unmoved
<1> QED
  BY <1>2, <1>3, <1>4

LEMMA GateAdmits ==
  ASSUME IInv, NEW p \in Process, GateOpens(p), pc[p] \in {"try", "check"},
         UNCHANGED <<home, lock>>
  PROVE  [Terms!Next]_(Terms!vars)
<1> DEFINE h == Head(queue[p])
<1>1. queue[p] # << >> /\ TypeOK /\ NeverOverlapsItself
  BY DEF IInv, Stopping
<1>2. h \in Loop /\ loop[p][h] = "gate"
  BY <1>1, QueueHead DEF NeverOverlapsItself, AtTheGate
<1>3. grant[p][h] = None
  BY <1>1, <1>2 DEF TypeOK
<1>4. cur[p] \in Session /\ home[cur[p]] = p
  BY DEF IInv, TypeOK, Querying, Ownership
<1>5. Terms!Admit(p, h, cur[p])
  BY <1>2, <1>3, <1>4 DEF Terms!Admit, GateOpens
<1> QED
  BY <1>2, <1>4, <1>5 DEF Terms!Next

LEMMA LossCloses ==
  ASSUME IInv, NEW s \in Session, ServerDrops(s), UNCHANGED <<home, grant>>
  PROVE  [Terms!Next]_(Terms!vars)
<1>1. CASE lock = s
  <2>1. Terms!Close
    BY <1>1, SessionAssumption DEF ServerDrops, Terms!Close
  <2> QED
    BY <2>1 DEF Terms!Next
<1>2. CASE lock # s
  BY <1>2, Unmoved DEF ServerDrops
<1> QED
  BY <1>1, <1>2

LEMMA CycleFinishes ==
  ASSUME IInv, NEW p \in Process, NEW l \in Loop, CycleEnds(p, l)
  PROVE  [Terms!Next]_(Terms!vars)
<1>1. Terms!Finish(p, {l})
  BY DEF IInv, TypeOK, CycleEnds, database, Terms!Finish
<1> QED
  BY <1>1 DEF Terms!Next

LEMMA GoneFinishes ==
  ASSUME IInv, NEW p \in Process, ProcessGone(p)
  PROVE  [Terms!Next]_(Terms!vars)
<1>1. Terms!Finish(p, Loop)
  BY DEF IInv, TypeOK, ProcessGone, Terms!Finish
<1> QED
  BY <1>1 DEF Terms!Next

LEMMA StepsRefine == IInv /\ [Next]_vars => [Terms!Next]_(Terms!vars)
<1> SUFFICES ASSUME IInv, [Next]_vars
             PROVE  [Terms!Next]_(Terms!vars)
  OBVIOUS
<1>1. ASSUME NEW p \in Process, NEW l \in Loop, Tick(p, l)
      PROVE  [Terms!Next]_(Terms!vars)
  BY <1>1, Unmoved DEF Tick, database
<1>2. ASSUME NEW p \in Process, EnsureBegins(p)
      PROVE  [Terms!Next]_(Terms!vars)
  BY <1>2, Unmoved DEF EnsureBegins, worker, database
<1>3. ASSUME NEW p \in Process, ConnectFails(p) \/ Contended(p)
      PROVE  [Terms!Next]_(Terms!vars)
  BY <1>3, Unmoved DEF ConnectFails, Contended, GateShut, database
<1>4. ASSUME NEW p \in Process, Acquired(p)
      PROVE  [Terms!Next]_(Terms!vars)
  BY <1>4, GateAdmits DEF Acquired, database
<1>5. ASSUME NEW p \in Process, Checked(p)
      PROVE  [Terms!Next]_(Terms!vars)
  <2>1. CASE reply[p] = "yes"
    BY <1>5, <2>1, GateAdmits DEF Checked, database
  <2>2. CASE reply[p] # "yes"
    BY <1>5, <2>2, Unmoved DEF Checked, database
  <2> QED
    BY <2>1, <2>2
<1>6. ASSUME NEW p \in Process, QueryFails(p)
      PROVE  [Terms!Next]_(Terms!vars)
  BY <1>6, Unmoved DEF QueryFails, GateShut, database
<1>7. ASSUME NEW p \in Process, ReleaseBegins(p) \/ ReleaseEnds(p) \/ Boot(p) \/ Signal(p)
      PROVE  [Terms!Next]_(Terms!vars)
  BY <1>7, Unmoved DEF ReleaseBegins, ReleaseEnds, Boot, Signal, database
<1>8. ASSUME NEW p \in Process, NEW l \in Loop, StopLoop(p, l)
      PROVE  [Terms!Next]_(Terms!vars)
  BY <1>8, Unmoved DEF StopLoop, database
<1>9. ASSUME NEW s \in Session, ConnectionLost(s) \/ ClientNotices(s) \/ PoolIdleTimeout(s)
      PROVE  [Terms!Next]_(Terms!vars)
  BY <1>9, Unmoved DEF ConnectionLost, ClientNotices, PoolIdleTimeout, worker
<1>10. ASSUME NEW s \in Session, BackendDies(s) \/ BackendReaped(s)
       PROVE  [Terms!Next]_(Terms!vars)
  BY <1>10, LossCloses DEF BackendDies, BackendReaped, worker
<1>11. ASSUME NEW p \in Process, Exit(p) \/ Crash(p)
       PROVE  [Terms!Next]_(Terms!vars)
  BY <1>11, GoneFinishes DEF Exit, Crash
<1>12. CASE UNCHANGED vars
  BY <1>12, Unmoved DEF vars
<1> QED
  BY <1>1, <1>2, <1>3, <1>4, <1>5, <1>6, <1>7, <1>8, <1>9, <1>10, <1>11, <1>12,
     ConnectStands, EvaluationOpensOrCloses, CycleFinishes DEF Next

(* db/lease.ts delivers what LeaderTerms promises: terms never overlap, and
   every cycle works under a term its own process stood for. *)
THEOREM PipelineImplementsTerms == Spec => ImplementsTerms
<1>1. Init => Terms!Init
  BY DEF Init, Terms!Init
<1>2. IInv /\ [Next]_vars => [Terms!Next]_(Terms!vars)
  BY StepsRefine
<1> QED
  BY <1>1, <1>2, Invariance, PTL DEF Spec, ImplementsTerms, Terms!Spec
=================================================================================
