------------------------------ MODULE LeaderTerms ------------------------------
(***************************************************************************)
(* What the market lease promises, without sessions, queries or timers.    *)
(*                                                                         *)
(* Leadership comes in terms.  At most one term is open; a term belongs to *)
(* the one process that stood for it; a new term opens only when none is   *)
(* open; and every cycle of the market pipeline works under a term its own *)
(* process stood for.  A term may close under a cycle that is still        *)
(* running: the lease is a gate consulted before a cycle, not a fence      *)
(* around its writes, and this specification promises no more than that.   *)
(***************************************************************************)
CONSTANTS Process, Loop, Term, None

VARIABLES
    term,       \* the open term, or None
    owner,      \* owner[t]: the process that stood for t last
    work        \* work[p][l]: the term loop l of p works under, or None

vars == <<term, owner, work>>

InUse(t) == \E p \in Process, l \in Loop : work[p][l] = t

Init ==
    /\ term = None
    /\ owner \in [Term -> Process]
    /\ work = [p \in Process |-> [l \in Loop |-> None]]

(* A process stands for a term nobody leads or works under. *)
Stand(p, t) ==
    /\ t # term
    /\ ~InUse(t)
    /\ owner' = [owner EXCEPT ![t] = p]
    /\ UNCHANGED <<term, work>>

(* A term opens only when no other is open. *)
Open(t) ==
    /\ term = None
    /\ term' = t
    /\ UNCHANGED <<owner, work>>

Close ==
    /\ term # None
    /\ term' = None
    /\ UNCHANGED <<owner, work>>

(* The gate lets one cycle of p through, under a term p stood for. *)
Admit(p, l, t) ==
    /\ owner[t] = p
    /\ work[p][l] = None
    /\ work' = [work EXCEPT ![p][l] = t]
    /\ UNCHANGED <<term, owner>>

(* Cycles of p end: one at a time, or all of them in a crash. *)
Finish(p, ls) ==
    /\ work' = [work EXCEPT ![p] = [l \in Loop |->
                    IF l \in ls THEN None ELSE work[p][l]]]
    /\ UNCHANGED <<term, owner>>

Next ==
    \/ \E p \in Process, t \in Term : Stand(p, t)
    \/ \E t \in Term : Open(t)
    \/ Close
    \/ \E p \in Process, l \in Loop, t \in Term : Admit(p, l, t)
    \/ \E p \in Process, ls \in SUBSET Loop : Finish(p, ls)

Spec == Init /\ [][Next]_vars
================================================================================
