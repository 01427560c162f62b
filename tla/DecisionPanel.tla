----------------------------- MODULE DecisionPanel -----------------------------
(***************************************************************************)
(* Who decides what is published: the vote of the indicators               *)
(* (signals/consensus.ts), the fallback strategy beside it                 *)
(* (strategies/registry.ts), and how a rule earns a place                  *)
(* (strategies/candidate.repository.ts, lifecycle/promotion.config.ts,     *)
(* lifecycle/evidence.repository.ts, services/promotion-gate.ts).          *)
(*                                                                         *)
(* Weights and convictions are whole numbers of One.                       *)
(***************************************************************************)
EXTENDS Integers, Sequences, FiniteSets

One == 16
Direction == {"LONG", "SHORT"}
Opposite(direction) == IF direction = "LONG" THEN "SHORT" ELSE "LONG"

-------------------------------------------------------------------------------
(* calculateConsensus.  A vote has a signal and a raw weight; a config names
   the two models and the two floors. *)

(* clampWeight; what is not finite is given here as a number below zero. *)
ClampWeight(raw) == IF raw < 0 THEN 0 ELSE IF raw > One THEN One ELSE raw

(* Math.sqrt, of the weights that have a root in these units. *)
Root(w) == CHOOSE r \in 0..One : r * r = w * One

WeightOf(raw, model) ==
    LET w == ClampWeight(raw) IN
    CASE model = "continuous" -> w
      [] model = "binary"     -> IF w > 0 THEN One ELSE 0
      [] model = "sqrt"       -> Root(w)

Sum(f) ==
    LET upTo[i \in 0..Len(f)] == IF i = 0 THEN 0 ELSE upTo[i - 1] + f[i]
    IN upTo[Len(f)]

Tally(votes, signal, model) ==
    LET own == SelectSeq(votes, LAMBDA v : v.signal = signal)
        weights == [i \in DOMAIN own |-> WeightOf(own[i].weight, model)]
    IN [count |-> Len(own), weight |-> Sum(weights),
        weighted |-> Cardinality({i \in DOMAIN weights : weights[i] > 0})]

(* partitionPanel, by the places of the votes. *)
PartitionPanel(votes, direction) ==
    [supporting |-> {i \in DOMAIN votes : direction \in Direction /\ votes[i].signal = direction},
     opposing |-> {i \in DOMAIN votes :
                     direction \in Direction /\ votes[i].signal = Opposite(direction)},
     abstaining |-> {i \in DOMAIN votes : votes[i].signal = "NEUTRAL"}]

(* Math.round(100 * part / whole) *)
Percent(part, whole) == (200 * part + whole) \div (2 * whole)

(* The values the confidence may have: a Wilson bound is somewhere between
   nothing and the share it bounds. *)
Confidence(winning, losing, model) ==
    LET share == Percent(winning.weight, winning.weight + losing.weight) IN
    CASE model = "share"           -> {share}
      [] model = "wilson"          -> 0..share
      [] model = "mean_conviction" -> {Percent(winning.weight, winning.weighted * One)}

NoMajority(winning, config) == winning.weighted < config.minimumAgreeing
NoWeight(winning, losing) == winning.weight + losing.weight <= 0
HardlyConvinced(winning, config) ==
    winning.weight < config.minimumMeanConviction * winning.weighted

CalculateConsensus(votes, config) ==
    LET long == Tally(votes, "LONG", config.weightModel)
        short == Tally(votes, "SHORT", config.weightModel)
        winner == IF long.count > short.count THEN "LONG" ELSE "SHORT"
        winning == IF winner = "LONG" THEN long ELSE short
        losing == IF winner = "LONG" THEN short ELSE long
    IN IF \/ long.count = short.count
          \/ NoMajority(winning, config)
          \/ NoWeight(winning, losing)
          \/ HardlyConvinced(winning, config)
       THEN [signal |-> "NEUTRAL", confidence |-> {0}]
       ELSE [signal |-> winner,
             confidence |-> Confidence(winning, losing, config.confidenceModel)]

-------------------------------------------------------------------------------
(* createRegistry: a fallback is another strategy than the primary, and every
   strategy there is can say why it should work. *)
RegistryStands(primary, fallback, explained, strategies) ==
    fallback # primary /\ {primary, fallback} \subseteq strategies /\ explained = strategies

(* resolveSignal: the decisions of both, the mode the fallback runs in. *)
ResolveSignal(primary, fallback, mode) ==
    LET steps == primary = "NEUTRAL" /\ fallback # "NEUTRAL" /\ mode # "shadow"
    IN [published |-> IF steps THEN fallback ELSE primary,
        publishedBy |-> IF steps THEN "fallback" ELSE "primary",
        primary |-> primary, fallback |-> fallback,
        suppressed |-> primary = "NEUTRAL" /\ fallback # "NEUTRAL" /\ mode = "shadow"]

-------------------------------------------------------------------------------
(* tally of evidence.repository.ts: what signal_state and signal_outcome hold
   of a version.  A row of either is told apart by its key: the series, and for
   an outcome the horizon. *)
Tallied(states, outcomes, version, horizon) ==
    LET produced == {s \in states : s.version = version}
        judged == {o \in outcomes : /\ o.version = version /\ o.horizon = horizon
                                    /\ o.verdict \notin {"unknown", "expired"}}
        of(verdict) == Cardinality({o \in judged : o.verdict = verdict})
    IN [signals |-> Cardinality(produced), resolved |-> Cardinality(judged),
        correct |-> of("correct"), incorrect |-> of("incorrect"), flat |-> of("flat")]

(* evaluateShadow: a candidate's and the incumbent's tallies, the age of the
   shadow, and a margin in percent. *)
Outstanding(candidate, age, config) ==
    (IF candidate.signals < config.shadowMinimumSignals THEN {"signals"} ELSE {})
    \cup (IF age < config.shadowMinimum THEN {"time"} ELSE {})
    \cup (IF candidate.resolved < config.minimumSample THEN {"resolved"} ELSE {})

EvaluateShadow(candidate, incumbent, age, config) ==
    IF Outstanding(candidate, age, config) # {} THEN "too little"
    ELSE IF incumbent.resolved = 0 THEN "nothing to compare with"
    ELSE IF 100 * candidate.correct * incumbent.resolved <
                (100 * incumbent.correct + config.promotionMargin * incumbent.resolved)
                    * candidate.resolved
         THEN "behind" ELSE "ready"

-------------------------------------------------------------------------------
(* signal_strategy_version of one rule: rows in the order of their ids. *)
Stages == <<"candidate", "backtest", "walk-forward", "shadow", "approval", "production">>

(* NEXT_STAGE *)
CanTransition(from, to) ==
    /\ from # "retired"
    /\ to = "retired" \/ \E i \in 1..Len(Stages) - 1 : Stages[i] = from /\ Stages[i + 1] = to

(* current(): ORDER BY promoted_at DESC, id DESC *)
Current(rows) ==
    CHOOSE i \in DOMAIN rows : \A j \in DOMAIN rows :
        rows[j].at < rows[i].at \/ (rows[j].at = rows[i].at /\ j <= i)

(* createEvidenceGate asks for evidence of a named version, for approval. *)
GatePasses(to, named, verdict) == to = "approval" => named /\ verdict = "ready"

(* promote() is granted ... *)
MayPromote(rows, to, reason, named, verdict) ==
    /\ reason
    /\ GatePasses(to, named, verdict)
    /\ IF rows = << >> THEN to = "candidate" ELSE CanTransition(rows[Current(rows)].stage, to)

(* ... and writes a row, or retires the one there is. *)
Promoted(rows, to, at) ==
    IF to = "retired" THEN [rows EXCEPT ![Current(rows)].stage = "retired"]
    ELSE Append(rows, [stage |-> to, at |-> at])
================================================================================
