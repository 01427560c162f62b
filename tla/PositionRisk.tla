------------------------------ MODULE PositionRisk ------------------------------
(***************************************************************************)
(* The risk report of one position (risk/report.ts): its metrics           *)
(* (position-math.ts, linear-pnl.ts, inverse-pnl.ts), whether its margin   *)
(* is violated, where it would be liquidated (liquidation-contract.ts,     *)
(* margin-rules.ts) and how far that is.  Every amount is a float; what    *)
(* the code computes exactly is exact here, and what it computes with the  *)
(* operators of the language is rounded after each.                        *)
(***************************************************************************)
EXTENDS ExactNumbers, Sequences

CONSTANTS Tolerance,    \* of a notional, relative: 1e-6
          Slack         \* of the notional of a spot position, absolute: 1e-9

NoReason == Failure("none")
One == Float(2^(Precision - 1), 1 - Precision)
Hundred == Exact(100, 1, 0)
Negated(f) == [f EXCEPT !.s = -@]
ByItsSide(side, f) == IF side = "LONG" THEN f ELSE Negated(f)

(* An operation of the language: what is too large is infinite, what is too small is
   nothing, and what divides by nothing is not finite either. *)
Infinite == Failure("Infinity")
Native(v) ==
    LET rounded == RoundExact(v)
    IN IF Valid(rounded) THEN rounded
       ELSE IF LeadingExponent(Magnitude(v.n), v.d) + v.e > 0 THEN Infinite ELSE Zero
FloatMinus(a, b) ==
    IF a = Infinite THEN Infinite ELSE Native(ExactSubtract(ExactNumber(a), ExactNumber(b)))
FloatOver(a, b) ==
    IF a = Infinite \/ b = Zero THEN Infinite ELSE Native(ExactDivide(ExactNumber(a), ExactNumber(b)))
FloatTimes(a, v) == IF a = Infinite THEN Infinite ELSE Native(ExactMultiply(ExactNumber(a), v))
Distance(a, b) == LET gap == FloatMinus(a, b) IN [gap EXCEPT !.s = Magnitude(@)]

-------------------------------------------------------------------------------
(* MathValue: a number, or the status and the reason of there being none. *)
Value(x) == [value |-> x, status |-> "valid", reason |-> "none"]
NoValue(status, reason) == [value |-> NoReason, status |-> status, reason |-> reason]
Insufficient(reason) == NoValue("insufficient_data", reason)
NotApplicable(reason) == NoValue("not_applicable", reason)
Overflowed == NoValue("calculation_error", Overflow.code)

Checked(x) == IF Valid(x) THEN Value(x) ELSE Overflowed
Rounded(v) == Checked(RoundExact(v))
FiniteOrOverflow(x) == IF x = Infinite THEN Overflowed ELSE Value(x)

Times(a, b) == ExactMultiply(ExactNumber(a), ExactNumber(b))
(* v as a percentage of f, rounded once *)
PercentOf(v, f) == Rounded(ExactDivide(ExactMultiply(v, Hundred), ExactNumber(f)))

IsInverse(p) == p.kind = "inverse_perp"
MissingInverse == "MISSING_INVERSE_CONTRACT_PARAMS"

AbsoluteNotionalQuote(p) ==
    IF ~IsInverse(p) THEN Checked(FiniteProduct(p.qty, p.entry, One))
    ELSE IF p.size = NoReason THEN Insufficient(MissingInverse)
    ELSE Checked(FiniteProduct(p.size, p.qty, One))

AbsoluteExposureBaseUnits(p) ==
    IF ~IsInverse(p) THEN Value(p.qty)
    ELSE IF p.size = NoReason THEN Insufficient(MissingInverse)
    ELSE Rounded(ExactDivide(Times(p.size, p.qty), ExactNumber(p.entry)))

DirectedExposureQuote(p) ==
    LET absolute == AbsoluteNotionalQuote(p)
    IN IF absolute.value = NoReason THEN absolute ELSE Value(ByItsSide(p.side, absolute.value))

LinearPnlExact(p, exit) ==
    ExactMultiply(ExactSubtract(ExactNumber(exit), ExactNumber(p.entry)),
                  ExactNumber(ByItsSide(p.side, p.qty)))

InversePnlExact(p, exit) ==
    LET notional == Times(ByItsSide(p.side, p.qty), p.size)
        base == ExactDivide(ExactMultiply(notional, ExactSubtract(ExactNumber(exit), ExactNumber(p.entry))),
                            Times(p.entry, exit))
    IN [base |-> base, quote |-> ExactMultiply(base, ExactNumber(p.price))]

(* No base figure, of a linear position, is the value NoReason. *)
PotentialPnl(p, exit) ==
    LET notional == AbsoluteNotionalQuote(p)
        percent(v) == IF notional.value = NoReason THEN notional ELSE PercentOf(v, notional.value)
        nothing(m) == [quote |-> m, percent |-> m, base |-> m]
    IN IF exit = NoReason THEN nothing(NotApplicable("EXIT_PRICE_NOT_PROVIDED"))
       ELSE IF ~IsInverse(p) THEN
            LET exact == LinearPnlExact(p, exit)
            IN [quote |-> Rounded(exact), percent |-> percent(exact), base |-> NoReason]
       ELSE IF p.size = NoReason \/ p.settles = "unknown" THEN nothing(Insufficient(MissingInverse))
       ELSE LET exact == InversePnlExact(p, exit)
            IN [quote |-> Rounded(exact.quote), percent |-> percent(exact.quote),
                base |-> IF p.settles = "base" THEN Rounded(exact.base)
                         ELSE NotApplicable("INVERSE_SETTLEMENT_NOT_BASE")]

InvalidationDistance(p) ==
    LET adverse == IF p.side = "LONG" THEN FloatMinus(p.entry, p.level) ELSE FloatMinus(p.level, p.entry)
        absolute == Distance(p.level, p.entry)
        both(m) == [absolute |-> m, percent |-> m]
    IN IF p.level = NoReason THEN both(NotApplicable("INVALIDATION_LEVEL_NOT_PROVIDED"))
       ELSE IF adverse.s < 0 THEN both(Insufficient("INVALIDATION_LEVEL_CONTRADICTS_SIDE"))
       ELSE [absolute |-> Value(absolute),
             percent |-> FiniteOrOverflow(FloatTimes(FloatOver(absolute, p.entry), Hundred))]

(* A distance in ATRs, which are fractions of a price. *)
InAtrs(gap, price, atr) ==
    LET normalization == FloatTimes(atr, ExactNumber(price))
    IN IF normalization # Infinite THEN FloatOver(gap, normalization)
       ELSE FloatOver(FloatOver(gap, price), atr)

InvalidationAtrDistance(p) ==
    LET absolute == InvalidationDistance(p).absolute
    IN IF absolute.value = NoReason THEN absolute
       ELSE IF p.atr = Zero THEN Insufficient("ATR_UNUSABLE")
       ELSE FiniteOrOverflow(InAtrs(absolute.value, p.entry, p.atr))

(* Twice the fee, the slippage and the reserve, and once the spread. *)
EstimatedRoundTripCost(notional, costs) ==
    LET twice == ExactAdd(ExactAdd(ExactNumber(costs.fee), ExactNumber(costs.slippage)),
                          ExactNumber(costs.reserve))
        rate == ExactAdd(ExactMultiply(Exact(2, 1, 0), twice), ExactNumber(costs.spread))
    IN [quote |-> Rounded(ExactMultiply(ExactNumber(notional), rate)),
        percent |-> Rounded(ExactMultiply(rate, Hundred))]

FundingAvailability(p) ==
    IF p.kind = "spot" THEN NotApplicable("FUNDING_NOT_APPLICABLE")
    ELSE IF p.funding = NoReason THEN NoValue("degraded", "UNKNOWN_FUNDING")
    ELSE NoValue("valid", "none")

HoldingCost(p) ==
    LET basis == IF IsInverse(p) THEN p.size ELSE p.price
    IN IF FundingAvailability(p).status # "valid" THEN FundingAvailability(p)
       ELSE IF basis = NoReason THEN Insufficient(MissingInverse)
       ELSE Checked(FiniteProduct(ByItsSide(p.side, p.funding), basis, p.qty))

-------------------------------------------------------------------------------
(* Rules that are wrong, that are of a contract no formula is known for, or that
   nobody has reviewed. *)
MarginRulesReadiness(rules, quote) ==
    LET incomplete(reason) == [status |-> "incomplete", reason |-> reason]
        inside(rate) == ExactSubtract(ExactNumber(rate), Exact(1, 1, 0)).n < 0 /\ rate.s > 0
    IN IF rules.currency # quote THEN incomplete("MARGIN_RULES_MISMATCH")
       ELSE IF ~inside(rules.maintenance) \/ ~inside(rules.initial)
            THEN incomplete("IMPOSSIBLE_LIQUIDATION_GEOMETRY")
       ELSE IF rules.kind = "linear_perp" /\ ~rules.confirmed
            THEN incomplete("LIQUIDATION_FORMULA_UNCONFIRMED")
       ELSE IF rules.kind = "inverse_perp"
            THEN incomplete(IF rules.size = NoReason \/ rules.settles = "unknown" THEN MissingInverse
                            ELSE "LIQUIDATION_FORMULA_UNCONFIRMED")
       ELSE IF rules.draft THEN [status |-> "draft", reason |-> "MARGIN_RULES_DRAFT"]
       ELSE [status |-> "ok", reason |-> "none"]

NoEstimate(status, reason) ==
    [status |-> status, reason |-> reason, price |-> NoReason, loss |-> NoReason]

(* Where what is left of the collateral is what its notional must maintain. *)
LinearIsolatedLiquidationPrice(p) ==
    LET long == p.side = "LONG"
        notional == Times(p.entry, p.qty)
        collateral == ExactNumber(p.collateral)
        rate == ExactNumber(p.rules.maintenance)
        numerator == IF long THEN ExactSubtract(notional, collateral) ELSE ExactAdd(notional, collateral)
        factor == IF long THEN ExactSubtract(ExactNumber(One), rate) ELSE ExactAdd(ExactNumber(One), rate)
        exact == ExactDivide(numerator, ExactMultiply(ExactNumber(p.qty), factor))
        gap == IF long THEN ExactSubtract(ExactNumber(p.entry), exact)
                       ELSE ExactSubtract(exact, ExactNumber(p.entry))
        price == Rounded(exact)
        loss == IF gap.n <= 0 THEN Value(Zero) ELSE Rounded(ExactMultiply(gap, ExactNumber(p.qty)))
    IN IF long /\ numerator.n <= 0 THEN NoEstimate("not_applicable", "LIQUIDATION_NOT_REACHABLE")
       ELSE IF {price.status, loss.status} # {"valid"} THEN NoEstimate("calculation_error", Overflow.code)
       ELSE [status |-> "valid", reason |-> "none", price |-> price.value, loss |-> loss.value]

AssessLiquidation(p) ==
    LET readiness == MarginRulesReadiness(p.rules, p.quote)
        computed == LinearIsolatedLiquidationPrice(p)
        insufficient(reason) == NoEstimate("insufficient_data", reason)
    IN IF p.kind = "spot" THEN NoEstimate("not_applicable", "MARGIN_NOT_APPLICABLE")
       ELSE IF p.rules = NoReason THEN insufficient("MARGIN_RULES_MISSING")
       ELSE IF p.mode = "cross" THEN insufficient("CROSS_MARGIN_NOT_ASSESSABLE")
       ELSE IF IsInverse(p)
            THEN insufficient(IF p.rules.size = NoReason \/ p.rules.settles = "unknown" THEN MissingInverse
                              ELSE "LIQUIDATION_FORMULA_UNCONFIRMED")
       ELSE IF readiness.status = "incomplete" THEN insufficient(readiness.reason)
       ELSE IF p.collateral = NoReason THEN insufficient("IMPOSSIBLE_LIQUIDATION_GEOMETRY")
       ELSE IF readiness.status = "draft" /\ computed.status = "valid"
            THEN [computed EXCEPT !.status = "degraded", !.reason = readiness.reason]
       ELSE computed

PercentDistanceToLiquidation(p, liquidation) ==
    LET gap == IF p.side = "LONG" THEN FloatMinus(p.price, liquidation) ELSE FloatMinus(liquidation, p.price)
    IN FloatTimes(FloatOver(gap, p.price), Hundred)

AtrDistanceToLiquidation(p, liquidation) == InAtrs(Distance(p.price, liquidation), p.price, p.atr)

-------------------------------------------------------------------------------
Severity == [valid |-> 0, not_applicable |-> 0, degraded |-> 1, insufficient_data |-> 2,
             calculation_error |-> 3]

WorstStatus(statuses) ==
    LET worst == CHOOSE s \in statuses : \A t \in statuses : Severity[s] >= Severity[t]
    IN IF statuses = {} THEN "valid"
       ELSE IF Severity[worst] # 0 THEN worst
       ELSE IF "valid" \in statuses THEN "valid" ELSE "not_applicable"

(* A metric refuses to be valid without a value, or otherwise without a reason. *)
Metric(m) == IF m.value = Infinite THEN Overflowed ELSE m
Consistent(m) == (m.status = "valid" => m.value # NoReason) /\ (m.status # "valid" => m.reason # "none")

(* The first reason there is, after those of errors. *)
SectionReason(metrics) ==
    LET failed == SelectSeq(metrics, LAMBDA m : m.status = "calculation_error")
        reasoned == SelectSeq(metrics, LAMBDA m : m.reason # "none")
    IN IF failed # << >> THEN failed[1].reason
       ELSE IF reasoned # << >> THEN reasoned[1].reason ELSE "none"

StatusesOf(metrics) == {metrics[i].status : i \in DOMAIN metrics}

(* Where there is no PnL for want of the contract's terms, there is no return. *)
ReturnOnMargin(p) ==
    PercentOf(IF IsInverse(p) THEN InversePnlExact(p, p.price).quote ELSE LinearPnlExact(p, p.price),
              p.collateral)

PositionMetrics(p) ==
    LET unrealized == PotentialPnl(p, p.price)
        potential == PotentialPnl(p, p.exit)
        notional == AbsoluteNotionalQuote(p)
        cost == IF notional.value = NoReason THEN [quote |-> notional, percent |-> notional]
                ELSE EstimatedRoundTripCost(notional.value, p.costs)
        returns == /\ p.kind # "spot" /\ p.collateral # NoReason
                   /\ unrealized.quote.status \in {"valid", "calculation_error"}
        invalidation == InvalidationDistance(p)
    IN <<unrealized.quote, unrealized.percent>>
       \o (IF returns THEN <<ReturnOnMargin(p)>> ELSE << >>)
       \o <<notional, AbsoluteExposureBaseUnits(p), DirectedExposureQuote(p),
            potential.quote, potential.percent>>
       \o (IF potential.base = NoReason THEN << >> ELSE <<potential.base>>)
       \o <<cost.quote, cost.percent, invalidation.absolute, invalidation.percent,
            InvalidationAtrDistance(p), HoldingCost(p)>>

(* The margin is violated where the equity is less than what must be maintained,
   compared exactly; unless both can be published, nothing is said. *)
MarginViolation(p) ==
    LET readiness == MarginRulesReadiness(p.rules, p.quote)
        section(status, reason, detected) == [status |-> status, reason |-> reason, detected |-> detected]
        equity == ExactAdd(ExactNumber(p.collateral), LinearPnlExact(p, p.price))
        maintenance == ExactMultiply(ExactNumber(p.rules.maintenance), Times(p.price, p.qty))
        published == /\ ~IsInverse(p) /\ p.collateral # NoReason
                     /\ Rounded(equity).status = "valid" /\ Rounded(maintenance).status = "valid"
        detected == IF ExactSubtract(equity, maintenance).n < 0 THEN "yes" ELSE "no"
    IN IF p.kind = "spot" THEN section("not_applicable", "MARGIN_NOT_APPLICABLE", "unknown")
       ELSE IF p.rules = NoReason THEN section("insufficient_data", "MARGIN_RULES_MISSING", "unknown")
       ELSE IF p.mode = "cross" THEN section("insufficient_data", "CROSS_MARGIN_NOT_ASSESSABLE", "unknown")
       ELSE IF readiness.status = "incomplete" THEN section("insufficient_data", readiness.reason, "unknown")
       ELSE IF ~published THEN section("calculation_error", Overflow.code, "unknown")
       ELSE IF readiness.status = "draft" THEN section("degraded", readiness.reason, detected)
       ELSE section("valid", "none", detected)

Distances(p) ==
    LET estimate == AssessLiquidation(p)
        same == NoValue(estimate.status, estimate.reason)
    IN IF estimate.price = NoReason THEN [percent |-> same, atr |-> same]
       ELSE [percent |-> Metric(Value(PercentDistanceToLiquidation(p, estimate.price))),
             atr |-> IF p.atr = Zero THEN Insufficient("ATR_UNUSABLE")
                     ELSE Metric(Value(AtrDistanceToLiquidation(p, estimate.price)))]

Warnings(p) ==
    LET margin == MarginViolation(p)
        told == margin.reason \notin {"none", Overflow.code, "MARGIN_NOT_APPLICABLE"}
    IN {"PORTFOLIO_NOT_IMPLEMENTED"}
       \cup (IF told THEN {margin.reason} ELSE {})
       \cup (IF margin.status = "calculation_error" /\ p.rules.draft THEN {"MARGIN_RULES_DRAFT"} ELSE {})
       \cup ({InvalidationDistance(p).absolute.reason} \cap {"INVALIDATION_LEVEL_CONTRADICTS_SIDE"})
       \cup ({InvalidationAtrDistance(p).reason, Distances(p).atr.reason} \cap {"ATR_UNUSABLE"})
       \cup ({FundingAvailability(p).reason} \cap {"UNKNOWN_FUNDING"})
       \cup (IF p.scenarios THEN {"STRESS_RESULTS_NOT_COMPUTED"} ELSE {})
       \cup (IF p.usable THEN {} ELSE {"DATA_QUALITY_LOW"})

BuildRiskReport(p) ==
    LET metrics == PositionMetrics(p)
        distances == Distances(p)
        position == [status |-> WorstStatus(StatusesOf(metrics)), reason |-> SectionReason(metrics),
                     metrics |-> metrics]
        sections == {position.status, "not_applicable", MarginViolation(p).status,
                     AssessLiquidation(p).status, distances.percent.status, distances.atr.status,
                     IF p.scenarios THEN "degraded" ELSE "not_applicable",
                     IF p.usable THEN "valid" ELSE "degraded"}
    IN [position |-> position, margin |-> MarginViolation(p), liquidation |-> AssessLiquidation(p),
        distances |-> distances, warnings |-> Warnings(p), status |-> WorstStatus(sections)]

-------------------------------------------------------------------------------
(* RiskInputSchema, of what a report depends on here: a notional that agrees with
   the quantity, margin where there is one to have, and rules of this contract. *)
NotionalAgrees(p) ==
    LET computed == AbsoluteNotionalQuote(p).value
        delta == ExactSubtract(ExactNumber(computed), ExactNumber(p.notional))
        native == FloatTimes(p.qty, ExactNumber(p.entry))
        atMost(a, v) == ExactSubtract(a, v).n <= 0
        relative == Times(Tolerance, p.notional)
    IN CASE IsInverse(p) -> \/ p.size = NoReason
                            \/ /\ computed # NoReason
                               /\ LET share == FloatOver(Distance(computed, p.notional), p.notional)
                                  IN share # Infinite /\ atMost(ExactNumber(share), ExactNumber(Tolerance))
         [] p.kind = "linear_perp" ->
               computed # NoReason /\ atMost([delta EXCEPT !.n = Magnitude(@)], relative)
         [] OTHER -> /\ native # Infinite
                     /\ LET gap == ExactNumber(Distance(native, p.notional))
                        IN atMost(gap, ExactNumber(Slack)) \/ atMost(gap, relative)

RulesStand(p) ==
    /\ p.rules.kind = p.kind /\ (p.kind # "spot" => p.rules.mode = p.mode)
    /\ ExactSubtract(ExactNumber(p.rules.maintenance), ExactNumber(p.rules.initial)).n < 0
    /\ p.rules.kind = "linear_perp" => p.rules.confirmed

RiskInput(p) ==
    /\ NotionalAgrees(p)
    /\ IsInverse(p) => p.quote = "USD"
    /\ IF p.kind = "spot" THEN p.mode = "none" /\ p.collateral = NoReason
       ELSE p.mode # "none" /\ p.collateral # NoReason
    /\ p.rules # NoReason => RulesStand(p)
================================================================================
