---------------------------- MODULE MarginAssessment ----------------------------
(***************************************************************************)
(* The margin assessment of a linear isolated position (risk/stage3): its  *)
(* equity, requirements and ratios over reduced rationals, the verdict on  *)
(* its maintenance and the price at which it would change.  An operation   *)
(* fails alone, and what depends on it fails with it.                      *)
(***************************************************************************)
EXTENDS ExactNumbers, Sequences

NoReason == Failure("none")
ZeroRational == Rational(0, 1)

(* A result: a value, or the reasons there is none. *)
ValidResult(x) == [status |-> "valid", value |-> x, reasons |-> << >>]
NoResult(status, reasons) == [status |-> status, value |-> NoReason, reasons |-> reasons]
Failing(code) == NoResult("calculation_error", <<code>>)
Result(x) == IF x \in Failures THEN Failing(x.code) ELSE ValidResult(x)
IsValid(r) == r.status = "valid"

Combine(Operation(_, _), a, b) ==
    IF ~IsValid(a) THEN a ELSE IF ~IsValid(b) THEN b ELSE Result(Operation(a.value, b.value))

Published(exact) == IF IsValid(exact) THEN Result(Publish(exact.value)) ELSE exact

Number(f) == Result(FromBinary64(f))

-------------------------------------------------------------------------------
(* validateStage3Input: the scope first, then what the one model demands. *)
Validated(request) ==
    LET scope == /\ request.kind = "linear_perp" /\ request.mode = "isolated"
                 /\ request.model = "generic" /\ request.version = "1"
        reasons == IF request.model # "generic" THEN <<"UNSUPPORTED_SCOPE", "FORMULA_UNKNOWN">>
                   ELSE IF request.version # "1" THEN <<"UNSUPPORTED_SCOPE", "FORMULA_UNVERIFIED">>
                   ELSE <<"UNSUPPORTED_SCOPE">>
    IN IF ~request.wellFormed \/ Compare(FromBinary64(request.maintenance), FromBinary64(request.initial)) >= 0
       THEN NoResult("invalid", << >>)
       ELSE IF ~scope THEN NoResult("insufficient_data", reasons)
       ELSE IF request.base = request.quote \/ request.settlement # request.quote
               \/ request.asOf # request.valuedAt
            THEN NoResult("invalid", << >>)
       ELSE ValidResult(request)

-------------------------------------------------------------------------------
(* What the cash and the unrealised profit come to. *)
Pnl(p) ==
    LET price == Number(p.price)
        entry == Number(p.entry)
        difference == IF p.side = "LONG" THEN Combine(Subtract, price, entry)
                                         ELSE Combine(Subtract, entry, price)
    IN Combine(Multiply, Number(p.qty), difference)

Equity(p) == Combine(Add, Number(p.cash), Pnl(p))

EntryNotional(p) == Combine(Multiply, Number(p.qty), Number(p.entry))
ValuationNotional(p) == Combine(Multiply, Number(p.qty), Number(p.price))
InitialMargin(p) == Combine(Multiply, Number(p.initial), ValuationNotional(p))
MaintenanceMargin(p) == Combine(Multiply, Number(p.maintenance), ValuationNotional(p))
MaintenanceBuffer(p) == Combine(Subtract, Equity(p), MaintenanceMargin(p))
InitialMarginSurplus(p) == Combine(Subtract, Equity(p), InitialMargin(p))

(* A ratio is asked for only of what is more than nothing; cash is never less. *)
PositiveDenominatorDivision(numerator, denominator, reason) ==
    LET order == Compare(denominator.value, ZeroRational)
    IN IF ~IsValid(denominator) THEN denominator
       ELSE IF reason = "ZERO_COLLATERAL" /\ order < 0 THEN Failing(Failed.code)
       ELSE IF order <= 0 THEN NoResult("not_applicable", <<reason>>)
       ELSE Combine(Divide, numerator, denominator)

MaintenanceToEquity(p) ==
    PositiveDenominatorDivision(MaintenanceMargin(p), Equity(p), "NON_POSITIVE_EQUITY")
EffectiveLeverage(p) ==
    PositiveDenominatorDivision(ValuationNotional(p), Equity(p), "NON_POSITIVE_EQUITY")
EntryLeverage(p) ==
    PositiveDenominatorDivision(EntryNotional(p), Number(p.cash), "ZERO_COLLATERAL")

-------------------------------------------------------------------------------
(* The verdict: exact, and published only with the two amounts it compares. *)
Classification(equity, maintenance, comparison) ==
    LET order == Compare(equity.value, maintenance.value)
        state == IF order > 0 THEN "above_threshold"
                 ELSE IF order < 0 THEN "below_threshold" ELSE "at_threshold"
        detected == order < 0 \/ (comparison = "lte" /\ order = 0)
    IN IF ~IsValid(equity) THEN equity
       ELSE IF ~IsValid(maintenance) THEN maintenance
       ELSE ValidResult([state |-> state, detected |-> detected])

ExactVerdict(p) == Classification(Equity(p), MaintenanceMargin(p), p.comparison)

Distinct(s) == SelectSeq([i \in DOMAIN s |-> [code |-> s[i], first |-> \A j \in 1..i - 1 : s[j] # s[i]]],
                         LAMBDA x : x.first)
Verdict(p) ==
    LET exact == ExactVerdict(p)
        reasons == Distinct(Published(Equity(p)).reasons \o Published(MaintenanceMargin(p)).reasons
                            \o exact.reasons)
    IN IF reasons = << >> THEN exact
       ELSE NoResult("calculation_error", [i \in DOMAIN reasons |-> reasons[i].code])

-------------------------------------------------------------------------------
(* The price at which the equity is what must be maintained; a long position whose
   cash pays for all of it has none. *)
NoRoot == Failure("flat-linear-long-cash-ge-entry-notional")
RootValue(p) ==
    LET long == p.side = "LONG"
        notional == EntryNotional(p)
        factor == IF long THEN Combine(Subtract, Result(Rational(1, 1)), Number(p.maintenance))
                          ELSE Combine(Add, Result(Rational(1, 1)), Number(p.maintenance))
        denominator == Combine(Multiply, Number(p.qty), factor)
        numerator == IF long THEN Combine(Subtract, notional, Number(p.cash))
                             ELSE Combine(Add, notional, Number(p.cash))
        positive(r) == Compare(r.value, ZeroRational) > 0
        operands == <<Number(p.qty), Number(p.entry), Number(p.cash), Number(p.maintenance),
                      notional, denominator>>
        bad == SelectSeq(operands, LAMBDA r : ~IsValid(r))
    IN IF bad # << >> THEN bad[1]
       ELSE IF ~positive(denominator) THEN Failing(Failed.code)
       ELSE IF ~IsValid(numerator) THEN numerator
       ELSE IF ~positive(numerator) THEN IF long THEN ValidResult(NoRoot) ELSE Failing(Failed.code)
       ELSE Combine(Divide, numerator, denominator)

LiquidationBoundary(p) ==
    LET exact == RootValue(p)
        published == Published(exact)
        verdict == ExactVerdict(p)
        boundary(kind, price) == ValidResult([kind |-> kind, price |-> price])
    IN IF ~IsValid(verdict) THEN verdict
       ELSE IF verdict.value.detected THEN boundary("already_breached", NoReason)
       ELSE IF ~IsValid(exact) THEN exact
       ELSE IF exact.value = NoRoot THEN boundary("unreachable", NoReason)
       ELSE IF ~IsValid(published) THEN published
       ELSE boundary("boundary", published.value)

-------------------------------------------------------------------------------
Severity == [valid |-> 0, not_applicable |-> 0, degraded |-> 1, insufficient_data |-> 2,
             calculation_error |-> 3]
WorstAssessmentStatus(statuses) ==
    LET worst == CHOOSE s \in statuses : \A t \in statuses : Severity[s] >= Severity[t]
    IN IF Severity[worst] # 0 THEN worst
       ELSE IF "valid" \in statuses THEN "valid" ELSE "not_applicable"

BuildMarginAssessment(p) ==
    LET metrics == [pnl |-> Published(Pnl(p)), equity |-> Published(Equity(p)),
                    initial |-> Published(InitialMargin(p)),
                    maintenance |-> Published(MaintenanceMargin(p)),
                    buffer |-> Published(MaintenanceBuffer(p)),
                    surplus |-> Published(InitialMarginSurplus(p)),
                    ratio |-> Published(MaintenanceToEquity(p)),
                    leverage |-> Published(EffectiveLeverage(p)),
                    entryLeverage |-> Published(EntryLeverage(p))]
    IN [metrics |-> metrics, verdict |-> Verdict(p), boundary |-> LiquidationBoundary(p),
        status |-> WorstAssessmentStatus({metrics[k].status : k \in DOMAIN metrics}
                       \cup {Verdict(p).status, LiquidationBoundary(p).status})]
================================================================================
