------------------------------ MODULE RiskChecks -------------------------------
(* What ExactNumbers says of rounding and of rationals, and what the two calculators say
   of positions, over floats of three bits of precision. *)
EXTENDS Integers, Sequences

LOCAL EN == INSTANCE ExactNumbers WITH Precision <- 3, LowExponent <- -3, HighExponent <- 2,
                                       Bound <- 40

(* Numbers in units of a quarter of the least float. *)
LOCAL Units(f) == f.s * 2^(f.e + 5)
LOCAL Floats == EN!Floats
LOCAL Beyond == {EN!Float(4, 1), EN!Float(-4, 1)}

LOCAL Distance(f, n, d) == EN!Magnitude(Units(f) * d - n)
(* The nearest float to n / d units, of two the one with an even significand;
   what would be beyond the greatest, or nothing while it is something, fails. *)
LOCAL IsNearest(f, n, d) ==
    \A g \in Floats \cup Beyond : \/ Distance(f, n, d) < Distance(g, n, d)
                                  \/ Distance(f, n, d) = Distance(g, n, d) /\ (f.s % 2 = 0 \/ f = g)
LOCAL Nearest(n, d) ==
    LET f == CHOOSE f \in Floats \cup Beyond : IsNearest(f, n, d)
    IN IF f \in Beyond \/ (f = EN!Zero /\ n # 0) THEN EN!Overflow ELSE f

(* A rational is rounded once, to the nearest float, whatever form it has. *)
ASSUME RoundsToTheNearest ==
    \A n \in -34..34, d \in 1..7, e \in -5..0 :
        LET rounded == EN!RoundExact(EN!Exact(n, d, e))
        IN /\ rounded = Nearest(n * 2^(e + 5), d)
           /\ rounded = EN!RoundExact(EN!Exact(2 * n, d, e - 1))
           /\ rounded = EN!RoundExact(EN!Exact(3 * n, 3 * d, e))

(* A float is its own rounding, and the product of three is rounded once: it is
   that of the exact product, in whatever order they come, where the product of
   two would already be too large or too small to be one. *)
ASSUME ProductsRoundOnce ==
    /\ \A f \in Floats : EN!RoundExact(EN!ExactNumber(f)) = f
    /\ \A a, b, c \in Floats :
          LET product == EN!FiniteProduct(a, b, c)
              pair == EN!ExactMultiply(EN!ExactNumber(a), EN!ExactNumber(b))
          IN /\ product = EN!RoundExact(EN!ExactMultiply(pair, EN!ExactNumber(c)))
             /\ product \in Floats \cup {EN!Overflow}
    /\ \E a, b, c \in Floats :
          /\ EN!Valid(EN!FiniteProduct(a, b, c))
          /\ ~EN!Valid(EN!RoundExact(EN!ExactMultiply(EN!ExactNumber(a), EN!ExactNumber(b))))

LOCAL Few == {EN!Exact(n, d, e) : n \in -3..3, d \in 1..3, e \in {-1, 0, 2}}
(* Equality of n 2^e / d, the exponents at least -3. *)
LOCAL SameValue(v, w) == v.n * 2^(v.e + 3) * w.d = w.n * 2^(w.e + 3) * v.d

(* Sums undo differences and quotients undo products, and a denominator stays
   positive, as rounding demands. *)
ASSUME ExactlyUndone ==
    \A a, b \in Few :
        /\ SameValue(EN!ExactAdd(EN!ExactSubtract(a, b), b), a)
        /\ SameValue(EN!ExactSubtract(a, b), EN!ExactMultiply(EN!Exact(-1, 1, 0), EN!ExactSubtract(b, a)))
        /\ b.n # 0 => /\ SameValue(EN!ExactMultiply(EN!ExactDivide(a, b), b), a)
                      /\ EN!ExactDivide(a, b).d > 0

LOCAL Parts == -13..13
LOCAL Reduced == {EN!Rational(n, d) : n \in -4..4, d \in 1..4}

(* A ratio has one form: equal ratios are the same rational, reduced and with a
   positive denominator, and the comparison orders them as their values. *)
ASSUME OneFormOfARatio ==
    /\ \A n, d \in Parts :
          LET r == EN!Rational(n, d) IN
          IF d = 0 THEN r = EN!Failed
          ELSE /\ r.d > 0 /\ r.n * d = n * r.d
               /\ r = EN!Rational(-n, -d) /\ r = EN!Rational(3 * n, 3 * d)
    /\ \A a, b \in Reduced : (EN!Compare(a, b) = 0) = (a = b)
    /\ \A f \in Floats : f = EN!Zero \/ f.e > 0 \/ EN!FromBinary64(f) = EN!Normalize(Units(f), 32)

(* Where no part of a calculation outgrows its bound, the laws of fractions hold;
   where one does, the failure says so, and never a wrong number. *)
ASSUME FractionsAreAField ==
    \A a, b \in Reduced :
        /\ EN!Add(a, b) = EN!Add(b, a)
        /\ EN!Subtract(a, b) \notin EN!Failures => EN!Add(EN!Subtract(a, b), b) = a
        /\ b.n # 0 /\ EN!Divide(a, b) \notin EN!Failures => EN!Multiply(EN!Divide(a, b), b) = a
        /\ b.n = 0 => EN!Divide(a, b) = EN!Failed
        /\ EN!Subtract(a, b) \notin EN!Failures =>
              EN!Compare(a, b) = EN!Compare(EN!Subtract(a, b), EN!Rational(0, 1))

(* The two calculators round alike: stage 3 publishes the float that stage 1
   rounds to, and tells of what does not fit whether it was too large or too small. *)
ASSUME BothRoundAlike ==
    \A n \in -39..39, d \in 1..39 :
        LET r == EN!Rational(n, d)
            published == EN!Publish(r)
            rounded == EN!RoundExact(EN!Exact(n, d, 0))
        IN IF EN!Valid(rounded) THEN published = rounded
           ELSE published = IF EN!Magnitude(n) > d THEN EN!TooLarge ELSE EN!TooSmall

--------------------------------------------------------------------------------
LOCAL PR == INSTANCE PositionRisk WITH Precision <- 3, LowExponent <- -5, HighExponent <- 8,
                                       Bound <- 2^20, Tolerance <- [s |-> 0, e |-> 0],
                                       Slack <- [s |-> 1, e |-> -5]
LOCAL MA == INSTANCE MarginAssessment WITH Precision <- 3, LowExponent <- -5, HighExponent <- 8,
                                           Bound <- 2^20

LOCAL NoReason == PR!NoReason
LOCAL Half == PR!Float(4, -3)
LOCAL Two == PR!Float(4, -1)
LOCAL Three == PR!Float(6, -1)
LOCAL Five == PR!Float(5, 0)
LOCAL Least == PR!Float(1, -5)
LOCAL Huge == PR!Float(6, 6)
LOCAL Quarter == PR!Float(4, -4)
LOCAL OneHalf == Half
LOCAL Free == [fee |-> PR!Zero, slippage |-> PR!Zero, reserve |-> PR!Zero, spread |-> PR!Zero]
LOCAL Dear == [fee |-> Least, slippage |-> Least, reserve |-> PR!Zero, spread |-> Quarter]

LOCAL Rules(kind, draft) ==
    [kind |-> kind, mode |-> "isolated", maintenance |-> Quarter, initial |-> OneHalf,
     currency |-> "USD", size |-> Two, settles |-> "base", confirmed |-> kind = "linear_perp",
     draft |-> draft]
LOCAL Base(kind) ==
    [kind |-> kind, side |-> "LONG", qty |-> Two, entry |-> Three, price |-> Two, size |-> NoReason,
     settles |-> "unknown", collateral |-> IF kind = "spot" THEN NoReason ELSE Two,
     mode |-> IF kind = "spot" THEN "none" ELSE "isolated",
     notional |-> PR!Float(6, 0), exit |-> NoReason, level |-> NoReason, atr |-> Half, funding |-> NoReason,
     rules |-> NoReason, quote |-> "USD", costs |-> Free, scenarios |-> FALSE, usable |-> TRUE]

(* Linear positions of every geometry. *)
LOCAL Amounts == {Least, Half, Two, Three, Five, Huge}
LOCAL Linear ==
    {[Base("linear_perp") EXCEPT !.side = side, !.qty = qty, !.entry = entry, !.price = price,
                                 !.collateral = collateral, !.rules = Rules("linear_perp", FALSE)] :
        side \in {"LONG", "SHORT"}, qty \in {Half, Three}, entry \in Amounts, price \in Amounts,
        collateral \in Amounts \cup {PR!One}}

LOCAL Opposite(p) == [p EXCEPT !.side = IF @ = "LONG" THEN "SHORT" ELSE "LONG"]
LOCAL Opposed(m, w) == IF m.value = NoReason THEN m = w
                       ELSE w = [m EXCEPT !.value = PR!Negated(@)]
LOCAL Sign(f) == IF f.s > 0 THEN 1 ELSE IF f.s < 0 THEN -1 ELSE 0

(* What one side gains the other loses, to the last bit, of a linear and of an inverse
   contract: exact sums are rounded alike on both sides of nothing.  The notional and
   the costs do not know the side. *)
ASSUME SidesAreOpposed ==
    \A p \in Linear, size \in {NoReason, Two}, exit \in {NoReason, Two, Five}, funding \in {Quarter, Least} :
        \A q \in {[p EXCEPT !.exit = exit, !.funding = funding],
                  [p EXCEPT !.kind = "inverse_perp", !.size = size, !.settles = "base",
                            !.exit = exit, !.funding = funding]} :
            p.collateral = Two /\ p.qty = Three =>
            LET pnl == PR!PotentialPnl(q, exit)
                opposite == PR!PotentialPnl(Opposite(q), exit)
            IN /\ Opposed(pnl.quote, opposite.quote) /\ Opposed(pnl.percent, opposite.percent)
               /\ q.kind = "inverse_perp" => Opposed(pnl.base, opposite.base)
               /\ Opposed(PR!DirectedExposureQuote(q), PR!DirectedExposureQuote(Opposite(q)))
               /\ Opposed(PR!HoldingCost(q), PR!HoldingCost(Opposite(q)))
               /\ PR!AbsoluteNotionalQuote(q) = PR!AbsoluteNotionalQuote(Opposite(q))

(* A violated margin and a liquidation price tell the same story about the price:
   the published distance is not positive where the margin is violated and not
   negative where it is not, a position that cannot be liquidated is never violated,
   and what would be lost is within the collateral. *)
ASSUME ViolationIsBeyondLiquidation ==
    \A p \in Linear :
        LET margin == PR!MarginViolation(p)
            estimate == PR!AssessLiquidation(p)
            distance == PR!Distances(p).percent
        IN /\ distance.status = "valid" =>
                 /\ margin.detected = "yes" => Sign(distance.value) <= 0
                 /\ margin.detected = "no" => Sign(distance.value) >= 0
           /\ estimate.reason = "LIQUIDATION_NOT_REACHABLE" => margin.detected # "yes"
           /\ estimate.price # NoReason =>
                 /\ estimate.price.s > 0 /\ estimate.loss.s >= 0
                 /\ PR!ExactSubtract(PR!ExactNumber(estimate.loss), PR!ExactNumber(p.collateral)).n <= 0

LOCAL Assessed(p, comparison) ==
    [side |-> p.side, qty |-> p.qty, entry |-> p.entry, price |-> p.price, cash |-> p.collateral,
     maintenance |-> p.rules.maintenance, initial |-> p.rules.initial, comparison |-> comparison]

(* The two calculators agree: on whether the margin is violated, on there being a
   price of liquidation, and on that price, wherever both have an answer; and the
   second has one wherever the first has. *)
ASSUME CalculatorsAgree ==
    \A p \in Linear :
        LET margin == PR!MarginViolation(p)
            verdict == MA!Verdict(Assessed(p, "lt"))
            estimate == PR!AssessLiquidation(p)
            boundary == MA!LiquidationBoundary(Assessed(p, "lt"))
        IN /\ (margin.status = "valid") = (verdict.status = "valid")
           /\ margin.status = "valid" => (margin.detected = "yes") = verdict.value.detected
           /\ boundary.status = "valid" /\ boundary.value.kind = "boundary" /\ estimate.status = "valid" =>
                 boundary.value.price = estimate.price
           /\ (estimate.reason = "LIQUIDATION_NOT_REACHABLE")
                 = (MA!RootValue(Assessed(p, "lt")).value = MA!NoRoot)
           /\ estimate.status = "valid" => boundary.status = "valid"

(* The exact price at which a verdict turns: no price is on the other side of it, and
   at the price itself only a comparison that includes it detects. *)
LOCAL BeyondRoot(p, root) ==
    LET order == MA!Compare(MA!FromBinary64(p.price), root)
    IN IF p.side = "LONG" THEN order < 0 ELSE order > 0

ASSUME TheRootIsTheTurn ==
    \A p \in Linear, comparison \in {"lt", "lte"} :
        LET a == Assessed(p, comparison)
            root == MA!RootValue(a)
            verdict == MA!ExactVerdict(a)
        IN MA!IsValid(root) /\ MA!IsValid(verdict) =>
              IF root.value = MA!NoRoot THEN verdict.value.state = "above_threshold"
              ELSE /\ (verdict.value.state = "below_threshold") = BeyondRoot(a, root.value)
                   /\ (verdict.value.state = "at_threshold") = (root.value = MA!FromBinary64(a.price))
                   /\ verdict.value.detected =
                         (\/ BeyondRoot(a, root.value)
                          \/ comparison = "lte" /\ root.value = MA!FromBinary64(a.price))

(* Without equity there is no ratio, and the verdict is against the position; with
   some, the ratio exceeds one exactly where the verdict is. *)
ASSUME RatiosFollowTheVerdict ==
    \A p \in Linear :
        LET a == Assessed(p, "lt")
            ratio == MA!MaintenanceToEquity(a)
            equity == MA!Equity(a)
            state == MA!ExactVerdict(a).value.state
        IN MA!IsValid(equity) /\ MA!IsValid(MA!MaintenanceMargin(a)) =>
              IF MA!Compare(equity.value, MA!ZeroRational) <= 0
              THEN /\ ratio.reasons = <<"NON_POSITIVE_EQUITY">> /\ state = "below_threshold"
                   /\ MA!BuildMarginAssessment(a).boundary.value.kind = "already_breached"
              ELSE (MA!Compare(ratio.value, MA!Rational(1, 1)) > 0) = (state = "below_threshold")

-------------------------------------------------------------------------------
(* Positions of every kind, with every combination of what may be missing. *)
LOCAL RulesOf(kind) ==
    {NoReason} \cup {Rules(kind, draft) : draft \in BOOLEAN}
           \cup {[Rules(kind, FALSE) EXCEPT !.currency = "USDT"],
                 [Rules(kind, TRUE) EXCEPT !.initial = PR!One],
                 [Rules(kind, FALSE) EXCEPT !.size = NoReason, !.mode = "cross"]}
LOCAL Inputs ==
    UNION {{[Base(kind) EXCEPT !.side = side, !.size = terms[1], !.settles = terms[2], !.exit = exit,
                               !.level = level, !.atr = atr, !.funding = funding, !.rules = rules,
                               !.price = price, !.mode = IF kind = "spot" THEN "none" ELSE mode,
                               !.collateral = collateral] :
               side \in {"LONG", "SHORT"}, terms \in {<<NoReason, "quote">>, <<Three, "unknown">>, <<Three, "base">>},
               exit \in {NoReason, Huge}, level \in {NoReason, Two, Huge}, atr \in {PR!Zero, Least},
               funding \in {NoReason, Quarter}, rules \in RulesOf(kind), price \in {Two},
               mode \in {"isolated", "cross"}, collateral \in {NoReason, Two}} :
           kind \in {"spot", "linear_perp", "inverse_perp"}}
LOCAL Accepted == {p \in Inputs : PR!RiskInput(p)}

(* The notional of an accepted derivative is the one that is published; that of a spot
   position may not be representable, where it is within the absolute tolerance. *)
LOCAL Sized == {[Base(kind) EXCEPT !.qty = qty, !.entry = entry, !.size = entry, !.notional = notional] :
                   kind \in {"spot", "linear_perp", "inverse_perp"}, qty \in Amounts, entry \in Amounts,
                   notional \in {f \in PR!Floats : f.s > 0}}
ASSUME NotionalsAreRepresentable ==
    /\ \A p \in Sized : PR!RiskInput(p) /\ p.kind # "spot" =>
                            PR!AbsoluteNotionalQuote(p) = PR!Value(p.notional)
    /\ \E p \in Sized : PR!RiskInput(p) /\ PR!AbsoluteNotionalQuote(p) = PR!Overflowed

LOCAL NoBetter(a, b) ==
    LET order == <<"calculation_error", "insufficient_data", "degraded">>
    IN \A i \in DOMAIN order : b = order[i] => \E j \in 1..i : a = order[j]
LOCAL All(metrics) == {metrics[i] : i \in DOMAIN metrics}

(* An accepted position has a report: every metric has a value or a reason, none that
   is not finite is valid, and the report is no better than any of its sections.  What
   is missing is warned of, unless it is the contract's own terms. *)
ASSUME AcceptedPositionsAreReported ==
    \A p \in Accepted :
        LET report == PR!BuildRiskReport(p)
            metrics == All(report.position.metrics) \cup {report.distances.percent, report.distances.atr}
        IN /\ \A m \in metrics : PR!Consistent(m) /\ m.value # PR!Infinite
           /\ \A m \in metrics : NoBetter(report.status, m.status)
           /\ \A m \in metrics : m.status = "degraded" => m.reason \in report.warnings
           /\ report.position.status = "insufficient_data" =>
                 \E m \in All(report.position.metrics) :
                     m.reason \in report.warnings \cup {PR!MissingInverse}
           /\ \A section \in {report.margin, report.liquidation} :
                 section.status \in {"degraded", "insufficient_data"} /\ p.kind # "inverse_perp" =>
                     section.reason \in report.warnings
           /\ report.margin.status \in {"degraded", "insufficient_data"} =>
                 report.liquidation.status \in {report.margin.status, "not_applicable", "calculation_error"}

(* The reason of a section may be of a milder metric than its status: it is that of an
   error where there is one, and otherwise of whichever comes first. *)
ASSUME ReasonsMayBeMilder ==
    /\ \A p \in Accepted :
          LET position == PR!BuildRiskReport(p).position IN
          position.status = "calculation_error" =>
              \E m \in All(position.metrics) : m.status = position.status /\ m.reason = position.reason
    /\ \E p \in Accepted :
          LET position == PR!BuildRiskReport(p).position IN
          \A m \in All(position.metrics) : m.status = position.status => m.reason # position.reason

(* A position under water is assessed as valid: that there is no ratio to an equity
   that is not there is not a failure. *)
ASSUME UnderWaterIsValid ==
    \E p \in Linear :
        LET assessment == MA!BuildMarginAssessment(Assessed(p, "lte"))
        IN /\ assessment.status = "valid" /\ assessment.verdict.value.detected
           /\ assessment.metrics.ratio.status = "not_applicable"
================================================================================
