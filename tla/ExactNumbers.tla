------------------------------ MODULE ExactNumbers ------------------------------
(***************************************************************************)
(* The arithmetic under the risk calculator: binary floating-point numbers *)
(* taken as exact rationals, computed with as such, and rounded once       *)
(* (risk/exact-rational.ts, risk/finite-product.ts), and the reduced       *)
(* rationals of bounded size of risk/stage3/arithmetic.ts.                 *)
(*                                                                         *)
(* The format is a parameter: binary64 has 53 bits of precision, its least *)
(* bit is worth 2^-1074 and its greatest number is below 2^1024.           *)
(***************************************************************************)
EXTENDS Integers

CONSTANTS Precision, LowExponent, HighExponent,
          Bound       \* of a component of a stage 3 rational

Magnitude(n) == IF n < 0 THEN -n ELSE n
Signed(sign, n) == IF sign < 0 THEN -n ELSE n
Larger(a, b) == IF a > b THEN a ELSE b
Smaller(a, b) == IF a < b THEN a ELSE b

(* toString(2).length, of what is not negative *)
Bits(n) == CHOOSE k \in 0..31 : n < 2^k /\ \A j \in 0..k - 1 : n >= 2^j

-------------------------------------------------------------------------------
(* A rational n * 2^e / d. *)
Exact(n, d, e) == [n |-> n, d |-> d, e |-> e]

(* A float is its significand and the exponent of its last bit: the fields of
   its encoding, with the hidden bit.  Zero has one form here. *)
Float(s, e) == [s |-> s, e |-> e]
Zero == Float(0, 0)
Floats ==
    {Zero} \cup {Float(Signed(sign, s), e) : sign \in {-1, 1}, s \in 2^(Precision - 1)..2^Precision - 1,
                                             e \in LowExponent..HighExponent - Precision + 1}
           \cup {Float(Signed(sign, s), LowExponent) : sign \in {-1, 1}, s \in 1..2^(Precision - 1) - 1}

ExactNumber(f) == Exact(f.s, 1, f.e)

ExactMultiply(a, b) == Exact(a.n * b.n, a.d * b.d, a.e + b.e)

ExactSubtract(a, b) ==
    LET e == Smaller(a.e, b.e)
    IN Exact(a.n * b.d * 2^(a.e - e) - b.n * a.d * 2^(b.e - e), a.d * b.d, e)

ExactAdd(a, b) == ExactSubtract(a, [b EXCEPT !.n = -@])

(* Of what is not divided by zero: the code throws. *)
ExactDivide(a, b) ==
    Exact(Signed(b.n, a.n * b.d), Signed(b.n, a.d * b.n), a.e - b.e)

-------------------------------------------------------------------------------
(* What a computation yields: a number, or why there is none. *)
Failure(code) == [code |-> code]
Overflow == Failure("CALCULATION_OVERFLOW")
Valid(r) == r # Overflow

(* Number(significand) * 2 ** e: exact, but for a result beyond the greatest. *)
Encoded(sign, s, e) ==
    LET up == Smaller(Precision - Bits(s), e - LowExponent)
        f == Float(Signed(sign, IF up < 0 THEN s \div 2 ELSE s * 2^up), e - up)
    IN IF s = 0 \/ f.e > HighExponent - Precision + 1 THEN Overflow ELSE f

(* Nearest, ties to even. *)
RoundsUp(quotient, remainder, divisor) ==
    2 * remainder > divisor \/ (2 * remainder = divisor /\ quotient % 2 = 1)
Quotient(n, d) ==
    LET q == n \div d IN IF RoundsUp(q, n % d, d) THEN q + 1 ELSE q

(* The exponent of the leading bit of n / d. *)
LeadingExponent(n, d) ==
    LET k == Bits(n) - Bits(d)
        atLeast == IF k >= 0 THEN n >= d * 2^k ELSE n * 2^(-k) >= d
    IN IF atLeast THEN k ELSE k - 1

RoundExact(v) ==
    LET n == Magnitude(v.n)
        leading == LeadingExponent(n, v.d) + v.e
        quantum == Larger(leading - Precision + 1, LowExponent)
        shift == v.e - quantum
    IN IF v.n = 0 THEN Zero
       ELSE IF leading > HighExponent \/ leading < LowExponent - 1 THEN Overflow
       ELSE Encoded(v.n, IF shift >= 0 THEN Quotient(n * 2^shift, v.d)
                                       ELSE Quotient(n, v.d * 2^(-shift)), quantum)

(* finiteProduct: the bits below the precision, or below the least bit there is,
   are discarded at once. *)
FiniteProduct(a, b, c) ==
    LET s == Magnitude(a.s * b.s * c.s)
        e == a.e + b.e + c.e
        discarded == Larger(Larger(0, Bits(s) - Precision), LowExponent - e)
    IN IF s = 0 THEN Zero
       ELSE Encoded(Signed(a.s, 1) * Signed(b.s, 1) * Signed(c.s, 1),
                    Quotient(s, 2^discarded), e + discarded)

-------------------------------------------------------------------------------
(* stage3/arithmetic.ts: a reduced fraction whose parts fit, or a failure. *)
Resource == Failure("NUMERIC_RESOURCE_LIMIT")
Failed == Failure("CALCULATION_FAILED")
TooLarge == Failure("NUMERIC_OVERFLOW")
TooSmall == Failure("NUMERIC_UNDERFLOW")
Failures == {Resource, Failed, TooLarge, TooSmall}

Fits(n) == -Bound < n /\ n < Bound

(* The loop of remainders; its limit of steps is beyond what parts of this size take. *)
CommonDivisor(n, d) ==
    LET remaining[a \in Nat, b \in Nat] == IF b = 0 THEN a ELSE remaining[b, a % b] IN remaining[n, d]

Normalize(n, d) ==
    LET by == CommonDivisor(Magnitude(n), Magnitude(d))
        r == [n |-> Signed(d, Signed(n, Magnitude(n) \div by)), d |-> Magnitude(d) \div by]
    IN IF d = 0 THEN Failed ELSE IF Fits(r.n) /\ Fits(r.d) THEN r ELSE Resource

Rational(n, d) == IF Fits(n) /\ Fits(d) THEN Normalize(n, d) ELSE Resource

FromBinary64(f) == IF f.e >= 0 THEN Normalize(f.s * 2^f.e, 1) ELSE Normalize(f.s, 2^(-f.e))

Add(a, b) == Normalize(a.n * b.d + b.n * a.d, a.d * b.d)
Subtract(a, b) == Normalize(a.n * b.d - b.n * a.d, a.d * b.d)
Multiply(a, b) == Normalize(a.n * b.n, a.d * b.d)
Divide(a, b) == Normalize(a.n * b.d, a.d * b.n)

Compare(a, b) ==
    LET l == a.n * b.d
        r == b.n * a.d
    IN IF l < r THEN -1 ELSE IF l > r THEN 1 ELSE 0

Publish(v) ==
    LET n == Magnitude(v.n)
        leading == LeadingExponent(n, v.d)
        quantum == Larger(leading - Precision + 1, LowExponent)
        s == IF quantum < 0 THEN Quotient(n * 2^(-quantum), v.d)
                            ELSE Quotient(n, v.d * 2^quantum)
        f == Encoded(v.n, s, quantum)
    IN IF v.n = 0 THEN Zero
       ELSE IF leading > HighExponent THEN TooLarge
       ELSE IF leading < LowExponent - 1 \/ s = 0 THEN TooSmall
       ELSE IF f = Overflow THEN TooLarge ELSE f
================================================================================
