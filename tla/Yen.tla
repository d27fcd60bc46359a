-------------------------------- MODULE Yen --------------------------------
(* Amounts of money as the services compute them: Decimal numbers that every  *)
(* service rounds to whole yen at the places its code says.  A rate is a       *)
(* fraction n / d; an amount is a natural number, for every service that       *)
(* multiplies refuses a negative one.  Multiplying the quotient and the remainder apart keeps the   *)
(* intermediate values within TLC's integers.                                  *)
EXTENDS Integers, Sequences, SequencesExt

CONSTANTS
    ValueError,     \* what a service that refuses its input returns
    None            \* what is left out

\* (a * n / d).quantize(1, ROUND_DOWN)
Share(a, n, d) == (a \div d) * n + ((a % d) * n) \div d

\* ... ROUND_UP, for an amount that is not negative.
ShareUp(a, n, d) == (a \div d) * n + ((a % d) * n + d - 1) \div d

\* ... ROUND_HALF_UP and ROUND_HALF_DOWN.
ShareHalfUp(a, n, d) == (a \div d) * n + (2 * (a % d) * n + d) \div (2 * d)
ShareHalfDown(a, n, d) == (a \div d) * n + (2 * (a % d) * n + d - 1) \div (2 * d)

\* The sum of several shares, cut to whole yen once; parts are <<a, n>>.
ShareSum(parts, d) ==
    LET whole == FoldLeft(LAMBDA sum, p : sum + (p[1] \div d) * p[2], 0, parts)
        rest == FoldLeft(LAMBDA sum, p : sum + (p[1] % d) * p[2], 0, parts)
    IN  whole + rest \div d

\* (a // unit) * unit
FloorTo(a, unit) == (a \div unit) * unit

AtMost(a, b) == IF a <= b THEN a ELSE b
AtLeast(a, b) == IF a >= b THEN a ELSE b

\* max(a - b, 0)
Over(a, b) == AtLeast(a - b, 0)

SumOver(S, f(_)) == SumFunction([x \in S |-> f(x)])

\* The members of a finite set, each once, in some order.
InSomeOrder(S) ==
    LET list[n \in 0 .. Cardinality(S)] ==
            IF n = 0 THEN <<>>
            ELSE LET before == list[n - 1]
                 IN  Append(before, CHOOSE x \in S : x \notin Range(before))
    IN  list[Cardinality(S)]

SumSeq(s) ==
    LET sum[n \in 0 .. Len(s)] == IF n = 0 THEN 0 ELSE sum[n - 1] + s[n]
    IN  sum[Len(s)]
=============================================================================
