------------------------------- MODULE Digits -------------------------------
(***************************************************************************)
(* Positional notation, for the fields that hold a number byte by byte or  *)
(* bit by bit.                                                             *)
(***************************************************************************)
EXTENDS Integers

\* base to the power n
Weight(base, n) == LET w[k \in 0 .. n] == IF k = 0 THEN 1 ELSE base * w[k - 1] IN w[n]

\* The digit of x with the weight base^k
Digit(x, base, k) == (x \div Weight(base, k)) % base

\* The number with the digits d[1] .. d[n], the least significant first
Value(d, base, n) ==
    LET v[k \in 0 .. n] == IF k = 0 THEN 0 ELSE v[k - 1] + d[k] * Weight(base, k - 1) IN v[n]
=============================================================================
