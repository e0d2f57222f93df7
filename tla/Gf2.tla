-------------------------------- MODULE Gf2 --------------------------------
(***************************************************************************)
(* Polynomials over GF(2), each the set of the exponents that occur in it. *)
(* A byte or a machine word is the set of the positions of its one bits,   *)
(* so that exclusive or is the symmetric difference and a shift moves the  *)
(* members.  PolyMul and PolyMod are the textbook definitions that the     *)
(* branch-free loops of aes_core_soft.cpp and ghash.cpp are compared with. *)
(***************************************************************************)
EXTENDS FiniteSetsExt, TLC

a ++ b == SymDiff(a, b)

\* The function f; TLC evaluates the operands of @@ at once, and so keeps a
\* table instead of evaluating f at each application.
Table(f) == f @@ <<>>

Odd(S) == Cardinality(S) % 2 = 1

PolyMul(a, b) ==
    {k \in {e + j : e \in a, j \in b} : Odd({e \in a : k - e \in b})}

\* a times x^n
TimesX(a, n) == {e + n : e \in a}

\* p without the power k, which a multiple of m, of degree deg, cancels.
Cancel(p, m, deg, k) == IF k \in p THEN p ++ TimesX(m, k - deg) ELSE p

\* The remainder of a modulo the polynomial m: its powers from the degree
\* top downwards are cancelled one after the other.
PolyMod(a, m, top) ==
    LET deg == Max(m)
        r[n \in 0 .. top + 1 - deg] ==       \* a with no power above top - n
            IF n = 0 THEN a ELSE Cancel(r[n - 1], m, deg, top + 1 - n)
    IN  r[top + 1 - deg]
=============================================================================
