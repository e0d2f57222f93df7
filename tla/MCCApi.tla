------------------------------- MODULE MCCApi ------------------------------
(* Two threads that create, use and close two Python key objects, with two *)
(* addresses for their keys.                                               *)
EXTENDS CApi, TLC

CONSTANTS t1, t2, s1, s2, a1, a2

EitherAddress == Permutations(Addresses)
=============================================================================
