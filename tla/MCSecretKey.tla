---------------------------- MODULE MCSecretKey ----------------------------
(* SecretKey with three locations: o1 starts a page of its own, o2 starts  *)
(* a page that o3, which lies across a page boundary, shares.              *)
EXTENDS SecretKey, TLC

CONSTANTS o1, o2, o3, p1, p2, p3

Layout == o1 :> {p3} @@ o2 :> {p1} @@ o3 :> {p1, p2}
=============================================================================
