---------------------------- MODULE MCTypedCall ----------------------------
(* TypedCall with a 2-bit block counter: the longest CTR call has 4        *)
(* blocks, the longest GCM call 2.  Vectors of bytes take every length up  *)
(* to one block past the CTR limit, so that the limits of both modes are   *)
(* crossed byte by byte.  vector<std::string> is not byte-viewable.        *)
EXTENDS TypedCall

MCLengths == 0 .. (CounterMod + 1) * kBlockSizeBytes

Vector(e) == [contiguous |-> TRUE, resizable |-> TRUE, elemTrivial |-> TRUE,
              trivial |-> FALSE, elem |-> e, capacity |-> 0, sizeof |-> 24]
Array(e, n) == [contiguous |-> TRUE, resizable |-> FALSE, elemTrivial |-> TRUE,
                trivial |-> TRUE, elem |-> e, capacity |-> n,
                sizeof |-> IF n = 0 THEN 1 ELSE e * n]
Struct(s) == [contiguous |-> FALSE, resizable |-> FALSE, elemTrivial |-> FALSE,
              trivial |-> TRUE, elem |-> 1, capacity |-> 0, sizeof |-> s]
VectorOfStrings == [Vector(32) EXCEPT !.elemTrivial = FALSE]

MCTypes ==
    {Vector(1), Vector(2), Vector(12), Array(1, 16), Array(4, 6), Array(8, 0),
     Struct(1), Struct(16), Struct(24), VectorOfStrings}
=============================================================================
