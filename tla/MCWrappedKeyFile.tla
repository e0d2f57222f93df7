-------------------------- MODULE MCWrappedKeyFile -------------------------
(* Two keys of different size.  Two processes whose saves and loads        *)
(* overlap, or one process with iteration counts around both bounds.       *)
EXTENDS WrappedKeyFile, TLC

CONSTANTS p1, p2, ka, kb, wa, wb

Symmetry == Permutations(Procs) \cup Permutations(Passphrases)
MCSizeOf == ka :> 1 @@ kb :> 2

(* To bound the disk: the kernel writes back only while no call is in      *)
(* progress.                                                               *)
FlushedBetweenCalls ==
    Init /\ [][Next /\ (disk' = disk \/ \A p \in Procs : pc[p] \in Ended)]_vars
=============================================================================
