-------------------------- MODULE MCContainerFile --------------------------
(* An empty message and one of 3 bytes, with ct_len of two bytes of two    *)
(* values, so that a length needs both.  Two processes that overlap.       *)
EXTENDS ContainerFile, TLC

CONSTANTS p1, p2, m0, m3

MCSizeOf == m0 :> 0 @@ m3 :> 3

Symmetry == Permutations(Procs)

(* To bound the disk: the kernel writes back only while no call is in      *)
(* progress.                                                               *)
FlushedBetweenCalls ==
    Init /\ [][Next /\ (disk' = disk \/ \A p \in Procs : pc[p] \in Ended)]_vars
=============================================================================
