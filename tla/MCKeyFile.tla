----------------------------- MODULE MCKeyFile -----------------------------
(* Two processes that save, load and die.  Keys of different sizes stand   *)
(* for AES-128 and AES-256 keys, so that a key can be read under the       *)
(* marker of another size; every read and every write can be short.        *)
EXTENDS KeyFile, TLC

CONSTANTS p1, p2, ka, kb

TwoSizes == ka :> 1 @@ kb :> 2

(* To bound the disk: the kernel writes back only while no call is in      *)
(* progress, and only what p1 saved; the processes are alike.              *)
FlushedBetweenCalls ==
    /\ Init
    /\ [][Next /\ (disk' = disk \/ (owner = p1 /\ \A p \in Procs : pc[p] \in Ended))]_vars
    /\ \A p \in Procs : WF_vars(Step(p))
=============================================================================
