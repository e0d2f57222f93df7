---------------------------- MODULE MCPrimitives ---------------------------
(***************************************************************************)
(* The modules below the modes and the file formats, one at a time in a    *)
(* behaviour: the dispatch, a block in a backend, a call of the hash       *)
(* functions, or the scratch buffers of a wrapped key file.  They share no *)
(* state.  The one that is chosen meets all of its inputs; the others have *)
(* a fixed one and do not move.  Only the hash call, which must return, is *)
(* always made, ahead of the others.                                       *)
(***************************************************************************)
EXTENDS Dispatch, AesBackends, Sha256, ScratchBuffers

CONSTANTS t1, t2

VARIABLE chosen

(* AES: the two vectors of kat_vector.hpp; sixteen blocks under the zero   *)
(* key, which bring each of the 256 byte values through the S-box in round *)
(* 1; and keys of both sizes whose bytes are all different, or all ones.   *)
Nothing(n) == 0
Scattered(n) == (167 * n + 89) % 256

MCCalls ==
    {KatCall(4), KatCall(8)}
    \cup {[key |-> KeyFrom(4, Nothing), block |-> BlockFrom(LAMBDA n : 16 * b + n - 1)] : b \in 0 .. 15}
    \cup {[key |-> KeyFrom(Nk, Scattered), block |-> BlockFrom(LAMBDA n : 255 - n)] : Nk \in {4, 8}}
    \cup {[key |-> KeyFrom(8, LAMBDA n : 255), block |-> BlockFrom(Nothing)]}

(* The hash functions with blocks of eight bytes and a length field of     *)
(* two, a fixed buffer for five bytes of data and a counter of eight       *)
(* values: every length over two block boundaries, every key length around *)
(* the block, every iteration count up to the largest of the counter.      *)
MCJobs ==
    [f : {"sha256"}, len : 0 .. 26]
    \cup [f : {"hmac"}, keyLen : {0, 1, 7, 8, 9}, len : 0 .. 7]
    \cup [f : {"pbkdf2"}, iterations : 0 .. 7]

-----------------------------------------------------------------------------
FixedCall == KatCall(4)

PrimitivesInit ==
    /\ chosen \in {"dispatch", "block", "hash", "scratch"}
    /\ ScratchInit /\ (chosen = "scratch" \/ (op = "save" /\ longPassphrase))
    /\ HashInit /\ (chosen = "hash" \/ job = [f |-> "sha256", len |-> 0])
    /\ BlockInit /\ (chosen = "block" \/ (backend = "soft" /\ call = FixedCall))
    /\ Init /\ (chosen = "dispatch" \/ (host = [bit |-> TRUE, wrong |-> {}] /\ env = "unset"))

Turn(which) == chosen = which /\ phase = "done"

PrimitivesNext ==
    /\ \/ HashNext /\ UNCHANGED <<vars, blockVars, scratchVars>>
       \/ Turn("dispatch") /\ Next /\ UNCHANGED <<blockVars, hashVars, scratchVars>>
       \/ Turn("block") /\ BlockNext /\ UNCHANGED <<vars, hashVars, scratchVars>>
       \/ Turn("scratch") /\ ScratchNext /\ UNCHANGED <<vars, blockVars, hashVars>>
    /\ UNCHANGED chosen

(* With the fairness of Dispatch and of Sha256.                            *)
PrimitivesSpec ==
    /\ PrimitivesInit /\ [][PrimitivesNext]_<<chosen, vars, blockVars, hashVars, scratchVars>>
    /\ WF_hashVars(HashNext) /\ \A t \in Threads : WF_vars(Step(t))
=============================================================================
