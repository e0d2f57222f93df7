----------------------------- MODULE MCAesGcm ------------------------------
(***************************************************************************)
(* AES-GCM and the GHASH that its tags come from; they share no state, and *)
(* a behaviour is of one of them.                                          *)
(*                                                                         *)
(* AesGcm: two threads, a limit of two nonces and up to four counted       *)
(* calls, so that both the last admitted and the first refused call race.  *)
(* GHash: blocks of two bytes, a 16-bit field, with the reduction constant *)
(* of the code; data of up to three bytes, zero bytes among them, so that  *)
(* parts are empty, partial, whole, and longer than a block.               *)
(***************************************************************************)
EXTENDS AesGcm, GHash

VARIABLE chosen

BitsIn(n) == {k \in 0 .. 7 : (n \div 2^k) % 2 = 1}
Data3 == UNION {[1 .. n -> {BitsIn(0), BitsIn(197)}] : n \in 0 .. 3}
Data2 == UNION {[1 .. n -> {BitsIn(0), BitsIn(58)}] : n \in 0 .. 2}

MCInputs ==
    [h : {<<BitsIn(179), BitsIn(215)>>, <<BitsIn(0), BitsIn(1)>>}, aad : Data3, ciphertext : Data2]
    \cup [h : {<<BitsIn(102), BitsIn(233)>>}, aad : Data2, ciphertext : Data3]

FixedInput == [h |-> <<BitsIn(102), BitsIn(233)>>, aad |-> <<>>, ciphertext |-> <<>>]

GcmInit ==
    /\ chosen \in {"gcm", "ghash"}
    /\ Init /\ GhashInit /\ (chosen = "ghash" \/ input = FixedInput)

GcmNext ==
    /\ \/ chosen = "gcm" /\ Next /\ UNCHANGED ghashVars
       \/ chosen = "ghash" /\ GhashNext /\ UNCHANGED vars
    /\ UNCHANGED chosen

GcmSpec == GcmInit /\ [][GcmNext]_<<chosen, vars, ghashVars>>
=============================================================================
