---------------------------- MODULE CounterMode ----------------------------
(***************************************************************************)
(* The keystream loop of Aes256Ctr (aes256_ctr.cpp) and of AesGcm          *)
(* (aes_gcm.cpp): validate_block_count followed by apply_keystream, for    *)
(* one encrypt() or decrypt() call.                                        *)
(*                                                                         *)
(* A call turns len bytes of input into len bytes of output by XOR with    *)
(* pad bytes.  A pad byte is identified by the counter block AES encrypts  *)
(* and by its index in the 16-byte result, so it is modelled as the pair   *)
(* <<counter, index>>: the nonce is fixed during a call and the values of  *)
(* the bytes do not influence the control.                                 *)
(***************************************************************************)
EXTENDS Integers

CONSTANTS
    CounterMod,    \* number of values of the std::uint32_t counter: 2^32
    Lengths        \* input.size() of the calls under study

ASSUME CounterAssumption == CounterMod \in Nat /\ CounterMod > 2
ASSUME LengthsAssumption == Lengths \subseteq Nat

VARIABLES
    mode,     \* "ctr" or "gcm": whose encrypt() or decrypt() is called
    pc,       \* where the call is
    len,      \* input.size()
    offset,   \* the loop variable of apply_keystream
    counter,  \* std::uint32_t counter
    pad       \* output byte |-> the pad byte it was XORed with

vars == <<mode, pc, len, offset, counter, pad>>

Modes == {"ctr", "gcm"}

kBlockSizeBytes == 16

\* The counter that compute_tag encrypts (J0); CTR has no tag.
TagCounter == 1

\* Initial value of counter in apply_keystream.
FirstCounter(m) == IF m = "gcm" THEN 2 ELSE 0

\* GCM with CTR's limit: blocks 2^32-1 and 2^32 would wrap to counters 0, 1.
kMaxBlocksOfCtr(m) == CounterMod

kMaxBlocks(m) == IF m = "gcm" THEN CounterMod - 2 ELSE CounterMod

kMaxPlaintextBytes(m) == kMaxBlocks(m) * kBlockSizeBytes

IncrementForgotten(c) == c

\* ++counter on an unsigned 32-bit integer.
Increment(c) == IF c = CounterMod - 1 THEN 0 ELSE c + 1

ChunkEndPastInput(o, n) == o + kBlockSizeBytes

\* End of the block that starts at offset o: std::min(16, n - o) bytes on.
ChunkEnd(o, n) == IF n - o < kBlockSizeBytes THEN n ELSE o + kBlockSizeBytes

Init ==
    /\ mode \in Modes
    /\ pc = "validate"
    /\ len \in Lengths
    /\ offset = 0
    /\ counter = FirstCounter(mode)
    /\ pad = [i \in {} |-> <<0, 0>>]

ValidateBlockCount ==
    /\ pc = "validate"
    /\ pc' = IF len > kMaxPlaintextBytes(mode) THEN "LimitError" ELSE "loop"
    /\ UNCHANGED <<mode, len, offset, counter, pad>>

\* One iteration of the loop of apply_keystream.
KeystreamBlock ==
    /\ pc = "loop" /\ offset < len
    /\ pad' = [i \in 0 .. ChunkEnd(offset, len) - 1 |->
                 IF i < offset THEN pad[i] ELSE <<counter, i - offset>>]
    /\ offset' = offset + kBlockSizeBytes
    /\ counter' = Increment(counter)
    /\ UNCHANGED <<mode, pc, len>>

Return ==
    /\ pc = "loop" /\ offset >= len
    /\ pc' = "done"
    /\ UNCHANGED <<mode, len, offset, counter, pad>>

Next == ValidateBlockCount \/ KeystreamBlock \/ Return

Spec == Init /\ [][Next]_vars

-----------------------------------------------------------------------------
\* Types: the loop variable stays a byte count and the counter a uint32_t.
TypeOK ==
    /\ mode \in Modes
    /\ pc \in {"validate", "loop", "done", "LimitError"}
    /\ len \in Lengths
    /\ offset \in Nat
    /\ counter \in 0 .. CounterMod - 1

(***************************************************************************)
(* Counter mode is a one-time pad only if no keystream byte is used twice  *)
(* under one nonce.  The 32-bit counter of apply_keystream wraps silently, *)
(* so this rests on validate_block_count, on the loop's step and on        *)
(* counter agreeing exactly, up to the last block of the longest call.     *)
(***************************************************************************)
NoPadReuse ==
    \A i, j \in DOMAIN pad : pad[i] = pad[j] => i = j

(***************************************************************************)
(* The keystream block that compute_tag XORs over the GHASH value (counter *)
(* 1, J0) is never also XORed over GCM plaintext by apply_keystream: known *)
(* plaintext under J0 would reveal the GHASH value.                        *)
(***************************************************************************)
TagBlockNotInPad ==
    mode = "gcm" => \A i \in DOMAIN pad : pad[i][1] # TagCounter

(***************************************************************************)
(* A call that apply_keystream completes has XORed every byte of its input *)
(* and wrote no byte beyond output.size(), for full and for partial last   *)
(* blocks: no plaintext byte is returned as it was.                        *)
(***************************************************************************)
EveryByteMasked == pc = "done" => DOMAIN pad = 0 .. len - 1

(***************************************************************************)
(* The inductive invariant behind the three properties: the pad byte of     *)
(* output byte i is determined by i, and the counter is the block number   *)
(* shifted by the mode's first counter, modulo the counter's width.        *)
(***************************************************************************)
WithinLimit == pc \in {"loop", "done"} => len <= kMaxPlaintextBytes(mode)

PadIsPositional ==
    /\ DOMAIN pad = 0 .. (IF offset < len THEN offset ELSE len) - 1
    /\ \A i \in DOMAIN pad :
         pad[i] = <<FirstCounter(mode) + i \div kBlockSizeBytes, i % kBlockSizeBytes>>

CounterIsPositional ==
    /\ offset % kBlockSizeBytes = 0
    /\ pc = "validate" => offset = 0
    /\ pc = "done" => offset >= len
    /\ offset < len + kBlockSizeBytes
    /\ LET c == FirstCounter(mode) + offset \div kBlockSizeBytes
       IN  counter = IF c = CounterMod THEN 0 ELSE c

\* Inductive invariant of validate_block_count and apply_keystream.
IInv == TypeOK /\ WithinLimit /\ PadIsPositional /\ CounterIsPositional
=============================================================================
