---------------------------- MODULE AesBackends ----------------------------
(***************************************************************************)
(* One call of aes128_encrypt_block_* or aes256_encrypt_block_*, in any of *)
(* the four backends, round by round.  The key length selects the          *)
(* instantiation: four words for AES-128, eight for AES-256.               *)
(***************************************************************************)
EXTENDS AesHardware

CONSTANT Calls      \* the calls: records of a key (its words) and a block

ASSUME CallsAssumption ==
    \A c \in Calls :
        /\ c.key \in Seq(Word) /\ Len(c.key) \in {4, 8}
        /\ c.block \in State

VARIABLES
    backend,   \* which of the four functions was called
    call,      \* its arguments
    step,      \* "start", "expand", "rounds", "done"
    round,     \* number of rounds done
    words,     \* the Word array schedule of the portable key expansion
    rk,        \* the register array of round keys of a hardware backend
    state,     \* the state; a record of two halves in the RISC-V backend
    out        \* the block that is returned

blockVars == <<backend, call, step, round, words, rk, state, out>>

Backends == {"soft", "ni", "arm", "riscv"}

Nr == Rounds(Len(call.key))

BlockInit ==
    /\ backend \in Backends /\ call \in Calls
    /\ step = "start" /\ round = 0
    /\ words = <<>> /\ rk = <<>> /\ state = ZeroState /\ out = ZeroState

\* The key is copied to the front of the schedule.
Start ==
    /\ step = "start"
    /\ LET parts == KeyParts(call.key)
       IN  CASE backend \in {"soft", "arm"} -> words' = call.key /\ rk' = rk
             [] backend = "ni" -> rk' = parts /\ words' = words
             [] backend = "riscv" ->
                  rk' = [n \in 1 .. Len(parts) |-> load_state(parts[n])] /\ words' = words
    /\ step' = "expand"
    /\ UNCHANGED <<backend, call, round, state, out>>

\* One iteration of a schedule loop, or one of its unrolled steps.
ExpandWords ==
    /\ step = "expand" /\ backend \in {"soft", "arm"} /\ Len(words) < 4 * (Nr + 1)
    /\ words' = expand_key_step(words, Len(call.key))
    /\ UNCHANGED <<backend, call, step, round, rk, state, out>>

ExpandRegisters ==
    /\ step = "expand" /\ backend \in {"ni", "riscv"} /\ Len(rk) < Nr + 1
    /\ rk' = Append(rk, CASE backend = "ni" /\ Len(call.key) = 8 -> expand_key_ni(rk)
                          [] backend = "ni" /\ Len(call.key) = 4 -> expand_key128_ni(rk)
                          [] backend = "riscv" /\ Len(call.key) = 8 -> expand_key256_riscv(rk)
                          [] backend = "riscv" /\ Len(call.key) = 4 -> expand_key128_riscv(rk))
    /\ UNCHANGED <<backend, call, step, round, words, state, out>>

\* With the whole schedule the state is loaded; ARM packs the schedule first,
\* wipes it, and adds no key yet.
Load ==
    /\ step = "expand"
    /\ IF backend \in {"soft", "arm"} THEN Len(words) = 4 * (Nr + 1) ELSE Len(rk) = Nr + 1
    /\ IF backend = "arm"
       THEN rk' = pack_round_keys(words, Nr) /\ words' = wipe_schedule(words)
       ELSE UNCHANGED <<rk, words>>
    /\ state' = CASE backend = "soft" -> add_round_key(call.block, words, 0)
                  [] backend = "ni" -> XorState(call.block, rk[1])
                  [] backend = "arm" -> call.block
                  [] backend = "riscv" -> xor_state(load_state(call.block), rk[1])
    /\ step' = "rounds"
    /\ UNCHANGED <<backend, call, round, out>>

-----------------------------------------------------------------------------
\* The bodies of the round loops.  The ARM loop adds the key of the round
\* before, so that its state lacks the round key the others have added.
SoftRound(s, r) == add_round_key(mix_columns(shift_rows(sub_bytes(s))), words, r)
NiRound(s, r) == _mm_aesenc_si128(s, rk[r + 1])
ArmRound(s, r) == vaesmcq_u8(vaeseq_u8(s, rk[r]))
RiscvRound(s, r) == xor_state(round_middle(s), rk[r + 1])

IsLastRound(r) == r = Nr

Round ==
    /\ step = "rounds" /\ ~IsLastRound(round + 1)
    /\ round' = round + 1
    /\ state' = CASE backend = "soft" -> SoftRound(state, round')
                  [] backend = "ni" -> NiRound(state, round')
                  [] backend = "arm" -> ArmRound(state, round')
                  [] backend = "riscv" -> RiscvRound(state, round')
    /\ UNCHANGED <<backend, call, step, words, rk, out>>

SoftLast(s) == add_round_key(shift_rows(sub_bytes(s)), words, Nr)
NiLast(s) == _mm_aesenclast_si128(s, rk[Nr + 1])
ArmLast(s) == XorState(vaeseq_u8(s, rk[Nr]), rk[Nr + 1])
RiscvLast(s) == xor_state(round_final(s), rk[Nr + 1])

\* Each register array is zeroed as a whole.
wipe_round_keys == rk' = [n \in 1 .. Len(rk) |-> IF backend = "riscv" THEN load_state(ZeroState) ELSE ZeroState]

LastRound ==
    /\ step = "rounds" /\ IsLastRound(round + 1)
    /\ state' = CASE backend = "soft" -> SoftLast(state)
                  [] backend = "ni" -> NiLast(state)
                  [] backend = "arm" -> ArmLast(state)
                  [] backend = "riscv" -> RiscvLast(state)
    /\ round' = Nr
    /\ wipe_round_keys
    /\ words' = (IF backend = "soft" THEN wipe_schedule(words) ELSE words)
    /\ out' = (IF backend = "riscv" THEN store_state(state') ELSE state')
    /\ step' = "done"
    /\ UNCHANGED <<backend, call>>

BlockNext == Start \/ ExpandWords \/ ExpandRegisters \/ Load \/ Round \/ LastRound

BlockSpec == BlockInit /\ [][BlockNext]_blockVars

-----------------------------------------------------------------------------
\* kat_vector.hpp: the known answers of FIPS-197, appendices C.1 and C.3.
BlockFrom(f(_)) == Four(LAMBDA c : Four(LAMBDA r : ByteOf(f(4 * c + r - 4))))
KeyFrom(Nk, f(_)) == [n \in 1 .. Nk |-> Four(LAMBDA r : ByteOf(f(4 * n + r - 4)))]
KatCall(Nk) == [key |-> KeyFrom(Nk, LAMBDA n : n - 1), block |-> BlockFrom(LAMBDA n : 17 * (n - 1))]
KatAnswer(Nk) ==
    LET kKat128Ciphertext == <<105, 196, 224, 216, 106, 123, 4, 48, 216, 205, 183, 128, 112, 180, 197, 90>>
        kKat256Ciphertext == <<142, 162, 183, 202, 81, 103, 69, 191, 234, 252, 73, 144, 75, 73, 96, 137>>
    IN  BlockFrom(LAMBDA n : (IF Nk = 4 THEN kKat128Ciphertext ELSE kKat256Ciphertext)[n])

\* The definition that the backends are compared with gives those answers.
ASSUME ReferenceAssumption ==
    \A Nk \in {4, 8} : FipsCipher(KatCall(Nk).key, KatCall(Nk).block) = KatAnswer(Nk)

\* What the proof of the refinement takes from the values of the tables: on
\* each of the 256 bytes the S-box of the code is that of FIPS-197 and gmul
\* is the product, and the constants of both schedules are the powers of x.
ASSUME TablesAssumption ==
    /\ \A b \in Byte : /\ FipsSbox[b] \in Byte /\ CtSbox[b] = FipsSbox[b]
                       /\ Times2[b] \in Byte /\ Gmul2[b] = Times2[b]
                       /\ Gmul3[b] = Times2[b] ++ b
    /\ \A n \in 1 .. 10 : /\ FipsRcon(n) = <<ByteOf(kScheduleRcon[n + 1]), {}, {}, {}>>
                          /\ FipsRcon(n) = <<ByteOf(NiRcon[n]), {}, {}, {}>>

(***************************************************************************)
(* The refinement mapping to AesCipher.  The round keys are whole groups   *)
(* of the words, packed registers, or pairs of halves; the ARM loop folds  *)
(* AddRoundKey into the next round, so its state lacks the last key.       *)
(***************************************************************************)
KeysSoFar ==
    CASE backend = "soft" \/ (backend = "arm" /\ step = "expand") -> KeyParts(words)
      [] backend = "ni" \/ (backend = "arm" /\ step = "rounds") -> rk
      [] backend = "riscv" -> [n \in DOMAIN rk |-> store_state(rk[n])]

RoundKeys ==
    CASE step = "start" -> KeyParts(call.key)
      [] step \in {"expand", "rounds"} -> KeysSoFar
      [] step = "done" -> <<>>

StateSoFar ==
    CASE backend \in {"soft", "ni"} -> state
      [] backend = "arm" -> XorState(state, rk[round + 1])
      [] backend = "riscv" -> store_state(state)

CipherState ==
    CASE step \in {"start", "expand"} -> call.block
      [] step = "rounds" -> StateSoFar
      [] step = "done" -> out

\* The functions of AesFips stand for the parameters of the same names.
F == INSTANCE AesCipher WITH
        roundKeys <- RoundKeys, state <- CipherState,
        round <- IF step \in {"rounds", "done"} THEN round ELSE -1

(***************************************************************************)
(* All four backends implement the cipher of FIPS-197, for both key sizes: *)
(* the branch-free S-box is inversion and the affine map, the hand-unrolled*)
(* schedules of AES-NI and Zkne and the packed one of ARM have every word  *)
(* in its place, and each iteration of a round loop is one round with the  *)
(* key of its number, ARM's too, which adds each key one iteration later.  *)
(* With ReferenceAssumption they pass the self-test of kat_vector.hpp.     *)
(***************************************************************************)
ImplementsCipher == F!Spec

(***************************************************************************)
(* No round key outlives the call in the schedule or in its packed copy,   *)
(* and the ARM backend never holds the two together once the rounds run:   *)
(* they are "just as sensitive as the key" (aes_key_schedule.hpp).         *)
(***************************************************************************)
NoRoundKeyLeft ==
    /\ (step = "done" \/ (backend = "arm" /\ step = "rounds")) =>
           \A n \in DOMAIN words : words[n] = ZeroWord
    /\ step = "done" => \A n \in DOMAIN rk : rk[n] \in {ZeroState, load_state(ZeroState)}
=============================================================================
