---------------------------- MODULE AesHardware ----------------------------
(***************************************************************************)
(* The hardware backends: what aes_core_ni.cpp, aes_core_arm.cpp and       *)
(* aes_core_riscv.cpp compute with the instructions of the processors.     *)
(* The instructions are external, from the manuals that the files refer    *)
(* to; the sequences of them are the code's.  A 128-bit register is a      *)
(* state (its four 32-bit lanes), a 64-bit register two words.             *)
(***************************************************************************)
EXTENDS AesSoft

\* x86: the round instructions, and the lane operations of the schedule.
_mm_aesenc_si128(s, k) == FipsRound(s, k)
_mm_aesenclast_si128(s, k) == FipsLastRound(s, k)
_mm_aeskeygenassist_si128(x, rcon) ==
    LET rotated(w) == XorWord(RotWord(SubWord(w)), <<ByteOf(rcon), {}, {}, {}>>)
    IN  <<SubWord(x[2]), rotated(x[2]), SubWord(x[4]), rotated(x[4])>>
Broadcast(x, lane) == Four(LAMBDA c : x[lane])
ShiftLane(x) == <<ZeroWord, x[1], x[2], x[3]>>

\* temp1 ^ temp1 << 32 ^ temp1 << 64 ^ temp1 << 96, as the three shifts add it.
RunningXor(x) ==
    LET once == ShiftLane(x)
        twice == ShiftLane(once)
    IN  XorState(XorState(XorState(x, once), twice), ShiftLane(twice))

key_expansion_step_even(temp1, temp2) == XorState(RunningXor(temp1), Broadcast(temp2, 4))

key_expansion_step_odd(temp1, temp3) ==
    XorState(RunningXor(temp3), Broadcast(_mm_aeskeygenassist_si128(temp1, 0), 3))

\* The immediates of the unrolled steps.
NiRcon == <<1, 2, 4, 8, 16, 32, 64, 128, 27, 54>>

\* The next round key of AES-256 after those in s, of which the first two are
\* the key; temp1 is the last even, temp3 the last odd round key.
expand_key_ni(s) ==
    LET n == Len(s)
    IN  IF n % 2 = 0
        THEN key_expansion_step_even(s[n - 1], _mm_aeskeygenassist_si128(s[n], NiRcon[n \div 2]))
        ELSE key_expansion_step_odd(s[n], s[n - 1])

key_128_assist(temp1, temp2) == XorState(RunningXor(temp1), Broadcast(temp2, 4))

expand_key128_ni(s) ==
    LET n == Len(s)
    IN  key_128_assist(s[n], _mm_aeskeygenassist_si128(s[n], NiRcon[n]))

-----------------------------------------------------------------------------
\* ARM: no key expansion of its own; the schedule is packed into vectors.
vaeseq_u8(x, k) == ShiftRows(SubBytes(XorState(x, k)))
vaesmcq_u8(x) == MixColumns(x)

pack_round_keys(schedule, Nr) ==
    [n \in 1 .. Nr + 1 |-> Four(LAMBDA c : Four(LAMBDA r : schedule[(n - 1) * 4 + c][r]))]

-----------------------------------------------------------------------------
\* RISC-V Zkne: half of the new state from both halves, and the two schedule
\* instructions.  rnum 10 is SubWord alone.
RoundHalf(rs1, rs2) == ShiftRows(SubBytes(rs1 \o rs2))
riscv_aes64esm(rs1, rs2) == SubSeq(MixColumns(RoundHalf(rs1, rs2)), 1, 2)
riscv_aes64es(rs1, rs2) == SubSeq(RoundHalf(rs1, rs2), 1, 2)
riscv_aes64ks1i(rs1, rnum) ==
    LET w == IF rnum = 10 THEN SubWord(rs1[2])
             ELSE XorWord(SubWord(RotWord(rs1[2])), FipsRcon(rnum + 1))
    IN  <<w, w>>
riscv_aes64ks2(rs1, rs2) ==
    LET w == XorWord(rs1[2], rs2[1])
    IN  <<w, XorWord(w, rs2[2])>>

\* memcpy between a block and the two registers, which are little-endian.
load_state(block) == [lo |-> SubSeq(block, 1, 2), hi |-> SubSeq(block, 3, 4)]
store_state(s) == s.lo \o s.hi
Xor64(a, b) == <<XorWord(a[1], b[1]), XorWord(a[2], b[2])>>
xor_state(a, b) == [lo |-> Xor64(a.lo, b.lo), hi |-> Xor64(a.hi, b.hi)]

\* mutant: the operands in the same order for both halves
RoundSameOrder(s) == [lo |-> riscv_aes64esm(s.lo, s.hi), hi |-> riscv_aes64esm(s.lo, s.hi)]
round_middle(s) == [lo |-> riscv_aes64esm(s.lo, s.hi), hi |-> riscv_aes64esm(s.hi, s.lo)]
round_final(s) == [lo |-> riscv_aes64es(s.lo, s.hi), hi |-> riscv_aes64es(s.hi, s.lo)]

\* rk[idx] of AESLIB_KS256_STEP, which the steps with an rnum other than 6
\* follow by rk[idx + 1]: t0, t1 are the last even, t2, t3 the last odd key.
Ks2Pair(rs, t) == LET lo == riscv_aes64ks2(rs, t.lo) IN [lo |-> lo, hi |-> riscv_aes64ks2(lo, t.hi)]
expand_key256_riscv(s) ==
    LET n == Len(s)
    IN  IF n % 2 = 0
        THEN Ks2Pair(riscv_aes64ks1i(s[n].hi, (n \div 2) - 1), s[n - 1])
        ELSE Ks2Pair(riscv_aes64ks1i(s[n].hi, 10), s[n - 1])

expand_key128_riscv(s) == Ks2Pair(riscv_aes64ks1i(s[Len(s)].hi, Len(s) - 1), s[Len(s)])
=============================================================================
