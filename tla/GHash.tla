------------------------------- MODULE GHash -------------------------------
(***************************************************************************)
(* ghash() of ghash.cpp, one iteration of its loops per step: fold_into    *)
(* cuts the associated data and the ciphertext into zero-padded blocks,    *)
(* the block of the two lengths follows, and after each the accumulator is *)
(* multiplied by h with the bit-serial gf128_mul.                          *)
(*                                                                         *)
(* A machine word is the set of the positions of its one bits (Gf2).  The  *)
(* width is a parameter: a block is two words of HalfBytes bytes, 8 in the *)
(* code; the reduction constant keeps its position at the top of a word.   *)
(***************************************************************************)
EXTENDS Gf2, Digits, Sequences

CONSTANTS
    HalfBytes,  \* bytes of half a block
    Inputs      \* the calls: records of h, aad and ciphertext, as byte sequences

kHalfBits == 8 * HalfBytes
kBlockSizeBytes == 2 * HalfBytes

ASSUME HalfBytesAssumption == HalfBytes \in Nat \ {0}

\* The lengths in bits fit their words; in the code that takes 2^61 bytes of
\* memory to fail.
ASSUME InputsAssumption ==
    /\ Inputs \subseteq [h : [1 .. kBlockSizeBytes -> SUBSET (0 .. 7)],
                         aad : Seq(SUBSET (0 .. 7)), ciphertext : Seq(SUBSET (0 .. 7))]
    /\ \A in \in Inputs : \A n \in {Len(in.aad), Len(in.ciphertext)} : 8 * n < Weight(2, kHalfBits)

VARIABLES
    input,    \* the arguments
    part,     \* what is folded: "aad", "ciphertext", "lengths", or "done"
    offset,   \* the offset of fold_into in it
    y,        \* the accumulator, a block
    mul,      \* the locals of gf128_mul(y, h) while it runs, else <<>>
    folded    \* history: the blocks that were folded

ghashVars == <<input, part, offset, y, mul, folded>>

ZeroBlock == [i \in 1 .. kBlockSizeBytes |-> {}]
XorBlock(a, b) == [i \in 1 .. kBlockSizeBytes |-> SymDiff(a[i], b[i])]

\* Big-endian: byte i of p holds the bits from 8 * (HalfBytes - i) on.
load_be64(p) == UNION {{8 * (HalfBytes - i) + b : b \in p[i]} : i \in 1 .. HalfBytes}
store_be64(v) ==
    [i \in 1 .. HalfBytes |-> {b \in 0 .. 7 : 8 * (HalfBytes - i) + b \in v}]
BitsOf(n) == {b \in 0 .. kHalfBits - 1 : Digit(n, 2, b) = 1}

Hi(block) == load_be64(SubSeq(block, 1, HalfBytes))
Lo(block) == load_be64(SubSeq(block, HalfBytes + 1, kBlockSizeBytes))

\* 0xE1 in the top byte of the high word.
kRHi == {kHalfBits - 8 + b : b \in {7, 6, 5, 0}}

GhashInit ==
    /\ input \in Inputs
    /\ part = "aad" /\ offset = 0
    /\ y = ZeroBlock /\ mul = <<>> /\ folded = <<>>

-----------------------------------------------------------------------------
Data == IF part = "aad" THEN input.aad ELSE input.ciphertext

Accumulated(block) == XorBlock(y, block)

BeginMul(block) ==
    /\ y' = Accumulated(block)
    /\ mul' = [i |-> 0, v_hi |-> Hi(y'), v_lo |-> Lo(y'), z_hi |-> {}, z_lo |-> {}]
    /\ folded' = Append(folded, block)

\* The zero-padded block of the data at an offset.
PaddedChunk(data, from) ==
    [i \in 1 .. kBlockSizeBytes |-> IF from + i <= Len(data) THEN data[from + i] ELSE {}]

FoldInto ==
    /\ mul = <<>> /\ part \in {"aad", "ciphertext"} /\ offset < Len(Data)
    /\ BeginMul(PaddedChunk(Data, offset))
    /\ offset' = offset + Min({kBlockSizeBytes, Len(Data) - offset})
    /\ UNCHANGED <<input, part>>

FoldIntoEnds ==
    /\ mul = <<>> /\ part \in {"aad", "ciphertext"} /\ offset >= Len(Data)
    /\ part' = (IF part = "aad" THEN "ciphertext" ELSE "lengths")
    /\ offset' = 0
    /\ UNCHANGED <<input, y, mul, folded>>

\* mutant: one length for both
TotalLength == store_be64(BitsOf(8 * (Len(input.aad) + Len(input.ciphertext)))) \o store_be64({})
LengthBlock == store_be64(BitsOf(8 * Len(input.aad))) \o store_be64(BitsOf(8 * Len(input.ciphertext)))

FoldLengths ==
    /\ mul = <<>> /\ part = "lengths"
    /\ BeginMul(LengthBlock)
    /\ part' = "done"
    /\ UNCHANGED <<input, offset>>

-----------------------------------------------------------------------------
\* gf128_mul: bit i of h, the most significant first.
HBit(i) ==
    IF i < kHalfBits THEN kHalfBits - 1 - i \in Hi(input.h)
    ELSE kHalfBits - 1 - (i - kHalfBits) \in Lo(input.h)

\* mutant: the bit between the words is lost
ShiftWithoutCarry(v_hi, v_lo) ==
    << {b - 1 : b \in v_hi \ {0}} ++ (IF 0 \in v_lo THEN kRHi ELSE {}),
       {b - 1 : b \in v_lo \ {0}} >>
\* v >> 1 over both words, reduced when a bit falls out.
Shift(v_hi, v_lo) ==
    << {b - 1 : b \in v_hi \ {0}} ++ (IF 0 \in v_lo THEN kRHi ELSE {}),
       {b - 1 : b \in v_lo \ {0}} \cup (IF 0 \in v_hi THEN {kHalfBits - 1} ELSE {}) >>

MulIteration ==
    /\ mul # <<>> /\ mul.i < 2 * kHalfBits
    /\ LET v == Shift(mul.v_hi, mul.v_lo)
       IN  mul' = [i |-> mul.i + 1, v_hi |-> v[1], v_lo |-> v[2],
                   z_hi |-> IF HBit(mul.i) THEN mul.z_hi ++ mul.v_hi ELSE mul.z_hi,
                   z_lo |-> IF HBit(mul.i) THEN mul.z_lo ++ mul.v_lo ELSE mul.z_lo]
    /\ UNCHANGED <<input, part, offset, y, folded>>

MulReturns ==
    /\ mul # <<>> /\ mul.i = 2 * kHalfBits
    /\ y' = store_be64(mul.z_hi) \o store_be64(mul.z_lo)
    /\ mul' = <<>>
    /\ UNCHANGED <<input, part, offset, folded>>

Returned == part = "done" /\ mul = <<>>

GhashNext == FoldInto \/ FoldIntoEnds \/ FoldLengths \/ MulIteration \/ MulReturns

GhashSpec == GhashInit /\ [][GhashNext]_ghashVars

-----------------------------------------------------------------------------
(* SP 800-38D.  The first bit of a block is the coefficient of x^0; the    *)
(* field is reduced by x^(2W) + x^7 + x^2 + x + 1.                         *)
Coefficients(hi, lo) ==
    {kHalfBits - 1 - b : b \in hi} \cup {2 * kHalfBits - 1 - b : b \in lo}
Poly(block) == Coefficients(Hi(block), Lo(block))
Reduce(p) == PolyMod(p, {0, 1, 2, 7, 2 * kHalfBits}, 4 * kHalfBits - 1)

\* h to the power n, and the sum of the blocks times descending powers of h.
Power(h, n) ==
    LET pow[k \in 0 .. n] == IF k = 0 THEN {0} ELSE Reduce(PolyMul(pow[k - 1], Poly(h)))
    IN  pow[n]
PolynomialOf(blocks, h) ==
    LET n == Len(blocks)
        sum[j \in 0 .. n] ==
            IF j = 0 THEN {} ELSE sum[j - 1] ++ Reduce(PolyMul(Poly(blocks[j]), Power(h, n + 1 - j)))
    IN  sum[n]

\* The data a sequence of folded blocks stands for: the last block gives the
\* two lengths, the rest is split and cut with them.
Number(bits) == Value([k \in 1 .. kHalfBits |-> IF k - 1 \in bits THEN 1 ELSE 0], 2, kHalfBits)
BlocksFor(n) == (n + kBlockSizeBytes - 1) \div kBlockSizeBytes
BytesFrom(blocks, first, n) ==
    [k \in 1 .. n |-> blocks[first + (k - 1) \div kBlockSizeBytes + 1][((k - 1) % kBlockSizeBytes) + 1]]
Unpad(blocks) ==
    LET lengths == blocks[Len(blocks)]
        aadLen == Number(Hi(lengths)) \div 8
        ctLen == Number(Lo(lengths)) \div 8
    IN  [aad |-> BytesFrom(blocks, 0, aadLen), ciphertext |-> BytesFrom(blocks, BlocksFor(aadLen), ctLen)]

(***************************************************************************)
(* ghash is the polynomial of SP 800-38D: the sum of the folded blocks,    *)
(* each times the power of h that its place from the end gives; carries    *)
(* and reductions of the bit-serial product are right across its words.    *)
(***************************************************************************)
GhashIsPolynomial == Returned => Poly(y) = PolynomialOf(folded, input.h)

(***************************************************************************)
(* The folded blocks determine the associated data and the ciphertext:     *)
(* neither the zero padding of partial or empty parts nor a byte moved     *)
(* from one part to the other gives two inputs the same blocks, which a    *)
(* tag could not tell apart.                                               *)
(***************************************************************************)
BlocksDetermineInput ==
    Returned => Unpad(folded) = [aad |-> input.aad, ciphertext |-> input.ciphertext]
=============================================================================
