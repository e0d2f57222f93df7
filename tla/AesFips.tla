------------------------------ MODULE AesFips ------------------------------
(***************************************************************************)
(* AES encryption as FIPS-197 defines it, from the algebra: bytes are      *)
(* elements of GF(2^8), the S-box is an inverse that is looked for, the    *)
(* round constants are powers of x.  This is what the four backends of the *)
(* library promise to compute; none of it is taken from their code.        *)
(***************************************************************************)
EXTENDS Gf2, Sequences

Byte == SUBSET (0 .. 7)
ByteOf(n) == {e \in 0 .. 7 : (n \div 2^e) % 2 = 1}

\* A word is a column of four bytes, a state is four columns.
Word == [1 .. 4 -> Byte]
State == [1 .. 4 -> Word]
Four(F(_)) == <<F(1), F(2), F(3), F(4)>>
Wrap(n) == ((n - 1) % 4) + 1
XorWord(a, b) == Four(LAMBDA r : a[r] ++ b[r])
XorState(s, t) == Four(LAMBDA c : XorWord(s[c], t[c]))
ZeroWord == Four(LAMBDA r : {})
ZeroState == Four(LAMBDA c : ZeroWord)

AesPoly == {8, 4, 3, 1, 0}
FieldMul(a, b) == PolyMod(PolyMul(a, b), AesPoly, 14)
FieldInverse(a) == IF a = {} THEN {} ELSE CHOOSE b \in Byte : FieldMul(a, b) = {0}
Affine(b) == {e \in 0 .. 7 : Odd({k \in {0, 4, 5, 6, 7} : (e + k) % 8 \in b})} ++ ByteOf(99)
FipsSbox == Table([b \in Byte |-> Affine(FieldInverse(b))])

SubWord(w) == Four(LAMBDA r : FipsSbox[w[r]])
RotWord(w) == Four(LAMBDA r : w[Wrap(r + 1)])
FipsRcon(n) == <<PolyMod({n - 1}, AesPoly, 14), {}, {}, {}>>

SubBytes(s) == Four(LAMBDA c : SubWord(s[c]))
ShiftRows(s) == Four(LAMBDA c : Four(LAMBDA r : s[Wrap(c + r - 1)][r]))

\* Each column times {03}x^3 + {01}x^2 + {01}x + {02} modulo x^4 + 1.
Times2 == Table([b \in Byte |-> FieldMul({1}, b)])
MixColumns(s) ==
    LET times(k, b) == CASE k = 1 -> Times2[b] [] k = 4 -> Times2[b] ++ b [] OTHER -> b
        term(w, r, j) == times(Wrap(r - j + 5), w[j])
    IN  Four(LAMBDA c : Four(LAMBDA r :
           term(s[c], r, 1) ++ term(s[c], r, 2) ++ term(s[c], r, 3) ++ term(s[c], r, 4)))

\* The number of rounds for a key of Nk words; word n of the schedule, from
\* the words n - Nk and n - 1 before it; words in groups of
\* a round key; the rounds.
Rounds(Nk) == Nk + 6
FipsWord(Nk, n, back, last) ==
    XorWord(back, CASE n % Nk = 0 -> XorWord(SubWord(RotWord(last)), FipsRcon(n \div Nk))
                    [] Nk = 8 /\ n % Nk = 4 -> SubWord(last)
                    [] OTHER -> last)
KeyParts(key) == [n \in 1 .. Len(key) \div 4 |-> SubSeq(key, 4 * n - 3, 4 * n)]
FipsRound(s, k) == XorState(MixColumns(ShiftRows(SubBytes(s))), k)
FipsLastRound(s, k) == XorState(ShiftRows(SubBytes(s)), k)

\* The whole cipher.  The first n words, and the state after round r, are the
\* element of a set of one, which TLC computes before it goes on.
FipsSchedule(key) ==
    LET Nk == Len(key)
        first[n \in Nk .. 4 * (Rounds(Nk) + 1)] ==
            IF n = Nk THEN {key}
            ELSE {Append(w, FipsWord(Nk, n - 1, w[n - Nk], w[n - 1])) : w \in first[n - 1]}
    IN  KeyParts(CHOOSE w \in first[4 * (Rounds(Nk) + 1)] : TRUE)

FipsCipher(key, block) ==
    LET Nr == Rounds(Len(key))
        k == FipsSchedule(key)
        after[r \in 0 .. Nr - 1] ==
            IF r = 0 THEN {XorState(block, k[1])}
            ELSE {FipsRound(s, k[r + 1]) : s \in after[r - 1]}
    IN  CHOOSE s \in {FipsLastRound(s, k[Nr + 1]) : s \in after[Nr - 1]} : TRUE
=============================================================================
