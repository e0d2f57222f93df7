------------------------------ MODULE AesSoft ------------------------------
(***************************************************************************)
(* The operators of the portable backend: the branch-free arithmetic of    *)
(* aes_core_soft.cpp and the key schedule of aes_key_schedule.hpp, which   *)
(* the ARM backend shares.  Bytes are sets of bit positions (Gf2); a state *)
(* is its four columns, state[c * 4 + r] of the code being s[c + 1][r + 1].*)
(***************************************************************************)
EXTENDS AesFips

xtime(b) == {e + 1 : e \in b \ {7}} ++ (IF 7 \in b THEN ByteOf(27) ELSE {})

\* The eight iterations: a is doubled in each, and bit e of b selects its
\* value in iteration e.
gmul(a, b) ==
    LET a1 == xtime(a)  a2 == xtime(a1) a3 == xtime(a2) a4 == xtime(a3)
        a5 == xtime(a4) a6 == xtime(a5) a7 == xtime(a6)
        masked(e, x) == IF e \in b THEN x ELSE {}
    IN  masked(0, a) ++ masked(1, a1) ++ masked(2, a2) ++ masked(3, a3)
        ++ masked(4, a4) ++ masked(5, a5) ++ masked(6, a6) ++ masked(7, a7)

kInverseExponent == 254

\* Square and multiply over the bits of the exponent, the highest first.  The
\* result after k bits is the element of a set of one, as in FipsCipher.
gf256_inv(x) ==
    LET loop[k \in 0 .. 8] ==
            IF k = 0 THEN {{0}}
            ELSE {IF 8 - k \in ByteOf(kInverseExponent) THEN gmul(square, x) ELSE square :
                    square \in {gmul(p, p) : p \in loop[k - 1]}}
    IN  CHOOSE inv \in loop[8] : TRUE

rotl8(v, shift) == {(e + shift) % 8 : e \in v}

ct_sbox(x) ==
    LET inv == gf256_inv(x)
    IN  inv ++ rotl8(inv, 1) ++ rotl8(inv, 2) ++ rotl8(inv, 3) ++ rotl8(inv, 4) ++ ByteOf(99)

CtSbox == Table([x \in Byte |-> ct_sbox(x)])
Gmul2 == Table([x \in Byte |-> gmul(x, ByteOf(2))])
Gmul3 == Table([x \in Byte |-> gmul(x, ByteOf(3))])

sub_bytes(s) == Four(LAMBDA c : Four(LAMBDA r : CtSbox[s[c][r]]))

\* Row 1 of the code, r = 2 here, is the first that moves.
shift_rows(s) == Four(LAMBDA c : Four(LAMBDA r : IF r = 1 THEN s[c][r] ELSE s[Wrap(c + r - 1)][r]))

mix_columns(s) ==
    LET mixed(a) == << Gmul2[a[1]] ++ Gmul3[a[2]] ++ a[3] ++ a[4],
                       a[1] ++ Gmul2[a[2]] ++ Gmul3[a[3]] ++ a[4],
                       a[1] ++ a[2] ++ Gmul2[a[3]] ++ Gmul3[a[4]],
                       Gmul3[a[1]] ++ a[2] ++ a[3] ++ Gmul2[a[4]] >>
    IN  Four(LAMBDA c : mixed(s[c]))

add_round_key(s, schedule, round) ==
    Four(LAMBDA c : Four(LAMBDA r : s[c][r] ++ schedule[round * 4 + c][r]))

-----------------------------------------------------------------------------
\* aes_key_schedule.hpp.  Word n of the schedule array is schedule[n + 1].
kScheduleRcon == <<0, 1, 2, 4, 8, 16, 32, 64, 128, 27, 54>>

schedule_sub_word(w) == Four(LAMBDA r : CtSbox[w[r]])
schedule_rot_word(w) == <<w[2], w[3], w[4], w[1]>>
schedule_xor_word(a, b) == Four(LAMBDA r : a[r] ++ b[r])

ExtraSubWord(Nk, n) == Nk > 6 /\ n % Nk = 4

\* The word temp that is added to schedule[n - Nk].
ScheduleTemp(Nk, n, last) ==
    IF n % Nk = 0
    THEN schedule_xor_word(schedule_sub_word(schedule_rot_word(last)),
                           <<ByteOf(kScheduleRcon[(n \div Nk) + 1]), {}, {}, {}>>)
    ELSE IF ExtraSubWord(Nk, n) THEN schedule_sub_word(last) ELSE last

\* One iteration of the loop of expand_key: the words so far, and one more.
expand_key_step(words, Nk) ==
    LET n == Len(words)
    IN  Append(words, schedule_xor_word(words[n - Nk + 1], ScheduleTemp(Nk, n, words[n])))

\* mutant: sizeof(Word) * size() without the factor of the bytes
WipeQuarter(schedule) ==
    [n \in 1 .. Len(schedule) |-> IF 4 * n <= Len(schedule) THEN ZeroWord ELSE schedule[n]]
wipe_schedule(schedule) == [n \in 1 .. Len(schedule) |-> ZeroWord]
=============================================================================
