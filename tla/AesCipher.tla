----------------------------- MODULE AesCipher -----------------------------
(***************************************************************************)
(* Abstract specification of the encryption of one block, as FIPS-197      *)
(* describes it: the key is expanded one round key at a time, then the     *)
(* state goes through the rounds.  At the end the round keys are gone.     *)
(* The functions of the standard are parameters; AesFips defines them.     *)
(***************************************************************************)
EXTENDS Integers, Sequences

CONSTANTS
    Calls,                  \* records of a key (its words) and a block
    Rounds(_),              \* the number of rounds for a key of Nk words
    KeyParts(_),            \* words in groups of a round key
    FipsWord(_, _, _, _),   \* a word of the schedule
    XorState(_, _),         \* AddRoundKey
    FipsRound(_, _), FipsLastRound(_, _)

VARIABLES
    call,       \* the key and the block
    roundKeys,  \* the round keys so far, each a state
    round,      \* the rounds done; -1 before the first round key is added
    state       \* the block, the state, the result

vars == <<call, roundKeys, round, state>>

Nk == Len(call.key)
Nr == Rounds(Nk)

Init ==
    /\ call \in Calls
    /\ roundKeys = KeyParts(call.key) /\ round = -1 /\ state = call.block

\* The four words from word i on, each from the one before and the one Nk back.
Expand ==
    /\ round = -1 /\ Len(roundKeys) < Nr + 1
    /\ LET i == 4 * Len(roundKeys)
           back == roundKeys[Len(roundKeys) + 1 - (Nk \div 4)]
           w1 == FipsWord(Nk, i, back[1], roundKeys[Len(roundKeys)][4])
           w2 == FipsWord(Nk, i + 1, back[2], w1)
           w3 == FipsWord(Nk, i + 2, back[3], w2)
           w4 == FipsWord(Nk, i + 3, back[4], w3)
       IN  roundKeys' = Append(roundKeys, <<w1, w2, w3, w4>>)
    /\ UNCHANGED <<call, round, state>>

Begin ==
    /\ round = -1 /\ Len(roundKeys) = Nr + 1
    /\ round' = 0 /\ state' = XorState(state, roundKeys[1])
    /\ UNCHANGED <<call, roundKeys>>

Round ==
    /\ round \in 0 .. Nr - 2
    /\ round' = round + 1 /\ state' = FipsRound(state, roundKeys[round' + 1])
    /\ UNCHANGED <<call, roundKeys>>

Last ==
    /\ round = Nr - 1
    /\ round' = Nr /\ state' = FipsLastRound(state, roundKeys[Nr + 1])
    /\ roundKeys' = <<>>
    /\ UNCHANGED call

Spec == Init /\ [][Expand \/ Begin \/ Round \/ Last]_vars
=============================================================================
