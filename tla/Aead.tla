------------------------------- MODULE Aead --------------------------------
(***************************************************************************)
(* What AesGcm promises the users of one SecretKey: at most Limit nonces   *)
(* are ever spent under the key, each on at most one message, and decrypt  *)
(* returns a message only if it was sealed with the same nonce and the     *)
(* same associated data.                                                   *)
(***************************************************************************)
EXTENDS Integers

CONSTANTS Limit, Msgs, Aads

VARIABLES spent, sealed, opened

vars == <<spent, sealed, opened>>

Sealing == [nonce : 1 .. Limit, aad : Aads, msg : Msgs]

Init == spent = 0 /\ sealed = {} /\ opened = {}

Spend ==
    /\ spent < Limit
    /\ spent' = spent + 1
    /\ UNCHANGED <<sealed, opened>>

Seal(x) ==
    /\ x.nonce <= spent
    /\ \A y \in sealed : y.nonce # x.nonce
    /\ sealed' = sealed \cup {x}
    /\ UNCHANGED <<spent, opened>>

Open(x) ==
    /\ x \in sealed
    /\ opened' = opened \cup {x}
    /\ UNCHANGED <<spent, sealed>>

Next == Spend \/ \E x \in Sealing : Seal(x) \/ Open(x)

Spec == Init /\ [][Next]_vars
=============================================================================
