------------------------------ MODULE AesGcm -------------------------------
(***************************************************************************)
(* AesGcm::encrypt and AesGcm::decrypt (aes_gcm.cpp) called by several     *)
(* threads with one const SecretKey&.  The only shared mutable state is    *)
(* the key's atomic invocation counter; the steps between two accesses to  *)
(* it interleave freely.                                                   *)
(*                                                                         *)
(* AES, GHASH and the CSPRNG are symbolic: a ciphertext body names the     *)
(* nonce and the message it masks, a tag names all that compute_tag is     *)
(* given, and fill_random delivers nonces that do not repeat (numbered in  *)
(* the order they are drawn) or fails.  The bytes of a container given to  *)
(* decrypt may be anything.                                                *)
(***************************************************************************)
EXTENDS Integers, FiniteSets

CONSTANTS
    Threads,
    Msgs, Aads,           \* plaintexts and associated data
    TooLong,              \* the plaintexts beyond kMaxPlaintextBytes
    kGcmInvocationLimit,  \* 2^32
    CounterMod,           \* values of the uint64 counter: 2^64
    MaxAttempts           \* bound: encrypt calls that reach the counter

ASSUME LimitAssumption ==
    /\ kGcmInvocationLimit \in Nat /\ MaxAttempts \in Nat /\ CounterMod \in Nat
    /\ MaxAttempts < CounterMod
ASSUME ThreadsAssumption == IsFiniteSet(Threads)
ASSUME MsgAssumption == TooLong \subseteq Msgs

VARIABLES
    gcm_invocations_,  \* the key's std::atomic<std::uint64_t>
    pc,                \* where the call of each thread is, or how it ended
    msg, aad,          \* arguments of its call (message: of encrypt only)
    prior,             \* value its fetch_add returned
    nonce,             \* nonce it has drawn; 0: none
    box,               \* container it decrypts
    drawn,             \* history: nonces drawn under the key
    attempts,          \* history: fetch_adds on the counter
    sealed,            \* history: containers returned by encrypt, with the aad
    opened             \* history: what decrypt returned

vars == <<gcm_invocations_, pc, msg, aad, prior, nonce, box, drawn, attempts,
          sealed, opened>>

NoMsg == "none"
Garbled == "garbled"
Nonces == 1 .. kGcmInvocationLimit

\* apply_keystream masks a message; the same call with the same nonce unmasks
\* it, with another nonce it gives something else.
Mask(n, m) == [nonce |-> n, msg |-> m]
Unmask(n, body) == IF body.nonce = n THEN body.msg ELSE Garbled

TagWithoutAad(n, a, body) == <<n, body>>

\* compute_tag over nonce, associated data and ciphertext.
compute_tag(n, a, body) == <<n, a, body>>

Container(n, a, m) ==
    [nonce |-> n, body |-> Mask(n, m), tag |-> compute_tag(n, a, Mask(n, m))]

\* A container decrypt may be called with: nonce and body are arbitrary, the
\* tag is one that encrypt has issued (any other fails the comparison).
Boxes ==
    [nonce : Nonces, body : [nonce : Nonces, msg : Msgs], tag : {s.box.tag : s \in sealed}]

NoBox == [nonce |-> 0, body |-> Mask(0, NoMsg), tag |-> <<>>]

Ended == {"idle", "LimitError", "IoError", "AuthenticationError"}

Init ==
    /\ gcm_invocations_ = 0 /\ drawn = 0 /\ attempts = 0
    /\ pc = [t \in Threads |-> "idle"]
    /\ msg = [t \in Threads |-> NoMsg] /\ aad = [t \in Threads |-> NoMsg]
    /\ prior = [t \in Threads |-> 0] /\ nonce = [t \in Threads |-> 0]
    /\ box = [t \in Threads |-> NoBox]
    /\ sealed = {} /\ opened = {}

\* The call of t goes on to, resp. ends with (and drops its locals).
Goto(t, where) == pc' = [pc EXCEPT ![t] = where] /\ UNCHANGED <<msg, aad>>
End(t, outcome) ==
    /\ pc' = [pc EXCEPT ![t] = outcome]
    /\ msg' = [msg EXCEPT ![t] = NoMsg] /\ aad' = [aad EXCEPT ![t] = NoMsg]
    /\ prior' = [prior EXCEPT ![t] = 0] /\ nonce' = [nonce EXCEPT ![t] = 0]
    /\ box' = [box EXCEPT ![t] = NoBox]

-----------------------------------------------------------------------------
\* encrypt(key, m, a)
Call(t, m, a) ==
    /\ pc[t] \in Ended
    /\ pc' = [pc EXCEPT ![t] = "validate"]
    /\ msg' = [msg EXCEPT ![t] = m] /\ aad' = [aad EXCEPT ![t] = a]
    /\ UNCHANGED <<gcm_invocations_, prior, nonce, box, drawn, attempts, sealed, opened>>

\* validate_block_count comes first: a refused plaintext spends nothing.
Validate(t) ==
    /\ pc[t] = "validate"
    /\ IF msg[t] \in TooLong THEN End(t, "LimitError")
       ELSE Goto(t, "consume") /\ UNCHANGED <<prior, nonce, box>>
    /\ UNCHANGED <<gcm_invocations_, drawn, attempts, sealed, opened>>

\* mutant: a load and a store instead of fetch_add; the increment is lost
\* when another thread is between its own two.
LoadThenStore(t) ==
    /\ prior' = [prior EXCEPT ![t] = gcm_invocations_]
    /\ gcm_invocations_' = IF \E u \in Threads \ {t} : pc[u] = "check"
                           THEN gcm_invocations_ ELSE gcm_invocations_ + 1

\* fetch_add(1): one atomic step.
FetchAdd(t) ==
    /\ prior' = [prior EXCEPT ![t] = gcm_invocations_]
    /\ gcm_invocations_' = IF gcm_invocations_ = CounterMod - 1 THEN 0
                           ELSE gcm_invocations_ + 1

consume_gcm_invocation(t) ==
    /\ pc[t] = "consume" /\ attempts < MaxAttempts
    /\ FetchAdd(t)
    /\ attempts' = attempts + 1
    /\ Goto(t, "check")
    /\ UNCHANGED <<nonce, box, drawn, sealed, opened>>

Admits(p) == p < kGcmInvocationLimit

\* Uses the value the fetch_add returned, not the counter.
check_gcm_invocation_count(t) ==
    /\ pc[t] = "check"
    /\ IF Admits(prior[t]) THEN Goto(t, "nonce") /\ UNCHANGED <<prior, nonce, box>>
       ELSE End(t, "LimitError")
    /\ UNCHANGED <<gcm_invocations_, drawn, attempts, sealed, opened>>

\* fill_random fails with IoError after the invocation was counted.
generate_nonce(t) ==
    /\ pc[t] = "nonce"
    /\ \/ /\ drawn' = drawn + 1
          /\ nonce' = [nonce EXCEPT ![t] = drawn + 1]
          /\ Goto(t, "seal")
          /\ UNCHANGED <<prior, box>>
       \/ End(t, "IoError") /\ UNCHANGED drawn
    /\ UNCHANGED <<gcm_invocations_, attempts, sealed, opened>>

\* apply_keystream and compute_tag, on locals only.
Seal(t) ==
    /\ pc[t] = "seal"
    /\ sealed' = sealed \cup
         {[box |-> Container(nonce[t], aad[t], msg[t]), aad |-> aad[t]]}
    /\ End(t, "idle")
    /\ UNCHANGED <<gcm_invocations_, drawn, attempts, opened>>

-----------------------------------------------------------------------------
\* decrypt(key, c, a)
CallDecrypt(t, c, a) ==
    /\ pc[t] \in Ended
    /\ pc' = [pc EXCEPT ![t] = "verify"]
    /\ aad' = [aad EXCEPT ![t] = a]
    /\ box' = [box EXCEPT ![t] = c]
    /\ UNCHANGED <<gcm_invocations_, msg, prior, nonce, drawn, attempts, sealed, opened>>

TagNotChecked(t) == TRUE
TagMatches(t) == box[t].tag = compute_tag(box[t].nonce, aad[t], box[t].body)

\* The size check, the tag over the received ciphertext, the comparison.
Verify(t) ==
    /\ pc[t] = "verify"
    /\ IF box[t].body.msg \in TooLong THEN End(t, "LimitError")
       ELSE IF TagMatches(t) THEN Goto(t, "unmask") /\ UNCHANGED <<prior, nonce, box>>
       ELSE End(t, "AuthenticationError")
    /\ UNCHANGED <<gcm_invocations_, drawn, attempts, sealed, opened>>

Release(t) ==
    /\ pc[t] = "unmask"
    /\ opened' = opened \cup
         {[nonce |-> box[t].nonce, aad |-> aad[t],
           msg |-> Unmask(box[t].nonce, box[t].body)]}
    /\ End(t, "idle")
    /\ UNCHANGED <<gcm_invocations_, drawn, attempts, sealed>>

-----------------------------------------------------------------------------
Encrypting(t) ==
    \/ \E m \in Msgs, a \in Aads : Call(t, m, a)
    \/ Validate(t) \/ consume_gcm_invocation(t) \/ check_gcm_invocation_count(t)
    \/ generate_nonce(t) \/ Seal(t)

Decrypting(t) ==
    \/ \E c \in Boxes, a \in Aads : CallDecrypt(t, c, a)
    \/ Verify(t) \/ Release(t)

Next == \E t \in Threads : Encrypting(t) \/ Decrypting(t)

Spec == Init /\ [][Next]_vars

-----------------------------------------------------------------------------
Received ==
    [nonce : Nat, body : [nonce : Nat, msg : Msgs \cup {NoMsg}],
     tag : {NoBox.tag} \cup {s.box.tag : s \in sealed}]

\* Types of the counter, of each call's locals and of the container it is given.
TypeOK ==
    /\ gcm_invocations_ \in 0 .. CounterMod - 1
    /\ attempts \in 0 .. MaxAttempts /\ drawn \in Nat
    /\ pc \in [Threads -> Ended \cup {"validate", "consume", "check", "nonce", "seal",
                                      "verify", "unmask"}]
    /\ msg \in [Threads -> Msgs \cup {NoMsg}]
    /\ aad \in [Threads -> Aads \cup {NoMsg}]
    /\ prior \in [Threads -> Nat] /\ nonce \in [Threads -> Nat]
    /\ box \in [Threads -> Received]

(***************************************************************************)
(* "the 2^32+1th call throws LimitError" (DESIGN.md), "before spending a   *)
(* random nonce": whatever the interleaving of the threads that share the  *)
(* key, and although the check runs after the atomic increment and refused *)
(* calls keep incrementing, at most kGcmInvocationLimit nonces are drawn.  *)
(***************************************************************************)
NoncesWithinLimit == drawn <= kGcmInvocationLimit

(***************************************************************************)
(* decrypt returns only what encrypt sealed: the same message under the    *)
(* same nonce and associated data, when the container it is given mixes    *)
(* fields of several sealed ones or holds another ciphertext.              *)
(***************************************************************************)
OnlySealedIsOpened ==
    \A x \in opened : \E s \in sealed :
        s.aad = x.aad /\ s.box = Container(x.nonce, x.aad, x.msg)

(***************************************************************************)
(* AesGcm implements Aead: besides the two invariants above, no nonce goes *)
(* into two containers, and every step of a thread is one step of Aead or  *)
(* none.                                                                   *)
(***************************************************************************)
SealedMessages ==
    {[nonce |-> s.box.nonce, aad |-> s.aad, msg |-> s.box.body.msg] : s \in sealed}

A == INSTANCE Aead WITH Limit <- kGcmInvocationLimit, spent <- drawn,
                        sealed <- SealedMessages

ImplementsAead == A!Spec

-----------------------------------------------------------------------------
(***************************************************************************)
(* The inductive invariant.  Pending are the threads that have counted an  *)
(* invocation within the limit and not yet drawn its nonce: they hold a    *)
(* claim on the budget, so the nonces drawn and the claims together stay   *)
(* below both the calls counted and the limit.                             *)
(***************************************************************************)
Pending == {t \in Threads : pc[t] \in {"check", "nonce"} /\ Admits(prior[t])}

BudgetInv ==
    /\ gcm_invocations_ = attempts
    /\ \A t \in Threads : pc[t] = "nonce" => Admits(prior[t])
    /\ drawn + Cardinality(Pending) <= attempts
    /\ drawn + Cardinality(Pending) <= kGcmInvocationLimit

ArgInv ==
    \A t \in Threads :
        /\ pc[t] \in {"validate", "consume", "check", "nonce", "seal"} => msg[t] \in Msgs
        /\ pc[t] \notin Ended => aad[t] \in Aads

SealInv ==
    /\ \A t \in Threads : pc[t] = "seal" =>
         /\ nonce[t] \in 1 .. drawn
         /\ \A s \in sealed : s.box.nonce # nonce[t]
         /\ \A u \in Threads \ {t} : pc[u] = "seal" => nonce[u] # nonce[t]
    /\ \A s \in sealed :
         /\ s.box.nonce \in 1 .. drawn
         /\ s.box = Container(s.box.nonce, s.aad, s.box.body.msg)
         /\ s.aad \in Aads /\ s.box.body.msg \in Msgs

OpenInv ==
    \A t \in Threads :
        /\ pc[t] \in {"verify", "unmask"} => \E s \in sealed : box[t].tag = s.box.tag
        /\ pc[t] = "unmask" => TagMatches(t)

\* Inductive invariant of the threads that encrypt and decrypt with one key.
IInv == TypeOK /\ BudgetInv /\ ArgInv /\ SealInv /\ OpenInv
=============================================================================
