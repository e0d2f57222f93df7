--------------------------- MODULE AesGcmProofs ----------------------------
(* Proofs about AesGcm for any finite set of threads, any messages and any *)
(* invocation limit, as long as the 64-bit counter does not wrap.          *)
EXTENDS AesGcm, FiniteSetTheorems, TLAPS

-----------------------------------------------------------------------------
(* The set of claims on the budget.                                        *)
LEMMA PendingFinite == IsFiniteSet(Pending) /\ Cardinality(Pending) \in Nat
<1>1. Pending \subseteq Threads
    BY DEF Pending
<1> QED BY <1>1, ThreadsAssumption, FS_Subset, FS_CardinalityType

(* A step of thread t moves at most t in or out of Pending.                *)
LEMMA PendingSame ==
    ASSUME Pending' = Pending
    PROVE  Cardinality(Pending') = Cardinality(Pending)
OBVIOUS

LEMMA PendingAdd ==
    ASSUME NEW t \in Threads, t \notin Pending, Pending' = Pending \cup {t}
    PROVE  Cardinality(Pending') = Cardinality(Pending) + 1
BY PendingFinite, FS_AddElement

LEMMA PendingDrop ==
    ASSUME NEW t \in Threads, t \in Pending, Pending' = Pending \ {t}
    PROVE  Cardinality(Pending') = Cardinality(Pending) - 1
BY PendingFinite, FS_RemoveElement

-----------------------------------------------------------------------------
LEMMA InitIInv == Init => IInv
<1> SUFFICES ASSUME Init PROVE IInv
    OBVIOUS
<1>1. Pending = {} /\ Cardinality(Pending) = 0
    BY FS_EmptySet DEF Pending, Init
<1>2. TypeOK
    BY LimitAssumption DEF Init, TypeOK, Ended, NoMsg, NoBox, Mask, Received
<1>3. BudgetInv
    BY <1>1, LimitAssumption DEF Init, BudgetInv
<1>4. ArgInv /\ SealInv /\ OpenInv
    BY DEF Init, ArgInv, SealInv, OpenInv, Ended
<1> QED BY <1>2, <1>3, <1>4 DEF IInv

(* Each action keeps the types.                                            *)
LEMMA TypePreserved == ASSUME IInv, NEW t \in Threads, Encrypting(t) \/ Decrypting(t)
                       PROVE  TypeOK'
<1> DEFINE TypeOfOthers ==
        /\ gcm_invocations_ \in 0 .. CounterMod - 1
        /\ attempts \in 0 .. MaxAttempts /\ drawn \in Nat
        /\ pc \in [Threads -> Ended \cup {"validate", "consume", "check", "nonce", "seal",
                                          "verify", "unmask"}]
        /\ msg \in [Threads -> Msgs \cup {NoMsg}]
        /\ aad \in [Threads -> Aads \cup {NoMsg}]
        /\ prior \in [Threads -> Nat] /\ nonce \in [Threads -> Nat]
<1>t. TypeOfOthers /\ box \in [Threads -> Received]
    BY DEF IInv, TypeOK
<1>s. sealed \subseteq sealed'
    BY DEF Encrypting, Decrypting, Call, Validate, consume_gcm_invocation,
           check_gcm_invocation_count, generate_nonce, Seal, CallDecrypt, Verify, Release
<1>r. Received \subseteq Received'
    BY <1>s DEF Received
<1>n. NoBox \in Received
    BY DEF NoBox, Mask, Received
<1>c. Boxes \subseteq Received
    BY DEF Boxes, Nonces, Received
<1>1. ASSUME NEW m \in Msgs, NEW a \in Aads, Call(t, m, a)
      PROVE  TypeOfOthers' /\ box' \in [Threads -> Received]
    BY <1>1, <1>t DEF Call
<1>2. CASE Validate(t)
  <2>1. TypeOfOthers' /\ box' \in [Threads -> Received]
      BY <1>2, <1>t, <1>n DEF Validate, Goto, End, Ended
  <2> QED BY <2>1, <1>r DEF TypeOK
<1>3. CASE consume_gcm_invocation(t)
  <2>1. TypeOfOthers' /\ box' \in [Threads -> Received]
      BY <1>3, <1>t, LimitAssumption DEF consume_gcm_invocation, FetchAdd, Goto
  <2> QED BY <2>1, <1>r DEF TypeOK
<1>4. CASE check_gcm_invocation_count(t)
  <2>1. TypeOfOthers' /\ box' \in [Threads -> Received]
      BY <1>4, <1>t, <1>n DEF check_gcm_invocation_count, Goto, End, Ended
  <2> QED BY <2>1, <1>r DEF TypeOK
<1>5. CASE generate_nonce(t)
  <2>1. TypeOfOthers' /\ box' \in [Threads -> Received]
      BY <1>5, <1>t, <1>n DEF generate_nonce, Goto, End, Ended
  <2> QED BY <2>1, <1>r DEF TypeOK
<1>6. CASE Seal(t)
  <2>1. TypeOfOthers' /\ box' \in [Threads -> Received]
      BY <1>6, <1>t, <1>n DEF Seal, End, Ended
  <2> QED BY <2>1, <1>r DEF TypeOK
<1>7. ASSUME NEW c \in Boxes, NEW a \in Aads, CallDecrypt(t, c, a)
      PROVE  TypeOfOthers' /\ box' \in [Threads -> Received]
    BY <1>7, <1>t, <1>c DEF CallDecrypt
<1>8. CASE Verify(t)
  <2>1. TypeOfOthers' /\ box' \in [Threads -> Received]
      BY <1>8, <1>t, <1>n DEF Verify, Goto, End, Ended
  <2> QED BY <2>1, <1>r DEF TypeOK
<1>9. CASE Release(t)
  <2>1. TypeOfOthers' /\ box' \in [Threads -> Received]
      BY <1>9, <1>t, <1>n DEF Release, End, Ended
  <2> QED BY <2>1, <1>r DEF TypeOK
<1>10. TypeOfOthers' /\ box' \in [Threads -> Received] => TypeOK'
    BY <1>r DEF TypeOK
<1> QED BY <1>1, <1>2, <1>3, <1>4, <1>5, <1>6, <1>7, <1>8, <1>9, <1>10
        DEF Encrypting, Decrypting

(* Steps that touch neither the counter nor a claim keep the budget.       *)
LEMMA BudgetKept ==
    ASSUME BudgetInv, NEW t \in Threads,
           UNCHANGED <<gcm_invocations_, attempts, drawn>>,
           \A u \in Threads \ {t} : pc'[u] = pc[u] /\ prior'[u] = prior[u],
           pc[t] \notin {"check", "nonce"}, pc'[t] \notin {"check", "nonce"}
    PROVE  BudgetInv'
<1>1. Pending' = Pending
    BY DEF Pending, Admits
<1> QED BY <1>1, PendingSame DEF BudgetInv, Admits

LEMMA BudgetPreserved == ASSUME IInv, NEW t \in Threads, Encrypting(t) \/ Decrypting(t)
                         PROVE  BudgetInv'
<1> USE DEF IInv, TypeOK
<1>c. Cardinality(Pending) \in Nat /\ drawn \in Nat /\ attempts \in Nat
      /\ kGcmInvocationLimit \in Nat /\ CounterMod \in Nat
    BY PendingFinite, LimitAssumption
<1>1. ASSUME NEW m \in Msgs, NEW a \in Aads, Call(t, m, a) PROVE BudgetInv'
    BY <1>1, BudgetKept DEF Call, Ended
<1>2. CASE Validate(t)
    BY <1>2, BudgetKept DEF Validate, Goto, End
<1>3. CASE consume_gcm_invocation(t)
  <2>1. /\ pc[t] = "consume" /\ attempts < MaxAttempts /\ attempts' = attempts + 1
        /\ prior' = [prior EXCEPT ![t] = attempts] /\ drawn' = drawn
        /\ pc' = [pc EXCEPT ![t] = "check"]
      BY <1>3 DEF consume_gcm_invocation, FetchAdd, Goto, BudgetInv
  <2>2. gcm_invocations_' = attempts'
      BY <1>3, <2>1, <1>c, LimitAssumption
      DEF consume_gcm_invocation, FetchAdd, BudgetInv
  <2>3. t \notin Pending
      BY <2>1 DEF Pending
  <2>4. \A u \in Threads : pc'[u] = "nonce" => Admits(prior'[u])
      BY <2>1 DEF BudgetInv, Admits
  <2>5. CASE attempts < kGcmInvocationLimit
    <3>1. Pending' = Pending \cup {t}
        BY <2>1, <2>5 DEF Pending, Admits
    <3>2. Cardinality(Pending') = Cardinality(Pending) + 1
        BY <3>1, <2>3, PendingAdd
    <3> QED BY <3>2, <2>1, <2>2, <2>4, <2>5, <1>c DEF BudgetInv
  <2>6. CASE ~(attempts < kGcmInvocationLimit)
    <3>1. Pending' = Pending
        BY <2>1, <2>6 DEF Pending, Admits
    <3> QED BY <3>1, PendingSame, <2>1, <2>2, <2>4, <1>c DEF BudgetInv
  <2> QED BY <2>5, <2>6
<1>4. CASE check_gcm_invocation_count(t)
  <2>1. Pending' = Pending
      BY <1>4 DEF check_gcm_invocation_count, Goto, End, Pending, Admits
  <2>2. \A u \in Threads : pc'[u] = "nonce" => Admits(prior'[u])
      BY <1>4 DEF check_gcm_invocation_count, Goto, End, BudgetInv, Admits
  <2> QED BY <1>4, <2>1, <2>2, PendingSame DEF check_gcm_invocation_count, BudgetInv
<1>5. CASE generate_nonce(t)
  <2>1. t \in Pending
      BY <1>5 DEF generate_nonce, Pending, BudgetInv
  <2>2. Pending' = Pending \ {t}
      BY <1>5 DEF generate_nonce, Goto, End, Pending, Admits
  <2>3. Cardinality(Pending') = Cardinality(Pending) - 1
      BY <2>1, <2>2, PendingDrop
  <2>4. drawn' \in {drawn, drawn + 1} /\ UNCHANGED <<gcm_invocations_, attempts>>
      BY <1>5 DEF generate_nonce
  <2>5. \A u \in Threads : pc'[u] = "nonce" => Admits(prior'[u])
      BY <1>5 DEF generate_nonce, Goto, End, BudgetInv, Admits
  <2> QED BY <2>3, <2>4, <2>5, <1>c DEF BudgetInv
<1>6. CASE Seal(t)
    BY <1>6, BudgetKept DEF Seal, End
<1>7. ASSUME NEW c \in Boxes, NEW a \in Aads, CallDecrypt(t, c, a) PROVE BudgetInv'
    BY <1>7, BudgetKept DEF CallDecrypt, Ended
<1>8. CASE Verify(t)
    BY <1>8, BudgetKept DEF Verify, Goto, End
<1>9. CASE Release(t)
    BY <1>9, BudgetKept DEF Release, End
<1> QED BY <1>1, <1>2, <1>3, <1>4, <1>5, <1>6, <1>7, <1>8, <1>9 DEF Encrypting, Decrypting

-----------------------------------------------------------------------------
(* Arguments, containers and pending decryptions.                          *)
LEMMA ArgPreserved == ASSUME IInv, NEW t \in Threads, Encrypting(t) \/ Decrypting(t)
                      PROVE  ArgInv'
<1> USE DEF IInv, TypeOK, ArgInv, Ended
<1>1. ASSUME NEW m \in Msgs, NEW a \in Aads, Call(t, m, a) PROVE ArgInv'
    BY <1>1 DEF Call
<1>2. CASE Validate(t)
    BY <1>2 DEF Validate, Goto, End
<1>3. CASE consume_gcm_invocation(t)
    BY <1>3 DEF consume_gcm_invocation, Goto
<1>4. CASE check_gcm_invocation_count(t)
    BY <1>4 DEF check_gcm_invocation_count, Goto, End
<1>5. CASE generate_nonce(t)
    BY <1>5 DEF generate_nonce, Goto, End
<1>6. CASE Seal(t)
    BY <1>6 DEF Seal, End
<1>7. ASSUME NEW c \in Boxes, NEW a \in Aads, CallDecrypt(t, c, a) PROVE ArgInv'
    BY <1>7 DEF CallDecrypt
<1>8. CASE Verify(t)
    BY <1>8 DEF Verify, Goto, End
<1>9. CASE Release(t)
    BY <1>9 DEF Release, End
<1> QED BY <1>1, <1>2, <1>3, <1>4, <1>5, <1>6, <1>7, <1>8, <1>9 DEF Encrypting, Decrypting

(* Steps that neither draw a nonce nor seal keep SealInv.                  *)
LEMMA SealKept ==
    ASSUME SealInv, NEW t \in Threads, UNCHANGED <<drawn, sealed>>,
           \A u \in Threads \ {t} : pc'[u] = pc[u] /\ nonce'[u] = nonce[u],
           pc'[t] # "seal"
    PROVE  SealInv'
BY DEF SealInv, Container, Mask, compute_tag

LEMMA SealPreserved == ASSUME IInv, NEW t \in Threads, Encrypting(t) \/ Decrypting(t)
                       PROVE  SealInv'
<1> USE DEF IInv, TypeOK, Ended
<1>1. ASSUME NEW m \in Msgs, NEW a \in Aads, Call(t, m, a) PROVE SealInv'
    BY <1>1, SealKept DEF Call
<1>2. CASE Validate(t)
    BY <1>2, SealKept DEF Validate, Goto, End
<1>3. CASE consume_gcm_invocation(t)
    BY <1>3, SealKept DEF consume_gcm_invocation, Goto
<1>4. CASE check_gcm_invocation_count(t)
    BY <1>4, SealKept DEF check_gcm_invocation_count, Goto, End
<1>5. CASE generate_nonce(t)
  <2>1. CASE pc' = [pc EXCEPT ![t] = "seal"] /\ drawn' = drawn + 1
             /\ nonce' = [nonce EXCEPT ![t] = drawn + 1] /\ sealed' = sealed
    <3>1. /\ nonce'[t] = drawn + 1 /\ pc'[t] = "seal" /\ drawn \in Nat
          /\ \A u \in Threads \ {t} : pc'[u] = pc[u] /\ nonce'[u] = nonce[u]
        BY <2>1
    <3>2. \A u \in Threads \ {t} : pc[u] = "seal" => nonce[u] \in 1 .. drawn
        BY DEF SealInv
    <3>3. \A s \in sealed : s.box.nonce \in 1 .. drawn
        BY DEF SealInv
    <3>4. \A s \in sealed : /\ s.box = Container(s.box.nonce, s.aad, s.box.body.msg)
                            /\ s.aad \in Aads /\ s.box.body.msg \in Msgs
        BY DEF SealInv
    <3>5. \A u \in Threads : pc'[u] = "seal" =>
             /\ nonce'[u] \in 1 .. drawn'
             /\ \A s \in sealed' : s.box.nonce # nonce'[u]
             /\ \A v \in Threads \ {u} : pc'[v] = "seal" => nonce'[v] # nonce'[u]
      <4> SUFFICES ASSUME NEW u \in Threads, pc'[u] = "seal"
                   PROVE  /\ nonce'[u] \in 1 .. drawn'
                          /\ \A s \in sealed' : s.box.nonce # nonce'[u]
                          /\ \A v \in Threads \ {u} : pc'[v] = "seal" => nonce'[v] # nonce'[u]
          OBVIOUS
      <4>1. CASE u = t
          BY <4>1, <3>1, <3>2, <3>3, <2>1
      <4>2. CASE u # t
        <5>1. nonce'[u] = nonce[u] /\ pc[u] = "seal" /\ nonce[u] \in 1 .. drawn
            BY <4>2, <3>1, <3>2
        <5>2. \A s \in sealed : s.box.nonce # nonce[u]
            BY <5>1 DEF SealInv
        <5>3. \A v \in Threads \ {u} : pc'[v] = "seal" => nonce'[v] # nonce[u]
          <6> SUFFICES ASSUME NEW v \in Threads \ {u}, pc'[v] = "seal"
                       PROVE  nonce'[v] # nonce[u]
              OBVIOUS
          <6>1. CASE v = t
              BY <6>1, <5>1, <3>1
          <6>2. CASE v # t
              BY <6>2, <5>1, <3>1 DEF SealInv
          <6> QED BY <6>1, <6>2
        <5> QED BY <5>1, <5>2, <5>3, <3>1, <2>1
      <4> QED BY <4>1, <4>2
    <3>6. \A s \in sealed' : s.box.nonce \in 1 .. drawn'
        BY <3>3, <3>1, <2>1
    <3> QED BY <3>4, <3>5, <3>6, <2>1 DEF SealInv, Container, Mask, compute_tag
  <2>2. CASE End(t, "IoError") /\ UNCHANGED <<drawn, sealed>>
      BY <2>2, SealKept DEF End
  <2> QED BY <1>5, <2>1, <2>2 DEF generate_nonce, Goto
<1>6. CASE Seal(t)
  <2> DEFINE new == [box |-> Container(nonce[t], aad[t], msg[t]), aad |-> aad[t]]
  <2>1. /\ pc[t] = "seal" /\ sealed' = sealed \cup {new} /\ drawn' = drawn
        /\ pc' = [pc EXCEPT ![t] = "idle"] /\ nonce' = [nonce EXCEPT ![t] = 0]
      BY <1>6 DEF Seal, End
  <2>2. /\ new.box.nonce = nonce[t] /\ new.aad = aad[t] /\ new.box.body.msg = msg[t]
        /\ new.box = Container(nonce[t], aad[t], msg[t])
      BY DEF Container, Mask
  <2>3. aad[t] \in Aads /\ msg[t] \in Msgs /\ nonce[t] \in 1 .. drawn
      BY <2>1 DEF ArgInv, SealInv
  <2> HIDE DEF new
  <2>4. \A s \in sealed' : /\ s.box.nonce \in 1 .. drawn'
                           /\ s.box = Container(s.box.nonce, s.aad, s.box.body.msg)
                           /\ s.aad \in Aads /\ s.box.body.msg \in Msgs
      BY <2>1, <2>2, <2>3 DEF SealInv
  <2>5. \A u \in Threads : pc'[u] = "seal" =>
           /\ nonce'[u] \in 1 .. drawn'
           /\ \A s \in sealed' : s.box.nonce # nonce'[u]
           /\ \A v \in Threads \ {u} : pc'[v] = "seal" => nonce'[v] # nonce'[u]
    <3> SUFFICES ASSUME NEW u \in Threads, pc'[u] = "seal"
                 PROVE  /\ nonce'[u] \in 1 .. drawn'
                        /\ \A s \in sealed' : s.box.nonce # nonce'[u]
                        /\ \A v \in Threads \ {u} : pc'[v] = "seal" => nonce'[v] # nonce'[u]
        OBVIOUS
    <3>1. u # t /\ pc[u] = "seal" /\ nonce'[u] = nonce[u]
        BY <2>1
    <3>2. nonce[t] # nonce[u]
        BY <3>1, <2>1 DEF SealInv
    <3> QED BY <3>1, <3>2, <2>1, <2>2 DEF SealInv
  <2> QED BY <2>4, <2>5 DEF SealInv, Container, Mask, compute_tag
<1>7. ASSUME NEW c \in Boxes, NEW a \in Aads, CallDecrypt(t, c, a) PROVE SealInv'
    BY <1>7, SealKept DEF CallDecrypt
<1>8. CASE Verify(t)
    BY <1>8, SealKept DEF Verify, Goto, End
<1>9. CASE Release(t)
    BY <1>9, SealKept DEF Release, End
<1> QED BY <1>1, <1>2, <1>3, <1>4, <1>5, <1>6, <1>7, <1>8, <1>9 DEF Encrypting, Decrypting

(* Steps of threads that do not decrypt keep OpenInv.                      *)
LEMMA OpenKept ==
    ASSUME OpenInv, NEW t \in Threads, sealed \subseteq sealed',
           \A u \in Threads \ {t} : /\ pc'[u] = pc[u] /\ box'[u] = box[u]
                                    /\ aad'[u] = aad[u],
           pc'[t] \notin {"verify", "unmask"}
    PROVE  OpenInv'
BY DEF OpenInv, TagMatches, compute_tag

LEMMA OpenPreserved == ASSUME IInv, NEW t \in Threads, Encrypting(t) \/ Decrypting(t)
                       PROVE  OpenInv'
<1> USE DEF IInv, TypeOK, Ended
<1>b. \A u \in Threads \ {t} : box'[u] = box[u]
    BY DEF Encrypting, Decrypting, Call, Validate, consume_gcm_invocation,
           check_gcm_invocation_count, generate_nonce, Seal, CallDecrypt, Verify, Release, End
<1>1. ASSUME NEW m \in Msgs, NEW a \in Aads, Call(t, m, a) PROVE OpenInv'
    BY <1>1, <1>b, OpenKept DEF Call
<1>2. CASE Validate(t)
    BY <1>2, <1>b, OpenKept DEF Validate, Goto, End
<1>3. CASE consume_gcm_invocation(t)
    BY <1>3, <1>b, OpenKept DEF consume_gcm_invocation, Goto
<1>4. CASE check_gcm_invocation_count(t)
    BY <1>4, <1>b, OpenKept DEF check_gcm_invocation_count, Goto, End
<1>5. CASE generate_nonce(t)
    BY <1>5, <1>b, OpenKept DEF generate_nonce, Goto, End
<1>6. CASE Seal(t)
    BY <1>6, <1>b, OpenKept DEF Seal, End
<1>7. ASSUME NEW c \in Boxes, NEW a \in Aads, CallDecrypt(t, c, a) PROVE OpenInv'
  <2>1. \E s \in sealed : c.tag = s.box.tag
      BY DEF Boxes
  <2>2. pc' = [pc EXCEPT ![t] = "verify"] /\ aad' = [aad EXCEPT ![t] = a] /\ sealed' = sealed
      BY <1>7 DEF CallDecrypt
  <2>3. box'[t] = c
      BY <1>7 DEF CallDecrypt
  <2> QED BY <2>1, <2>2, <2>3, <1>b DEF OpenInv, TagMatches, compute_tag
<1>8. CASE Verify(t)
  <2>1. CASE Goto(t, "unmask") /\ TagMatches(t) /\ box' = box /\ sealed' = sealed
      BY <1>8, <2>1 DEF Verify, Goto, OpenInv, TagMatches, compute_tag
  <2>2. CASE (End(t, "LimitError") \/ End(t, "AuthenticationError")) /\ sealed' = sealed
      BY <2>2, <1>b, OpenKept DEF End
  <2> QED BY <1>8, <2>1, <2>2 DEF Verify
<1>9. CASE Release(t)
    BY <1>9, <1>b, OpenKept DEF Release, End
<1> QED BY <1>1, <1>2, <1>3, <1>4, <1>5, <1>6, <1>7, <1>8, <1>9 DEF Encrypting, Decrypting

LEMMA NextIInv == IInv /\ [Next]_vars => IInv'
<1> SUFFICES ASSUME IInv, [Next]_vars PROVE IInv'
    OBVIOUS
<1>1. ASSUME NEW t \in Threads, Encrypting(t) \/ Decrypting(t) PROVE IInv'
    BY <1>1, TypePreserved, BudgetPreserved, ArgPreserved, SealPreserved, OpenPreserved
    DEF IInv
<1>2. CASE UNCHANGED vars
    BY <1>2 DEF vars, IInv, TypeOK, BudgetInv, Pending, Admits, ArgInv, SealInv, OpenInv, Received,
                TagMatches, compute_tag, Container, Mask
<1> QED BY <1>1, <1>2 DEF Next

\* For any threads and limit: in encrypt, the nonces drawn and the claims of
\* the threads that passed check_gcm_invocation_count stay within the calls
\* counted, and decrypt only verifies against tags that were issued.
THEOREM Invariance == Spec => []IInv
BY InitIInv, NextIInv, PTL DEF Spec

(* Threads sharing a key never draw more nonces under it than the limit.   *)
THEOREM NonceBudget == Spec => []NoncesWithinLimit
<1>1. IInv => NoncesWithinLimit
  <2> SUFFICES ASSUME IInv PROVE NoncesWithinLimit
      OBVIOUS
  <2>1. Cardinality(Pending) \in Nat
      BY PendingFinite
  <2> QED BY <2>1, LimitAssumption DEF IInv, TypeOK, BudgetInv, NoncesWithinLimit
<1> QED BY <1>1, Invariance, PTL

-----------------------------------------------------------------------------
(* Refinement of Aead.                                                     *)

(* What a decrypt that passed the tag check will return was sealed: the    *)
(* tag was issued for exactly one nonce, associated data and ciphertext.   *)
LEMMA VerifiedIsSealed ==
    ASSUME IInv, NEW t \in Threads, pc[t] = "unmask"
    PROVE  LET x == [nonce |-> box[t].nonce, aad |-> aad[t],
                     msg |-> Unmask(box[t].nonce, box[t].body)]
           IN  \E s \in sealed :
                 /\ x = [nonce |-> s.box.nonce, aad |-> s.aad, msg |-> s.box.body.msg]
                 /\ s.aad = x.aad /\ s.box = Container(x.nonce, x.aad, x.msg)
<1>1. PICK s \in sealed : box[t].tag = s.box.tag
    BY DEF IInv, OpenInv
<1>2. box[t].tag = compute_tag(box[t].nonce, aad[t], box[t].body)
    BY DEF IInv, OpenInv, TagMatches
<1>3. s.box = Container(s.box.nonce, s.aad, s.box.body.msg)
    BY DEF IInv, SealInv
<1> DEFINE n == s.box.nonce
           m == s.box.body.msg
<1>4. s.box.tag = compute_tag(n, s.aad, Mask(n, m)) /\ s.box.body = Mask(n, m)
    BY <1>3 DEF Container
<1>5. box[t].nonce = n /\ aad[t] = s.aad /\ box[t].body = Mask(n, m)
  <2> DEFINE b == box[t].nonce
             c == box[t].body
             d == Mask(n, m)
             a == aad[t]
             e == s.aad
  <2>1. <<b, a, c>> = <<n, e, d>>
      BY <1>1, <1>2, <1>4 DEF compute_tag
  <2> HIDE DEF a, b, c, d, e, n
  <2>2. b = n /\ a = e /\ c = d
      BY <2>1
  <2> QED BY <2>2 DEF a, b, c, d, e
<1>6. Unmask(box[t].nonce, box[t].body) = m
    BY <1>5 DEF Unmask, Mask
<1> QED BY <1>3, <1>5, <1>6

LEMMA InitRefines == Init => A!Init
BY DEF Init, A!Init, SealedMessages

LEMMA NextRefines == IInv /\ IInv' /\ [Next]_vars => [A!Next]_(A!vars)
<1> SUFFICES ASSUME IInv, IInv', [Next]_vars PROVE [A!Next]_(A!vars)
    OBVIOUS
<1>n. drawn \in Nat /\ drawn <= kGcmInvocationLimit
      /\ drawn' \in Nat /\ drawn' <= kGcmInvocationLimit
  <2>0. Pending' \subseteq Threads
      BY DEF Pending
  <2>1. Cardinality(Pending) \in Nat /\ Cardinality(Pending') \in Nat
      BY <2>0, PendingFinite, ThreadsAssumption, FS_Subset, FS_CardinalityType
  <2> QED BY <2>1, LimitAssumption DEF IInv, TypeOK, BudgetInv
<1>s. ASSUME UNCHANGED <<drawn, sealed, opened>> PROVE UNCHANGED A!vars
    BY <1>s DEF A!vars, SealedMessages
<1>1. ASSUME NEW t \in Threads, generate_nonce(t), drawn' = drawn + 1
      PROVE  A!Next
  <2>1. UNCHANGED <<SealedMessages, opened>>
      BY <1>1 DEF generate_nonce, SealedMessages
  <2> QED BY <1>1, <1>n, <2>1, LimitAssumption DEF A!Next, A!Spend
<1>2. ASSUME NEW t \in Threads, Seal(t) PROVE A!Next
  <2> DEFINE x == [nonce |-> nonce[t], aad |-> aad[t], msg |-> msg[t]]
             new == [box |-> Container(nonce[t], aad[t], msg[t]), aad |-> aad[t]]
  <2>1. nonce[t] \in 1 .. drawn /\ aad[t] \in Aads /\ msg[t] \in Msgs
      BY <1>2 DEF Seal, IInv, SealInv, ArgInv, Ended
  <2>2. x \in A!Sealing
      BY <2>1, <1>n, LimitAssumption DEF A!Sealing
  <2>3. sealed' = sealed \cup {new} /\ drawn' = drawn /\ opened' = opened
      BY <1>2 DEF Seal
  <2>4. new.box.nonce = nonce[t] /\ new.aad = aad[t] /\ new.box.body.msg = msg[t]
      BY DEF Container, Mask
  <2>5. SealedMessages' = SealedMessages \cup {x}
    <3> HIDE DEF new
    <3> QED BY <2>3, <2>4 DEF SealedMessages
  <2>6. \A y \in SealedMessages : y.nonce # x.nonce
      BY <1>2 DEF Seal, IInv, SealInv, SealedMessages
  <2>7. x.nonce <= drawn
      BY <2>1, <1>n
  <2>8. A!Seal(x)
      BY <2>3, <2>5, <2>6, <2>7 DEF A!Seal
  <2> QED BY <2>2, <2>8 DEF A!Next
<1>3. ASSUME NEW t \in Threads, Release(t) PROVE A!Next
  <2> DEFINE x == [nonce |-> box[t].nonce, aad |-> aad[t],
                   msg |-> Unmask(box[t].nonce, box[t].body)]
  <2>1. opened' = opened \cup {x} /\ sealed' = sealed /\ drawn' = drawn /\ pc[t] = "unmask"
      BY <1>3 DEF Release
  <2>2. PICK s \in sealed :
          x = [nonce |-> s.box.nonce, aad |-> s.aad, msg |-> s.box.body.msg]
      BY <2>1, VerifiedIsSealed
  <2>3. x \in SealedMessages
      BY <2>2 DEF SealedMessages
  <2>4. s.box.nonce \in 1 .. drawn /\ s.aad \in Aads /\ s.box.body.msg \in Msgs
      BY DEF IInv, SealInv
  <2> HIDE DEF x
  <2>5. x \in A!Sealing
      BY <2>2, <2>4, <1>n, LimitAssumption DEF A!Sealing
  <2>6. UNCHANGED SealedMessages
      BY <2>1 DEF SealedMessages
  <2>7. A!Open(x)
      BY <2>1, <2>3, <2>6 DEF A!Open
  <2> QED BY <2>5, <2>7 DEF A!Next
<1>4. CASE UNCHANGED vars
    BY <1>4, <1>s DEF vars
<1>5. ASSUME NEW t \in Threads, Encrypting(t) PROVE [A!Next]_(A!vars)
  <2>1. ASSUME NEW m \in Msgs, NEW a \in Aads, Call(t, m, a) PROVE UNCHANGED A!vars
      BY <2>1, <1>s DEF Call
  <2>2. CASE Validate(t) BY <2>2, <1>s DEF Validate
  <2>3. CASE consume_gcm_invocation(t) BY <2>3, <1>s DEF consume_gcm_invocation
  <2>4. CASE check_gcm_invocation_count(t) BY <2>4, <1>s DEF check_gcm_invocation_count
  <2>5. CASE generate_nonce(t)
    <3>1. CASE drawn' = drawn + 1 BY <2>5, <3>1, <1>1
    <3>2. CASE drawn' = drawn BY <2>5, <3>2, <1>s DEF generate_nonce
    <3> QED BY <2>5, <3>1, <3>2 DEF generate_nonce
  <2> QED BY <1>5, <1>2, <2>1, <2>2, <2>3, <2>4, <2>5 DEF Encrypting
<1>6. ASSUME NEW t \in Threads, Decrypting(t) PROVE [A!Next]_(A!vars)
  <2>1. ASSUME NEW c \in Boxes, NEW a \in Aads, CallDecrypt(t, c, a) PROVE UNCHANGED A!vars
      BY <2>1, <1>s DEF CallDecrypt
  <2>2. CASE Verify(t) BY <2>2, <1>s DEF Verify
  <2> QED BY <1>6, <1>3, <2>1, <2>2 DEF Decrypting
<1> QED BY <1>4, <1>5, <1>6 DEF Next

(* encrypt and decrypt, interleaved in any way by any number of threads,   *)
(* implement the abstract specification.                                   *)
THEOREM Refinement == Spec => ImplementsAead
BY InitRefines, NextRefines, Invariance, PTL DEF Spec, ImplementsAead, A!Spec

(* decrypt never returns what encrypt has not sealed.                      *)
THEOREM Authenticity == Spec => []OnlySealedIsOpened
<1>1. Init => OnlySealedIsOpened
    BY DEF Init, OnlySealedIsOpened
<1>2. OnlySealedIsOpened /\ IInv /\ [Next]_vars => OnlySealedIsOpened'
  <2> SUFFICES ASSUME OnlySealedIsOpened, IInv, [Next]_vars PROVE OnlySealedIsOpened'
      OBVIOUS
  <2>k. ASSUME opened' = opened, sealed \subseteq sealed' PROVE OnlySealedIsOpened'
      BY <2>k DEF OnlySealedIsOpened, Container, Mask, compute_tag
  <2>1. ASSUME NEW t \in Threads, Release(t) PROVE OnlySealedIsOpened'
    <3> DEFINE x == [nonce |-> box[t].nonce, aad |-> aad[t],
                     msg |-> Unmask(box[t].nonce, box[t].body)]
    <3>1. opened' = opened \cup {x} /\ sealed' = sealed /\ pc[t] = "unmask"
        BY <2>1 DEF Release
    <3>2. \E s \in sealed : s.aad = x.aad /\ s.box = Container(x.nonce, x.aad, x.msg)
        BY <3>1, VerifiedIsSealed
    <3> HIDE DEF x
    <3> QED BY <3>1, <3>2 DEF OnlySealedIsOpened, Container, Mask, compute_tag
  <2>2. ASSUME NEW t \in Threads, Encrypting(t) PROVE OnlySealedIsOpened'
      BY <2>2, <2>k DEF Encrypting, Call, Validate, consume_gcm_invocation,
                        check_gcm_invocation_count, generate_nonce, Seal
  <2>3. ASSUME NEW t \in Threads, Decrypting(t) PROVE OnlySealedIsOpened'
      BY <2>1, <2>3, <2>k DEF Decrypting, CallDecrypt, Verify
  <2>4. CASE UNCHANGED vars
      BY <2>4, <2>k DEF vars
  <2> QED BY <2>2, <2>3, <2>4 DEF Next
<1> QED BY <1>1, <1>2, Invariance, PTL DEF Spec
=============================================================================
