-------------------------- MODULE KeyAndModeProofs --------------------------
(***************************************************************************)
(* Proofs about the key object and about what is encrypted under it.       *)
(*                                                                         *)
(* SecretKey, for any number of objects, pages and keys, any invocation    *)
(* limit and any placement of the objects on pages: no key is copied, left *)
(* behind or truncated, and its budget of nonces follows it.               *)
(*                                                                         *)
(* CounterMode and TypedCall, for every width of the block counter, every  *)
(* message length and all types: the keystream loop never reuses a pad     *)
(* byte, nonces are random to the last byte, and decrypt_as gives back     *)
(* what was encrypted.                                                     *)
(***************************************************************************)
EXTENDS SecretKey, TypedCall, TLAPS

USE DEF Zero

(* What every operation leaves of the page sets is a set of pages.         *)
LEMMA PageSets ==
    ASSUME NEW o \in Objs, NEW l \in SUBSET Pages
    PROVE  /\ mlock(o, l) \subseteq SUBSET Pages
           /\ munlock(o, l) \in SUBSET Pages
           /\ MADV_DONTDUMP(o, l) \in SUBSET Pages
           /\ MADV_DODUMP(o, l) \in SUBSET Pages
<1>1. PagesOf[o] \in SUBSET Pages
    BY PagesAssumption
<1> QED BY <1>1 DEF mlock, munlock, MADV_DONTDUMP, MADV_DODUMP

LEMMA LockPages ==
    ASSUME NEW o \in Objs, NEW p \in Objs,
           NEW l \in SUBSET Pages, NEW d \in SUBSET Pages
    PROVE  /\ lock_memory(o, l, d) => locked' \subseteq Pages /\ nodump' \subseteq Pages
           /\ unlock_memory(o, l, d) => locked' \subseteq Pages /\ nodump' \subseteq Pages
           /\ LockThenUnlock(o, p, l, d) => locked' \subseteq Pages /\ nodump' \subseteq Pages
<1>1. lock_memory(o, l, d) => locked' \subseteq Pages /\ nodump' \subseteq Pages
    BY PageSets DEF lock_memory
<1>2. unlock_memory(o, l, d) => locked' \subseteq Pages /\ nodump' \subseteq Pages
    BY PageSets DEF unlock_memory
<1>3. ASSUME LockThenUnlock(o, p, l, d)
      PROVE  locked' \subseteq Pages /\ nodump' \subseteq Pages
  <2>1. PICK m \in mlock(o, l) : unlock_memory(p, m, MADV_DONTDUMP(o, d))
      BY <1>3 DEF LockThenUnlock
  <2>2. m \in SUBSET Pages /\ MADV_DONTDUMP(o, d) \in SUBSET Pages
      BY <2>1, PageSets
  <2> QED BY <2>1, <2>2, PageSets DEF unlock_memory
<1> QED BY <1>1, <1>2, <1>3

LEMMA InitKeyIInv == KeyInit => KeyIInv
BY LimitAssumption, BoundAssumption
   DEF KeyInit, KeyIInv, KeyTypeOK, NoResidue, KeyIntact, BudgetFollowsKey, CounterBoundsNonces,
       HoldsKey, KeySizes, Half, Ids, Secrets, Keys

(* The parts of KeyIInv that speak of the key material, without the pages.    *)
LEMMA ConstructIInv ==
    ASSUME KeyIInv, NEW o \in Objs, NEW h \in {Zero, FreshId}, NEW sz \in KeySizes,
           NEW secret \in Secrets \cup {FreshId}, sz = 32 => h = FreshId,
           Construct(o, FreshId, h, sz, secret)
    PROVE  KeyIInv'
<1> USE DEF Construct, FreshId
<1>1. FreshId \in Ids /\ nkeys \in Nat /\ MaxKeys \in Nat
    BY BoundAssumption DEF KeyIInv, KeyTypeOK, Ids
<1>2. locked' \subseteq Pages /\ nodump' \subseteq Pages
    BY LockPages DEF KeyIInv, KeyTypeOK
<1>3. KeyTypeOK'
  <2>1. [secret |-> secret, size |-> sz] \in Keys
      BY <1>1 DEF Keys, Secrets
  <2>2. lo' \in [Objs -> Half] /\ hi' \in [Objs -> Half]
      BY <1>1 DEF KeyIInv, KeyTypeOK, Half
  <2>3. size_' \in [Objs -> KeySizes] /\ gcm_invocations_' \in [Objs -> Nat]
      BY DEF KeyIInv, KeyTypeOK
  <2>4. born' \in [Ids -> Keys] /\ admitted' \in [Ids -> Nat] /\ nkeys' \in 0 .. MaxKeys
      BY <1>1, <2>1 DEF KeyIInv, KeyTypeOK
  <2> QED BY <1>2, <2>2, <2>3, <2>4 DEF KeyIInv, KeyTypeOK
<1>4. \A p \in Objs : p # o => lo'[p] = lo[p] /\ hi'[p] = hi[p]
                              /\ lo[p] # FreshId /\ hi[p] # FreshId
    BY <1>1 DEF KeyIInv, KeyTypeOK, KeyIntact, CounterBoundsNonces, HoldsKey, Half, Ids
<1>5. lo'[o] = FreshId /\ hi'[o] \in {Zero, FreshId}
    BY DEF KeyIInv, KeyTypeOK
<1>6. NoResidue'
    BY <1>4, <1>5 DEF KeyIInv, NoResidue
<1>7. KeyIntact'
    BY <1>1, <1>4, <1>5 DEF KeyIInv, KeyTypeOK, KeyIntact, HoldsKey, Half, Ids
<1>8. BudgetFollowsKey'
    BY DEF KeyIInv, BudgetFollowsKey
<1>9. CounterBoundsNonces'
    BY <1>1, <1>4, <1>5 DEF KeyIInv, KeyTypeOK, CounterBoundsNonces, KeyIntact, HoldsKey, Half, Ids
<1> QED BY <1>3, <1>6, <1>7, <1>8, <1>9 DEF KeyIInv

(* Moving a key: Transfer with the source alive and the destination empty  *)
(* or about to be overwritten.                                             *)
LEMMA TransferIInv ==
    ASSUME KeyIInv, NEW d \in Objs, NEW s \in Objs, d # s, Transfer(d, s), s \in alive,
           alive' = alive \cup {d}, UNCHANGED <<keyFiles, nkeys, born, admitted>>,
           locked' \subseteq Pages, nodump' \subseteq Pages
    PROVE  KeyIInv'
<1>1. /\ lo'[d] = lo[s] /\ lo'[s] = Zero /\ hi'[d] = hi[s] /\ hi'[s] = Zero
      /\ size_'[d] = size_[s] /\ gcm_invocations_'[d] = gcm_invocations_[s]
      /\ \A p \in Objs \ {d, s} : lo'[p] = lo[p] /\ hi'[p] = hi[p]
      /\ \A p \in Objs \ {d} : size_'[p] = size_[p]
                              /\ gcm_invocations_'[p] = gcm_invocations_[p]
    BY DEF KeyIInv, KeyTypeOK, Transfer
<1>2. KeyTypeOK'
    BY DEF KeyIInv, KeyTypeOK, Transfer, Half
<1>3. NoResidue'
    BY <1>1 DEF KeyIInv, NoResidue
<1>4. KeyIntact'
    BY <1>1 DEF KeyIInv, KeyIntact, HoldsKey
<1>5. BudgetFollowsKey'
    BY DEF KeyIInv, BudgetFollowsKey
<1>6. CounterBoundsNonces'
    BY <1>1 DEF KeyIInv, CounterBoundsNonces, HoldsKey
<1> QED BY <1>2, <1>3, <1>4, <1>5, <1>6 DEF KeyIInv

LEMMA NextKeyIInv == KeyIInv /\ [KeyNext]_keyVars => KeyIInv'
<1> SUFFICES ASSUME KeyIInv, [KeyNext]_keyVars PROVE KeyIInv'
    OBVIOUS
<1>t. locked \in SUBSET Pages /\ nodump \in SUBSET Pages
    BY DEF KeyIInv, KeyTypeOK
<1>1. ASSUME NEW o \in Objs, NEW sz \in KeySizes, generate(o, sz) PROVE KeyIInv'
    BY <1>1, ConstructIInv DEF generate
<1>2. ASSUME NEW o \in Objs, NEW f \in keyFiles, load_from_file(o, f) PROVE KeyIInv'
  <2>1. f.size \in KeySizes /\ f.secret \in Secrets
      BY DEF KeyIInv, KeyTypeOK, Keys
  <2> QED BY <1>2, <2>1, ConstructIInv DEF load_from_file
<1>3. ASSUME NEW o \in Objs, CreationFails(o) PROVE KeyIInv'
  <2>1. locked' \subseteq Pages /\ nodump' \subseteq Pages
      BY <1>3, <1>t, LockPages DEF CreationFails
  <2>2. lo[o] = Zero /\ hi[o] = Zero /\ lo' = lo /\ hi' = hi
      BY <1>3 DEF CreationFails, WipeBytes, KeyIInv, NoResidue, KeyTypeOK
  <2>3. KeyTypeOK'
      BY <1>3, <2>1, <2>2 DEF CreationFails, KeyIInv, KeyTypeOK, KeySizes
  <2>4. NoResidue' /\ BudgetFollowsKey'
      BY <1>3, <2>2 DEF CreationFails, KeyIInv, NoResidue, BudgetFollowsKey
  <2>5. KeyIntact' /\ CounterBoundsNonces'
      BY <1>3, <2>2 DEF CreationFails, KeyIInv, KeyTypeOK, KeyIntact, CounterBoundsNonces, HoldsKey
  <2> QED BY <2>3, <2>4, <2>5 DEF KeyIInv
<1>4. ASSUME NEW d \in Objs, NEW s \in Objs, MoveConstruct(d, s) PROVE KeyIInv'
  <2>1. locked' \subseteq Pages /\ nodump' \subseteq Pages
      BY <1>4, <1>t, LockPages DEF MoveConstruct
  <2> QED BY <1>4, <2>1, TransferIInv DEF MoveConstruct
<1>5. ASSUME NEW d \in Objs, NEW s \in Objs, MoveAssign(d, s) PROVE KeyIInv'
  <2>1. munlock(d, locked) \in SUBSET Pages /\ MADV_DODUMP(d, nodump) \in SUBSET Pages
      BY <1>t, PageSets
  <2>2. locked' \subseteq Pages /\ nodump' \subseteq Pages
      BY <1>5, <2>1, LockPages DEF MoveAssign
  <2> QED BY <1>5, <2>2, TransferIInv DEF MoveAssign
<1>6. ASSUME NEW o \in Objs, Destroy(o) PROVE KeyIInv'
  <2>1. locked' \subseteq Pages /\ nodump' \subseteq Pages
      BY <1>6, <1>t, LockPages DEF Destroy
  <2>2. /\ lo'[o] = Zero /\ hi'[o] = Zero
        /\ \A p \in Objs \ {o} : lo'[p] = lo[p] /\ hi'[p] = hi[p]
      BY <1>6 DEF Destroy, WipeBytes, KeyIInv, KeyTypeOK
  <2>3. KeyTypeOK'
      BY <1>6, <2>1 DEF Destroy, WipeBytes, KeyIInv, KeyTypeOK, Half
  <2>4. NoResidue' /\ BudgetFollowsKey'
      BY <1>6, <2>2 DEF Destroy, KeyIInv, NoResidue, BudgetFollowsKey
  <2>5. KeyIntact' /\ CounterBoundsNonces'
      BY <1>6, <2>2 DEF Destroy, KeyIInv, KeyIntact, CounterBoundsNonces, HoldsKey
  <2> QED BY <2>3, <2>4, <2>5 DEF KeyIInv
<1>7. ASSUME NEW o \in Objs, save_to_file(o) PROVE KeyIInv'
  <2>1. [secret |-> SecretOf(o), size |-> size_[o]] \in Keys
      BY <1>7 DEF SecretOf, KeyIInv, KeyTypeOK, Keys, Half, Secrets
  <2>2. KeyTypeOK'
      BY <1>7, <2>1 DEF save_to_file, KeyIInv, KeyTypeOK
  <2> QED BY <1>7, <2>2 DEF save_to_file, KeyIInv, NoResidue, KeyIntact, BudgetFollowsKey,
                           CounterBoundsNonces, HoldsKey
<1>8. ASSUME NEW o \in Objs, encrypt(o) PROVE KeyIInv'
  <2>1. /\ UNCHANGED <<alive, lo, hi, size_, locked, nodump, keyFiles, nkeys, born>>
        /\ gcm_invocations_'[o] = gcm_invocations_[o] + 1
        /\ \A p \in Objs \ {o} : gcm_invocations_'[p] = gcm_invocations_[p]
        /\ gcm_invocations_' \in [Objs -> Nat]
      BY <1>8 DEF encrypt, KeyIInv, KeyTypeOK
  <2>2. NoResidue' /\ KeyIntact'
      BY <2>1 DEF KeyIInv, NoResidue, KeyIntact, HoldsKey
  <2>3. CASE Admitted(gcm_invocations_[o]) /\ lo[o] # Zero
    <3>1. lo[o] \in Ids /\ lo[o] <= nkeys
        BY <2>3 DEF KeyIInv, KeyTypeOK, Half, KeyIntact, HoldsKey
    <3>2. /\ admitted' \in [Ids -> Nat]
          /\ admitted'[lo[o]] = admitted[lo[o]] + 1
          /\ \A i \in Ids : i # lo[o] => admitted'[i] = admitted[i]
        BY <1>8, <2>3, <3>1 DEF encrypt, KeyIInv, KeyTypeOK
    <3>3. admitted[lo[o]] <= gcm_invocations_[o] /\ gcm_invocations_[o] < kGcmInvocationLimit
        BY <2>3 DEF KeyIInv, CounterBoundsNonces, HoldsKey, Admitted
    <3>4. KeyTypeOK'
        BY <2>1, <3>2 DEF KeyIInv, KeyTypeOK
    <3>5. BudgetFollowsKey'
        BY <3>1, <3>2, <3>3, LimitAssumption DEF KeyIInv, KeyTypeOK, BudgetFollowsKey
    <3>6. \A p \in Objs : p # o => lo[p] # lo[o]
        BY <2>3 DEF KeyIInv, NoResidue
    <3>7. CounterBoundsNonces'
      <4>1. ASSUME NEW p \in Objs, lo[p] # Zero
            PROVE  admitted'[lo[p]] <= gcm_invocations_'[p]
        <5>1. CASE p = o
            BY <5>1, <2>1, <3>1, <3>2, <3>3 DEF KeyIInv, KeyTypeOK
        <5>2. CASE p # o
          <6>1. lo[p] \in Ids /\ lo[p] # lo[o]
              BY <5>2, <4>1, <3>6 DEF KeyIInv, KeyTypeOK, Half
          <6>2. admitted[lo[p]] <= gcm_invocations_[p]
              BY <4>1 DEF KeyIInv, CounterBoundsNonces, HoldsKey
          <6> QED BY <5>2, <6>1, <6>2, <3>2, <2>1
        <5> QED BY <5>1, <5>2
      <4>2. \A i \in Ids : i > nkeys => admitted'[i] = 0
        <5>1. \A i \in Ids : i > nkeys => i # lo[o]
            BY <3>1, BoundAssumption DEF Ids, KeyIInv, KeyTypeOK
        <5> QED BY <5>1, <3>2 DEF KeyIInv, CounterBoundsNonces
      <4> QED BY <4>1, <4>2, <2>1 DEF KeyIInv, CounterBoundsNonces, HoldsKey
    <3> QED BY <2>2, <3>4, <3>5, <3>7 DEF KeyIInv
  <2>4. CASE ~(Admitted(gcm_invocations_[o]) /\ lo[o] # Zero)
    <3>1. admitted' = admitted
        BY <1>8, <2>4 DEF encrypt
    <3>2. KeyTypeOK' /\ BudgetFollowsKey'
        BY <2>1, <3>1 DEF KeyIInv, KeyTypeOK, BudgetFollowsKey
    <3>3. CounterBoundsNonces'
      <4>1. ASSUME NEW p \in Objs, lo[p] # Zero
            PROVE  admitted[lo[p]] <= gcm_invocations_'[p]
        <5>1. admitted[lo[p]] <= gcm_invocations_[p] /\ admitted[lo[p]] \in Nat
              /\ gcm_invocations_[p] \in Nat
            BY <4>1 DEF KeyIInv, KeyTypeOK, Half, CounterBoundsNonces, HoldsKey
        <5> QED BY <5>1, <2>1
      <4> QED BY <4>1, <3>1, <2>1 DEF KeyIInv, CounterBoundsNonces, HoldsKey
    <3> QED BY <2>2, <3>2, <3>3 DEF KeyIInv
  <2> QED BY <2>3, <2>4
<1>9. CASE UNCHANGED keyVars
    BY <1>9 DEF keyVars, KeyIInv, KeyTypeOK, NoResidue, KeyIntact, BudgetFollowsKey,
                CounterBoundsNonces, HoldsKey
<1> QED BY <1>1, <1>2, <1>3, <1>4, <1>5, <1>6, <1>7, <1>8, <1>9 DEF KeyNext

\* For any locations and limit: through any sequence of constructions, moves,
\* uses and destructions one object of key.cpp holds each key, whole, and its
\* counter bounds the nonces drawn under it.
THEOREM KeyInvariance == KeySpec => []KeyIInv
BY InitKeyIInv, NextKeyIInv, PTL DEF KeySpec

(* No key byte survives its object and no two objects share key bytes,     *)
(* after any sequence of creations, moves and destructions.                *)
THEOREM KeysNeverDuplicated == KeySpec => []NoResidue
<1>1. KeyIInv => NoResidue BY DEF KeyIInv
<1> QED BY <1>1, KeyInvariance, PTL

(* Every key is used with the size and the bytes it was created with.      *)
THEOREM KeysStayIntact == KeySpec => []KeyIntact
<1>1. KeyIInv => KeyIntact BY DEF KeyIInv
<1> QED BY <1>1, KeyInvariance, PTL

(* At most kGcmInvocationLimit nonces are drawn under a key, however it    *)
(* is moved from object to object.                                         *)
THEOREM BudgetSurvivesMoves == KeySpec => []BudgetFollowsKey
<1>1. KeyIInv => BudgetFollowsKey BY DEF KeyIInv
<1> QED BY <1>1, KeyInvariance, PTL
-----------------------------------------------------------------------------
(* The pages.  mlock and munlock do not nest, so what a pinned page is     *)
(* pinned for, and what a private page still is, needs an invariant of its *)
(* own: every pinned page lies under a living object, every page excluded  *)
(* from core dumps under a living object that starts a page (the release   *)
(* of any other object would fail), and private keys are protected.        *)
Protection ==
    /\ \A p \in locked : \E o \in alive : p \in PagesOf[o]
    /\ \A p \in nodump : \E o \in alive \cap Aligned : p \in PagesOf[o]
    /\ PrivateKeyProtected

(* What lock_memory adds to both page sets, at least and at most.          *)
LEMMA LockEffect ==
    ASSUME NEW o \in Objs, NEW l \in SUBSET Pages, NEW d \in SUBSET Pages,
           NEW m \in mlock(o, l)
    PROVE  /\ l \subseteq m /\ m \subseteq l \cup PagesOf[o]
           /\ o \notin MlockMayFail => PagesOf[o] \subseteq m
           /\ d \subseteq MADV_DONTDUMP(o, d) /\ MADV_DONTDUMP(o, d) \subseteq d \cup PagesOf[o]
           /\ o \in Aligned => PagesOf[o] \subseteq MADV_DONTDUMP(o, d)
           /\ o \notin Aligned => MADV_DONTDUMP(o, d) = d
BY DEF mlock, MADV_DONTDUMP

(* The lock_memory and unlock_memory pair of a move and of a failed        *)
(* creation, by what it makes of the two page sets.                        *)
LEMMA LockThenUnlockEffect ==
    ASSUME NEW o \in Objs, NEW s \in Objs, NEW l \in SUBSET Pages, NEW d \in SUBSET Pages,
           LockThenUnlock(o, s, l, d)
    PROVE  /\ l \ PagesOf[s] \subseteq locked'
           /\ locked' \subseteq (l \cup PagesOf[o]) \ PagesOf[s]
           /\ o \notin MlockMayFail => PagesOf[o] \ PagesOf[s] \subseteq locked'
           /\ d \ PagesOf[s] \subseteq nodump'
           /\ nodump' \subseteq d \cup PagesOf[o]
           /\ o \notin Aligned => nodump' \subseteq d
           /\ s \in Aligned => nodump' \cap PagesOf[s] = {}
           /\ o \in Aligned => PagesOf[o] \ PagesOf[s] \subseteq nodump'
<1>1. PICK m \in mlock(o, l) : unlock_memory(s, m, MADV_DONTDUMP(o, d))
    BY DEF LockThenUnlock
<1>2. locked' = m \ PagesOf[s]
    BY <1>1 DEF unlock_memory, munlock
<1>3. /\ s \in Aligned => nodump' = MADV_DONTDUMP(o, d) \ PagesOf[s]
      /\ s \notin Aligned => nodump' = MADV_DONTDUMP(o, d)
    BY <1>1 DEF unlock_memory, MADV_DODUMP
<1> QED BY <1>1, <1>2, <1>3, LockEffect

(* A step that leaves keys, objects and pages alone leaves Protection.     *)
LEMMA ProtectionUntouched ==
    ASSUME Protection, UNCHANGED <<alive, lo, locked, nodump>> PROVE Protection'
BY DEF Protection, PrivateKeyProtected, HoldsKey, PagesOfItsOwn

LEMMA ConstructProtection ==
    ASSUME KeyIInv, Protection, NEW o \in Objs, NEW loHalf, NEW hiHalf, NEW sz, NEW secret,
           Construct(o, loHalf, hiHalf, sz, secret)
    PROVE  Protection'
<1>1. /\ alive' = alive \cup {o} /\ locked' \in mlock(o, locked)
      /\ nodump' = MADV_DONTDUMP(o, nodump)
      /\ \A p \in Objs \ {o} : lo'[p] = lo[p]
    BY DEF Construct, lock_memory, KeyIInv, KeyTypeOK
<1>2. /\ locked \subseteq locked' /\ locked' \subseteq locked \cup PagesOf[o]
      /\ o \notin MlockMayFail => PagesOf[o] \subseteq locked'
      /\ nodump \subseteq nodump' /\ nodump' \subseteq nodump \cup PagesOf[o]
      /\ o \in Aligned => PagesOf[o] \subseteq nodump'
      /\ o \notin Aligned => nodump' = nodump
    BY <1>1, LockEffect DEF KeyIInv, KeyTypeOK
<1>3. \A p \in locked' : \E q \in alive' : p \in PagesOf[q]
    BY <1>1, <1>2 DEF Protection
<1>4. \A p \in nodump' : \E q \in alive' \cap Aligned : p \in PagesOf[q]
    BY <1>1, <1>2 DEF Protection
<1>5. PrivateKeyProtected'
    BY <1>1, <1>2 DEF Protection, PrivateKeyProtected, HoldsKey, PagesOfItsOwn
<1> QED BY <1>3, <1>4, <1>5 DEF Protection

(* A move from s to d, where l and d0 are the page sets once the old key   *)
(* of d, if there was one, has been released.                              *)
LEMMA MoveProtection ==
    ASSUME KeyIInv, Protection, NEW d \in Objs, NEW s \in Objs, d # s, s \in alive,
           Transfer(d, s), alive' = alive \cup {d},
           NEW l \in SUBSET Pages, NEW d0 \in SUBSET Pages,
           l \subseteq locked, locked \ PagesOf[d] \subseteq l,
           d0 \subseteq nodump, nodump \ PagesOf[d] \subseteq d0,
           LockThenUnlock(d, s, l, d0)
    PROVE  Protection'
<1>1. /\ l \ PagesOf[s] \subseteq locked'
      /\ locked' \subseteq (l \cup PagesOf[d]) \ PagesOf[s]
      /\ d \notin MlockMayFail => PagesOf[d] \ PagesOf[s] \subseteq locked'
      /\ d0 \ PagesOf[s] \subseteq nodump'
      /\ nodump' \subseteq d0 \cup PagesOf[d]
      /\ d \notin Aligned => nodump' \subseteq d0
      /\ s \in Aligned => nodump' \cap PagesOf[s] = {}
      /\ d \in Aligned => PagesOf[d] \ PagesOf[s] \subseteq nodump'
    BY LockThenUnlockEffect, Zenon
<1>2. lo'[s] = Zero /\ \A p \in Objs \ {d, s} : lo'[p] = lo[p]
    BY DEF Transfer, KeyIInv, KeyTypeOK
<1>3. \A p \in locked' : \E q \in alive' : p \in PagesOf[q]
    BY <1>1 DEF Protection
<1>4. \A p \in nodump' : \E q \in alive' \cap Aligned : p \in PagesOf[q]
    BY <1>1 DEF Protection
<1>5. ASSUME NEW o \in Objs, HoldsKey(o)', PagesOfItsOwn(o)
      PROVE  /\ o \notin MlockMayFail => PagesOf[o] \subseteq locked'
             /\ o \in Aligned => PagesOf[o] \subseteq nodump'
  <2>1. o # s /\ PagesOf[o] \cap PagesOf[s] = {}
      BY <1>5, <1>2 DEF HoldsKey, PagesOfItsOwn
  <2>2. CASE o = d
      BY <2>1, <2>2, <1>1
  <2>3. CASE o # d
    <3>1. HoldsKey(o) /\ PagesOf[o] \cap PagesOf[d] = {}
        BY <1>5, <1>2, <2>1, <2>3 DEF HoldsKey, PagesOfItsOwn
    <3>2. /\ o \notin MlockMayFail => PagesOf[o] \subseteq locked
          /\ o \in Aligned => PagesOf[o] \subseteq nodump
        BY <1>5, <3>1 DEF Protection, PrivateKeyProtected
    <3> QED BY <2>1, <3>1, <3>2, <1>1
  <2> QED BY <2>2, <2>3
<1>6. PrivateKeyProtected'
    BY <1>5 DEF PrivateKeyProtected, PagesOfItsOwn
<1> QED BY <1>3, <1>4, <1>6 DEF Protection

LEMMA NextProtection == KeyIInv /\ Protection /\ [KeyNext]_keyVars => Protection'
<1> SUFFICES ASSUME KeyIInv, Protection, [KeyNext]_keyVars PROVE Protection'
    OBVIOUS
<1>t. locked \in SUBSET Pages /\ nodump \in SUBSET Pages
    BY DEF KeyIInv, KeyTypeOK
<1>1. ASSUME NEW o \in Objs, NEW sz \in KeySizes, generate(o, sz) PROVE Protection'
    BY <1>1, ConstructProtection DEF generate
<1>2. ASSUME NEW o \in Objs, NEW f \in keyFiles, load_from_file(o, f) PROVE Protection'
    BY <1>2, ConstructProtection DEF load_from_file
<1>3. ASSUME NEW o \in Objs, CreationFails(o) PROVE Protection'
  <2>0. /\ locked \ PagesOf[o] \subseteq locked'
        /\ locked' \subseteq (locked \cup PagesOf[o]) \ PagesOf[o]
        /\ nodump \ PagesOf[o] \subseteq nodump'
        /\ nodump' \subseteq nodump \cup PagesOf[o]
        /\ o \notin Aligned => nodump' \subseteq nodump
        /\ o \in Aligned => nodump' \cap PagesOf[o] = {}
      BY <1>3, <1>t, LockThenUnlockEffect DEF CreationFails
  <2>1. /\ locked \ PagesOf[o] \subseteq locked' /\ locked' \subseteq locked
        /\ nodump \ PagesOf[o] \subseteq nodump' /\ nodump' \subseteq nodump
      BY <2>0
  <2>2. alive' = alive /\ lo' = lo /\ lo[o] = Zero
      BY <1>3 DEF CreationFails, WipeBytes, KeyIInv, NoResidue, KeyTypeOK
  <2>3. PrivateKeyProtected'
      BY <2>1, <2>2 DEF Protection, PrivateKeyProtected, HoldsKey, PagesOfItsOwn
  <2> QED BY <2>1, <2>2, <2>3 DEF Protection
<1>4. ASSUME NEW d \in Objs, NEW s \in Objs, MoveConstruct(d, s) PROVE Protection'
    BY <1>4, <1>t, MoveProtection DEF MoveConstruct
<1>5. ASSUME NEW d \in Objs, NEW s \in Objs, MoveAssign(d, s) PROVE Protection'
  <2>1. /\ munlock(d, locked) \in SUBSET Pages /\ MADV_DODUMP(d, nodump) \in SUBSET Pages
        /\ munlock(d, locked) \subseteq locked /\ locked \ PagesOf[d] \subseteq munlock(d, locked)
        /\ MADV_DODUMP(d, nodump) \subseteq nodump
        /\ nodump \ PagesOf[d] \subseteq MADV_DODUMP(d, nodump)
      BY <1>t DEF munlock, MADV_DODUMP
  <2>2. alive' = alive \cup {d} /\ d # s /\ s \in alive /\ Transfer(d, s)
      BY <1>5 DEF MoveAssign
  <2> QED BY <1>5, <2>1, <2>2, MoveProtection DEF MoveAssign
<1>6. ASSUME NEW o \in Objs, Destroy(o) PROVE Protection'
  <2>1. /\ alive' = alive \ {o} /\ lo'[o] = Zero
        /\ \A p \in Objs \ {o} : lo'[p] = lo[p]
        /\ locked' = locked \ PagesOf[o]
        /\ o \in Aligned => nodump' = nodump \ PagesOf[o]
        /\ o \notin Aligned => nodump' = nodump
      BY <1>6 DEF Destroy, WipeBytes, unlock_memory, munlock, MADV_DODUMP, KeyIInv, KeyTypeOK
  <2>2. \A p \in locked' : \E q \in alive' : p \in PagesOf[q]
      BY <2>1 DEF Protection
  <2>3. \A p \in nodump' : \E q \in alive' \cap Aligned : p \in PagesOf[q]
      BY <2>1 DEF Protection
  <2>4. PrivateKeyProtected'
      BY <2>1 DEF Protection, PrivateKeyProtected, HoldsKey, PagesOfItsOwn
  <2> QED BY <2>2, <2>3, <2>4 DEF Protection
<1>7. ASSUME NEW o \in Objs, save_to_file(o) PROVE Protection'
    BY <1>7, ProtectionUntouched DEF save_to_file
<1>8. ASSUME NEW o \in Objs, encrypt(o) PROVE Protection'
    BY <1>8, ProtectionUntouched DEF encrypt
<1>9. CASE UNCHANGED keyVars
    BY <1>9, ProtectionUntouched DEF keyVars
<1> QED BY <1>1, <1>2, <1>3, <1>4, <1>5, <1>6, <1>7, <1>8, <1>9 DEF KeyNext

(* For any placement of the objects on pages and any failures of mlock and *)
(* madvise: the page sets of lock_memory and unlock_memory follow the      *)
(* living objects.                                                         *)
THEOREM ProtectionInvariance == KeySpec => []Protection
<1>1. KeyInit => Protection
    BY DEF KeyInit, Protection, PrivateKeyProtected, HoldsKey
<1> QED BY <1>1, KeyInvariance, NextProtection, PTL DEF KeySpec

(* No page stays pinned, or excluded from core dumps, once no SecretKey    *)
(* lives on it: wipe() runs on every path that lock_memory ran on.         *)
THEOREM PagesReleased == KeySpec => []NoLockLeak
<1>1. Protection => NoLockLeak BY DEF Protection, NoLockLeak
<1> QED BY <1>1, ProtectionInvariance, PTL

(* A key alone on its pages is pinned and kept out of core dumps, wherever *)
(* the kernel lets it, through every move, assignment and destruction.     *)
THEOREM OwnPagesProtected == KeySpec => []PrivateKeyProtected
<1>1. Protection => PrivateKeyProtected BY DEF Protection
<1> QED BY <1>1, ProtectionInvariance, PTL

-----------------------------------------------------------------------------

USE DEF kBlockSizeBytes

(* The first counter and the block limit of each mode fit the counter:     *)
(* the last block of the longest call has counter CounterMod - 1.          *)
LEMMA ModeConstants ==
    ASSUME NEW m \in Modes
    PROVE  /\ FirstCounter(m) \in Nat /\ kMaxBlocks(m) \in Nat
           /\ FirstCounter(m) < CounterMod
           /\ FirstCounter(m) + kMaxBlocks(m) = CounterMod
           /\ m = "gcm" => FirstCounter(m) > TagCounter
BY CounterAssumption DEF Modes, FirstCounter, kMaxBlocks, TagCounter

LEMMA InitIInv == Init => IInv
<1> SUFFICES ASSUME Init PROVE IInv
    OBVIOUS
<1>1. /\ FirstCounter(mode) \in Nat /\ FirstCounter(mode) < CounterMod
      /\ mode \in Modes
    BY ModeConstants DEF Init
<1>2. len \in Nat /\ offset = 0 /\ pc = "validate" /\ counter = FirstCounter(mode)
    BY LengthsAssumption DEF Init
<1>3. TypeOK
    BY <1>1, <1>2, CounterAssumption DEF Init, TypeOK
<1>4. WithinLimit
    BY <1>2 DEF WithinLimit
<1>5. PadIsPositional
  <2>1. DOMAIN pad = {} /\ 0 .. (IF offset < len THEN offset ELSE len) - 1 = {}
      BY <1>2 DEF Init
  <2> QED BY <2>1 DEF PadIsPositional
<1>6. CounterIsPositional
    BY <1>1, <1>2, CounterAssumption DEF CounterIsPositional
<1> QED BY <1>3, <1>4, <1>5, <1>6 DEF IInv

LEMMA NextIInv == IInv /\ [Next]_vars => IInv'
<1> SUFFICES ASSUME IInv, [Next]_vars PROVE IInv'
    OBVIOUS
<1> DEFINE F == FirstCounter(mode)
<1>t. /\ len \in Nat /\ offset \in Nat /\ CounterMod \in Nat /\ mode \in Modes
      /\ counter \in 0 .. CounterMod - 1
    BY CounterAssumption, LengthsAssumption DEF IInv, TypeOK
<1>m. /\ F \in Nat /\ F < CounterMod
      /\ F + kMaxBlocks(mode) = CounterMod /\ kMaxBlocks(mode) \in Nat
    BY <1>t, ModeConstants
<1>1. CASE ValidateBlockCount
  <2>1. /\ UNCHANGED <<mode, len, offset, counter, pad>>
        /\ pc = "validate" /\ pc' \in {"LimitError", "loop"}
        /\ pc' = "loop" => len <= kMaxPlaintextBytes(mode)
      BY <1>1, <1>t, <1>m DEF ValidateBlockCount, kMaxPlaintextBytes
  <2>2. TypeOK' BY <2>1 DEF IInv, TypeOK
  <2>3. WithinLimit' BY <2>1 DEF WithinLimit, kMaxPlaintextBytes, kMaxBlocks
  <2>4. PadIsPositional' BY <2>1 DEF IInv, PadIsPositional, FirstCounter
  <2>5. CounterIsPositional' BY <2>1 DEF IInv, CounterIsPositional, FirstCounter
  <2> QED BY <2>2, <2>3, <2>4, <2>5 DEF IInv
<1>2. CASE KeystreamBlock
  <2> DEFINE e == ChunkEnd(offset, len)
  <2>1. /\ pc = "loop" /\ offset < len /\ UNCHANGED <<mode, pc, len>>
        /\ offset' = offset + 16 /\ counter' = Increment(counter)
        /\ pad' = [i \in 0 .. e - 1 |->
                     IF i < offset THEN pad[i] ELSE <<counter, i - offset>>]
      BY <1>2 DEF KeystreamBlock
  <2>2. len <= 16 * kMaxBlocks(mode)
      BY <2>1, <1>m DEF IInv, WithinLimit, kMaxPlaintextBytes
  <2>3. /\ offset % 16 = 0
        /\ counter = IF F + offset \div 16 = CounterMod THEN 0 ELSE F + offset \div 16
      BY DEF IInv, CounterIsPositional
  \* the block about to be produced is below the limit, so it has not wrapped
  <2>4. counter = F + offset \div 16 /\ F + offset \div 16 < CounterMod
      BY <2>1, <2>2, <2>3, <1>t, <1>m
  <2>5. offset' \div 16 = offset \div 16 + 1 /\ offset' % 16 = 0
      BY <2>1, <2>3, <1>t
  <2>6. TypeOK'
      BY <2>1, <1>t DEF IInv, TypeOK, Increment
  <2>7. WithinLimit'
      BY <2>1 DEF IInv, WithinLimit, kMaxPlaintextBytes, kMaxBlocks
  <2>8. CounterIsPositional'
    <3>1. F' = F BY <2>1
    <3>2. counter' = IF F + offset' \div 16 = CounterMod THEN 0 ELSE F + offset' \div 16
      <4> DEFINE n == counter + 1
                 b == offset' \div 16
      <4>1. F + b = n
        <5> HIDE DEF F
        <5>1. offset \div 16 \in Nat /\ F \in Nat
            BY <1>t, <1>m
        <5> QED BY <5>1, <2>4, <2>5
      <4>2. counter' = IF n = CounterMod THEN 0 ELSE n
        <5>1. counter' = IF counter = CounterMod - 1 THEN 0 ELSE counter + 1
            BY <2>1 DEF Increment
        <5>2. counter = CounterMod - 1 <=> counter + 1 = CounterMod
            BY <1>t
        <5> QED BY <5>1, <5>2
      <4> QED BY <4>1, <4>2
    <3> QED BY <2>1, <2>5, <3>1, <3>2, <1>t DEF CounterIsPositional
  <2>9. PadIsPositional'
    <3>1. e = (IF offset' < len' THEN offset' ELSE len') /\ e \in Nat
        BY <2>1, <1>t DEF ChunkEnd
    <3>2. DOMAIN pad' = 0 .. e - 1
        BY <2>1
    <3>3. ASSUME NEW i \in 0 .. e - 1
          PROVE  pad'[i] = <<F + i \div 16, i % 16>>
      <4>1. CASE i < offset
        <5>1. i \in DOMAIN pad
            BY <4>1, <3>1, <2>1, <1>t DEF IInv, PadIsPositional
        <5> QED BY <4>1, <5>1, <2>1 DEF IInv, PadIsPositional
      <4>2. CASE ~(i < offset)
        <5>1. i \div 16 = offset \div 16 /\ i % 16 = i - offset
            BY <4>2, <3>1, <2>1, <2>3, <1>t DEF ChunkEnd
        <5> QED BY <4>2, <5>1, <2>1, <2>4
      <4> QED BY <4>1, <4>2
    <3>4. F' = F BY <2>1
    <3> QED BY <3>1, <3>2, <3>3, <3>4 DEF PadIsPositional
  <2> QED BY <2>6, <2>7, <2>8, <2>9 DEF IInv
<1>3. CASE Return
  <2>1. /\ pc = "loop" /\ offset >= len /\ pc' = "done"
        /\ UNCHANGED <<mode, len, offset, counter, pad>>
      BY <1>3 DEF Return
  <2>2. TypeOK' BY <2>1 DEF IInv, TypeOK
  <2>3. WithinLimit' BY <2>1 DEF IInv, WithinLimit, kMaxPlaintextBytes, kMaxBlocks
  <2>4. PadIsPositional' BY <2>1 DEF IInv, PadIsPositional, FirstCounter
  <2>5. CounterIsPositional' BY <2>1 DEF IInv, CounterIsPositional, FirstCounter
  <2> QED BY <2>2, <2>3, <2>4, <2>5 DEF IInv
<1>4. CASE UNCHANGED vars
    BY <1>4 DEF vars, IInv, TypeOK, WithinLimit, PadIsPositional, CounterIsPositional,
                FirstCounter, kMaxPlaintextBytes, kMaxBlocks
<1> QED BY <1>1, <1>2, <1>3, <1>4 DEF Next

\* For every counter width: the pad byte of each masked byte of a call of
\* apply_keystream is the one of its offset, and the counter follows it.
THEOREM Invariance == Spec => []IInv
BY InitIInv, NextIInv, PTL DEF Spec

LEMMA IInvNoPadReuse == IInv => NoPadReuse
<1> SUFFICES ASSUME IInv, NEW i \in DOMAIN pad, NEW j \in DOMAIN pad, pad[i] = pad[j]
             PROVE  i = j
    BY DEF NoPadReuse
<1>1. /\ i \in Nat /\ j \in Nat /\ FirstCounter(mode) \in Nat
    BY LengthsAssumption, ModeConstants DEF IInv, TypeOK, PadIsPositional
<1>2. /\ pad[i] = <<FirstCounter(mode) + i \div 16, i % 16>>
      /\ pad[j] = <<FirstCounter(mode) + j \div 16, j % 16>>
    BY DEF IInv, PadIsPositional
<1>3. /\ FirstCounter(mode) + i \div 16 = FirstCounter(mode) + j \div 16
      /\ i % 16 = j % 16
  <2> DEFINE a == FirstCounter(mode) + i \div 16
             b == FirstCounter(mode) + j \div 16
             c == i % 16
             d == j % 16
  <2>1. <<a, c>> = <<b, d>>
      BY <1>2
  <2> HIDE DEF a, b, c, d
  <2>2. a = b /\ c = d
      BY <2>1
  <2> QED BY <2>2 DEF a, b, c, d
<1> QED BY <1>1, <1>3

LEMMA IInvTagBlock == IInv => TagBlockNotInPad
<1> SUFFICES ASSUME IInv, mode = "gcm", NEW i \in DOMAIN pad
             PROVE  pad[i][1] # TagCounter
    BY DEF TagBlockNotInPad
<1>1. i \in Nat
    BY LengthsAssumption DEF IInv, TypeOK, PadIsPositional
<1>2. pad[i][1] = FirstCounter(mode) + i \div 16
    BY DEF IInv, PadIsPositional
<1> QED BY <1>1, <1>2 DEF FirstCounter, TagCounter

LEMMA IInvEveryByte == IInv => EveryByteMasked
BY LengthsAssumption DEF IInv, TypeOK, PadIsPositional, CounterIsPositional, EveryByteMasked

(* validate_block_count and apply_keystream together never use a keystream *)
(* byte twice in a call, whatever the width of the counter and the length. *)
THEOREM KeystreamNeverReused == Spec => []NoPadReuse
BY Invariance, IInvNoPadReuse, PTL

(* No GCM call masks plaintext with the block that masks its tag.          *)
THEOREM TagBlockReserved == Spec => []TagBlockNotInPad
BY Invariance, IInvTagBlock, PTL

(* A call that returns has masked each byte of its input.                  *)
THEOREM OutputFullyMasked == Spec => []EveryByteMasked
BY Invariance, IInvEveryByte, PTL
-----------------------------------------------------------------------------
(* The typed calls.  Lengths first: what to_byte_vector makes of a value,  *)
(* from_byte_vector of the same type accepts ...                           *)
LEMMA MultipleDivides ==
    ASSUME NEW n \in Nat, NEW e \in Nat \ {0} PROVE (n * e) % e = 0
OBVIOUS

LEMMA DividedExactly ==
    ASSUME NEW n \in Nat, NEW e \in Nat \ {0}, n % e = 0 PROVE e * (n \div e) = n
OBVIOUS

LEMMA OwnLengthFits ==
    ASSUME NEW t \in ByteViewable, NEW n \in ElementCounts(t)
    PROVE  LengthFits(t, to_byte_vector(t, n))
<1>1. t.elem \in Nat \ {0} /\ t.resizable \in BOOLEAN
    BY TypesAssumption DEF ByteViewable
<1>2. t.resizable => n \in Nat
    BY TypesAssumption DEF ElementCounts
<1>3. t.resizable => (n * t.elem) % t.elem = 0
    BY <1>1, <1>2, MultipleDivides
<1> QED BY <1>1, <1>3 DEF LengthFits, WholeElements, to_byte_vector, ElementCounts

(* ... and the value has room for the bytes it is made of, and no more.    *)
LEMMA StorageIsLength ==
    ASSUME NEW t \in ByteViewable, NEW n \in Nat, LengthFits(t, n)
    PROVE  StorageBytes(t, n) = n
<1>1. t.elem \in Nat \ {0} /\ t.capacity \in Nat /\ t.sizeof \in Nat
    BY TypesAssumption DEF ByteViewable
<1>2. n % t.elem = 0 => t.elem * (n \div t.elem) = n
    BY <1>1, DividedExactly
<1>3. t.elem * t.capacity = t.capacity * t.elem
    BY <1>1
<1> QED BY <1>2, <1>3 DEF LengthFits, StorageBytes, WholeElements

(* The pad of a completed call with n bytes.                               *)
PositionalPad(q, n) ==
    /\ DOMAIN q = 0 .. n - 1
    /\ \A i \in 0 .. n - 1 :
         q[i] = <<FirstCounter(mode) + i \div kBlockSizeBytes, i % kBlockSizeBytes>>

(* fill_random has written the first filled bytes.                         *)
NonceFilled ==
    /\ nonce \in [1 .. kNonceSizeBytes -> BOOLEAN] /\ filled \in 0 .. kNonceSizeBytes
    /\ \A i \in 1 .. filled : nonce[i]
    /\ stage \in {"mask", "sealed"} => filled = kNonceSizeBytes

(* The first call: it views a value of type as bytes.                      *)
Encrypting ==
    stage \in {"encrypt", "fill_random", "mask"} => sealed = Unsealed /\ LengthFits(type, len)

(* From the container on: it passes the limit of its mode, its length is   *)
(* one of type, and its pad is the one every call with its nonce computes. *)
ContainerOK ==
    stage \in {"sealed", "decrypt", "verify", "unmask", "bytes"} =>
        /\ sealed.len \in Nat /\ sealed.len <= kMaxPlaintextBytes(mode)
        /\ LengthFits(type, sealed.len)
        /\ PositionalPad(sealed.pad, sealed.len)

(* The second call: GCM unmasks only the length that was sealed.           *)
Decrypting ==
    /\ stage \in {"unmask", "bytes"} /\ mode = "gcm" => len = sealed.len
    /\ stage = "bytes" => pc = "done"

(* The inductive invariant of the typed calls.                             *)
TypedInv ==
    /\ IInv /\ type \in ByteViewable
    /\ NonceFilled /\ Encrypting /\ ContainerOK /\ Decrypting
    /\ ValueIsMessage /\ SameTypeRoundTrips

LEMMA InitPrimeIInv == Init' => IInv'
BY InitIInv, PTL

LEMMA TypedInitInv == TypedInit => TypedInv
<1> SUFFICES ASSUME TypedInit PROVE TypedInv
    OBVIOUS
<1>1. Init
    BY DEF TypedInit, Init
<1>2. type \in ByteViewable
    BY DEF TypedInit
<1>3. NonceFilled
    BY TypesAssumption DEF TypedInit, NonceFilled
<1>4. Encrypting
    BY OwnLengthFits DEF TypedInit, Encrypting
<1>5. stage = "encrypt"
    BY DEF TypedInit
<1> QED BY <1>1, <1>2, <1>3, <1>4, <1>5, InitIInv
         DEF TypedInv, ContainerOK, Decrypting, ValueIsMessage, SameTypeRoundTrips

(* A step of the loop or of the caller keeps the invariant of the loop.    *)
LEMMA TypedIInv == TypedInv /\ [TypedNext]_allVars => IInv'
<1> SUFFICES ASSUME TypedInv, [TypedNext]_allVars PROVE IInv'
    OBVIOUS
<1>1. CASE [Next]_vars
    BY <1>1, NextIInv DEF TypedInv
<1>2. CASE CallDecrypt
  <2>1. Init'
      BY <1>2 DEF CallDecrypt, Init, TypedInv, IInv, TypeOK
  <2> QED BY <2>1, InitPrimeIInv
<1>3. [Next]_vars \/ CallDecrypt
    BY DEF TypedNext, LibraryStep, EncryptValidates, Getrandom, GetrandomFails, NonceDrawn,
           MaskBlock, EncryptReturns, DecryptValidates, VerifyTag, DecryptReturns,
           decrypt_as, GetrandomInterrupted, Next, allVars
<1> QED BY <1>1, <1>2, <1>3

(* The calls that fill the nonce leave the rest alone.                     *)
LEMMA NonceSteps ==
    ASSUME TypedInv, IInv', Getrandom \/ GetrandomFails \/ NonceDrawn
    PROVE  TypedInv'
<1>1. /\ UNCHANGED <<vars, type, sealed, result>> /\ stage = "fill_random"
      /\ stage' \in {"fill_random", "IoError", "mask"}
    BY DEF Getrandom, GetrandomFails, NonceDrawn
<1>2. UNCHANGED <<mode, pc, len, pad>>
    BY <1>1 DEF vars
<1>3. NonceFilled'
  <2>0. kNonceSizeBytes \in Nat /\ filled \in 0 .. kNonceSizeBytes
        /\ nonce \in [1 .. kNonceSizeBytes -> BOOLEAN] /\ \A i \in 1 .. filled : nonce[i]
      BY TypesAssumption DEF TypedInv, NonceFilled
  <2>1. CASE Getrandom
    <3>1. PICK n \in 1 .. kNonceSizeBytes - filled :
            /\ nonce' = [i \in DOMAIN nonce |-> nonce[i] \/ i \in filled + 1 .. filled + n]
            /\ filled' = filled + n
        BY <2>1 DEF Getrandom, FilledPlus
    <3>2. stage' = "fill_random"
        BY <2>1, <1>1 DEF Getrandom
    <3>3. nonce' \in [1 .. kNonceSizeBytes -> BOOLEAN] /\ filled' \in 0 .. kNonceSizeBytes
        BY <2>0, <3>1
    <3>4. ASSUME NEW i \in 1 .. filled' PROVE nonce'[i]
      <4>1. i \in 1 .. kNonceSizeBytes /\ (i \in 1 .. filled \/ i \in filled + 1 .. filled + n)
          BY <2>0, <3>1, <3>3, <3>4
      <4>2. nonce'[i] = (nonce[i] \/ i \in filled + 1 .. filled + n)
          BY <2>0, <3>1, <4>1
      <4> QED BY <2>0, <4>1, <4>2
    <3> QED BY <3>2, <3>3, <3>4 DEF NonceFilled
  <2>2. CASE GetrandomFails
    <3>1. UNCHANGED <<nonce, filled>> /\ stage' = "IoError"
        BY <2>2 DEF GetrandomFails
    <3> QED BY <2>0, <3>1 DEF NonceFilled
  <2>3. CASE NonceDrawn
    <3>1. UNCHANGED <<nonce, filled>> /\ filled = kNonceSizeBytes
        BY <2>0, <2>3 DEF NonceDrawn, FullyFilled
    <3> QED BY <2>0, <3>1 DEF NonceFilled
  <2> QED BY <2>1, <2>2, <2>3
<1>4. Encrypting'
    BY <1>1, <1>2 DEF TypedInv, Encrypting, LengthFits, WholeElements, is_byte_container
<1> QED BY <1>1, <1>2, <1>3, <1>4
         DEF TypedInv, ContainerOK, Decrypting, ValueIsMessage, SameTypeRoundTrips

(* validate_block_count at the start of either call.                       *)
LEMMA ValidateSteps ==
    ASSUME TypedInv, IInv', EncryptValidates \/ DecryptValidates
    PROVE  TypedInv'
<1>1. /\ UNCHANGED <<mode, len, offset, counter, pad, type, nonce, filled, sealed, result>>
      /\ pc' = IF len > kMaxPlaintextBytes(mode) THEN "LimitError" ELSE "loop"
    BY DEF EncryptValidates, DecryptValidates, ValidateBlockCount
<1>2. NonceFilled'
  <2>1. stage' \notin {"mask", "sealed"}
      BY DEF EncryptValidates, DecryptValidates
  <2> QED BY <1>1, <2>1 DEF TypedInv, NonceFilled
<1>3. CASE EncryptValidates
  <2>1. stage = "encrypt" /\ stage' \in {"fill_random", "LimitError"}
      BY <1>3 DEF EncryptValidates
  <2>2. sealed = Unsealed /\ LengthFits(type, len)
      BY <2>1 DEF TypedInv, Encrypting
  <2>3. Encrypting' /\ SameTypeRoundTrips'
      BY <1>1, <2>1, <2>2
         DEF Encrypting, SameTypeRoundTrips, LengthFits, WholeElements, is_byte_container
  <2> QED BY <1>1, <1>2, <2>1, <2>3 DEF TypedInv, ContainerOK, Decrypting, ValueIsMessage
<1>4. CASE DecryptValidates
  <2>1. /\ stage = "decrypt"
        /\ stage' = IF pc' = "LimitError" THEN "LimitError"
                    ELSE IF mode = "gcm" THEN "verify" ELSE "unmask"
      BY <1>4 DEF DecryptValidates
  <2>2. /\ sealed.len \in Nat /\ sealed.len <= kMaxPlaintextBytes(mode)
        /\ LengthFits(type, sealed.len) /\ PositionalPad(sealed.pad, sealed.len)
      BY <2>1 DEF TypedInv, ContainerOK
  <2>3. ContainerOK'
      BY <1>1, <2>2 DEF ContainerOK, PositionalPad, LengthFits, WholeElements,
                        is_byte_container, kMaxPlaintextBytes, kMaxBlocks, FirstCounter
  <2>4. SameTypeRoundTrips'
    <3>1. kMaxPlaintextBytes(mode) \in Int
        BY ModeConstants DEF TypedInv, IInv, TypeOK, kMaxPlaintextBytes
    <3>2. len = sealed.len => stage' # "LimitError"
        BY <1>1, <2>1, <2>2, <3>1
    <3> QED BY <1>1, <2>1, <3>2 DEF SameTypeRoundTrips
  <2>5. Encrypting' /\ Decrypting' /\ ValueIsMessage'
      BY <1>1, <2>1 DEF Encrypting, Decrypting, ValueIsMessage
  <2> QED BY <1>1, <1>2, <2>3, <2>4, <2>5 DEF TypedInv
<1> QED BY <1>3, <1>4

(* apply_keystream and the returns around it.                              *)
LEMMA KeystreamSteps ==
    ASSUME TypedInv, IInv', MaskBlock \/ EncryptReturns \/ DecryptReturns
    PROVE  TypedInv'
<1>1. UNCHANGED <<mode, len, type, nonce, filled, result>>
    BY DEF MaskBlock, EncryptReturns, DecryptReturns, KeystreamBlock, Return, callVars
<1>2. CASE MaskBlock
  <2>1. UNCHANGED callVars /\ stage \in {"mask", "unmask"} /\ UNCHANGED <<mode, len>>
      BY <1>2 DEF MaskBlock, KeystreamBlock
  <2>2. NonceFilled' /\ Encrypting'
      BY <2>1 DEF callVars, TypedInv, NonceFilled, Encrypting, LengthFits, WholeElements,
                  is_byte_container
  <2>3. ContainerOK'
      BY <2>1 DEF callVars, TypedInv, ContainerOK, PositionalPad, LengthFits, WholeElements,
                  is_byte_container, kMaxPlaintextBytes, kMaxBlocks, FirstCounter
  <2>4. Decrypting' /\ ValueIsMessage' /\ SameTypeRoundTrips' /\ type' \in ByteViewable
      BY <2>1 DEF callVars, TypedInv, Decrypting, ValueIsMessage, SameTypeRoundTrips
  <2> QED BY <2>2, <2>3, <2>4 DEF TypedInv
<1>3. CASE EncryptReturns
  <2>1. /\ stage = "mask" /\ stage' = "sealed" /\ pad' = pad /\ pc' = "done"
        /\ sealed' = [len |-> len, nonce |-> nonce, pad |-> pad]
      BY <1>3 DEF EncryptReturns, Return
  <2>2. NonceFilled'
      BY <1>1, <2>1 DEF TypedInv, NonceFilled
  <2>3. /\ len \in Nat /\ len <= kMaxPlaintextBytes(mode) /\ PositionalPad(pad, len)
    <3>1. len \in Nat /\ offset \in Nat /\ pc = "loop" /\ offset >= len
        BY <1>3, LengthsAssumption DEF EncryptReturns, Return, TypedInv, IInv, TypeOK
    <3>2. DOMAIN pad = 0 .. len - 1
        BY <3>1 DEF TypedInv, IInv, PadIsPositional
    <3>3. PositionalPad(pad, len)
        BY <3>2 DEF TypedInv, IInv, PadIsPositional, PositionalPad
    <3> QED BY <3>1, <3>3 DEF TypedInv, IInv, WithinLimit
  <2>4. LengthFits(type, len)
      BY <2>1 DEF TypedInv, Encrypting
  <2>5. sealed'.len = len /\ sealed'.pad = pad
      BY <2>1
  <2>6. ContainerOK'
      BY <1>1, <2>3, <2>4, <2>5
         DEF ContainerOK, PositionalPad, LengthFits, WholeElements, is_byte_container,
             kMaxPlaintextBytes, kMaxBlocks, FirstCounter
  <2> QED BY <1>1, <2>1, <2>2, <2>6
           DEF TypedInv, Encrypting, Decrypting, ValueIsMessage, SameTypeRoundTrips
<1>4. CASE DecryptReturns
  <2>1. stage = "unmask" /\ stage' = "bytes" /\ pc' = "done" /\ UNCHANGED sealed
      BY <1>4 DEF DecryptReturns, Return
  <2>2. ContainerOK'
      BY <1>1, <2>1 DEF TypedInv, ContainerOK, PositionalPad, LengthFits, WholeElements,
                  is_byte_container, kMaxPlaintextBytes, kMaxBlocks, FirstCounter
  <2>3. Decrypting'
      BY <1>1, <2>1 DEF TypedInv, Decrypting
  <2> QED BY <1>1, <2>1, <2>2, <2>3
           DEF TypedInv, NonceFilled, Encrypting, ValueIsMessage, SameTypeRoundTrips
<1> QED BY <1>2, <1>3, <1>4

(* The caller hands the container on, whole or not, and GCM verifies it.   *)
LEMMA HandOverSteps ==
    ASSUME TypedInv, IInv', CallDecrypt \/ VerifyTag
    PROVE  TypedInv'
<1>1. /\ UNCHANGED <<mode, type, nonce, filled, sealed, result>>
      /\ stage \in {"sealed", "verify"} /\ stage' \in {"decrypt", "unmask", "AuthenticationError"}
    BY DEF CallDecrypt, VerifyTag, vars
<1>2. ContainerOK'
    BY <1>1 DEF TypedInv, ContainerOK, PositionalPad, LengthFits, WholeElements,
                is_byte_container, kMaxPlaintextBytes, kMaxBlocks, FirstCounter
<1>3. VerifyTag => /\ len' = len /\ (stage' = "AuthenticationError" => len # sealed.len)
                   /\ (stage' = "unmask" => len = sealed.len)
    BY DEF VerifyTag, TagMatches, vars
<1>4. CallDecrypt => stage' = "decrypt"
    BY DEF CallDecrypt
<1>5. Decrypting' /\ SameTypeRoundTrips'
    BY <1>1, <1>3, <1>4 DEF Decrypting, SameTypeRoundTrips
<1> QED BY <1>1, <1>2, <1>5 DEF TypedInv, NonceFilled, Encrypting, ValueIsMessage

(* decrypt_as rebuilds a value from what decrypt returned.                 *)
LEMMA RebuildStep ==
    ASSUME TypedInv, IInv', decrypt_as
    PROVE  TypedInv'
<1>1. /\ UNCHANGED <<vars, type, nonce, filled, sealed>> /\ stage = "bytes"
      /\ stage' \in {"value", "FormatError"}
    BY DEF decrypt_as
<1>2. UNCHANGED <<mode, pc, len, pad>>
    BY <1>1 DEF vars
<1>3. PICK t \in ByteViewable :
        /\ stage' = IF LengthFits(t, len) THEN "value" ELSE "FormatError"
        /\ result' = IF LengthFits(t, len) THEN from_byte_vector(t, Unmasked)
                     ELSE [NoValue EXCEPT !.type = t]
    BY DEF decrypt_as
<1>4. /\ sealed.len \in Nat /\ LengthFits(type, sealed.len)
      /\ PositionalPad(sealed.pad, sealed.len)
      /\ mode = "gcm" => len = sealed.len
    BY <1>1 DEF TypedInv, ContainerOK, Decrypting
<1>5. len \in Nat /\ PositionalPad(pad, len)
  <2>1. len \in Nat /\ offset \in Nat /\ offset >= len
      BY <1>1, LengthsAssumption
         DEF TypedInv, Decrypting, IInv, TypeOK, CounterIsPositional
  <2>2. DOMAIN pad = 0 .. len - 1
      BY <2>1 DEF TypedInv, IInv, PadIsPositional
  <2> QED BY <2>1, <2>2 DEF TypedInv, IInv, PadIsPositional, PositionalPad
<1>6. CASE LengthFits(t, len)
  <2>1. StorageBytes(t, len) = len
      BY <1>5, <1>6, StorageIsLength
  <2>2. result' = [type |-> t, value |-> [i \in 0 .. len - 1 |->
                     IF i < len THEN Unmasked[i] ELSE Garbage]]
      BY <1>3, <1>6, <2>1 DEF from_byte_vector
  <2>3. result'.value = [i \in 0 .. len - 1 |-> IF i < len THEN Unmasked[i] ELSE Garbage]
      BY <2>2
  <2>4. ASSUME NEW i \in 0 .. len - 1
        PROVE  result'.value[i] = IF i < sealed.len THEN i ELSE Garbage
    <3>1. i < len /\ i \in Nat
        BY <1>5
    <3>2. result'.value[i] = Unmasked[i]
        BY <2>3, <3>1
    <3>3. Unmasked[i] = IF i < sealed.len /\ i \in DOMAIN pad /\ pad[i] = sealed.pad[i]
                        THEN i ELSE Garbage
        BY DEF Unmasked
    <3>4. i < sealed.len => i \in DOMAIN pad /\ pad[i] = sealed.pad[i]
      <4>1. i < sealed.len => i \in 0 .. sealed.len - 1
          BY <1>4, <3>1
      <4> QED BY <1>4, <1>5, <4>1 DEF PositionalPad
    <3> QED BY <3>2, <3>3, <3>4
  <2>5. DOMAIN result'.value = 0 .. len - 1
      BY <2>3
  <2>6. ValueIsMessage'
      BY <1>1, <1>2, <1>4, <2>4, <2>5 DEF ValueIsMessage
  <2>7. stage' = "value"
      BY <1>3, <1>6
  <2> QED BY <1>1, <1>2, <2>6, <2>7
           DEF TypedInv, NonceFilled, Encrypting, ContainerOK, Decrypting, SameTypeRoundTrips
<1>7. CASE ~LengthFits(t, len)
  <2>1. stage' = "FormatError" /\ result'.type = t
      BY <1>3, <1>7 DEF NoValue
  <2>2. SameTypeRoundTrips'
      BY <1>1, <1>2, <1>4, <1>7, <2>1 DEF SameTypeRoundTrips
  <2> QED BY <1>1, <1>2, <2>1, <2>2
           DEF TypedInv, NonceFilled, Encrypting, ContainerOK, Decrypting, ValueIsMessage
<1> QED BY <1>6, <1>7

LEMMA TypedNextInv == TypedInv /\ [TypedNext]_allVars => TypedInv'
<1> SUFFICES ASSUME TypedInv, [TypedNext]_allVars PROVE TypedInv'
    OBVIOUS
<1>1. IInv'
    BY TypedIInv
<1>2. CASE UNCHANGED allVars
  <2>1. /\ UNCHANGED <<mode, pc, len, offset, counter, pad>>
        /\ UNCHANGED <<stage, type, nonce, filled, sealed, result>>
      BY <1>2 DEF allVars, vars, callVars
  <2>2. NonceFilled' /\ Encrypting' /\ type' \in ByteViewable
      BY <2>1 DEF TypedInv, NonceFilled, Encrypting, LengthFits, WholeElements,
                  is_byte_container
  <2>3. ContainerOK'
      BY <2>1 DEF TypedInv, ContainerOK, PositionalPad, LengthFits, WholeElements,
                  is_byte_container, kMaxPlaintextBytes, kMaxBlocks, FirstCounter
  <2>4. Decrypting' /\ ValueIsMessage' /\ SameTypeRoundTrips'
      BY <2>1 DEF TypedInv, Decrypting, ValueIsMessage, SameTypeRoundTrips
  <2> QED BY <1>1, <2>2, <2>3, <2>4 DEF TypedInv
<1>3. CASE TypedNext
    BY <1>1, <1>2, <1>3, NonceSteps, ValidateSteps, KeystreamSteps, HandOverSteps, RebuildStep
       DEF TypedNext, LibraryStep, GetrandomInterrupted
<1> QED BY <1>2, <1>3

(* Both calls of a typed round trip keep the loop's invariant, fill the    *)
(* nonce front to back and hand on a container every later step accepts.   *)
THEOREM TypedInvariance == TypedSpec => []TypedInv
BY TypedInitInv, TypedNextInv, PTL DEF TypedSpec

(* Neither encrypt nor decrypt of a typed round trip uses a keystream byte *)
(* twice ...                                                               *)
THEOREM TypedKeystreamNeverReused == TypedSpec => []NoPadReuse
<1>1. TypedInv => NoPadReuse
    BY IInvNoPadReuse DEF TypedInv
<1> QED BY <1>1, TypedInvariance, PTL

(* ... masks a byte with the block of the GCM tag ...                      *)
THEOREM TypedTagBlockReserved == TypedSpec => []TagBlockNotInPad
<1>1. TypedInv => TagBlockNotInPad
    BY IInvTagBlock DEF TypedInv
<1> QED BY <1>1, TypedInvariance, PTL

(* ... or leaves out a byte.                                               *)
THEOREM TypedOutputFullyMasked == TypedSpec => []EveryByteMasked
<1>1. TypedInv => EveryByteMasked
    BY IInvEveryByte DEF TypedInv
<1> QED BY <1>1, TypedInvariance, PTL

(* However getrandom splits the draw, fill_random leaves no byte of the    *)
(* nonce of a container at its initial zero, for every nonce size.         *)
THEOREM NoncesFullyRandom == TypedSpec => []NonceAllRandom
<1>1. TypedInv => NonceAllRandom
    BY DEF TypedInv, NonceFilled, NonceAllRandom
<1> QED BY <1>1, TypedInvariance, PTL

(* For all types of byte_view.hpp: what decrypt_as returns is, byte for    *)
(* byte, what decrypt returned, and under GCM the value that was sealed.   *)
THEOREM ValuesAreMessages == TypedSpec => []ValueIsMessage
<1>1. TypedInv => ValueIsMessage
    BY DEF TypedInv
<1> QED BY <1>1, TypedInvariance, PTL

(* decrypt_as of the type that was encrypted never refuses a container     *)
(* that encrypt returned, for all types and lengths.                       *)
THEOREM TypesRoundTrip == TypedSpec => []SameTypeRoundTrips
<1>1. TypedInv => SameTypeRoundTrips
    BY DEF TypedInv
<1> QED BY <1>1, TypedInvariance, PTL
=============================================================================
