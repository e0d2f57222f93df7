----------------------------- MODULE SecretKey -----------------------------
(***************************************************************************)
(* The SecretKey object of key.cpp and the state that must travel with it: *)
(* the 32 bytes of bytes_, the logical size, the GCM invocation counter,   *)
(* and the protection of the memory pages it occupies.                     *)
(*                                                                         *)
(* Objs are the storage locations of SecretKey objects (locals, members,   *)
(* heap cells).  Constructing an object gives it a new key identity, a     *)
(* number; bytes_ is modelled by its two 16-byte halves, each holding      *)
(* Zero or a half of an identified key, so that a copy that should have    *)
(* been wiped, or half of one, stays visible in the state.                 *)
(*                                                                         *)
(* The kernel is external: mlock and munlock act on whole pages and do not *)
(* nest, and mlock may fail; madvise acts on whole pages too and fails     *)
(* with EINVAL when its address is not the start of a page.  The code      *)
(* ignores every failure.                                                  *)
(***************************************************************************)
EXTENDS Integers

CONSTANTS
    Objs,                 \* storage locations
    Pages,                \* memory pages
    PagesOf,              \* pages that bytes_ of a location touches
    Aligned,              \* locations whose bytes_ starts a page
    MlockMayFail,         \* locations where mlock may fail (RLIMIT_MEMLOCK)
    kGcmInvocationLimit,  \* 2^32 in internal.hpp
    MaxKeys,              \* bound: keys created in a behaviour
    MaxCalls              \* bound: AesGcm::encrypt calls with one object

ASSUME LimitAssumption == kGcmInvocationLimit \in Nat
ASSUME BoundAssumption == MaxKeys \in Nat /\ MaxCalls \in Nat
ASSUME PagesAssumption == PagesOf \in [Objs -> SUBSET Pages]

VARIABLES
    alive,            \* objects constructed and not yet destroyed
    lo, hi,           \* the two halves of bytes_ at each location
    size_,            \* size_ at each location
    gcm_invocations_, \* the counter at each location
    locked,           \* pages pinned by mlock
    nodump,           \* pages excluded from core dumps
    keyFiles,         \* keys written by save_to_file, as [secret, size]
    nkeys,            \* history: number of keys created
    born,             \* history: identity |-> the key it was created as
    admitted          \* history: identity |-> GCM nonces drawn under it

keyVars == <<alive, lo, hi, size_, gcm_invocations_, locked, nodump,
          keyFiles, nkeys, born, admitted>>

Zero == 0
KeySizes == {16, 32}
Ids == 1 .. MaxKeys
Half == {Zero} \cup Ids

\* The value of the key bytes: Zero, or what the CSPRNG drew for an identity.
Secrets == {Zero} \cup Ids
Keys == [secret : Secrets, size : KeySizes]

FreshId == nkeys + 1

KeyInit ==
    /\ alive = {}
    /\ lo = [o \in Objs |-> Zero] /\ hi = [o \in Objs |-> Zero]
    /\ size_ = [o \in Objs |-> 32]
    /\ gcm_invocations_ = [o \in Objs |-> 0]
    /\ locked = {} /\ nodump = {}
    /\ keyFiles = {}
    /\ nkeys = 0
    /\ born = [i \in Ids |-> [secret |-> Zero, size |-> 32]]
    /\ admitted = [i \in Ids |-> 0]

-----------------------------------------------------------------------------
\* external: the pages pinned after mlock, the pages excluded from core
\* dumps after madvise(MADV_DONTDUMP), and the pages either has left
mlock(o, l) == {l \cup PagesOf[o]} \cup (IF o \in MlockMayFail THEN {l} ELSE {})
MADV_DONTDUMP(o, d) == IF o \in Aligned THEN d \cup PagesOf[o] ELSE d
munlock(o, l) == l \ PagesOf[o]
MADV_DODUMP(o, d) == IF o \in Aligned THEN d \ PagesOf[o] ELSE d

\* mutants of the helpers below
LockForgotten(o, l, d) == locked' = l /\ nodump' = d
UnlockForgotten(o, l, d) == locked' = l /\ nodump' = d
WipeLogicalSizeOnly(o) ==
    /\ lo' = [lo EXCEPT ![o] = Zero]
    /\ hi' = IF size_[o] = 32 THEN [hi EXCEPT ![o] = Zero] ELSE hi

\* lock_memory at o, where l and d were the pinned and the excluded pages.
lock_memory(o, l, d) ==
    /\ locked' \in mlock(o, l)
    /\ nodump' = MADV_DONTDUMP(o, d)

unlock_memory(o, l, d) ==
    /\ locked' = munlock(o, l)
    /\ nodump' = MADV_DODUMP(o, d)

\* lock_memory at o followed by unlock_memory at p.
LockThenUnlock(o, p, l, d) ==
    \E m \in mlock(o, l) : unlock_memory(p, m, MADV_DONTDUMP(o, d))

\* Zeroing half of wipe(): all 32 bytes, whatever the logical size.
WipeBytes(o) ==
    /\ lo' = [lo EXCEPT ![o] = Zero]
    /\ hi' = [hi EXCEPT ![o] = Zero]

\* A new object at o holding key identity FreshId.  The counter starts at 0.
Construct(o, loHalf, hiHalf, sz, secret) ==
    /\ o \notin alive /\ FreshId <= MaxKeys
    /\ alive' = alive \cup {o}
    /\ lo' = [lo EXCEPT ![o] = loHalf] /\ hi' = [hi EXCEPT ![o] = hiHalf]
    /\ size_' = [size_ EXCEPT ![o] = sz]
    /\ gcm_invocations_' = [gcm_invocations_ EXCEPT ![o] = 0]
    /\ lock_memory(o, locked, nodump)
    /\ nkeys' = FreshId
    /\ born' = [born EXCEPT ![FreshId] = [secret |-> secret, size |-> sz]]
    /\ UNCHANGED <<keyFiles, admitted>>

\* SecretKey::generate: the CSPRNG fills all 32 bytes also for AES-128.
generate(o, sz) == Construct(o, FreshId, FreshId, sz, FreshId)

\* load_from_file (and from_bytes): only sz bytes are filled.
load_from_file(o, f) ==
    Construct(o, FreshId, IF f.size = 32 THEN FreshId ELSE Zero, f.size, f.secret)

\* The exception path of both: the constructor locked the page, then
\* fill_random or a read throws, and the destructor of the local runs.
CreationFails(o) ==
    /\ o \notin alive
    /\ LockThenUnlock(o, o, locked, nodump)
    /\ WipeBytes(o)
    /\ size_' = [size_ EXCEPT ![o] = 32]
    /\ gcm_invocations_' = [gcm_invocations_ EXCEPT ![o] = 0]
    /\ UNCHANGED <<alive, keyFiles, nkeys, born, admitted>>

-----------------------------------------------------------------------------
\* mutants of Transfer: a member does not travel
TransferWithoutSize(d, s) ==
    /\ lo' = [lo EXCEPT ![d] = lo[s], ![s] = Zero]
    /\ hi' = [hi EXCEPT ![d] = hi[s], ![s] = Zero]
    /\ size_' = [size_ EXCEPT ![d] = 32]
    /\ gcm_invocations_' = [gcm_invocations_ EXCEPT ![d] = gcm_invocations_[s]]
TransferWithoutCounter(d, s) ==
    /\ lo' = [lo EXCEPT ![d] = lo[s], ![s] = Zero]
    /\ hi' = [hi EXCEPT ![d] = hi[s], ![s] = Zero]
    /\ size_' = [size_ EXCEPT ![d] = size_[s]]
    /\ gcm_invocations_' = [gcm_invocations_ EXCEPT ![d] = 0]

\* Members copied from s to d, then the bytes of s zeroed by other.wipe();
\* size_ and gcm_invocations_ of s keep their values.
Transfer(d, s) ==
    /\ lo' = [lo EXCEPT ![d] = lo[s], ![s] = Zero]
    /\ hi' = [hi EXCEPT ![d] = hi[s], ![s] = Zero]
    /\ size_' = [size_ EXCEPT ![d] = size_[s]]
    /\ gcm_invocations_' = [gcm_invocations_ EXCEPT ![d] = gcm_invocations_[s]]

\* SecretKey(SecretKey&& other): lock the destination, then wipe the source.
MoveConstruct(d, s) ==
    /\ d \notin alive /\ s \in alive
    /\ alive' = alive \cup {d}
    /\ Transfer(d, s)
    /\ LockThenUnlock(d, s, locked, nodump)
    /\ UNCHANGED <<keyFiles, nkeys, born, admitted>>

\* operator=(SecretKey&&): wipe this, copy, lock this, wipe the source.
\* Self-assignment is a no-op.
MoveAssign(d, s) ==
    /\ d \in alive /\ s \in alive /\ d # s
    /\ Transfer(d, s)
    /\ LockThenUnlock(d, s, munlock(d, locked), MADV_DODUMP(d, nodump))
    /\ UNCHANGED <<alive, keyFiles, nkeys, born, admitted>>

Destroy(o) ==
    /\ o \in alive
    /\ alive' = alive \ {o}
    /\ WipeBytes(o)
    /\ unlock_memory(o, locked, nodump)
    /\ UNCHANGED <<size_, gcm_invocations_, keyFiles, nkeys, born, admitted>>

-----------------------------------------------------------------------------
\* The value of the logical key of o; an object that was moved from is alive
\* and its key is all zero.
SecretOf(o) == IF lo[o] = Zero THEN Zero ELSE born[lo[o]].secret

save_to_file(o) ==
    /\ o \in alive
    /\ keyFiles' = keyFiles \cup {[secret |-> SecretOf(o), size |-> size_[o]]}
    /\ UNCHANGED <<alive, lo, hi, size_, gcm_invocations_, locked, nodump, nkeys, born, admitted>>

\* check_gcm_invocation_count does not throw.
Admitted(prior) == prior < kGcmInvocationLimit

\* AesGcm::encrypt as far as the key object sees it: the counter advances also
\* for a refused call, and a call is not refused because the object was moved
\* from.
encrypt(o) ==
    /\ o \in alive /\ gcm_invocations_[o] < MaxCalls
    /\ gcm_invocations_' = [gcm_invocations_ EXCEPT ![o] = @ + 1]
    /\ admitted' = IF Admitted(gcm_invocations_[o]) /\ lo[o] # Zero
                   THEN [admitted EXCEPT ![lo[o]] = @ + 1] ELSE admitted
    /\ UNCHANGED <<alive, lo, hi, size_, locked, nodump, keyFiles, nkeys, born>>

KeyNext ==
    \/ \E o \in Objs, sz \in KeySizes : generate(o, sz)
    \/ \E o \in Objs, f \in keyFiles : load_from_file(o, f)
    \/ \E o \in Objs : CreationFails(o)
    \/ \E d, s \in Objs : MoveConstruct(d, s)
    \/ \E d, s \in Objs : MoveAssign(d, s)
    \/ \E o \in Objs : Destroy(o)
    \/ \E o \in Objs : save_to_file(o)
    \/ \E o \in Objs : encrypt(o)

KeySpec == KeyInit /\ [][KeyNext]_keyVars

-----------------------------------------------------------------------------
\* Types of the objects' members, the kernel's page sets and the histories.
KeyTypeOK ==
    /\ alive \subseteq Objs
    /\ lo \in [Objs -> Half] /\ hi \in [Objs -> Half]
    /\ size_ \in [Objs -> KeySizes]
    /\ gcm_invocations_ \in [Objs -> Nat]
    /\ locked \subseteq Pages /\ nodump \subseteq Pages
    /\ keyFiles \subseteq Keys
    /\ nkeys \in 0 .. MaxKeys
    /\ born \in [Ids -> Keys]
    /\ admitted \in [Ids -> Nat]

HoldsKey(o) == lo[o] # Zero

(***************************************************************************)
(* "Copy is disabled so a key can't be accidentally duplicated; the        *)
(* backing bytes are wiped on destruction (and on move-from)": no byte of  *)
(* a key is in storage that is not alive, and no byte of one object's key  *)
(* is in another object, whatever the sequence of moves and destructions.  *)
(* An AES-128 key has 32 bytes of material too.                            *)
(***************************************************************************)
NoResidue ==
    /\ \A o \in Objs \ alive : lo[o] = Zero /\ hi[o] = Zero
    /\ \A o, p \in Objs : o # p => {lo[o], hi[o]} \cap {lo[p], hi[p]} \subseteq {Zero}

(***************************************************************************)
(* A key is used as what it was created as: the comment on the move        *)
(* constructor warns that a moved AES-128 key with the default size would  *)
(* be promoted to AES-256 over zero bytes, "producing wrong ciphertext     *)
(* rather than a visible failure".                                         *)
(***************************************************************************)
KeyIntact ==
    \A o \in Objs : HoldsKey(o) =>
        /\ lo[o] <= nkeys
        /\ size_[o] = born[lo[o]].size
        /\ size_[o] = 32 => hi[o] = lo[o]

(***************************************************************************)
(* The NIST SP 800-38D bound of check_gcm_invocation_count holds along the *)
(* life of a key, however often the object that holds it is moved.         *)
(***************************************************************************)
BudgetFollowsKey ==
    \A i \in Ids : admitted[i] <= kGcmInvocationLimit

(***************************************************************************)
(* A page stays pinned only while a SecretKey is alive on it: wipe() gives *)
(* locked memory back on every path, the throwing ones included.  (The     *)
(* object may be empty: move-assignment from a moved-from object pins the  *)
(* destination although no key arrived.)                                   *)
(***************************************************************************)
NoLockLeak ==
    \A p \in locked \cup nodump : \E o \in alive : p \in PagesOf[o]

(***************************************************************************)
(* What lock_memory and unlock_memory do achieve: a key whose pages no     *)
(* other SecretKey touches is pinned where mlock succeeds, and excluded    *)
(* from core dumps where bytes_ starts a page, from its creation through   *)
(* any number of moves into and out of its location.                       *)
(***************************************************************************)
PagesOfItsOwn(o) == \A p \in Objs \ {o} : PagesOf[o] \cap PagesOf[p] = {}

PrivateKeyProtected ==
    \A o \in Objs : HoldsKey(o) /\ PagesOfItsOwn(o) =>
        /\ o \notin MlockMayFail => PagesOf[o] \subseteq locked
        /\ o \in Aligned => PagesOf[o] \subseteq nodump

(***************************************************************************)
(* Strengthening of BudgetFollowsKey that is inductive: the counter in the *)
(* object that holds the key bounds the nonces drawn under it.             *)
(***************************************************************************)
CounterBoundsNonces ==
    /\ \A o \in Objs : HoldsKey(o) => admitted[lo[o]] <= gcm_invocations_[o]
    /\ \A i \in Ids : i > nkeys => admitted[i] = 0
    /\ \A o \in Objs : hi[o] # Zero => hi[o] = lo[o]

\* Inductive invariant of the key objects: no copies, intact keys, and a counter
\* that travels with the key it counts for.
KeyIInv == KeyTypeOK /\ NoResidue /\ KeyIntact /\ BudgetFollowsKey /\ CounterBoundsNonces
=============================================================================
