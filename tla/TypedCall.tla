----------------------------- MODULE TypedCall -----------------------------
(***************************************************************************)
(* One typed round trip through the library, as the templates of           *)
(* aes256_ctr.hpp and aes_gcm.hpp make it: encrypt(key, value) views the   *)
(* value of type T as bytes (byte_view.hpp), draws a nonce (csprng.cpp)    *)
(* and runs the keystream loop of CounterMode; the caller then hands a     *)
(* container back to decrypt_as<U>, which runs the loop again and rebuilds *)
(* a value of type U.                                                      *)
(*                                                                         *)
(* Byte i of the plaintext is the symbol i.  A masked byte is a plaintext  *)
(* byte under the pad byte CounterMode gave it, so that unmasking with the *)
(* same nonce and pad byte gives the symbol back and anything else gives   *)
(* Garbage.  The GCM invocation counter is the subject of AesGcm.          *)
(***************************************************************************)
EXTENDS CounterMode

CONSTANTS
    kNonceSizeBytes,   \* bytes of a nonce
    Types,             \* the C++ types under study, as records of traits
    MaxElements        \* bound on size() of the resizable values encrypted

ASSUME TypesAssumption ==
    /\ kNonceSizeBytes \in Nat /\ MaxElements \in Nat
    /\ Types \subseteq [contiguous : BOOLEAN, resizable : BOOLEAN, elemTrivial : BOOLEAN,
                        trivial : BOOLEAN, elem : Nat \ {0}, capacity : Nat, sizeof : Nat]

VARIABLES
    stage,    \* where the caller is in its two calls
    type,     \* T, the type of the value that is encrypted
    nonce,    \* byte of std::array nonce |-> has getrandom written it?
    filled,   \* the local of fill_random
    sealed,   \* the container encrypt returned
    result    \* what decrypt_as returned

callVars == <<stage, type, nonce, filled, sealed, result>>
allVars == <<vars, callVars>>

Garbage == -1
NoValue == [type |-> <<>>, value |-> <<>>]
Unsealed == [len |-> 0, nonce |-> <<>>, pad |-> <<>>]

-----------------------------------------------------------------------------
(* byte_view.hpp.  A type is a record: contiguous (data(), size() and      *)
(* value_type), resizable (resize()), elemTrivial and trivial (trivially   *)
(* copyable elements, whole), elem (sizeof an element), capacity (size()   *)
(* of a std::array) and sizeof.                                            *)

is_byte_container(t) == t.contiguous /\ t.elemTrivial
is_byte_object(t) == t.trivial /\ ~is_byte_container(t)
is_byte_viewable(t) == is_byte_container(t) \/ is_byte_object(t)

ByteViewable == {t \in Types : is_byte_viewable(t)}

\* The values of size() a variable of type t can have.
ElementCounts(t) == IF t.resizable THEN 0 .. MaxElements ELSE {t.capacity}

AlwaysSizeof(t, n) == IF t.trivial THEN t.sizeof ELSE n * t.elem

\* to_byte_vector(value).size() for a value with n elements.
to_byte_vector(t, n) == IF is_byte_container(t) THEN n * t.elem ELSE t.sizeof

RoundedDown(t, n) == TRUE

\* The length check of the resizable from_byte_vector.
WholeElements(t, n) == n % t.elem = 0

\* The bytes a value of type t can be rebuilt from; else FormatError.
LengthFits(t, n) ==
    IF ~is_byte_container(t) THEN n = t.sizeof
    ELSE IF t.resizable THEN WholeElements(t, n)
         ELSE n = t.capacity * t.elem

\* Bytes of storage of the value that from_byte_vector makes of n bytes.
StorageBytes(t, n) ==
    IF ~is_byte_container(t) THEN t.sizeof
    ELSE t.elem * (IF t.resizable THEN n \div t.elem ELSE t.capacity)

\* from_byte_vector<t>(bytes): memcpy writes all the bytes, the storage is what
\* the value keeps of them.
from_byte_vector(t, bytes) ==
    [type  |-> t,
     value |-> [i \in 0 .. StorageBytes(t, len) - 1 |->
                  IF i < len THEN bytes[i] ELSE Garbage]]

-----------------------------------------------------------------------------
TypedInit ==
    /\ mode \in Modes
    /\ type \in ByteViewable
    /\ len \in {to_byte_vector(type, n) : n \in ElementCounts(type)} \cap Lengths
    /\ pc = "validate" /\ offset = 0 /\ counter = FirstCounter(mode)
    /\ pad = [i \in {} |-> <<0, 0>>]
    /\ stage = "encrypt"
    /\ nonce = [i \in 1 .. kNonceSizeBytes |-> FALSE]
    /\ filled = 0
    /\ sealed = Unsealed
    /\ result = NoValue

EncryptValidates ==
    /\ stage = "encrypt"
    /\ ValidateBlockCount
    /\ stage' = IF pc' = "loop" THEN "fill_random" ELSE "LimitError"
    /\ UNCHANGED <<type, nonce, filled, sealed, result>>

FilledOverwritten(f, n) == n

\* filled += n
FilledPlus(f, n) == f + n

OneCallIsEnough(f) == f > 0

\* The exit condition of the loop of fill_random.
FullyFilled(f) == f >= kNonceSizeBytes

\* getrandom wrote n bytes, which may be fewer than asked for.
Getrandom ==
    /\ stage = "fill_random" /\ ~FullyFilled(filled)
    /\ \E n \in 1 .. kNonceSizeBytes - filled :
         /\ nonce' = [i \in DOMAIN nonce |->
                        nonce[i] \/ i \in filled + 1 .. filled + n]
         /\ filled' = FilledPlus(filled, n)
    /\ UNCHANGED <<vars, stage, type, sealed, result>>

\* EINTR: continue.
GetrandomInterrupted ==
    /\ stage = "fill_random" /\ ~FullyFilled(filled)
    /\ UNCHANGED allVars

GetrandomFails ==
    /\ stage = "fill_random" /\ ~FullyFilled(filled)
    /\ stage' = "IoError"
    /\ UNCHANGED <<vars, type, nonce, filled, sealed, result>>

NonceDrawn ==
    /\ stage = "fill_random" /\ FullyFilled(filled)
    /\ stage' = "mask"
    /\ UNCHANGED <<vars, type, nonce, filled, sealed, result>>

\* apply_keystream, in encrypt and in decrypt.
MaskBlock ==
    /\ stage \in {"mask", "unmask"}
    /\ KeystreamBlock
    /\ UNCHANGED callVars

\* encrypt returns the container; with GCM the tag is over all of it.
EncryptReturns ==
    /\ stage = "mask"
    /\ Return
    /\ sealed' = [len |-> len, nonce |-> nonce, pad |-> pad]
    /\ stage' = "sealed"
    /\ UNCHANGED <<type, nonce, filled, result>>

\* The caller decrypts the container, or one whose ciphertext lost or gained
\* a byte on its way.
CallDecrypt ==
    /\ stage = "sealed"
    /\ len' \in {sealed.len - 1, sealed.len, sealed.len + 1} \cap Lengths
    /\ pc' = "validate" /\ offset' = 0 /\ counter' = FirstCounter(mode)
    /\ pad' = [i \in {} |-> <<0, 0>>]
    /\ stage' = "decrypt"
    /\ UNCHANGED <<mode, type, nonce, filled, sealed, result>>

DecryptValidates ==
    /\ stage = "decrypt"
    /\ ValidateBlockCount
    /\ stage' = IF pc' = "LimitError" THEN "LimitError"
                ELSE IF mode = "gcm" THEN "verify" ELSE "unmask"
    /\ UNCHANGED <<type, nonce, filled, sealed, result>>

\* compute_tag over the ciphertext at hand against container.tag.
TagMatches == len = sealed.len

VerifyTag ==
    /\ stage = "verify"
    /\ stage' = IF TagMatches THEN "unmask" ELSE "AuthenticationError"
    /\ UNCHANGED <<vars, type, nonce, filled, sealed, result>>

DecryptReturns ==
    /\ stage = "unmask"
    /\ Return
    /\ stage' = "bytes"
    /\ UNCHANGED <<type, nonce, filled, sealed, result>>

\* What decrypt returned: a ciphertext byte under the pad that masked it.
Unmasked ==
    [i \in 0 .. len - 1 |->
       IF i < sealed.len /\ i \in DOMAIN pad /\ pad[i] = sealed.pad[i] THEN i ELSE Garbage]

decrypt_as ==
    /\ stage = "bytes"
    /\ \E t \in ByteViewable :
         /\ stage' = IF LengthFits(t, len) THEN "value" ELSE "FormatError"
         /\ result' = IF LengthFits(t, len) THEN from_byte_vector(t, Unmasked)
                      ELSE [NoValue EXCEPT !.type = t]
    /\ UNCHANGED <<vars, type, nonce, filled, sealed>>

LibraryStep ==
    \/ EncryptValidates \/ Getrandom \/ GetrandomFails \/ NonceDrawn
    \/ MaskBlock \/ EncryptReturns
    \/ DecryptValidates \/ VerifyTag \/ DecryptReturns \/ decrypt_as

TypedNext == LibraryStep \/ GetrandomInterrupted \/ CallDecrypt

(***************************************************************************)
(* The calls run to their end, and a getrandom that signals interrupt is   *)
(* not interrupted every time for ever.                                    *)
(***************************************************************************)
TypedSpec == TypedInit /\ [][TypedNext]_allVars /\ WF_allVars(LibraryStep)

-----------------------------------------------------------------------------
(***************************************************************************)
(* Every byte of the nonce of a container came from getrandom, however     *)
(* many short or interrupted calls fill_random needed: generate_nonce      *)
(* zero-initialises the array, so a byte it missed would be the same zero  *)
(* in every container and shrink the nonce space unseen.                   *)
(***************************************************************************)
NonceAllRandom ==
    stage \in {"mask", "sealed"} => \A i \in DOMAIN nonce : nonce[i]

(***************************************************************************)
(* decrypt_as<U> gives a value whose storage is exactly the bytes that     *)
(* were decrypted, or FormatError: no byte is dropped, none is left unset, *)
(* whatever type was encrypted.  Under GCM they are the bytes of the value *)
(* that was encrypted; under CTR, which has no tag, they are those of a    *)
(* container of the presented length.                                      *)
(***************************************************************************)
ValueIsMessage ==
    stage = "value" =>
        /\ DOMAIN result.value = 0 .. len - 1
        /\ \A i \in 0 .. len - 1 : result.value[i] = (IF i < sealed.len THEN i ELSE Garbage)
        /\ mode = "gcm" => len = sealed.len

(***************************************************************************)
(* The type that was encrypted can always be decrypted again: from_byte_   *)
(* vector<T> accepts every length to_byte_vector of a T produces, the      *)
(* empty vector and std::array<X, 0> included, and no limit or tag stops   *)
(* the container that encrypt itself returned.                             *)
(***************************************************************************)
SameTypeRoundTrips ==
    len = sealed.len =>
        /\ stage = "FormatError" => result.type # type
        /\ stage # "AuthenticationError"
        /\ stage = "LimitError" => sealed = Unsealed

(***************************************************************************)
(* encrypt and decrypt_as return or throw, if getrandom does not fail      *)
(* with EINTR for ever: the loops of fill_random and apply_keystream end.  *)
(***************************************************************************)
CallsReturn ==
    /\ stage = "encrypt" ~> stage \in {"sealed", "LimitError", "IoError"}
    /\ stage = "decrypt" ~>
         stage \in {"value", "FormatError", "LimitError", "AuthenticationError"}
=============================================================================
