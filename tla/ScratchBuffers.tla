--------------------------- MODULE ScratchBuffers --------------------------
(***************************************************************************)
(* The buffers that hold key material while a wrapped key file is saved or *)
(* loaded: save_to_file_encrypted and load_from_file_encrypted of          *)
(* key_storage.cpp, with pbkdf2_hmac_sha256 and hmac_sha256 of sha256.cpp  *)
(* that they call.  Each step copies into a buffer, wipes one, arms the    *)
(* ScopedWipe guard of one, leaves a scope, or throws.  What survives is   *)
(* decided by the scope's end: the bytes of a buffer that nobody wiped     *)
(* stay in the stack or the heap.                                          *)
(*                                                                         *)
(* One call of one of the two functions.  Buffers without key material     *)
(* (salt, nonce, file contents, tag, u_input_buf) are left out.  A local   *)
(* that is returned is built in the caller's object, as every compiler     *)
(* the library supports does.                                              *)
(***************************************************************************)
EXTENDS Integers

CONSTANT Iterations      \* bound: of PBKDF2
ASSUME IterationsAssumption == Iterations \in Nat \ {0}

VARIABLES
    op,               \* "save" or "load"
    longPassphrase,   \* the passphrase is longer than a block of SHA-256
    at, ret,          \* where the call is; where hmac_sha256 returns to
    kdf_block, kdf_i, \* the loops of pbkdf2_hmac_sha256
    dirty,            \* buffers in scope that hold key material
    armed,            \* buffers that a destructor wipes: ScopedWipe, ~SecretKey
    survivors         \* history: buffers that went out of scope unwiped

scratchVars == <<op, longPassphrase, at, ret, kdf_block, kdf_i, dirty, armed, survivors>>
loops == <<kdf_block, kdf_i>>
unwiped == <<armed, survivors>>

\* The locals of each scope.
HmacScope == {"actual_key_bytes", "ipad", "opad", "inner_data", "inner", "outer_buf"}
BlockScope == {"u", "t_block"}
KdfScope == BlockScope \cup {"kdf_result"}
CallScope == {"derived", "wrap_key", "plaintext_key", "mac_key_array", "decrypted_bytes"}
Buffers == HmacScope \cup KdfScope \cup CallScope

ScratchInit ==
    /\ op \in {"save", "load"} /\ longPassphrase \in BOOLEAN
    /\ at = "start" /\ ret = "u1" /\ kdf_block = 1 /\ kdf_i = 2
    /\ dirty = {} /\ armed = {} /\ survivors = {}

Proceed(where) == at' = where /\ UNCHANGED <<op, longPassphrase>>

\* Buffers are filled, resp. wiped by secure_wipe.
Copy(buffers) == dirty' = dirty \cup buffers
secure_wipe(buffers) == dirty' = dirty \ buffers

\* The end of a scope: the guards of its buffers run.
Leave(scope) ==
    /\ survivors' = survivors \cup ((dirty \cap scope) \ armed)
    /\ dirty' = dirty \ scope /\ armed' = armed \ scope

\* The call ends, by an exception that unwinds every scope or by a return.
Throw == Proceed("thrown") /\ Leave(Buffers) /\ UNCHANGED <<ret, loops>>
Return == Proceed("returned") /\ Leave(Buffers) /\ UNCHANGED <<ret, loops>>

-----------------------------------------------------------------------------
\* hmac_sha256, called with the key in the caller's memory; the caller then
\* goes on at ret.  The data is short: inner_data is inline_buf.
CallHmac(from) == Proceed("hmac") /\ ret' = from

HmacPads ==
    /\ at = "hmac" /\ Proceed("inner")
    /\ Copy({"ipad", "opad"} \cup
            IF longPassphrase /\ ret # "tag" THEN {"actual_key_bytes"} ELSE {})
    /\ UNCHANGED <<ret, loops, unwiped>>

HmacInner ==
    /\ at = "inner" /\ Proceed("outer")
    /\ Copy({"inner_data", "inner"})
    /\ UNCHANGED <<ret, loops, unwiped>>

HmacOuter ==
    /\ at = "outer" /\ Copy({"outer_buf"}) /\ Proceed("hmac_return")
    /\ UNCHANGED <<ret, loops, unwiped>>

HmacReturn ==
    /\ at = "hmac_return" /\ Leave(HmacScope) /\ Proceed(ret)
    /\ UNCHANGED <<ret, loops>>

-----------------------------------------------------------------------------
\* pbkdf2_hmac_sha256: u_input_buf is allocated for each of the two blocks.
KdfBlock ==
    /\ at = "kdf"
    /\ \/ CallHmac("u1") /\ UNCHANGED <<loops, dirty, unwiped>>
       \/ Throw

\* u = U_1, t_block = u
FirstTerm ==
    /\ at = "u1" /\ Proceed("loop") /\ Copy({"u", "t_block"}) /\ kdf_i' = 2
    /\ UNCHANGED <<ret, kdf_block, unwiped>>

NextTerm ==
    /\ at = "loop" /\ kdf_i <= Iterations /\ CallHmac("u")
    /\ UNCHANGED <<loops, dirty, unwiped>>

\* t_block ^= u
XorTerm ==
    /\ at = "u" /\ Proceed("loop") /\ Copy({"u", "t_block"}) /\ kdf_i' = kdf_i + 1
    /\ UNCHANGED <<ret, kdf_block, unwiped>>

CopyHalf ==
    /\ at = "loop" /\ kdf_i > Iterations
    /\ Proceed("block_end") /\ Copy({"kdf_result"})
    /\ UNCHANGED <<ret, loops, unwiped>>

BlockEnd ==
    /\ at = "block_end" /\ Leave(BlockScope)
    /\ kdf_block' = kdf_block + 1
    /\ Proceed(IF kdf_block < 2 THEN "kdf" ELSE "kdf_return")
    /\ UNCHANGED <<ret, kdf_i>>

\* mutant: no guard for derived
wipe_derived_missing == UNCHANGED armed
wipe_derived == armed' = armed \cup {"derived"}

\* return result, built in derived, and the guard of derived after it.
KdfReturn ==
    /\ at = "kdf_return"
    /\ dirty' = (dirty \ {"kdf_result"}) \cup {"derived"}
    /\ wipe_derived
    /\ Proceed(IF op = "save" THEN "wrap_key" ELSE "mac_key")
    /\ UNCHANGED <<ret, loops, survivors>>

-----------------------------------------------------------------------------
\* What comes before the derivation: the iteration check and the salt, or
\* reading and parsing the file.
BeforeKdf ==
    /\ at = "start"
    /\ \/ Proceed("kdf") /\ UNCHANGED <<ret, loops, dirty, unwiped>>
       \/ Throw

\* SecretKey wrap_key, whose destructor wipes it.
WrapKey ==
    /\ at = "wrap_key" /\ Copy({"wrap_key"}) /\ armed' = armed \cup {"wrap_key"}
    /\ Proceed(IF op = "save" THEN "nonce" ELSE "decrypt")
    /\ UNCHANGED <<ret, loops, survivors>>

DrawNonce ==
    /\ at = "nonce"
    /\ \/ Proceed("plaintext_key") /\ UNCHANGED <<ret, loops, dirty, unwiped>>
       \/ Throw

\* The vector that the key's bytes are copied to has no guard.
CopyKey ==
    /\ at = "plaintext_key"
    /\ \/ Proceed("encrypt") /\ Copy({"plaintext_key"}) /\ UNCHANGED <<ret, loops, unwiped>>
       \/ Throw

\* Aes256Ctr::encrypt draws a nonce and allocates its output.
Encrypt ==
    /\ at = "encrypt"
    /\ \/ Proceed("wipe_key") /\ UNCHANGED <<ret, loops, dirty, unwiped>>
       \/ Throw

WipeKey ==
    /\ at = "wipe_key" /\ secure_wipe({"plaintext_key"}) /\ Proceed("plaintext_part")
    /\ UNCHANGED <<ret, loops, unwiped>>

\* plaintext_part is allocated and filled.
BuildFile ==
    /\ at = "plaintext_part"
    /\ \/ Proceed("mac_key") /\ UNCHANGED <<ret, loops, dirty, unwiped>>
       \/ Throw

\* mac_key_array, its guard, the copy, and the call of hmac_sha256.
MacKey ==
    /\ at = "mac_key" /\ CallHmac("tag")
    /\ armed' = armed \cup {"mac_key_array"} /\ Copy({"mac_key_array"})
    /\ UNCHANGED <<loops, survivors>>

TagOfSave ==
    /\ at = "tag" /\ op = "save" /\ Proceed("write")
    /\ secure_wipe({"mac_key_array", "derived"})
    /\ UNCHANGED <<ret, loops, unwiped>>

WriteFile == at = "write" /\ (Throw \/ Return)

\* AuthenticationError, or on to the wrapping key.
TagOfLoad ==
    /\ at = "tag" /\ op = "load"
    /\ \/ Proceed("wrap_key") /\ UNCHANGED <<ret, loops, dirty, unwiped>>
       \/ Throw

\* Aes256Ctr::decrypt allocates its output; wipe_decrypted comes after it.
Decrypt ==
    /\ at = "decrypt"
    /\ \/ /\ Proceed("result") /\ Copy({"decrypted_bytes"})
          /\ armed' = armed \cup {"decrypted_bytes"}
          /\ UNCHANGED <<ret, loops, survivors>>
       \/ Throw

\* The key is copied into the SecretKey that is returned.
Result == at = "result" /\ Return

ScratchNext ==
    \/ BeforeKdf \/ KdfBlock \/ FirstTerm \/ NextTerm \/ XorTerm \/ CopyHalf \/ BlockEnd \/ KdfReturn
    \/ HmacPads \/ HmacInner \/ HmacOuter \/ HmacReturn
    \/ WrapKey \/ DrawNonce \/ CopyKey \/ Encrypt \/ WipeKey \/ BuildFile
    \/ MacKey \/ TagOfSave \/ WriteFile \/ TagOfLoad \/ Decrypt \/ Result

ScratchSpec == ScratchInit /\ [][ScratchNext]_scratchVars

-----------------------------------------------------------------------------
(***************************************************************************)
(* Types; a guard is there only for a local of the call.                   *)
(***************************************************************************)
ScratchTypeOK ==
    /\ dirty \subseteq Buffers /\ armed \subseteq CallScope /\ survivors \subseteq Buffers
    /\ kdf_block \in 1 .. 3 /\ kdf_i \in 2 .. Iterations + 1

(***************************************************************************)
(* Wherever the call ends, at any of its throws or by a return, the        *)
(* derived keys that its own frame holds (derived, wrap_key,               *)
(* mac_key_array) and the decrypted key are wiped, and a save that returns *)
(* has wiped its copy of the key.                                          *)
(***************************************************************************)
GuardedBuffersWiped ==
    /\ survivors \cap {"derived", "wrap_key", "mac_key_array", "decrypted_bytes"} = {}
    /\ at = "returned" => "plaintext_key" \notin survivors

(***************************************************************************)
(* "Protects against key/schedule bytes surviving in a post-lifetime       *)
(* stack/heap dump" (DESIGN.md:534), for the bytes of the key that is      *)
(* saved or loaded.  plaintext_key is wiped by a statement after           *)
(* Aes256Ctr::encrypt, not by a guard.                                     *)
(***************************************************************************)
KeyBytesWiped == survivors \cap {"plaintext_key", "decrypted_bytes"} = {}

(***************************************************************************)
(* "PBKDF2 scratch buffers are wiped via a detail::ScopedWipe RAII guard   *)
(* so an exception thrown mid-derivation still gets them zeroed"           *)
(* (DESIGN.md:471).  pbkdf2_hmac_sha256 guards nothing: u and t_block,     *)
(* which is half of the derived key, stay at the end of each block, and    *)
(* its result too when the second block's u_input_buf cannot be allocated. *)
(***************************************************************************)
KdfScratchWiped == survivors \cap KdfScope = {}
=============================================================================
