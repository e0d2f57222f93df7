# Verification of aeslib

TLA+ models of aeslib, the TLC runs that check them on small instances, and
TLAPS proofs of the safety properties for every instance. Paths are
relative to the repository's root. Every definition that models code is listed
with its source lines in `PROJECT.json` under "map".

## 1. The system

aeslib is a C++ library for AES in counter mode and GCM, with key objects, key
files and container files, a C ABI and a Python binding on top of it. Nothing
in it starts a thread; concurrency enters where callers share a `SecretKey`
(its counter is atomic and `encrypt` takes it `const`), where processes share a
path, and where Python threads share a binding object.

| Part | State | Operations | What must hold |
|---|---|---|---|
| `SecretKey` (`src/key.cpp`, `include/aeslib/key.hpp`) | 32 bytes, logical size, GCM invocation counter; pinned pages | generate, load, move construction and assignment, destruction, wipe | one copy of each key, none after the object; size and budget travel with it; pages pinned while a key is alive |
| Plain key file (`src/key.cpp`) | one file | `save_to_file`, `load_from_file` | a load returns a key that was saved, whole; the latest one unless a power failure undid its save |
| Wrapped key file (`src/key_storage.cpp`, `src/sha256.cpp`) | one file; scratch buffers | `save_to_file_encrypted`, `load_from_file_encrypted` | a load returns what was saved under that passphrase; what was saved loads; the scratch that holds key bytes is wiped |
| Counter mode (`src/aes256_ctr.cpp`, `src/aes_gcm.cpp`) | loop offset, 32-bit block counter | `validate_block_count`, `apply_keystream` | no keystream byte used twice in a call, none shared with the tag, every byte masked |
| AES-GCM (`src/aes_gcm.cpp`) | the key's counter | `encrypt`, `decrypt` | at most 2^32 nonces per key; only what was sealed is opened |
| Containers (`src/container.cpp`, `src/aes_gcm.cpp`) | one file | `save_container`, `load_container` and the `_gcm` pair | cut-short, mixed or foreign files are rejected; saved ones load |
| Typed entry points (`include/aeslib/byte_view.hpp`, `aes256_ctr.hpp`, `aes_gcm.hpp`) | none | `encrypt<T>`, `decrypt_as<U>` | a value is all of the bytes that were decrypted, or `FormatError`; a type always reads its own container |
| C ABI and Python binding (`src/capi.cpp`, `bindings/python/aeslib_ffi.py`) | handles, output buffers, thread-local message | the exported functions and their wrappers | a message belongs to its call; no use after free; no leak; no exception leaves a C function |
| Random bytes (`src/csprng.cpp`) | none | `fill_random` | all bytes filled, or an exception |
| Backend dispatch (`src/cpu_detect.cpp`, `src/aes_core_hw.cpp`) | cached detection and self-test result, environment | `active_backend`, self-test | one answer for all threads; the hardware path only after a passed self-test |
| AES (`src/aes_core_soft.cpp`, `aes_key_schedule.hpp`, `aes_core_ni.cpp`, `_arm`, `_riscv`) | round-key schedule of a call | `aes128_` and `aes256_encrypt_block_*` | FIPS-197 in each backend; the schedule wiped |
| GHASH (`src/ghash.cpp`) | accumulator | `ghash`, `gf128_mul` | the polynomial of SP 800-38D; unambiguous padding |
| SHA-256, HMAC, PBKDF2 (`src/sha256.cpp`) | block buffer | `sha256`, `hmac_sha256`, `pbkdf2_hmac_sha256` | the padding of FIPS 180-4, RFC 2104, RFC 8018; they return |

How they interact: `AesGcm::encrypt` reads the key bytes and increments the
counter through `KeyAccess`; `save_to_file_encrypted` calls PBKDF2, HMAC and
`Aes256Ctr::encrypt`; the wrapped-key loader and the container loader share
`read_file`; the C functions turn exceptions of all of these into a status and
a thread-local message; the Python binding fetches that message with a second
foreign call.

What is hard to test, and the property that watches it, is listed line by line
in `PROJECT.json` under "hazards": counter values that need 64 GiB of input or
2^32 calls, kernel page semantics, crashes and short writes between system
calls, overlapping saves and loads, exceptions between a copy and its wipe,
thread interleavings at the C boundary, and instruction sequences for
processors a test machine does not have.

## 2. Modules

| Module | Models | State and actions |
|---|---|---|
| `CounterMode` | one `encrypt` or `decrypt` call of either mode | `offset` and `counter` are the loop's variables; `pad` records for each output byte which keystream byte masked it. `ValidateBlockCount`, `KeystreamBlock` (one iteration), `Return` |
| `TypedCall` | `encrypt<T>` and then `decrypt_as<U>`, composing `CounterMode` with `fill_random` and `byte_view.hpp` | `stage` is where the caller is; `nonce` says which bytes getrandom wrote, `filled` is the local of `fill_random`, `sealed` the container, `result` the value. `Getrandom` (short counts), `GetrandomInterrupted`, `GetrandomFails`, the validations, `MaskBlock` (a `KeystreamBlock` of `CounterMode`), `VerifyTag`, `decrypt_as` |
| `SecretKey` | key objects in storage locations | `lo`, `hi` are the halves of `bytes_`, holding zero or the identity of a key; `locked` and `nodump` the pages the kernel pins or does not dump. One action per constructor, assignment, destructor and use; `CreationFails` is the throwing path |
| `PosixFile` | external: what `write` does at an offset, what a read can return, what a crash leaves | operators only |
| `KeyFile` | `save_to_file`, `load_from_file` of several processes | one action per system call, plus `Die`, `Flush` (the kernel writes back) and `PowerFailure`; `disk` is what has been written back; `owner` and `seen.mixed` record whether saves overlapped each other or a load |
| `WrappedKeyFile` | `save_to_file_encrypted`, `load_from_file_encrypted`, `read_file` | the same |
| `ScratchBuffers` | where `save_to_file_encrypted` and `load_from_file_encrypted`, and the PBKDF2 and HMAC that they call, put key material | `dirty` are the buffers that hold some, `armed` those with a `ScopedWipe` or a destructor that wipes, `survivors` (history) those that left their scope unwiped. One action per copy, wipe, guard, end of a scope and throwing step |
| `AesGcm` | threads in `encrypt` and `decrypt` with one key | one action per step of a call: validation, `fetch_add`, check, nonce draw, sealing, verification, release |
| `Aead` | abstract: what `AesGcm` promises a key's users | `Spend`, `Seal`, `Open` |
| `ContainerFile` | containers of both formats, from message to file and back | `serialize` gives the cells of the file, `LoadParse` is `deserialize` followed by `decrypt`; `Die`, `Flush`, `PowerFailure` as in `KeyFile` |
| `CApi` | the C functions as Python threads call them | `heap` says which call's key is at an address; `make_unique` may return any free address, so one that was given back comes again; `born` (history) is the call that created an object's key. `Begin` … `Finish` per call, with `ArgumentChecks`, `TryBlock`, `translate_exception`, `set_last_error_throws`, `_check`, `_take_buffer` |
| `Dispatch` | `encrypt_block`, `active_backend`, `has_hw_aes` and the self-test | `guard` and `supported` are the function-local static; `host` says which instructions exist and where they compute wrongly; `env` is the override. One action per environment read, static access, probe, test vector and block |
| `Digits` | positional notation: `ct_len` byte by byte, the lengths of GHASH bit by bit | operators only |
| `Gf2`, `AesFips` | references: polynomials over GF(2), and AES as FIPS-197 defines it | operators only |
| `AesSoft`, `AesHardware` | the arithmetic of the software backend and the shared key schedule; the instruction sequences of AES-NI, ARM and RISC-V | operators only; the instructions are external |
| `AesCipher` | abstract: the encryption of a block as FIPS-197 describes it, with the functions of `AesFips` as parameters | `Expand` (a round key), `Begin`, `Round`, `Last` |
| `AesBackends` | one block in any backend; implements `AesCipher` | `words`, `rk` are the schedule arrays, `state` the register. `Start`, one schedule step at a time, `Load`, one `Round` at a time, `Last` with the wipes. `RoundKeys` and `CipherState` are the refinement mapping |
| `GHash` | `ghash`, `fold_into`, `gf128_mul` | one action per iteration of each loop; `folded` (history) the blocks |
| `Sha256` | the block buffer and padding of `sha256`, `hmac_sha256`, the loops of `pbkdf2_hmac_sha256` | one action per message byte, padding step and PBKDF2 iteration |
| `MC*` | instances for TLC | constants, bounds, and the choice of a module in `MCAesGcm` and `MCPrimitives` |
| `KeyAndModeProofs` (of `SecretKey`, `CounterMode` and `TypedCall`), `AesGcmProofs`, `KeyFileProofs`, `WrappedKeyFileProofs`, `ContainerFileProofs`, `ArithmeticProofs`, `CApiProofs`, `PrimitiveProofs` (of `Dispatch`, `AesBackends`, `GHash` and `Sha256`) | proofs | see section 5 |

Conventions. Data is symbolic, except in `AesBackends`, `GHash` and `Sha256`,
where a byte or a machine word is the set of the positions of its one bits. A ciphertext byte names the keystream byte that
masks it, a tag or a derived key names all of its inputs (so they are collision
free, and a forged one is one that was never issued), a key byte is its key and
position. Random bytes are fresh numbers, or the draw fails. A hole that a
write beyond the end of a truncated file leaves is made of zero bytes, which
`ContainerFile` reads as digits of a length; where a field of another kind
lands on the length, `Lengths` lets it have any value. Names are those of the
source where there is one. Variables marked "history" are not in the code. They
steer no control flow: they only give fresh names (`drawn`, `nkeys`), the value
of a named key (`born` of `SecretKey`), the tags a caller of `decrypt` can offer (`sealed`),
and the bounds `MaxSaves`, `MaxKeys`, `MaxAttempts` and `MaxCalls` that end a
behaviour.

Atomicity. File models interleave at system calls; everything between two calls
is local. Iostream's reads in `read_file` may be split. In `AesGcm` a step
touches the shared counter at most once. In `CApi` a step ends where ctypes
gives up or takes the interpreter lock. In `Dispatch` each environment read
and each access to the static is a step. `SecretKey` is sequential: its methods
other than `encrypt`'s counter are not meant for concurrent use, and a move
constructor is one step because no other code of the program runs inside it.

Externals. `mlock` and `munlock` act on whole pages, do not nest, and `mlock`
may fail where `MlockMayFail` says so. `madvise` fails on an address that does
not start a page. Process death leaves the file as the last system call left
it. No save syncs, so what survives a power failure is up to the kernel: `Flush`,
at any time, puts a prefix of the file's contents on the disk (data reaches it no
later than the size that covers it), and `PowerFailure` brings back what the disk
holds. A truncation or creation that was not written back is undone with the rest,
so the old contents come back whole, or no file. `operator new` returns any address
that is not in use.

## 3. Runs

Deadlock checking is off: single calls end, and the other models stop at their
bounds. A thread that is stuck in the dispatch would violate `CallsReturn`.

Two runs join modules that share no state: `aes_gcm` has `AesGcm` and `GHash`,
`primitives` has `Dispatch`, `AesBackends`, `Sha256` and `ScratchBuffers`. The
variable `chosen` of their MC modules says which one a behaviour is about; the
others then have one fixed input and stand still. In `primitives` the hash call is
always made first, since its fairness holds in every behaviour.

Runs that pass:

| Run | Instance | Shows |
|---|---|---|
| `typed_call` | counter of 4 values, 12-byte nonces, ten types (vectors of elements of 1, 2 and 12 bytes, arrays, the empty array, structs, and one that is not viewable), every length from 0 to one block past the CTR limit, a container that may lose or gain a byte | both limits are crossed byte by byte: no keystream reuse, the tag's block is never used, every byte is masked; every nonce byte is random; values are what was decrypted; the calls return |
| `secret_key` | three locations, one with a page of its own, two on a shared page, one across a boundary; two keys, limit 1; `mlock` may fail at one location | no residue, intact keys, the budget follows the key, no pinned page without a live object, and the location with its own page is protected whenever it holds a key |
| `key_file` | two processes, keys of one and two bytes | after any failed write, death or power failure a load that overlaps no save returns one saved key, whole, or fails; without a power failure it is the latest; a completed save loads; a load that saves overlap returns bytes that saves put at those places, as many as a key has; the calls end while another process truncates the file under them |
| `wrapped_key_file` | two processes, two keys of different size, two passphrases, iteration counts at and below the minimum, two saves | overlapping or interrupted saves, and what a power failure brings back, never make a load return something that was not saved under its passphrase; saved keys load |
| `aes_gcm` | `AesGcm`: two threads, limit 2, four counted calls, two messages and one too long, two associated data, arbitrary received containers. `GHash`: a 16-bit field, three subkeys, parts of 0 to 3 bytes | the budget holds under every interleaving; only sealed messages are opened; `AesGcm` implements `Aead`; GHASH is the polynomial of SP 800-38D at the subkey, and its blocks determine its input |
| `container_file` | two processes, both formats, an empty message and one whose length needs both digits of `ct_len`, two saves | GCM loads return saved messages even when saves overlap; CTR loads do when no save overlaps; what a power failure brings back loads as a saved message or not at all; saved containers load |
| `c_api` | two threads, two objects, two addresses, five calls | an `AeslibError` carries its own call's message; the first call that follows a freed handle, or one whose address has another object's key, is on an object that a `close()` overlapped with another call; nothing leaks |
| `primitives`, dispatch | two threads, messages of up to two blocks, all 32 hosts, an override that changes at any time | no AES instruction runs where there is none; hardware that fails a known-answer vector never encrypts data; all threads get one answer; every call returns |
| `primitives`, a block | four backends, both key sizes, the vectors of `kat_vector.hpp`, sixteen blocks that bring all 256 byte values through the S-box, scattered and all-one keys | each backend implements `AesCipher` step by step (`ImplementsCipher`), and no round key is left in a schedule array; `ReferenceAssumption` anchors the reference itself, which must give the answers of `kat_vector.hpp` |
| `primitives`, a hash | blocks of 8 bytes with a 2-byte length, a fixed buffer of 5, an iteration counter of 8 values | padding across two block boundaries, HMAC around both sizes, PBKDF2 for every count; the calls return, but for the largest count |
| `primitives`, scratch buffers | both calls, short and long passphrases, three iterations, every throw | whatever the exit, the derived keys in the two functions' own frames and the decrypted key are wiped, and a save that returns has wiped its copy of the key |

Why the bounds are enough. The counter models need room for the last admitted
value, the first refused one and one more, with two threads between the
increment and the check. The file models need two writers and a reader, or a
writer and its crash: two saves and two processes give every order of
truncation, write and read. Write-back multiplies the states, so the
file runs bound it (`FlushedBetweenCalls`): the kernel writes back only while no call
is in progress, in `key_file` only what one of the two processes, which are alike,
saved last. A power failure may still come at any time, and finds any prefix of an
earlier save or no file on the disk. A mix of saves on the disk is left to the
proofs, which have no such bound, in `key_file`. `ShortAt` restricts where a short write may stop to
one place inside the header and one near the end. Three locations and two keys
give a source, a destination and a neighbour. Five C calls and two addresses are two creations, a
use and two closes, or any others, and let an address be given out again. Symmetry is used only in runs without temporal
properties, over sets the specifications treat alike (processes, passphrases, addresses).
AES runs at its real size, on sample inputs: every byte value meets the S-box,
and a wrong constant, word or lane shows in the first key that is not constant.
GHASH and SHA-256 are parameterised by their widths; the narrow instances keep
the relations on which the control depends (two words to a block, a length field
that may or may not fit, a buffer shorter than the longest data).

Four runs find a violation. Each checks what the repository's documentation says of
the code, and each disagreement is listed under "findings":

* `wrapped_key_file_ceiling` checks `SavedKeyLoads` with an iteration count above
  the loader's maximum. `save_to_file_encrypted` has no upper bound, so the save
  succeeds and the key cannot be loaded again.
* `c_api_escapes` checks `NoExceptionEscapes`. `set_last_error` copies a string in
  the checks before the try block and inside the catch clauses; when there is no
  memory for it, its exception leaves the `extern "C"` function.
* `scratch_buffers_key` checks `KeyBytesWiped`. The copy of the key that a save makes
  is wiped by a statement, not by a guard, and stays when `Aes256Ctr::encrypt` throws.
* `scratch_buffers_kdf` checks `KdfScratchWiped`. `pbkdf2_hmac_sha256` has no guards:
  `u` and `t_block` (half of the derived key) stay at the end of each block, and its
  result stays when the second block's input cannot be allocated.

Known limits. Some passing properties state a condition where the code or its
documentation might suggest none; the condition is needed, and removing it
makes TLC show the behaviour:

* `LoadReturnsSavedKey` of `KeyFile` excludes loads that overlap a save, and after a
  power failure it promises some saved key, since an older file may be back. The plain
  format is rewritten in place, read in several calls and has no check over the key:
  an overlapped load can return bytes of two keys, or zeros of a hole, without an
  error. `LoadedBytesInPlace` is what remains: the size is that of a key, and no byte
  of the header or of another place is taken for a key byte.
* `GuardedBuffersWiped` excludes the scratch of PBKDF2 and HMAC, and the saved key's
  copy when the call throws; `scratch_buffers_key` and `scratch_buffers_kdf` show why.
* `PrivateKeyProtected` is about objects with a page of their own: `munlock`
  does not nest, so wiping one object unpins a neighbour on the page; and
  `madvise` fails for the unaligned address of an ordinary `bytes_`.
* `HashCallsReturn` excepts the iteration count 2^32 - 1, with which the loop
  `i <= iterations` over a `uint32_t` never ends.
* `NoDanglingHandle` is about the first call that goes astray. `close()` clears
  `_handle` after `aeslib_key_free` has returned; if in between another object's key is
  allocated at the same address, a second `close()` of the first object frees it, and
  a later call on the other object, which nothing overlapped, follows a freed handle
  too. So one race can harm objects that took no part in it.

Every property of a passing run has a mutant, an operator defined next to the
definition it replaces, that breaks it the way a slip in the code would.

## 4. Fairness and liveness

`Dispatch` assumes weak fairness of each thread's steps: the operating system
schedules every runnable thread, and a thread that waits for the static becomes
runnable for good once the initializer has ended. Callers need not call and
nobody needs to set the variable. `CallsReturn` then says that every message and
every `active_backend()` ends; a self-test that went through the dispatch would
wait for itself.

`TypedCall` assumes weak fairness of the library's steps, getrandom's answer
among them: it may be interrupted any number of times, not for ever. The caller
need not decrypt. `CallsReturn` there says that the loops of `fill_random` and
`apply_keystream` end.

`KeyFile` assumes for each process weak fairness of the next system call of its
save or load: it keeps running unless it dies. No fairness is asked of errors, so
`CallsEnd` does not rest on a failure to get out of a loop. A `write` returns at
least one byte or fails; POSIX allows no 0 for the files in question.

`Sha256` assumes weak fairness of `HashNext`: pure functions on the caller's thread.
The other specifications assume no fairness and claim no liveness.

## 5. Proofs

Eight modules hold theorems, for every value of the constants that the named
assumptions allow. The assumptions stand in the modules that declare the
constants, and TLC evaluates them in each run: sizes and limits are natural
numbers, the markers for "no process" or "no key" are none of the processes or
keys, AES-GCM's threads are finitely many, there is at least one Python object,
a type has the sizes that `sizeof` can have, and GHASH is given a subkey of one
block and lengths that fit their words. Each proof follows one scheme:
an inductive invariant, that `Init` implies it, that every action keeps it (a
lemma or a step per action), `Invariance`, and the properties as consequences.

### Encryption

* `KeyAndModeProofs`, one call: `KeystreamNeverReused`, `TagBlockReserved`,
  `OutputFullyMasked`. `NoPadReuse` is not inductive, as it does not say which
  keystream byte comes next. `IInv` says that the pad byte of output byte `i` is
  `<<first + i \div 16, i % 16>>` and that the counter is the block number
  shifted by the mode's first counter, wrapped only after the last allowed block.
  This holds for the real 2^32, beyond what TLC can reach.
* `KeyAndModeProofs`, the typed calls of `TypedCall`: the same three properties
  for both calls in a row, `NoncesFullyRandom`, `ValuesAreMessages` and
  `TypesRoundTrip`, for every nonce size and any set of types. `TypedInv` says
  that the first `filled` bytes of the nonce were written; that a container's
  length is within the limit, is one of its type, and its pad is the positional
  one, so that the second call computes the same pad; and that GCM unmasks only
  the length that was sealed. The lemmas behind it are about `byte_view.hpp`: a
  type accepts every length it produces, and a value has room for the bytes it
  accepts and no more.
* `AesGcmProofs`: `NonceBudget`, `Authenticity` and `Refinement` (`Spec =>
  ImplementsAead`), for any finite set of threads and any limit. The check comes
  after the increment, so the proof counts claims: threads with an admitted
  `prior` that have not drawn yet. Drawn nonces plus claims never exceed the
  calls counted, nor the limit. The refinement maps drawn nonces to spent ones
  and forgets the threads.
* `PrimitiveProofs`, the dispatch: `NeverFaults`, `SelfTestFilters`,
  `AnswersAgree`, for any threads, messages of any length and every host. The properties only speak of
  the end; `IInv` says what the initializer has established at each of its
  points, that only the thread that holds the guard is inside it, and that a
  thread that goes to the hardware has the value of the finished static.
* `PrimitiveProofs`, the backend that is called for a block: `SchedulesWiped`,
  for every key and block. `ScheduleInv` adds that the register backends never
  fill the word array.
* `PrimitiveProofs`, the same backends: `BackendsImplementFips` (`BlockSpec =>
  ImplementsCipher`), for every key of both sizes and every block. The mapping
  takes the schedule written so far to the round keys of FIPS-197 and the register
  to its state; ARM's register is mapped with the round key that it has yet to
  add. `BlockInv` says that the schedule array holds the words (or the registers)
  of FIPS-197 up to the cursor, and that the state after round `r` is that of the
  standard. A step is then a lemma per backend: the four columns of the software
  round, AESENC, AESE followed by AESMC, and the two halves of RISC-V's `aes64esm`
  are each the round of `AesFips`; the shared and the two unrolled schedules each
  give its next words. What these lemmas take of bytes is `TablesAssumption`: the
  branch-free S-box and `xtime` of the code, and the products of `MixColumns`, are
  what `AesFips` computes by inversion and multiplication in the field, and the
  round constants agree. Those are finite facts, on 256 bytes and 10 constants, and
  TLC evaluates all of them.
* `PrimitiveProofs`, GHASH: `FoldedBlocksUnambiguous`, for every block size and
  every input whose lengths fit. `FoldInv` says which chunk of which part each
  folded block is, so that block and offset of every byte are known; the two
  lengths are read back from the last block by `ValueOfDigits` in base 2.
* `PrimitiveProofs`, GHASH: `GhashMatchesSp80038d`, for every block size, subkey and
  data. The property speaks of the result only. `PolyInv` says that between two
  products the accumulator is the polynomial of the blocks folded so far, and that
  before iteration `i` of `gf128_mul` `v` is the accumulator times `x^i` and `z`
  the accumulator times the coefficients of `h` below `i`. An iteration keeps this
  because the shift over the two words, with its carry and the reduction by `kRHi`,
  is the multiplication by `x` in the field (`ShiftIsTimesX`), and bit `i` of `h`
  is its coefficient of `x^i` (`HBitIsCoefficient`); the return because of Horner's
  rule (`Horner`), which rests on the ring in `ArithmeticProofs`.
* `PrimitiveProofs`, the hash functions: `PaddingMatchesFips`, for every block
  size, width of the length field and message length: `PaddingInv` relates the
  bytes in the buffer, those beyond `block_len` that are left from the block before
  included, to the place in the padded message. `HmacMatchesRfc`, for every block size,
  buffer size, key and data length, from the lemma that a buffer of
  `InnerCapacity` keeps all that is written to it; and `Pbkdf2MatchesRfc`, for
  every counter width and iteration count. Its invariant `Deriving` says that
  `t_block` is the exclusive or of exactly the U's below the counter, and that the
  first half is complete before the second begins; for the largest count the
  counter wraps, of which it says only that the loop then does not end.

### Keys

* `KeyAndModeProofs`, the objects: `KeysNeverDuplicated`, `KeysStayIntact`,
  `BudgetSurvivesMoves`, for any number of locations, keys and calls. The
  strengthening `CounterBoundsNonces` relates the nonces drawn under a key to
  the counter in the one object that holds it; `NoResidue`, which says there is
  only one, is what makes it inductive under moves.
* `KeyAndModeProofs`, the pages: `PagesReleased` and `OwnPagesProtected` for every
  layout of objects on pages. `NoLockLeak` alone is not inductive: an object whose
  address starts no page cannot undo `MADV_DONTDUMP`, so `Protection` says that a
  page that is not dumped lies under a living object that does start a page.

### Files

Any processes, at any of their system calls, with any short or failing writes,
deaths and power failures.

* `KeyFileProofs`: `LoadsReturnSavedKey`, `SavedFilesAccepted` and
  `OverlappedLoadsInPlace`, for keys of any size. `OwnerWrites` says that while one process has written since the last
  truncation the file is a prefix of its save, up to its offset, and all of it
  once the save completed; `Follows` that a load which nothing disturbed has
  read what the file holds. Both need to know where a call is (`CallOK`). `DiskInv`
  says of the disk what a power failure needs: if its contents are of one save, they
  are a prefix of it, though perhaps of an older save than the file's. The third
  needs no order of the saves: `PlaceInv` says that behind the header the file and the
  disk hold, at each place, a byte of that place of some key or a hole, which every
  write at a save's own offset keeps (`WriteInPlace`), whatever was there before.
* `WrappedKeyFileProofs`: `LoadsReturnSavedKeys`, and
  `SavedKeysAccepted` under the hypothesis `WithinCeiling`. The first needs no
  order of the saves: `TagInv` says only that every tag in the file or in a load's
  buffer, and by `DiskInv` on the disk, is of a save that began, which no cut,
  mixture, hole or write-back can change, and a
  tag that verifies names what it was computed over. `SavedKeyLoads` does need the
  order: `SoleInv` is the counterpart of `OwnerWrites` and `Follows`.
  `WithinCeiling` (no caller passes more than `kMaxPbkdf2Iterations`) is what the
  run `wrapped_key_file_ceiling` shows to be necessary.
* `ContainerFileProofs`: `GcmLoadsReturnSaved`, in the same way; and
  `LoadsReturnSaved` and `SavedContainersAccepted` from the fact that with one
  writer the file is the beginning of its container (`CutImage`), and so is what the
  disk holds of it (`DiskCut`), which may be an earlier save's. A CTR container
  has no tag, so that a proper prefix is rejected rests on `ct_len` alone: the
  lemma `LengthsExact` says that `deserialize` reads back the `ct_len` that
  `serialize` wrote, for any base and number of digits.
* `ArithmeticProofs`, numbers: `ValueOfDigits`, on which `LengthsExact` and the
  lengths of GHASH rest. It needs an induction over the number of digits. The library's induction
  theorems take an operator as a parameter, which the provers cannot instantiate;
  `IntervalInduction` states induction over `0 .. n` for a set instead of an
  operator, and is itself proved from the least element of the complement
  (`LeastNatural`).
* `ArithmeticProofs`, polynomials over GF(2), which GHASH needs: they form a ring
  modulo any polynomial. `PolyMul` is additive on both sides, since the parity of a
  symmetric difference is the sum of the parities (`OddXor`); `PolyMod` is additive,
  is the identity below the degree and sends every multiple of the modulus by a
  power of `x` to zero; `ModMulAssociative` follows by induction over the powers of
  one factor.

### C ABI and Python binding

* `CApiProofs`: `ErrorsNeverMixed`, `HandlesFollowedLive`, `NoHandleLost`, for any
  threads, objects, addresses and number of calls. An address says nothing about
  whose key it is, so the invariant identifies a key by the call that created it.
  `IInv` says that a failing call's message is in its thread's slot before it
  returns, that no two calls create keys or buffers under one number, that nobody
  knows an object under creation, that a key belongs to one object, that an object
  keeps the handle its calls were given until a close clears it, and that a close
  which overlaps another call is recorded as such. `KeysInPlace` holds as long as no
  call went astray: the key of an object is then at the object's address unless a
  close is about to clear it, and a call that is not on a contended object finds its
  key there. The first call that does not find it is thus on a contended object.
  `NothingLeaks` needs no such condition: freeing the wrong key loses none.

### What is only model-checked

* Liveness (`CallsReturn` of `TypedCall` and of `Dispatch`, `CallsEnd`,
  `HashCallsReturn`): out of this prover's reach.
* `GuardedBuffersWiped`: the control of the two calls is finite but for the number of
  iterations, and TLC explores all of it.
* The facts about single bytes in `TablesAssumption`, which TLC evaluates for all
  256 bytes.

The type invariants are parts of the invariants proved (`TypeOK`, and `Types` in
`WrappedKeyFileProofs` and `ContainerFileProofs`, where the cells of a file are
given), so no run lists them.

## 6. Not modelled

* The compression function of SHA-256 (`process_block`): arithmetic modulo 2^32
  without control, which would be copied rather than abstracted; the
  repository's tests have published vectors for it. `Sha256` takes it as symbolic.
* What the AES instructions do: external, from the manuals. The backends' stubs
  for other architectures only throw.
* `rk_bytes` in `pack_round_keys`, which no line wipes: listed as a hazard; a property
  would only restate it. The keystream block of `apply_keystream` is not followed by
  `ScratchBuffers`.
* What following a freed handle does to memory, beyond the key that is there.
* The Windows branches (`VirtualLock`, `BCryptGenRandom`, `std::ofstream`
  saves), `O_NOFOLLOW` and file modes: they change which file is opened or which
  library is called, not the order of the steps.
* A `setenv` inside a running `getenv`, which C leaves undefined.
* Asynchronous Python exceptions and the numeric status codes of the C ABI.
* `main.cpp`, `bindings/python/demo.py` and the test harness: callers without
  logic of their own.

## 7. What is open

Every safety property and action property of a passing run has a theorem, but for
`GuardedBuffersWiped`. Liveness
rests on the small instances alone; the AES instructions and the compression
function are taken as given.
