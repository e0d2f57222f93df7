------------------------------- MODULE Sha256 -------------------------------
(***************************************************************************)
(* sha256.cpp: the block buffer and the padding of sha256, one message     *)
(* byte per step; hmac_sha256, whose inner message goes into a fixed       *)
(* buffer or into one on the heap; and the loops of pbkdf2_hmac_sha256,    *)
(* whose 32-bit counters are modelled with CounterMod values.              *)
(*                                                                         *)
(* The compression function is symbolic: hashing is the sequence of the    *)
(* blocks it was given.  Byte i of a message is <<"m", i>>.                *)
(***************************************************************************)
EXTENDS FiniteSetsExt, SequencesExt

CONSTANTS
    BlockBytes,    \* 64
    LengthBytes,   \* 8, of the length field at the end of the last block
    kInlineCap,    \* 256, the data that fits the buffer on the stack
    CounterMod,    \* 2^32, the values of the iteration counter
    Jobs           \* the calls

ASSUME Sha256Assumption ==
    /\ {BlockBytes, LengthBytes} \subseteq Nat \ {0} /\ kInlineCap \in Nat
    /\ LengthBytes < BlockBytes /\ CounterMod \in Nat /\ CounterMod > 2
ASSUME JobsAssumption ==
    Jobs \subseteq [f : {"sha256"}, len : Nat] \cup [f : {"hmac"}, keyLen : Nat, len : Nat]
                    \cup [f : {"pbkdf2"}, iterations : 0 .. CounterMod - 1]

VARIABLES
    job,        \* the call: its function and its arguments
    phase,      \* "absorb", "pad", "length"; "u1", "iterate"; "done"
    i,          \* the loop counter of sha256 or of pbkdf2
    block,      \* uint8_t block[64]
    block_len,
    hashed,     \* the blocks compressed so far
    block_idx,  \* the block of the derived key
    u, t_block, \* U_i, and the exclusive or of U_1 .. U_i as a set
    result      \* what the call returns

hashVars == <<job, phase, i, block, block_len, hashed, block_idx, u, t_block, result>>

shaVars == <<block, block_len, hashed>>
pbkdfVars == <<block_idx, u, t_block>>

Uninit == <<"uninitialised", 0>>
Zero == <<"byte", 0>>
OneBit == <<"byte", 128>>
Message(n) == [k \in 1 .. n |-> <<"m", k>>]

\* u64_to_be of the bit length, the most significant byte first.
u64_to_be(x) == [k \in 1 .. LengthBytes |-> <<"byte", (x \div 256^(LengthBytes - k)) % 256>>]

HashInit ==
    /\ job \in Jobs
    /\ phase = (CASE job.f = "sha256" -> "absorb" [] job.f = "hmac" -> "hmac" [] job.f = "pbkdf2" -> "u1")
    /\ i = 0 /\ block_idx = 1
    /\ block = [k \in 1 .. BlockBytes |-> Uninit] /\ block_len = 0
    /\ hashed = <<>> /\ u = <<>> /\ t_block = {} /\ result = <<>>

-----------------------------------------------------------------------------
\* sha256.  The message loop: a full block is compressed at once.
Absorb ==
    /\ phase = "absorb" /\ i < job.len
    /\ LET filled == [block EXCEPT ![block_len + 1] = Message(job.len)[i + 1]]
       IN  /\ block' = filled
           /\ IF block_len + 1 = BlockBytes
              THEN block_len' = 0 /\ hashed' = Append(hashed, filled)
              ELSE block_len' = block_len + 1 /\ UNCHANGED hashed
    /\ i' = i + 1
    /\ UNCHANGED <<job, phase, pbkdfVars, result>>

\* The bytes of b after the first n up to the m-th set to zero: memset.
ZeroFrom(b, n, m) == [k \in 1 .. BlockBytes |-> IF k > n /\ k <= m THEN Zero ELSE b[k]]

\* mutant: >= for >
NoRoomAtBoundary(n) == n >= BlockBytes - LengthBytes
NoRoomForLength(n) == n > BlockBytes - LengthBytes

\* 0x80, and a block of padding of its own when the length does not fit.
Pad ==
    /\ phase = "absorb" /\ i = job.len
    /\ LET marked == [block EXCEPT ![block_len + 1] = OneBit]
           n == block_len + 1
       IN  IF NoRoomForLength(n)
           THEN /\ block' = ZeroFrom(marked, n, BlockBytes)
                /\ hashed' = Append(hashed, block')
                /\ block_len' = 0
           ELSE /\ block' = marked /\ block_len' = n
                /\ UNCHANGED hashed
    /\ phase' = "length"
    /\ UNCHANGED <<job, i, pbkdfVars, result>>

\* Zeros up to the length field, the length, and the last block.
PadLength ==
    /\ phase = "length"
    /\ LET room == BlockBytes - LengthBytes
       IN  /\ block' = SubSeq(ZeroFrom(block, block_len, room), 1, room) \o u64_to_be(8 * job.len)
           /\ hashed' = Append(hashed, block')
    /\ result' = <<"digest", hashed'>>
    /\ phase' = "done"
    /\ UNCHANGED <<job, i, block_len, pbkdfVars>>

-----------------------------------------------------------------------------
\* hmac_sha256 calls sha256 as a whole.
Sha(m) == <<"sha", m>>
DigestBytes == BlockBytes \div 2   \* 32 of 64
DigestOf(m) == [k \in 1 .. DigestBytes |-> <<Sha(m), k>>]

\* memset with the pad byte, then the key xored in.
PaddedKey(key, padByte) ==
    [k \in 1 .. BlockBytes |-> IF k <= Len(key) THEN <<"xor", key[k], padByte>> ELSE <<"byte", padByte>>]

\* mutant: the fixed buffer does not count the ipad block
InlineTooSmall(len) == IF len <= kInlineCap THEN kInlineCap ELSE BlockBytes + len
InnerCapacity(len) == IF len <= kInlineCap THEN BlockBytes + kInlineCap ELSE BlockBytes + len

\* What sha256 reads back of n bytes written to a buffer of a capacity.
ReadBack(bytes, capacity) ==
    [k \in 1 .. Len(bytes) |-> IF k <= capacity THEN bytes[k] ELSE Uninit]

hmac_sha256(key, data) ==
    LET actual == IF Len(key) > BlockBytes THEN DigestOf(key) ELSE key
        inner == ReadBack(PaddedKey(actual, 54) \o data, InnerCapacity(Len(data)))
    IN  DigestOf(PaddedKey(actual, 92) \o DigestOf(inner))

Hmac ==
    /\ phase = "hmac"
    /\ result' = hmac_sha256(Message(job.keyLen), Message(job.len))
    /\ phase' = "done"
    /\ UNCHANGED <<job, i, shaVars, pbkdfVars>>

-----------------------------------------------------------------------------
\* pbkdf2_hmac_sha256.  PRF(password, .) is symbolic: n applications of it to
\* the salt and the four bytes of the block index.  Beyond ChainCap, more
\* than any iteration count here, applications are not told apart.
ChainCap == CounterMod + 1
Big4(n) == <<0, 0, 0, n>>
FirstU(n) == [salted |-> Big4(n), n |-> 1]
Prf(x) == [x EXCEPT !.n = Min({@ + 1, ChainCap})]

\* mutant: both blocks of the derived key from one index
SameIndex ==
    /\ phase = "u1" /\ block_idx <= 2
    /\ u' = FirstU(1) /\ t_block' = {FirstU(1)} /\ i' = 2
    /\ phase' = "iterate"
    /\ UNCHANGED <<job, shaVars, block_idx, result>>
U1 ==
    /\ phase = "u1" /\ block_idx <= 2
    /\ u' = FirstU(block_idx) /\ t_block' = {u'} /\ i' = 2
    /\ phase' = "iterate"
    /\ UNCHANGED <<job, shaVars, block_idx, result>>

\* mutants: a counter of half the width
IncrementNarrow(n) == (n + 1) % (CounterMod \div 2)
Increment(n) == (n + 1) % CounterMod

Iterate ==
    /\ phase = "iterate" /\ i <= job.iterations
    /\ u' = Prf(u)
    /\ t_block' = SymDiff(t_block, {u'})
    /\ i' = Increment(i)
    /\ UNCHANGED <<job, phase, shaVars, block_idx, result>>

CopyBlock ==
    /\ phase = "iterate" /\ i > job.iterations
    /\ result' = Append(result, t_block)
    /\ block_idx' = block_idx + 1
    /\ phase' = (IF block_idx = 2 THEN "done" ELSE "u1")
    /\ UNCHANGED <<job, i, shaVars, u, t_block>>

HashNext == Absorb \/ Pad \/ PadLength \/ Hmac \/ U1 \/ Iterate \/ CopyBlock

\* The functions run on the caller's thread and wait for nothing.
HashSpec == HashInit /\ [][HashNext]_hashVars /\ WF_hashVars(HashNext)

-----------------------------------------------------------------------------
\* Byte k of the padded message: ahead of the length field, and in all of it
\* when the padded message has a given length.
Unfinished(n, k) == IF k <= n THEN Message(n)[k] ELSE IF k = n + 1 THEN OneBit ELSE Zero
FipsByte(n, total, k) ==
    IF k <= total - LengthBytes THEN Unfinished(n, k)
    ELSE u64_to_be(8 * n)[k - (total - LengthBytes)]

(***************************************************************************)
(* What sha256 compresses is the padded message of FIPS 180-4, 5.1.1: the  *)
(* message, one 1 bit, the fewest zeros, the length in bits; in particular *)
(* no byte is lost at a block boundary, and none is hashed that was never  *)
(* written or is left from the block before.                               *)
(***************************************************************************)
PaddingIsFips ==
    phase = "done" /\ job.f = "sha256" =>
        LET total == Len(hashed) * BlockBytes
            fixed == job.len + 1 + LengthBytes
        IN  /\ fixed <= total /\ total < fixed + BlockBytes
            /\ \A b \in DOMAIN hashed :
                 hashed[b] = [k \in 1 .. BlockBytes |->
                                 FipsByte(job.len, total, (b - 1) * BlockBytes + k)]

(***************************************************************************)
(* hmac_sha256 is HMAC of RFC 2104 for keys and data on both sides of the  *)
(* block size and of the fixed buffer: no input is cut off at either.      *)
(***************************************************************************)
HmacIsRfc2104 ==
    phase = "done" /\ job.f = "hmac" =>
        LET key == Message(job.keyLen)
            k0 == IF Len(key) <= BlockBytes THEN key ELSE DigestOf(key)
            xored(c) == PaddedKey(k0, c)
        IN  result = DigestOf(xored(92) \o DigestOf(xored(54) \o Message(job.len)))

(***************************************************************************)
(* PBKDF2 of RFC 8018: each half of the derived key is the exclusive or of *)
(* exactly U_1 .. U_c of its own block index, so that the encryption key   *)
(* and the MAC key share no term.                                          *)
(***************************************************************************)
Pbkdf2IsRfc8018 ==
    phase = "done" /\ job.f = "pbkdf2" =>
        result = [b \in 1 .. 2 |-> {[salted |-> Big4(b), n |-> k] : k \in 1 .. Max({1, job.iterations})}]

(***************************************************************************)
(* Every call returns.  The loop "i <= iterations" over a counter of the   *)
(* same width ends for every count but the largest, for which the counter  *)
(* wraps below it for ever.                                                *)
(***************************************************************************)
HashCallsReturn ==
    (job.f = "pbkdf2" => job.iterations < CounterMod - 1) ~> (phase = "done")
=============================================================================
