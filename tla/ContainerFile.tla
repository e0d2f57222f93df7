--------------------------- MODULE ContainerFile ---------------------------
(***************************************************************************)
(* Ciphertext containers on disk (container.cpp and the second half of     *)
(* aes_gcm.cpp): encrypt, serialize and write_file on one path, read_file, *)
(* deserialize and decrypt, for the CTR format ("AESC") and the GCM format *)
(* ("AESG").  Saves and loads of several processes interleave at the       *)
(* system calls; writes may be short or fail, processes die, power fails   *)
(* and leaves what the kernel happened to write back.                      *)
(*                                                                         *)
(* The file is a sequence of cells, one per field, per byte of ct_len and  *)
(* per byte of ciphertext.  All processes use one key.  The cipher is      *)
(* symbolic: a ciphertext byte names the pad byte (nonce and position)     *)
(* that masks it, a tag names what it was computed over.                   *)
(***************************************************************************)
EXTENDS PosixFile, Digits

CONSTANTS
    Procs,
    Msgs, SizeOf,   \* plaintexts and their size in bytes
    Base,           \* values of a byte of ct_len: 256
    LenBytes,       \* bytes of ct_len: 8
    ShortAt,        \* bound: offsets where a short write or read may end
    MaxSaves        \* bound: saves in a behaviour

ASSUME SizeAssumption ==
    /\ Base \in Nat \ {0, 1} /\ LenBytes \in Nat /\ MaxSaves \in Nat /\ ShortAt \subseteq Nat
    /\ SizeOf \in [Msgs -> 0 .. Weight(Base, LenBytes) - 1]

VARIABLES
    file, exists,
    disk,    \* what of that is on the disk, and sole of it
    pc,      \* what each process does, or how its last call ended
    format,  \* format that its call saves or loads
    data,    \* cells a save writes, resp. a load has read
    size,    \* file size a load got from tellg()
    pos,     \* file offset
    result,  \* plaintext bytes a load and decrypt returned
    drawn,   \* nonces drawn so far
    written, \* history: [format, nonce, msg] of the saves that began to write
    sole,    \* history: only the last of them wrote to the file it truncated
    intact,  \* history: its format, if it also completed and nothing
             \* happened since
    alone,   \* history: sole when a load began, and no save began since
    seen     \* history: intact when a load began, and no save began since

vars == <<file, exists, disk, pc, format, data, size, pos, result, drawn, written,
          sole, intact, alone, seen>>

Formats == {"ctr", "gcm"}
NoFormat == "none"

\* Cells of the two headers.  A byte of ct_len and a byte of a hole have the
\* same kind: zero bytes parse as a length.
Magic(f) == <<"magic", f>>
Version == <<"version", 1>>
Nonce(n) == <<"nonce", n>>
LenByte(v) == <<"zero", v>>
HeaderSizeOfCtr(f) == 3 + LenBytes
HeaderSize(f) == (IF f = "gcm" THEN 4 ELSE 3) + LenBytes

\* The ct_len loops of serialize and deserialize, little-endian.
EncodeLen(n) == [i \in 1 .. LenBytes |-> LenByte(Digit(n, Base, i - 1))]
DecodeLen(v) == Value(v, Base, LenBytes)

\* What ct_len may be when it is read from the cells s: a cell of another
\* field (the file mixes two containers) can have any value as a byte.
Lengths(s) ==
    {DecodeLen(v) : v \in {u \in [DOMAIN s -> 0 .. Base - 1] :
                             \A i \in DOMAIN s : s[i][1] = "zero" => u[i] = s[i][2]}}

\* apply_keystream on a message, and on received cells.
PlainBytes(m) == [i \in 1 .. SizeOf[m] |-> <<m, i>>]
Mask(n, m) ==
    [i \in 1 .. SizeOf[m] |-> <<"ct", [nonce |-> n, at |-> i, byte |-> PlainBytes(m)[i]]>>]
Garbled == <<"garbled", 0>>
Unmask(n, cells) ==
    [i \in DOMAIN cells |->
       IF cells[i][1] = "ct" /\ cells[i][2].nonce = n /\ cells[i][2].at = i
       THEN cells[i][2].byte ELSE Garbled]

\* compute_tag over nonce and ciphertext.
compute_tag(n, cells) == <<"tag", [nonce |-> n, over |-> cells]>>

serialize(f, n, m) ==
    <<Magic(f), Version, Nonce(n)>>
      \o (IF f = "gcm" THEN <<compute_tag(Nonce(n), Mask(Nonce(n), m))>> ELSE <<>>)
      \o EncodeLen(SizeOf[m]) \o Mask(Nonce(n), m)

Ended == {"idle", "saved", "loaded", "IoError", "FormatError", "AuthenticationError"}

Init ==
    /\ file = <<>> /\ exists = FALSE
    /\ disk = [file |-> <<>>, exists |-> FALSE, sole |-> TRUE]
    /\ pc = [p \in Procs |-> "idle"] /\ format = [p \in Procs |-> NoFormat]
    /\ data = [p \in Procs |-> <<>>]
    /\ size = [p \in Procs |-> 0] /\ pos = [p \in Procs |-> 0]
    /\ result = [p \in Procs |-> <<>>]
    /\ drawn = 0 /\ written = {} /\ sole = TRUE /\ intact = NoFormat
    /\ seen = [p \in Procs |-> NoFormat] /\ alone = [p \in Procs |-> FALSE]

\* The call of p ends and drops its locals; format stays to tell what ended.
End(p, outcome, res) ==
    /\ pc' = [pc EXCEPT ![p] = outcome]
    /\ data' = [data EXCEPT ![p] = <<>>]
    /\ size' = [size EXCEPT ![p] = 0] /\ pos' = [pos EXCEPT ![p] = 0]
    /\ result' = [result EXCEPT ![p] = res]
    /\ UNCHANGED format
Fail(p, outcome) == End(p, outcome, <<>>)

\* Where a call that moves the bytes from offset from to end may stop.
StopsAt(from, end) == {end} \cup {e \in ShortAt : e > from /\ e < end}

-----------------------------------------------------------------------------
\* encrypt and serialize, on locals, then write_file: open with O_TRUNC ...
SaveOpen(p, f, m) ==
    /\ pc[p] \in Ended /\ drawn < MaxSaves
    /\ drawn' = drawn + 1
    /\ file' = <<>> /\ exists' = TRUE
    /\ pc' = [pc EXCEPT ![p] = "write"] /\ format' = [format EXCEPT ![p] = f]
    /\ data' = [data EXCEPT ![p] = serialize(f, drawn + 1, m)]
    /\ result' = [result EXCEPT ![p] = <<>>]
    /\ written' = written \cup {[format |-> f, nonce |-> drawn + 1, msg |-> m]}
    /\ sole' = \A q \in Procs : pc[q] # "write"
    /\ intact' = NoFormat
    /\ seen' = [q \in Procs |-> NoFormat] /\ alone' = [q \in Procs |-> FALSE]
    /\ UNCHANGED <<size, pos>>

\* ... the ::write loop ...
SaveWrite(p) ==
    /\ pc[p] = "write" /\ pos[p] < Len(data[p])
    /\ \/ \E e \in StopsAt(pos[p], Len(data[p])) :
            /\ file' = WriteAt(file, pos[p], SubSeq(data[p], pos[p] + 1, e))
            /\ pos' = [pos EXCEPT ![p] = e]
            /\ UNCHANGED <<pc, format, data, size, result>>
       \/ Fail(p, "IoError") /\ UNCHANGED file
    /\ UNCHANGED <<exists, drawn, written, sole, intact, alone, seen>>

\* ... and the close.
SaveReturn(p) ==
    /\ pc[p] = "write" /\ pos[p] = Len(data[p])
    /\ Fail(p, "saved")
    /\ intact' = IF sole THEN format[p] ELSE NoFormat
    /\ UNCHANGED <<file, exists, drawn, written, sole, alone, seen>>

\* open() fails in write_file or read_file, or the nonce draw in encrypt.
OpenFails(p) ==
    /\ pc[p] \in Ended
    /\ Fail(p, "IoError")
    /\ seen' = [seen EXCEPT ![p] = NoFormat] /\ alone' = [alone EXCEPT ![p] = FALSE]
    /\ UNCHANGED <<file, exists, drawn, written, sole, intact>>

-----------------------------------------------------------------------------
\* read_file: the size from tellg() at the end, then one read of that many
\* bytes, which the stream may split.  A file that shrank meanwhile, or a
\* read error, is IoError.
LoadOpen(p, f) ==
    /\ pc[p] \in Ended /\ exists
    /\ pc' = [pc EXCEPT ![p] = "read"] /\ format' = [format EXCEPT ![p] = f]
    /\ size' = [size EXCEPT ![p] = Len(file)]
    /\ result' = [result EXCEPT ![p] = <<>>]
    /\ seen' = [seen EXCEPT ![p] = intact] /\ alone' = [alone EXCEPT ![p] = sole]
    /\ UNCHANGED <<file, exists, data, pos, drawn, written, sole, intact>>

LoadRead(p) ==
    /\ pc[p] = "read" /\ pos[p] < size[p]
    /\ LET most == Available(file, pos[p], size[p] - pos[p])
       IN  \/ /\ most > 0
              /\ \E e \in StopsAt(pos[p], pos[p] + most) :
                   /\ data' = [data EXCEPT ![p] = @ \o ReadAt(file, pos[p], e - pos[p])]
                   /\ pos' = [pos EXCEPT ![p] = e]
              /\ UNCHANGED <<pc, format, size, result>>
           \/ Fail(p, "IoError")
    /\ UNCHANGED <<file, exists, drawn, written, sole, intact, alone, seen>>

\* deserialize and deserialize_gcm: the header is there, magic and version
\* are right, and ct_len is the rest of the file, no less and no more.
LengthIgnored(d, f, len) == TRUE
LengthMatches(d, f, len) == len = Len(d) - HeaderSize(f)

MagicMatches(d, f) == d[1] = Magic(f) /\ d[2] = Version

WellFormed(d, f, len) ==
    /\ Len(d) >= HeaderSize(f)
    /\ MagicMatches(d, f)
    /\ LengthMatches(d, f, len)

AnyTag(d, f) == TRUE
TagMatches(d, f) ==
    f = "gcm" => d[4] = compute_tag(d[3], SubSeq(d, HeaderSize(f) + 1, Len(d)))

\* deserialize, then decrypt: the tag first, in the GCM format.
LoadParse(p) ==
    LET d == data[p]
        f == format[p]
        ctLen == SubSeq(d, HeaderSize(f) - LenBytes + 1, HeaderSize(f))
    IN
    /\ pc[p] = "read" /\ pos[p] = size[p]
    /\ \E len \in IF Len(d) >= HeaderSize(f) THEN Lengths(ctLen) ELSE {0} :
         \/ ~WellFormed(d, f, len) /\ Fail(p, "FormatError")
         \/ /\ WellFormed(d, f, len) /\ ~TagMatches(d, f)
            /\ Fail(p, "AuthenticationError")
         \/ /\ WellFormed(d, f, len) /\ TagMatches(d, f)
            /\ End(p, "loaded", Unmask(d[3], SubSeq(d, HeaderSize(f) + 1, Len(d))))
    /\ UNCHANGED <<file, exists, drawn, written, sole, intact, alone, seen>>

-----------------------------------------------------------------------------
Die(p) ==
    /\ pc[p] \notin Ended
    /\ Fail(p, "idle")
    /\ seen' = [seen EXCEPT ![p] = NoFormat] /\ alone' = [alone EXCEPT ![p] = FALSE]
    /\ UNCHANGED <<file, exists, drawn, written, sole, intact>>

\* The kernel writes the file back, at a time of its choice: write_file does
\* not sync.
Flush ==
    /\ \E f \in Prefixes(file) : disk' = [file |-> f, exists |-> exists, sole |-> sole]
    /\ UNCHANGED <<file, exists, pc, format, data, size, pos, result, drawn, written,
                   sole, intact, alone, seen>>

\* The file is the one on the disk, which may be an older one.
PowerFailure ==
    /\ file' = disk.file /\ exists' = disk.exists /\ sole' = disk.sole
    /\ pc' = [p \in Procs |-> "idle"] /\ format' = [p \in Procs |-> NoFormat]
    /\ data' = [p \in Procs |-> <<>>]
    /\ size' = [p \in Procs |-> 0] /\ pos' = [p \in Procs |-> 0]
    /\ result' = [p \in Procs |-> <<>>]
    /\ seen' = [p \in Procs |-> NoFormat] /\ alone' = [p \in Procs |-> FALSE]
    /\ intact' = NoFormat
    /\ UNCHANGED <<disk, drawn, written>>

Next ==
    \/ /\ \/ \E p \in Procs, f \in Formats, m \in Msgs : SaveOpen(p, f, m)
          \/ \E p \in Procs : SaveWrite(p) \/ SaveReturn(p) \/ OpenFails(p)
          \/ \E p \in Procs, f \in Formats : LoadOpen(p, f)
          \/ \E p \in Procs : LoadRead(p) \/ LoadParse(p) \/ Die(p)
       /\ UNCHANGED disk
    \/ Flush \/ PowerFailure

Spec == Init /\ [][Next]_vars

-----------------------------------------------------------------------------
(***************************************************************************)
(* Types.  The bytes of ct_len are bytes, and only a load that succeeded   *)
(* has a result.                                                           *)
(***************************************************************************)
TypeOK ==
    /\ \A c \in {file, disk.file} : \A i \in DOMAIN c : c[i][1] = "zero" => c[i][2] \in 0 .. Base - 1
    /\ exists \in BOOLEAN /\ drawn \in 0 .. MaxSaves
    /\ pc \in [Procs -> Ended \cup {"write", "read"}]
    /\ format \in [Procs -> Formats \cup {NoFormat}] /\ intact \in Formats \cup {NoFormat}
    /\ \A p \in Procs : pos[p] <= Len(data[p]) /\ (result[p] # <<>> => pc[p] = "loaded")
    /\ written \subseteq [format : Formats, nonce : 1 .. MaxSaves, msg : Msgs]

ReturnsSaved(p) ==
    \E x \in written : x.format = format[p] /\ result[p] = PlainBytes(x.msg)

(***************************************************************************)
(* Where no two saves overlap and no save begins during the load, a load   *)
(* returns the whole message of a saved container of its own format: one   *)
(* still being written, or that a failed write, a death or a power failure *)
(* cut short, or of the other format, is a FormatError.  In the CTR format *)
(* nothing but the magic and the length check of deserialize sees to it.   *)
(***************************************************************************)
LoadReturnsSaved == \A p \in Procs : pc[p] = "loaded" /\ alone[p] => ReturnsSaved(p)

(***************************************************************************)
(* Also when saves and loads overlap, so that the file mixes bytes of two  *)
(* containers and holes, a GCM load "never decrypts before authentication  *)
(* succeeds" (aes_gcm.hpp): what it returns is one saved message.          *)
(***************************************************************************)
GcmLoadReturnsSaved ==
    \A p \in Procs : pc[p] = "loaded" /\ format[p] = "gcm" => ReturnsSaved(p)

(***************************************************************************)
(* A container whose save completed is accepted by a load of its format    *)
(* that no save disturbs, the empty message and multi-byte values of       *)
(* ct_len included.                                                        *)
(***************************************************************************)
SavedContainerLoads ==
    \A p \in Procs :
        pc[p] \in {"FormatError", "AuthenticationError"} => seen[p] # format[p]
=============================================================================
