--------------------------- MODULE WrappedKeyFile --------------------------
(***************************************************************************)
(* SecretKey::save_to_file_encrypted and load_from_file_encrypted          *)
(* (key_storage.cpp, POSIX branch) on one path, with read_file of          *)
(* container.cpp.  Saves and loads of several processes interleave at the  *)
(* system calls; writes may be short or fail, processes die, power fails   *)
(* and leaves what the kernel happened to write back.                      *)
(*                                                                         *)
(* The file is a sequence of cells, one per field of the layout and one    *)
(* per byte of the wrapped key.  PBKDF2, CTR and HMAC are symbolic and     *)
(* collision free: a wrapped byte names the derived key and the nonce that *)
(* mask it, the tag names the derived key and all the cells it covers.     *)
(***************************************************************************)
EXTENDS PosixFile

CONSTANTS
    Procs,
    Keys, NoKey, SizeOf,   \* keys, "none", and their size_bytes()
    Passphrases,
    Iterations,            \* iteration counts the callers pass
    kMinPbkdf2Iterations,  \* 1000
    kMaxPbkdf2Iterations,  \* 50,000,000
    ShortAt,               \* bound: offsets where a short write or read may end
    MaxSaves               \* bound: saves in a behaviour

ASSUME SizeAssumption == SizeOf \in [Keys -> Nat \ {0}] /\ NoKey \notin Keys
ASSUME IterationsAssumption ==
    /\ Iterations \subseteq Nat /\ ShortAt \subseteq Nat /\ MaxSaves \in Nat
    /\ kMinPbkdf2Iterations \in Nat /\ kMaxPbkdf2Iterations \in Nat

VARIABLES
    file, exists,
    disk,    \* what of that is on the disk
    pc,      \* what each process does, or how its last call ended
    data,    \* cells a save writes, resp. a load has read
    size,    \* file size a load got from tellg()
    pos,     \* file offset
    pass,    \* passphrase of a load
    result,  \* key bytes a load returned
    salts,   \* salts drawn so far
    written, \* history: [key, pass] of the saves that began to write
    last,    \* history: [key, pass] of the last of them
    sole,    \* history: only the last of them wrote to the file it truncated
    intact,  \* history: it also completed and nothing happened since
    seen     \* history: a load's passphrase, last and intact when it began
             \* (unless a save began since)

vars == <<file, exists, disk, pc, data, size, pos, pass, result, salts,
          written, last, sole, intact, seen>>

Magic == <<"magic", "AESW">>
Version == <<"version", 2>>
Marker(n) == <<"size", n>>

\* Cells before the wrapped key: magic, version, marker, salt, iterations,
\* nonce.  One cell of tag follows the wrapped key.
kWrappedKeyOffset == 6
kTagSize == 1

KeyBytes(k) == [i \in 1 .. SizeOf[k] |-> <<k, i>>]

\* The marker a save writes.
MarkerOf(k) == Marker(SizeOf[k])

is_valid_size_marker(c) == c \in {Marker(SizeOf[k]) : k \in Keys}

\* PBKDF2 with its three inputs.
Derive(w, salt, iter) == <<w, salt, iter>>

\* hmac_sha256 with the MAC half of the derived bytes over the cells before
\* the tag.
Hmac(d, part) == <<"tag", [derived |-> d, over |-> part]>>

\* Aes256Ctr with the wrapping half: masked cells, and what unmasking gives.
Wrap(d, nonce, bytes) ==
    [i \in DOMAIN bytes |-> <<"wrapped", [derived |-> d, nonce |-> nonce, byte |-> bytes[i]]>>]
Garbled == <<"garbled", 0>>
Unwrap(d, nonce, cells) ==
    [i \in DOMAIN cells |->
       IF cells[i][1] = "wrapped" /\ cells[i][2].derived = d /\ cells[i][2].nonce = nonce
       THEN cells[i][2].byte ELSE Garbled]

\* plaintext_part || tag of a save; its salt and nonce are fresh.
Image(k, w, iter, salt) ==
    LET d    == Derive(w, salt, iter)
        part == <<Magic, Version, MarkerOf(k), <<"salt", salt>>, <<"iter", iter>>,
                  <<"nonce", salt>>>> \o Wrap(d, salt, KeyBytes(k))
    IN  Append(part, Hmac(d, part))

Ended == {"idle", "saved", "loaded", "LimitError", "IoError", "FormatError",
          "AuthenticationError"}
NothingSeen == [pass |-> "none", last |-> [key |-> NoKey, pass |-> "none"],
                intact |-> FALSE]

Init ==
    /\ file = <<>> /\ exists = FALSE /\ disk = [file |-> <<>>, exists |-> FALSE]
    /\ pc = [p \in Procs |-> "idle"] /\ data = [p \in Procs |-> <<>>]
    /\ size = [p \in Procs |-> 0] /\ pos = [p \in Procs |-> 0]
    /\ pass = [p \in Procs |-> "none"] /\ result = [p \in Procs |-> <<>>]
    /\ salts = 0
    /\ written = {} /\ last = NothingSeen.last /\ sole = TRUE /\ intact = FALSE
    /\ seen = [p \in Procs |-> NothingSeen]

\* The call of p ends and drops its locals; only a load that succeeds has a
\* result.
End(p, outcome) ==
    /\ pc' = [pc EXCEPT ![p] = outcome]
    /\ data' = [data EXCEPT ![p] = <<>>]
    /\ size' = [size EXCEPT ![p] = 0] /\ pos' = [pos EXCEPT ![p] = 0]
    /\ pass' = [pass EXCEPT ![p] = "none"]
Fail(p, outcome) == End(p, outcome) /\ result' = [result EXCEPT ![p] = <<>>]

-----------------------------------------------------------------------------
\* save_to_file_encrypted up to the open: the iteration check, then three
\* draws of random bytes, each of which may throw IoError (the second fills
\* a nonce that is not used).
SaveRefused(p, iter) ==
    /\ pc[p] \in Ended
    /\ iter < kMinPbkdf2Iterations
    /\ Fail(p, "LimitError")
    /\ UNCHANGED <<file, exists, salts, written, last, sole, intact, seen>>

SaveRngFails(p, iter) ==
    /\ pc[p] \in Ended
    /\ iter >= kMinPbkdf2Iterations
    /\ Fail(p, "IoError")
    /\ UNCHANGED <<file, exists, salts, written, last, sole, intact, seen>>

\* ... to the open with O_TRUNC.
SaveOpen(p, k, w, iter) ==
    /\ pc[p] \in Ended
    /\ iter >= kMinPbkdf2Iterations /\ salts < MaxSaves
    /\ salts' = salts + 1
    /\ file' = <<>> /\ exists' = TRUE
    /\ pc' = [pc EXCEPT ![p] = "write"]
    /\ data' = [data EXCEPT ![p] = Image(k, w, iter, salts + 1)]
    /\ result' = [result EXCEPT ![p] = <<>>]
    /\ last' = [key |-> k, pass |-> w] /\ written' = written \cup {last'}
    /\ sole' = \A q \in Procs : pc[q] # "write"
    /\ intact' = FALSE
    /\ seen' = [q \in Procs |-> [seen[q] EXCEPT !.intact = FALSE]]
    /\ UNCHANGED <<size, pos, pass>>

\* Where a call that moves the bytes from offset pos to end may stop.
StopsAt(from, end) == {end} \cup {e \in ShortAt : e > from /\ e < end}

\* The two ::write loops, first over plaintext_part and then over tag.
SaveWrite(p) ==
    /\ pc[p] = "write" /\ pos[p] < Len(data[p])
    /\ \/ LET part == Len(data[p]) - kTagSize
          IN  \E e \in StopsAt(pos[p], IF pos[p] < part THEN part ELSE Len(data[p])) :
            /\ file' = WriteAt(file, pos[p], SubSeq(data[p], pos[p] + 1, e))
            /\ pos' = [pos EXCEPT ![p] = e]
            /\ UNCHANGED <<pc, data, size, pass, result>>
       \/ Fail(p, "IoError") /\ UNCHANGED file
    /\ UNCHANGED <<exists, salts, written, last, sole, intact, seen>>

SaveReturn(p) ==
    /\ pc[p] = "write" /\ pos[p] = Len(data[p])
    /\ Fail(p, "saved")
    /\ intact' = sole
    /\ UNCHANGED <<file, exists, salts, written, last, sole, seen>>

-----------------------------------------------------------------------------
\* load_from_file_encrypted.  read_file opens at the end to learn the size ...
LoadOpen(p, w) ==
    /\ pc[p] \in Ended /\ exists
    /\ pc' = [pc EXCEPT ![p] = "read"]
    /\ size' = [size EXCEPT ![p] = Len(file)]
    /\ pass' = [pass EXCEPT ![p] = w]
    /\ result' = [result EXCEPT ![p] = <<>>]
    /\ seen' = [seen EXCEPT ![p] = [pass |-> w, last |-> last, intact |-> intact]]
    /\ UNCHANGED <<file, exists, data, pos, salts, written, last, sole, intact>>

\* ... and reads that many bytes; a file that shrank, or a read error, is
\* IoError.
LoadRead(p) ==
    /\ pc[p] = "read" /\ pos[p] < size[p]
    /\ LET most == Available(file, pos[p], size[p] - pos[p])
       IN  \/ /\ most > 0
              /\ \E e \in StopsAt(pos[p], pos[p] + most) :
                  /\ data' = [data EXCEPT ![p] = @ \o ReadAt(file, pos[p], e - pos[p])]
                  /\ pos' = [pos EXCEPT ![p] = e]
              /\ UNCHANGED <<pc, size, pass, result>>
           \/ Fail(p, "IoError")
    /\ UNCHANGED <<file, exists, salts, written, last, sole, intact, seen>>

\* open() fails: in a load first of all, in a save with the image complete.
OpenFails(p) ==
    /\ pc[p] \in Ended
    /\ Fail(p, "IoError")
    /\ seen' = [seen EXCEPT ![p] = NothingSeen]
    /\ UNCHANGED <<file, exists, salts, written, last, sole, intact>>

\* The structural checks, in the order of the code.
WellFormed(d) ==
    /\ Len(d) >= 3
    /\ d[1] = Magic /\ d[2] = Version
    /\ is_valid_size_marker(d[3])
    /\ Len(d) = kWrappedKeyOffset + d[3][2] + kTagSize

MaxExcluded(iter) == iter >= kMinPbkdf2Iterations /\ iter < kMaxPbkdf2Iterations
IterationsAccepted(iter) ==
    iter >= kMinPbkdf2Iterations /\ iter <= kMaxPbkdf2Iterations

AnyTag(d, w) == TRUE
TagMatches(d, w) ==
    d[Len(d)] = Hmac(Derive(w, d[4][2], d[5][2]), SubSeq(d, 1, Len(d) - 1))

\* Parse, bound the iterations, derive, verify the tag, unwrap.
LoadParse(p) ==
    LET d == data[p] IN
    /\ pc[p] = "read" /\ pos[p] = size[p]
    /\ \/ /\ ~WellFormed(d)
          /\ Fail(p, "FormatError")
       \/ /\ WellFormed(d) /\ ~IterationsAccepted(d[5][2])
          /\ Fail(p, "FormatError")
       \/ /\ WellFormed(d) /\ IterationsAccepted(d[5][2]) /\ ~TagMatches(d, pass[p])
          /\ Fail(p, "AuthenticationError")
       \/ /\ WellFormed(d) /\ IterationsAccepted(d[5][2]) /\ TagMatches(d, pass[p])
          /\ End(p, "loaded")
          /\ result' = [result EXCEPT ![p] =
               Unwrap(Derive(pass[p], d[4][2], d[5][2]), d[6][2],
                      SubSeq(d, kWrappedKeyOffset + 1, kWrappedKeyOffset + d[3][2]))]
    /\ UNCHANGED <<file, exists, salts, written, last, sole, intact, seen>>

-----------------------------------------------------------------------------
Die(p) ==
    /\ pc[p] \notin Ended
    /\ Fail(p, "idle")
    /\ seen' = [seen EXCEPT ![p] = NothingSeen]
    /\ UNCHANGED <<file, exists, salts, written, last, sole, intact>>

\* The kernel writes the file back, at a time of its choice: nothing is synced.
Flush ==
    /\ \E f \in Prefixes(file) : disk' = [file |-> f, exists |-> exists]
    /\ UNCHANGED <<file, exists, pc, data, size, pos, pass, result, salts, written, last,
                   sole, intact, seen>>

\* The file is the one on the disk, which may be an older one.
PowerFailure ==
    /\ file' = disk.file /\ exists' = disk.exists
    /\ pc' = [p \in Procs |-> "idle"] /\ data' = [p \in Procs |-> <<>>]
    /\ size' = [p \in Procs |-> 0] /\ pos' = [p \in Procs |-> 0]
    /\ pass' = [p \in Procs |-> "none"] /\ result' = [p \in Procs |-> <<>>]
    /\ seen' = [p \in Procs |-> NothingSeen]
    /\ intact' = FALSE
    /\ UNCHANGED <<disk, salts, written, last, sole>>

Next ==
    \/ /\ \/ \E p \in Procs, iter \in Iterations : SaveRefused(p, iter) \/ SaveRngFails(p, iter)
          \/ \E p \in Procs, k \in Keys, w \in Passphrases, iter \in Iterations :
               SaveOpen(p, k, w, iter)
          \/ \E p \in Procs : SaveWrite(p) \/ SaveReturn(p) \/ OpenFails(p)
          \/ \E p \in Procs, w \in Passphrases : LoadOpen(p, w)
          \/ \E p \in Procs : LoadRead(p) \/ LoadParse(p) \/ Die(p)
       /\ UNCHANGED disk
    \/ Flush \/ PowerFailure

Spec == Init /\ [][Next]_vars

-----------------------------------------------------------------------------
\* Types.  The file holds markers of real key sizes only, and only a load that
\* succeeded has a result.
TypeOK ==
    /\ \A c \in {file, disk.file} :
         \A i \in DOMAIN c : c[i][1] = "size" => is_valid_size_marker(c[i])
    /\ \A p \in Procs : result[p] # <<>> => pc[p] = "loaded"
    /\ exists \in BOOLEAN /\ intact \in BOOLEAN /\ salts \in 0 .. MaxSaves
    /\ pc \in [Procs -> Ended \cup {"write", "read"}]
    /\ \A p \in Procs : pos[p] \in Nat /\ size[p] \in Nat
    /\ written \subseteq [key : Keys, pass : Passphrases]

(***************************************************************************)
(* load_from_file_encrypted returns a key only if a save wrote exactly     *)
(* this key under exactly this passphrase, even when saves and loads on    *)
(* the path overlap, die or fail at any system call: a file mixed from two *)
(* saves, or cut short, is rejected by the size check or the HMAC tag.     *)
(***************************************************************************)
LoadReturnsSavedKey ==
    \A p \in Procs : pc[p] = "loaded" =>
        \E x \in written : x.pass = seen[p].pass /\ result[p] = KeyBytes(x.key)

(***************************************************************************)
(* A key that save_to_file_encrypted reported as saved can be loaded with  *)
(* its passphrase: no check of the load rejects what a save writes         *)
(* ("no legitimate caller or file is ever rejected", key_storage.cpp).     *)
(***************************************************************************)
SavedKeyLoads ==
    \A p \in Procs :
        pc[p] \in {"FormatError", "AuthenticationError"} =>
            ~seen[p].intact \/ seen[p].pass # seen[p].last.pass
=============================================================================
