----------------------------- MODULE PosixFile -----------------------------
(***************************************************************************)
(* The file operations the library relies on, as operators on the contents *)
(* of one file (a sequence of bytes): what ::write does at an offset and   *)
(* what reaches the disk.  External: modelled from how key.cpp,            *)
(* key_storage.cpp and container.cpp use the calls.                        *)
(***************************************************************************)
EXTENDS Integers, Sequences

\* A byte of a hole: a write beyond the end of a truncated file leaves zeros.
HoleByte == <<"zero", 0>>

\* The file after the bytes s are written at offset pos of contents f.
WriteAt(f, pos, s) ==
    LET end == pos + Len(s)
    IN  [i \in 1 .. (IF Len(f) > end THEN Len(f) ELSE end) |->
           IF i > pos /\ i <= end THEN s[i - pos]
           ELSE IF i <= Len(f) THEN f[i] ELSE HoleByte]

\* The n bytes of f from offset pos on.
ReadAt(f, pos, n) == SubSeq(f, pos + 1, pos + n)

\* The bytes a read of at most n bytes at offset pos can return.
Available(f, pos, n) ==
    IF Len(f) <= pos THEN 0 ELSE IF Len(f) - pos < n THEN Len(f) - pos ELSE n

(***************************************************************************)
(* What the kernel may have written back of contents f that nobody         *)
(* fsync'ed: a prefix.  Assumed of the file system is that data reaches    *)
(* the disk before the size that covers it.  The truncation and the        *)
(* creation of the file are written back no earlier: until then the disk   *)
(* holds the contents it held before, whole.                               *)
(***************************************************************************)
Prefixes(f) == {SubSeq(f, 1, n) : n \in 0 .. Len(f)}
=============================================================================
