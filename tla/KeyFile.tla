------------------------------ MODULE KeyFile ------------------------------
(***************************************************************************)
(* SecretKey::save_to_file and SecretKey::load_from_file (key.cpp, POSIX   *)
(* branch), system call by system call, on one path: several processes     *)
(* save and load, a write may be short or fail, a process may die between  *)
(* any two calls, and the machine may lose power.  Nothing is fsync'ed:    *)
(* the disk has what the kernel happened to write back (Flush).            *)
(*                                                                         *)
(* A byte is a pair <<what, value>>; byte i of key k is <<k, i>>, so that  *)
(* mixed keys are visible.  O_NOFOLLOW and the 0600 mode are left out.     *)
(***************************************************************************)
EXTENDS PosixFile

CONSTANTS
    Procs,      \* processes (or threads) using the path
    Keys,       \* keys that are saved
    NoKey,      \* no key
    NoProc,     \* the file holds writes of several saves
    SizeOf      \* their size_bytes(), the size marker of the file

ASSUME SizeAssumption == SizeOf \in [Keys -> Nat \ {0}] /\ NoKey \notin Keys
ASSUME ProcAssumption == NoProc \notin Procs

VARIABLES
    file,    \* contents of the file
    exists,  \* whether the path exists
    disk,    \* what of that is on the disk, and whose writes it is (see Disk)
    pc,      \* what each process does, or how its last call ended
    key,     \* the key a process saves
    pos,     \* its file offset
    marker,  \* size_marker that a load has read
    buf,     \* bytes_ as far as a load has filled it
    latest,  \* history: key of the last save that opened the file, NoKey if
             \* there is none or a power failure came since
    origin,  \* history: key of the save that truncated the file last, as far
             \* as the machine has it after a power failure
    intact,  \* history: that save completed and nothing happened since
    owner,   \* history: its process, while no other has written since
    seen     \* history: what a load met (see LoadOpen)

vars == <<file, exists, disk, pc, key, pos, marker, buf, latest, origin, intact, owner, seen>>

kKeyFileVersion == 2
VersionByte == <<"version", kKeyFileVersion>>
SizeByte(n) == <<"size", n>>
HeaderSize == 2

\* mutant: the fields swapped
HeaderSwapped(k) == <<SizeByte(SizeOf[k]), VersionByte>>
Header(k) == <<VersionByte, SizeByte(SizeOf[k])>>
KeyBytes(k) == [i \in 1 .. SizeOf[k] |-> <<k, i>>]

is_valid_size_marker(b) == b \in {SizeByte(SizeOf[k]) : k \in Keys}

Ended == {"idle", "saved", "loaded", "IoError", "FormatError"}
Loading(p) == pc[p] \in {"readHeader", "readBody"}
Disk(f) == [file |-> f, exists |-> exists, origin |-> origin, owner |-> owner]
NothingSeen == [latest |-> NoKey, intact |-> FALSE, fault |-> FALSE, mixed |-> FALSE]

Init ==
    /\ file = <<>> /\ exists = FALSE
    /\ disk = [file |-> <<>>, exists |-> FALSE, origin |-> NoKey, owner |-> NoProc]
    /\ pc = [p \in Procs |-> "idle"]
    /\ key = [p \in Procs |-> NoKey]
    /\ pos = [p \in Procs |-> 0]
    /\ buf = [p \in Procs |-> <<>>]
    /\ marker = [p \in Procs |-> 0]
    /\ latest = NoKey /\ origin = NoKey /\ intact = FALSE /\ owner = NoProc
    /\ seen = [p \in Procs |-> NothingSeen]

\* The call of p enters its next phase, resp. ends and drops its locals.
Goto(p, phase) ==
    /\ pc' = [pc EXCEPT ![p] = phase]
    /\ UNCHANGED <<key, marker>>
End(p, outcome) ==
    /\ pc' = [pc EXCEPT ![p] = outcome]
    /\ key' = [key EXCEPT ![p] = NoKey]
    /\ pos' = [pos EXCEPT ![p] = 0]
    /\ marker' = [marker EXCEPT ![p] = 0]

-----------------------------------------------------------------------------
\* History: the file changes under the loads of the other processes.
MixLoads(p, others) ==
    [q \in Procs |-> IF q = p THEN others[q] ELSE [others[q] EXCEPT !.mixed = @ \/ Loading(q)]]

\* save_to_file.  open(O_WRONLY | O_CREAT | O_TRUNC) empties the file first.
TruncateForgotten == UNCHANGED file
Truncate == file' = <<>>

SaveOpen(p, k) ==
    /\ pc[p] \in Ended
    /\ Truncate
    /\ exists' = TRUE
    /\ pc' = [pc EXCEPT ![p] = "header"]
    /\ key' = [key EXCEPT ![p] = k]
    /\ buf' = [buf EXCEPT ![p] = <<>>]
    /\ seen' = MixLoads(p, [seen EXCEPT ![p] = NothingSeen])
    /\ latest' = k /\ origin' = k /\ intact' = FALSE /\ owner' = p
    /\ UNCHANGED <<pos, marker>>

\* ::write of the first n bytes of s at the offset of p.
Put(p, s, n) ==
    /\ file' = WriteAt(file, pos[p], SubSeq(s, 1, n))
    /\ pos' = [pos EXCEPT ![p] = @ + n]
    /\ seen' = MixLoads(p, seen)
    /\ intact' = (intact /\ owner = p)
    /\ owner' = IF owner = p THEN p ELSE NoProc

\* One ::write of the two header bytes; anything but 2 ends the save.
SaveHeader(p) ==
    /\ pc[p] = "header"
    /\ \E n \in 0 .. HeaderSize :
         /\ Put(p, Header(key[p]), n)
         /\ Goto(p, IF n = HeaderSize THEN "body" ELSE "fail")
    /\ UNCHANGED <<exists, buf, latest, origin>>

\* mutant: after a short write the loop writes from the start of the key again
RemainingFromStart(p) == SubSeq(KeyBytes(key[p]), 1, SizeOf[key[p]] - (pos[p] - HeaderSize))

\* The part of the key the ::write loop has still to write.
Remaining(p) == SubSeq(KeyBytes(key[p]), pos[p] - HeaderSize + 1, SizeOf[key[p]])

\* The ::write loop over the key bytes: n < 0 ends the save, a short write
\* goes on.
SaveBody(p) ==
    /\ pc[p] = "body" /\ Remaining(p) # <<>>
    /\ \/ \E n \in 1 .. Len(Remaining(p)) : Put(p, Remaining(p), n) /\ Goto(p, "body")
       \/ Goto(p, "fail") /\ UNCHANGED <<file, pos, intact, owner, seen>>
    /\ UNCHANGED <<exists, buf, latest, origin>>

\* close(), then return or throw IoError.
SaveClose(p) ==
    /\ \/ /\ pc[p] = "body" /\ Remaining(p) = <<>>
          /\ End(p, "saved") /\ intact' = (intact \/ owner = p)
       \/ pc[p] = "fail" /\ End(p, "IoError") /\ UNCHANGED intact
    /\ UNCHANGED <<file, exists, buf, latest, origin, owner, seen>>

\* open() fails, in a save or in a load: nothing is touched.
OpenFails(p) ==
    /\ pc[p] \in Ended
    /\ End(p, "IoError")
    /\ buf' = [buf EXCEPT ![p] = <<>>]
    /\ seen' = [seen EXCEPT ![p] = NothingSeen]
    /\ UNCHANGED <<file, exists, latest, origin, intact, owner>>

-----------------------------------------------------------------------------
\* load_from_file.  The history of a load: the latest save, whether it had
\* completed, a failed read, and whether another save's writes are in the file
\* or came while the load ran.
LoadOpen(p) ==
    /\ pc[p] \in Ended /\ exists
    /\ Goto(p, "readHeader")
    /\ buf' = [buf EXCEPT ![p] = <<>>]
    /\ seen' = [seen EXCEPT ![p] = [latest |-> latest, intact |-> intact, fault |-> FALSE,
                                      mixed |-> owner = NoProc]]
    /\ UNCHANGED <<file, exists, pos, latest, origin, intact, owner>>

\* A ::read fails or is interrupted: FormatError, as for a short file.
LoadFault(p) ==
    /\ Loading(p)
    /\ End(p, "FormatError")
    /\ buf' = [buf EXCEPT ![p] = <<>>]
    /\ seen' = [seen EXCEPT ![p].fault = TRUE]
    /\ UNCHANGED <<file, exists, latest, origin, intact, owner>>

\* One ::read of two bytes, then the checks of version and marker.
LoadHeader(p) ==
    /\ pc[p] = "readHeader"
    /\ LET h == ReadAt(file, 0, Available(file, 0, HeaderSize))
       IN  IF Len(h) = HeaderSize /\ h[1] = VersionByte /\ is_valid_size_marker(h[2])
           THEN /\ pc' = [pc EXCEPT ![p] = "readBody"]
                /\ marker' = [marker EXCEPT ![p] = h[2][2]]
                /\ pos' = [pos EXCEPT ![p] = HeaderSize]
                /\ UNCHANGED key
           ELSE End(p, "FormatError")
    /\ UNCHANGED <<file, exists, buf, latest, origin, intact, owner, seen>>

\* mutant: the read is tried again
EofRetried(p) == Goto(p, "readBody") /\ UNCHANGED <<pos, buf>>

\* n == 0: the file ended before the key was complete.
AtEof(p) == End(p, "FormatError") /\ buf' = [buf EXCEPT ![p] = <<>>]

\* One iteration of the ::read loop.
LoadBody(p) ==
    /\ pc[p] = "readBody" /\ Len(buf[p]) < marker[p]
    /\ LET most == Available(file, pos[p], marker[p] - Len(buf[p]))
       IN  \/ \E n \in 1 .. most :
                /\ buf' = [buf EXCEPT ![p] = @ \o ReadAt(file, pos[p], n)]
                /\ pos' = [pos EXCEPT ![p] = @ + n]
                /\ Goto(p, "readBody")
           \/ most = 0 /\ AtEof(p)
    /\ UNCHANGED <<file, exists, latest, origin, intact, owner, seen>>

LoadReturn(p) ==
    /\ pc[p] = "readBody" /\ Len(buf[p]) = marker[p]
    /\ End(p, "loaded")
    /\ UNCHANGED <<file, exists, buf, latest, origin, intact, owner, seen>>

-----------------------------------------------------------------------------
\* A process dies between two system calls; the file stays as it is.
Die(p) ==
    /\ pc[p] \notin Ended
    /\ End(p, "idle")
    /\ buf' = [buf EXCEPT ![p] = <<>>]
    /\ seen' = [seen EXCEPT ![p] = NothingSeen]
    /\ UNCHANGED <<file, exists, latest, origin, intact, owner>>

\* The kernel writes the file back, at a time of its choice.
Flush ==
    /\ \E f \in Prefixes(file) : disk' = Disk(f)
    /\ UNCHANGED <<file, exists, pc, key, pos, marker, buf, latest, origin, intact, owner, seen>>

\* What was not written back is gone: the file is the one on the disk, which
\* may be an older one.
PowerFailure ==
    /\ file' = disk.file /\ exists' = disk.exists
    /\ origin' = disk.origin /\ owner' = disk.owner
    /\ pc' = [p \in Procs |-> "idle"]
    /\ key' = [p \in Procs |-> NoKey]
    /\ pos' = [p \in Procs |-> 0] /\ marker' = [p \in Procs |-> 0]
    /\ buf' = [p \in Procs |-> <<>>]
    /\ seen' = [p \in Procs |-> NothingSeen]
    /\ latest' = NoKey /\ intact' = FALSE
    /\ UNCHANGED disk

\* What a call in progress does next.
Step(p) ==
    /\ \/ SaveHeader(p) \/ SaveBody(p) \/ SaveClose(p)
       \/ LoadHeader(p) \/ LoadBody(p) \/ LoadReturn(p)
    /\ UNCHANGED disk

Next ==
    \/ /\ \/ \E p \in Procs, k \in Keys : SaveOpen(p, k)
          \/ \E p \in Procs : OpenFails(p) \/ LoadOpen(p) \/ LoadFault(p) \/ Die(p)
       /\ UNCHANGED disk
    \/ \E p \in Procs : Step(p)
    \/ Flush \/ PowerFailure

\* A process that is in a call and does not die keeps running; that a read
\* ever fails is not assumed.
Spec == Init /\ [][Next]_vars /\ \A p \in Procs : WF_vars(Step(p))

-----------------------------------------------------------------------------
\* Types.  Besides holes, the file holds only what saves write: the version,
\* markers of real key sizes and key bytes.
FileBytes ==
    {VersionByte, HoleByte} \cup {SizeByte(SizeOf[k]) : k \in Keys}
        \cup UNION {{KeyBytes(k)[i] : i \in 1 .. SizeOf[k]} : k \in Keys}
TypeOK ==
    /\ file \in Seq(FileBytes)
    /\ disk \in [file : Seq(FileBytes), exists : BOOLEAN, origin : Keys \cup {NoKey},
                 owner : Procs \cup {NoProc}]
    /\ exists \in BOOLEAN /\ intact \in BOOLEAN /\ owner \in Procs \cup {NoProc}
    /\ pc \in [Procs -> Ended \cup {"header", "body", "fail", "readHeader", "readBody"}]
    /\ key \in [Procs -> Keys \cup {NoKey}]
    /\ latest \in Keys \cup {NoKey} /\ origin \in Keys \cup {NoKey}
    /\ pos \in [Procs -> Nat] /\ marker \in [Procs -> Nat]

(***************************************************************************)
(* load_from_file "loads a key previously written by save_to_file()"       *)
(* (key.hpp): a load during which no other process truncates or writes the *)
(* file, and which finds the writes of one save in it, returns the key of  *)
(* one save, whole and of its size, whatever failed writes, deaths and     *)
(* power failures left behind.  It is the key of the last save that opened *)
(* the file, unless the machine lost power since: save_to_file does not    *)
(* sync, so that an older key may be back.                                 *)
(***************************************************************************)
LoadReturnsSavedKey ==
    \A p \in Procs : pc[p] = "loaded" /\ ~seen[p].mixed =>
        \E k \in Keys : buf[p] = KeyBytes(k) /\ seen[p].latest \in {k, NoKey}

(***************************************************************************)
(* The file is rewritten in place and read in several calls, so a load     *)
(* that saves overlap can return bytes of several keys.  Whatever runs at  *)
(* the same time, it returns no more than that: as many bytes as some key  *)
(* has, each one a byte that a save put at that place of a key, or a hole. *)
(* No byte of the header, and none of another place, is taken as key.      *)
(***************************************************************************)
Placed(i) == {HoleByte} \cup {<<k, i>> : k \in {j \in Keys : i <= SizeOf[j]}}
LoadedBytesInPlace ==
    \A p \in Procs : pc[p] = "loaded" =>
        /\ Len(buf[p]) \in {SizeOf[k] : k \in Keys}
        /\ \A i \in 1 .. Len(buf[p]) : buf[p][i] \in Placed(i)

(***************************************************************************)
(* Once save_to_file returned, an undisturbed load with no read error      *)
(* succeeds: the version, size marker and length that a save writes are    *)
(* accepted.                                                               *)
(***************************************************************************)
SavedKeyLoads ==
    \A p \in Procs : pc[p] = "FormatError" =>
        seen[p].fault \/ seen[p].mixed \/ ~seen[p].intact

(***************************************************************************)
(* save_to_file and load_from_file return: neither the loop of short       *)
(* writes nor that of short reads waits for bytes that never come, though  *)
(* another process truncates the file under them.                          *)
(***************************************************************************)
CallsEnd == \A p \in Procs : pc[p] \notin Ended ~> pc[p] \in Ended
=============================================================================
