--------------------------- MODULE KeyFileProofs ----------------------------
(* Proofs about KeyFile for any processes, any keys and any key sizes: any *)
(* number of saves and loads, interleaved at their system calls, with any  *)
(* short writes, short reads, failures, deaths and power failures.         *)
EXTENDS KeyFile, SequenceTheorems, TLAPS

(* Byte i of the file that a whole save of key k leaves.                   *)
ImageByte(k, i) ==
    IF i = 1 THEN VersionByte
    ELSE IF i = 2 THEN SizeByte(SizeOf[k]) ELSE <<k, i - HeaderSize>>
ImageSize(k) == HeaderSize + SizeOf[k]

SeenRecords == [latest : Keys \cup {NoKey}, intact : BOOLEAN, fault : BOOLEAN, mixed : BOOLEAN]
LoadTypes ==
    /\ buf \in [Procs -> Seq(FileBytes)]
    /\ seen \in [Procs -> SeenRecords]

Saving(p) == pc[p] \in {"header", "body"}

(* Where a call can be in its file, by its phase.                          *)
CallOK(p) ==
    /\ pc[p] \in Ended \cup {"header", "readHeader"} => pos[p] = 0
    /\ Saving(p) => key[p] \in Keys
    /\ pc[p] = "body" => pos[p] \in HeaderSize .. ImageSize(key[p])
    /\ pc[p] = "readHeader" => buf[p] = <<>>
    /\ pc[p] = "readBody" => Len(buf[p]) <= marker[p]

(* While one process has written since the last truncation, the file is a  *)
(* prefix of its save, up to its offset; it is all of it once the save has *)
(* completed.                                                              *)
OwnerWrites ==
    /\ owner \in Procs =>
         /\ origin \in Keys
         /\ Len(file) <= ImageSize(origin)
         /\ \A i \in 1 .. Len(file) : file[i] = ImageByte(origin, i)
         /\ Saving(owner) => key[owner] = origin /\ pos[owner] = Len(file)
    /\ latest \in {origin, NoKey}
    /\ intact => owner \in Procs /\ ~Saving(owner) /\ Len(file) = ImageSize(origin)

(* A load under which the file did not change has read what is in it.      *)
Follows(p) ==
    Loading(p) /\ ~seen[p].mixed =>
        /\ owner \in Procs /\ seen[p].latest \in {origin, NoKey}
        /\ seen[p].intact => intact
        /\ pc[p] = "readBody" =>
             /\ marker[p] = SizeOf[origin]
             /\ pos[p] = HeaderSize + Len(buf[p])
             /\ \A i \in 1 .. Len(buf[p]) : buf[p][i] = <<origin, i>>

(* LoadReturnsSavedKey and SavedKeyLoads of one process.                   *)
ReturnsSaved(p) ==
    pc[p] = "loaded" /\ ~seen[p].mixed =>
        \E k \in Keys : buf[p] = KeyBytes(k) /\ seen[p].latest \in {k, NoKey}
Accepts(p) ==
    pc[p] = "FormatError" => seen[p].fault \/ seen[p].mixed \/ ~seen[p].intact

(* What processes see of the file.                                         *)
FileInv ==
    /\ TypeOK /\ LoadTypes /\ OwnerWrites
    /\ \A p \in Procs : CallOK(p) /\ Follows(p) /\ ReturnsSaved(p) /\ Accepts(p)

(* What a power failure would bring back is a prefix of one save, too,     *)
(* when the writes are of one process.                                     *)
DiskInv ==
    disk.owner \in Procs =>
        /\ disk.origin \in Keys
        /\ Len(disk.file) <= ImageSize(disk.origin)
        /\ \A i \in 1 .. Len(disk.file) : disk.file[i] = ImageByte(disk.origin, i)

(* The inductive invariant.                                                *)
IInv == FileInv /\ DiskInv

-----------------------------------------------------------------------------
(* The file operations of PosixFile.                                       *)

(* A write gives a file again, also one that leaves a hole.                *)
LEMMA WriteAtType ==
    ASSUME NEW f \in Seq(FileBytes), NEW at \in Nat, NEW s \in Seq(FileBytes)
    PROVE  WriteAt(f, at, s) \in Seq(FileBytes)
<1>h. HoleByte \in FileBytes
    BY DEF FileBytes
<1> DEFINE end == at + Len(s)
           n == IF Len(f) > end THEN Len(f) ELSE end
<1>1. Len(f) \in Nat /\ Len(s) \in Nat /\ n \in Nat
    OBVIOUS
<1>2. WriteAt(f, at, s) \in [1 .. n -> FileBytes]
  <2>1. ASSUME NEW i \in 1 .. n
        PROVE  (IF i > at /\ i <= end THEN s[i - at]
                ELSE IF i <= Len(f) THEN f[i] ELSE HoleByte) \in FileBytes
    <3>1. CASE i > at /\ i <= end
      <4>1. i - at \in 1 .. Len(s)
          BY <3>1, <1>1
      <4> QED BY <3>1, <4>1
    <3>2. CASE ~(i > at /\ i <= end) /\ i <= Len(f)
      <4>1. i \in 1 .. Len(f)
          BY <3>2, <1>1
      <4> QED BY <3>2, <4>1
    <3>3. CASE ~(i > at /\ i <= end) /\ ~(i <= Len(f))
        BY <3>3, <1>h
    <3> QED BY <3>1, <3>2, <3>3
  <2> QED BY <2>1 DEF WriteAt
<1> HIDE DEF n
<1>3. [1 .. n -> FileBytes] \subseteq Seq(FileBytes)
    BY <1>1, SeqDef
<1> QED BY <1>2, <1>3

(* A write at the end of the file appends.                                 *)
LEMMA WriteAtEnd ==
    ASSUME NEW f \in Seq(FileBytes), NEW s \in Seq(FileBytes),
           NEW g, g = WriteAt(f, Len(f), s)
    PROVE  /\ Len(g) = Len(f) + Len(s)
           /\ \A i \in 1 .. Len(f) : g[i] = f[i]
           /\ \A i \in 1 .. Len(s) : g[Len(f) + i] = s[i]
<1>1. Len(f) \in Nat /\ Len(s) \in Nat
    OBVIOUS
<1>2. g = [i \in 1 .. Len(f) + Len(s) |->
             IF i > Len(f) /\ i <= Len(f) + Len(s) THEN s[i - Len(f)]
             ELSE IF i <= Len(f) THEN f[i] ELSE HoleByte]
    BY <1>1 DEF WriteAt
<1>3. Len(g) = Len(f) + Len(s)
    BY <1>1, <1>2
<1>4. \A i \in 1 .. Len(f) : g[i] = f[i]
    BY <1>1, <1>2
<1>5. ASSUME NEW i \in 1 .. Len(s) PROVE g[Len(f) + i] = s[i]
  <2>1. Len(f) + i \in 1 .. Len(f) + Len(s) /\ (Len(f) + i) - Len(f) = i /\ Len(f) + i > Len(f)
        /\ Len(f) + i <= Len(f) + Len(s)
      BY <1>1
  <2> QED BY <1>2, <2>1
<1> QED BY <1>3, <1>4, <1>5

(* A read within the file returns its bytes.                               *)
LEMMA ReadAtBytes ==
    ASSUME NEW f \in Seq(FileBytes), NEW at \in Nat, NEW n \in Nat, at + n <= Len(f)
    PROVE  /\ ReadAt(f, at, n) \in Seq(FileBytes) /\ Len(ReadAt(f, at, n)) = n
           /\ \A i \in 1 .. n : ReadAt(f, at, n)[i] = f[at + i]
<1>1. \A i \in at + 1 .. at + n : f[i] \in FileBytes
    OBVIOUS
<1>2. /\ SubSeq(f, at + 1, at + n) \in Seq(FileBytes)
      /\ Len(SubSeq(f, at + 1, at + n)) =
           IF at + 1 <= at + n THEN (at + n) - (at + 1) + 1 ELSE 0
      /\ \A i \in 1 .. (at + n) - (at + 1) + 1 :
           SubSeq(f, at + 1, at + n)[i] = f[(at + 1) + i - 1]
    BY <1>1, SubSeqProperties
<1>3. /\ (at + n) - (at + 1) + 1 = n /\ (n # 0 <=> at + 1 <= at + n)
      /\ \A i \in 1 .. n : (at + 1) + i - 1 = at + i
    OBVIOUS
<1> QED BY <1>2, <1>3 DEF ReadAt

LEMMA AvailableBytes ==
    ASSUME NEW f \in Seq(FileBytes), NEW at \in Nat, NEW n \in Nat
    PROVE  /\ Available(f, at, n) \in 0 .. n
           /\ at + Available(f, at, n) <= Len(f) \/ Available(f, at, n) = 0
           /\ at + n <= Len(f) => Available(f, at, n) = n
           /\ at < Len(f) /\ n > 0 => Available(f, at, n) > 0
BY DEF Available

(* The first bytes of a sequence, as a short write takes them ...          *)
LEMMA FirstBytes ==
    ASSUME NEW f \in Seq(FileBytes), NEW n \in 0 .. Len(f)
    PROVE  /\ SubSeq(f, 1, n) \in Seq(FileBytes) /\ Len(SubSeq(f, 1, n)) = n
           /\ \A i \in 1 .. n : SubSeq(f, 1, n)[i] = f[i]
<1>1. n \in Nat /\ 0 \in Nat /\ 0 + n <= Len(f)
    OBVIOUS
<1>2. /\ ReadAt(f, 0, n) \in Seq(FileBytes) /\ Len(ReadAt(f, 0, n)) = n
      /\ \A i \in 1 .. n : ReadAt(f, 0, n)[i] = f[0 + i]
    BY <1>1, ReadAtBytes
<1> QED BY <1>2, <1>1 DEF ReadAt

(* ... and as a power failure leaves them of the file.                     *)
LEMMA PrefixBytes ==
    ASSUME NEW f \in Seq(FileBytes), NEW g \in Prefixes(f)
    PROVE  g \in Seq(FileBytes) /\ Len(g) <= Len(f) /\ \A i \in 1 .. Len(g) : g[i] = f[i]
<1>1. PICK n \in 0 .. Len(f) : g = SubSeq(f, 1, n)
    BY DEF Prefixes
<1> QED BY <1>1, FirstBytes

-----------------------------------------------------------------------------
(* The bytes a save writes.                                                *)
LEMMA ImageBytes ==
    ASSUME NEW k \in Keys
    PROVE  /\ SizeOf[k] \in Nat \ {0} /\ HoleByte \in FileBytes
           /\ Header(k) \in Seq(FileBytes) /\ Len(Header(k)) = HeaderSize
           /\ \A i \in 1 .. HeaderSize : Header(k)[i] = ImageByte(k, i)
           /\ KeyBytes(k) \in Seq(FileBytes) /\ Len(KeyBytes(k)) = SizeOf[k]
           /\ \A i \in 1 .. SizeOf[k] : KeyBytes(k)[i] = ImageByte(k, HeaderSize + i)
<1>1. SizeOf[k] \in Nat \ {0} /\ HoleByte \in FileBytes
    BY SizeAssumption DEF FileBytes
<1>2. VersionByte \in FileBytes /\ SizeByte(SizeOf[k]) \in FileBytes
    BY DEF FileBytes
<1>3. /\ Header(k) \in Seq(FileBytes) /\ Len(Header(k)) = HeaderSize
      /\ \A i \in 1 .. HeaderSize : Header(k)[i] = ImageByte(k, i)
    BY <1>2 DEF Header, HeaderSize, ImageByte
<1>4. KeyBytes(k) = [i \in 1 .. SizeOf[k] |-> <<k, i>>]
    BY DEF KeyBytes
<1>5. ASSUME NEW i \in 1 .. SizeOf[k] PROVE KeyBytes(k)[i] \in FileBytes
    BY <1>5 DEF FileBytes
<1>6. Len(KeyBytes(k)) = SizeOf[k]
    BY <1>1, <1>4
<1>7. KeyBytes(k) \in [1 .. SizeOf[k] -> FileBytes]
    BY <1>4, <1>5
<1>8. KeyBytes(k) \in Seq(FileBytes)
    BY <1>1, <1>7, SeqDef
<1>9. ASSUME NEW i \in 1 .. SizeOf[k]
      PROVE  KeyBytes(k)[i] = ImageByte(k, HeaderSize + i)
  <2>1. HeaderSize + i # 1 /\ HeaderSize + i # 2 /\ (HeaderSize + i) - HeaderSize = i
      BY <1>1 DEF HeaderSize
  <2> QED BY <1>4, <2>1 DEF ImageByte
<1> QED BY <1>1, <1>3, <1>6, <1>8, <1>9

(* A write or a truncation by p marks the loads of the other processes.    *)
LEMMA MixedLoads ==
    ASSUME NEW p \in Procs, NEW others \in [Procs -> SeenRecords], seen' = MixLoads(p, others)
    PROVE  /\ seen' \in [Procs -> SeenRecords]
           /\ seen'[p] = others[p]
           /\ \A q \in Procs \ {p} :
                /\ Loading(q) => seen'[q].mixed
                /\ others[q].mixed => seen'[q].mixed
                /\ ~Loading(q) /\ seen'[q].mixed => others[q].mixed
                /\ seen'[q].latest = others[q].latest
                /\ seen'[q].intact = others[q].intact /\ seen'[q].fault = others[q].fault
<1>1. ASSUME NEW q \in Procs \ {p}
      PROVE  seen'[q] = [others[q] EXCEPT !.mixed = others[q].mixed \/ Loading(q)]
    BY DEF MixLoads
<1>2. seen'[p] = others[p]
    BY DEF MixLoads
<1>3. ASSUME NEW q \in Procs \ {p}
      PROVE  /\ seen'[q] \in SeenRecords
             /\ Loading(q) => seen'[q].mixed
             /\ others[q].mixed => seen'[q].mixed
             /\ ~Loading(q) /\ seen'[q].mixed => others[q].mixed
             /\ seen'[q].latest = others[q].latest
             /\ seen'[q].intact = others[q].intact /\ seen'[q].fault = others[q].fault
  <2> DEFINE r == others[q]
             mixed == r.mixed \/ Loading(q)
  <2>1. r \in SeenRecords /\ mixed \in BOOLEAN
      OBVIOUS
  <2>2. seen'[q] = [r EXCEPT !.mixed = mixed]
      BY <1>1
  <2> HIDE DEF mixed, r
  <2>3. /\ seen'[q] \in SeenRecords /\ seen'[q].mixed = mixed
        /\ seen'[q].latest = r.latest /\ seen'[q].intact = r.intact /\ seen'[q].fault = r.fault
      BY <2>1, <2>2 DEF SeenRecords
  <2> QED BY <2>3 DEF mixed, r
<1>4. seen' = [q \in Procs |-> seen'[q]]
    BY DEF MixLoads
<1> QED BY <1>2, <1>3, <1>4

LEMMA InitIInv == Init => IInv
<1> SUFFICES ASSUME Init PROVE IInv
    OBVIOUS
<1>1. TypeOK
  <2>1. file \in Seq(FileBytes)
      BY DEF Init
  <2> QED BY <2>1 DEF Init, TypeOK, Ended, FileBytes
<1>2. LoadTypes
    BY DEF Init, LoadTypes, SeenRecords, NothingSeen
<1>3. OwnerWrites
    BY ProcAssumption DEF Init, OwnerWrites
<1>4. \A p \in Procs : CallOK(p) /\ Follows(p) /\ ReturnsSaved(p) /\ Accepts(p)
    BY DEF Init, CallOK, Follows, ReturnsSaved, Accepts, Saving, Loading
<1>5. DiskInv
    BY ProcAssumption DEF Init, DiskInv
<1> QED BY <1>1, <1>2, <1>3, <1>4, <1>5 DEF IInv, FileInv

(* A step of p that leaves the file alone and after which p does not save. *)
(* Only its own part of the invariant is left to show.                     *)
LEMMA LocalStep ==
    ASSUME FileInv, UNCHANGED disk, NEW p \in Procs, UNCHANGED <<file, latest, origin, owner>>,
           \A q \in Procs \ {p} : /\ pc'[q] = pc[q] /\ key'[q] = key[q] /\ pos'[q] = pos[q]
                                  /\ marker'[q] = marker[q] /\ buf'[q] = buf[q]
                                  /\ seen'[q] = seen[q],
           intact => intact',
           intact' => intact \/ (owner = p /\ Len(file) = ImageSize(origin)),
           TypeOK', LoadTypes', ~Saving(p)',
           CallOK(p)', Follows(p)', ReturnsSaved(p)', Accepts(p)'
    PROVE  FileInv'
<1>1. OwnerWrites'
    BY DEF FileInv, OwnerWrites, Saving
<1>2. ASSUME NEW q \in Procs \ {p}
      PROVE  CallOK(q)' /\ Follows(q)' /\ ReturnsSaved(q)' /\ Accepts(q)'
  <2>1. CallOK(q) /\ Follows(q) /\ ReturnsSaved(q) /\ Accepts(q)
      BY DEF FileInv
  <2>2. CallOK(q)' /\ ReturnsSaved(q)' /\ Accepts(q)'
      BY <2>1 DEF CallOK, ReturnsSaved, Accepts, Saving
  <2>3. Follows(q)'
      BY <2>1 DEF Follows, Loading
  <2> QED BY <2>2, <2>3
<1> QED BY <1>1, <1>2 DEF FileInv
(* The end of a call, whatever it was: p holds no key and no offset.       *)
LEMMA EndStep ==
    ASSUME FileInv, UNCHANGED disk, NEW p \in Procs, NEW outcome \in Ended, End(p, outcome),
           UNCHANGED <<file, exists, latest, origin, owner>>,
           \A q \in Procs \ {p} : buf'[q] = buf[q] /\ seen'[q] = seen[q],
           intact' \in BOOLEAN, intact => intact',
           intact' => intact \/ (owner = p /\ Len(file) = ImageSize(origin)),
           LoadTypes', ReturnsSaved(p)', Accepts(p)'
    PROVE  FileInv'
<1>1. /\ pc' = [pc EXCEPT ![p] = outcome] /\ key' = [key EXCEPT ![p] = NoKey]
      /\ pos' = [pos EXCEPT ![p] = 0] /\ marker' = [marker EXCEPT ![p] = 0]
    BY DEF End
<1>2. TypeOK'
    BY <1>1 DEF FileInv, TypeOK
<1>3. /\ pc'[p] = outcome /\ pos'[p] = 0
      /\ \A q \in Procs \ {p} : /\ pc'[q] = pc[q] /\ key'[q] = key[q] /\ pos'[q] = pos[q]
                                /\ marker'[q] = marker[q]
    BY <1>1 DEF FileInv, TypeOK
<1>4. ~Saving(p)' /\ ~Loading(p)' /\ CallOK(p)' /\ Follows(p)'
    BY <1>3 DEF Saving, Loading, CallOK, Follows, Ended
<1> QED BY <1>2, <1>3, <1>4, LocalStep

LEMMA SaveOpenFileInv ==
    ASSUME FileInv, UNCHANGED disk, NEW p \in Procs, NEW k \in Keys, SaveOpen(p, k)
    PROVE  FileInv'
<1> DEFINE others == [seen EXCEPT ![p] = NothingSeen]
<1>1. /\ others \in [Procs -> SeenRecords]
      /\ \A q \in Procs \ {p} : others[q] = seen[q]
    BY DEF FileInv, LoadTypes, SeenRecords, NothingSeen
<1>2. seen' = MixLoads(p, others)
    BY DEF SaveOpen
<1> HIDE DEF others
<1>3. /\ seen' \in [Procs -> SeenRecords]
      /\ \A q \in Procs \ {p} :
           /\ Loading(q) => seen'[q].mixed
           /\ seen[q].mixed => seen'[q].mixed
           /\ seen'[q].latest = seen[q].latest
           /\ seen'[q].intact = seen[q].intact /\ seen'[q].fault = seen[q].fault
    BY <1>1, <1>2, MixedLoads
<1>4. /\ file' = <<>> /\ latest' = k /\ origin' = k /\ intact' = FALSE /\ owner' = p /\ pos' = pos
      /\ pc'[p] = "header" /\ key'[p] = k /\ pos[p] = 0
      /\ \A q \in Procs \ {p} : /\ pc'[q] = pc[q] /\ key'[q] = key[q] /\ pos'[q] = pos[q]
                                /\ marker'[q] = marker[q] /\ buf'[q] = buf[q]
    BY DEF SaveOpen, Truncate, FileInv, TypeOK, LoadTypes, CallOK
<1>5. TypeOK' /\ LoadTypes'
  <2>1. buf' \in [Procs -> Seq(FileBytes)] /\ file' \in Seq(FileBytes)
      BY DEF SaveOpen, Truncate, FileInv, LoadTypes
  <2> QED BY <1>3, <2>1 DEF SaveOpen, FileInv, TypeOK, LoadTypes, FileBytes, SeenRecords
<1>6. OwnerWrites'
    BY <1>4, SizeAssumption DEF OwnerWrites, ImageSize, HeaderSize
<1>7. ASSUME NEW q \in Procs
      PROVE  CallOK(q)' /\ Follows(q)' /\ ReturnsSaved(q)' /\ Accepts(q)'
  <2>1. CASE q = p
      BY <2>1, <1>4 DEF CallOK, Follows, ReturnsSaved, Accepts, Saving, Loading, Ended
  <2>2. CASE q # p
    <3>1. CallOK(q) /\ ReturnsSaved(q) /\ Accepts(q)
        BY DEF FileInv
    <3>2. CallOK(q)' /\ ReturnsSaved(q)' /\ Accepts(q)'
        BY <2>2, <3>1, <1>3, <1>4 DEF CallOK, ReturnsSaved, Accepts, Saving
    <3>3. Follows(q)'
        BY <2>2, <1>3, <1>4 DEF Follows, Loading
    <3> QED BY <3>2, <3>3
  <2> QED BY <2>1, <2>2
<1> QED BY <1>5, <1>6, <1>7 DEF FileInv

(* A ::write of n bytes by p: p goes on with phase, and s continues the    *)
(* image of its key from its offset on.                                    *)
LEMMA PutFileInv ==
    ASSUME FileInv, UNCHANGED disk, NEW p \in Procs, Saving(p), NEW s \in Seq(FileBytes), NEW n \in 0 .. Len(s),
           Put(p, s, n), pos[p] + Len(s) <= ImageSize(key[p]),
           \A i \in 1 .. Len(s) : s[i] = ImageByte(key[p], pos[p] + i),
           NEW phase \in {"body", "fail"}, Goto(p, phase),
           phase = "body" => pos[p] + n >= HeaderSize,
           UNCHANGED <<exists, buf, latest, origin>>
    PROVE  FileInv'
<1>t. /\ file \in Seq(FileBytes) /\ pos[p] \in Nat /\ key[p] \in Keys /\ HoleByte \in FileBytes
      /\ n \in Nat /\ SizeOf[key[p]] \in Nat
  <2>1. file \in Seq(FileBytes)
      BY DEF FileInv, TypeOK, FileBytes
  <2>2. pos[p] \in Nat /\ key[p] \in Keys /\ n \in Nat
      BY DEF FileInv, TypeOK, CallOK
  <2> QED BY <2>1, <2>2, ImageBytes
<1>1. /\ SubSeq(s, 1, n) \in Seq(FileBytes) /\ Len(SubSeq(s, 1, n)) = n
      /\ \A i \in 1 .. n : SubSeq(s, 1, n)[i] = s[i]
    BY FirstBytes
<1>2. file' \in Seq(FileBytes)
    BY <1>t, <1>1, WriteAtType DEF Put
<1>3. /\ seen' \in [Procs -> SeenRecords] /\ seen'[p] = seen[p]
      /\ \A q \in Procs \ {p} :
           /\ Loading(q) => seen'[q].mixed
           /\ seen[q].mixed => seen'[q].mixed
           /\ seen'[q].latest = seen[q].latest
           /\ seen'[q].intact = seen[q].intact /\ seen'[q].fault = seen[q].fault
    BY MixedLoads DEF Put, FileInv, LoadTypes, SeenRecords
<1>4. /\ pc'[p] = phase /\ pos'[p] = pos[p] + n /\ key' = key /\ marker' = marker
      /\ buf' = buf /\ latest' = latest /\ origin' = origin /\ ~intact'
      /\ latest \in {origin, NoKey}
      /\ \A q \in Procs \ {p} : pc'[q] = pc[q] /\ pos'[q] = pos[q]
      /\ owner = p => owner' = p
      /\ owner # p => owner' = NoProc
    BY DEF Put, Goto, FileInv, TypeOK, OwnerWrites
<1>5. TypeOK' /\ LoadTypes'
  <2>1. pos' \in [Procs -> Nat]
      BY <1>t DEF Put, FileInv, TypeOK
  <2>2. pc' \in [Procs -> Ended \cup {"header", "body", "fail", "readHeader", "readBody"}]
      BY DEF Goto, FileInv, TypeOK
  <2>3. intact' \in BOOLEAN /\ owner' \in Procs \cup {NoProc}
      BY <1>4 DEF Put
  <2> QED BY <1>2, <1>3, <1>4, <2>1, <2>2, <2>3 DEF FileInv, TypeOK, LoadTypes, FileBytes, SeenRecords
<1>6. OwnerWrites'
  <2>1. CASE owner = p
    <3>1. origin \in Keys /\ key[p] = origin /\ pos[p] = Len(file)
        BY <2>1 DEF FileInv, OwnerWrites
    <3>2. /\ Len(file') = Len(file) + n
          /\ \A i \in 1 .. Len(file) : file'[i] = file[i]
          /\ \A i \in 1 .. n : file'[Len(file) + i] = SubSeq(s, 1, n)[i]
      <4> DEFINE t == SubSeq(s, 1, n)
      <4>1. file' = WriteAt(file, Len(file), t) /\ t \in Seq(FileBytes) /\ Len(t) = n
          BY <1>1, <3>1 DEF Put
      <4> HIDE DEF t
      <4>2. /\ Len(file') = Len(file) + n
            /\ \A i \in 1 .. Len(file) : file'[i] = file[i]
            /\ \A i \in 1 .. n : file'[Len(file) + i] = t[i]
        <5>1. file \in Seq(FileBytes) /\ t \in Seq(FileBytes) /\ file' = WriteAt(file, Len(file), t)
            BY <1>t, <4>1
        <5>2. /\ Len(file') = Len(file) + Len(t)
              /\ \A i \in 1 .. Len(file) : file'[i] = file[i]
              /\ \A i \in 1 .. Len(t) : file'[Len(file) + i] = t[i]
          <6>1. Len(file') = Len(file) + Len(t)
              BY <5>1, WriteAtEnd
          <6>2. \A i \in 1 .. Len(file) : file'[i] = file[i]
              BY <5>1, WriteAtEnd, SMTT(30)
          <6>3. \A i \in 1 .. Len(t) : file'[Len(file) + i] = t[i]
              BY <5>1, WriteAtEnd, SMTT(30)
          <6> QED BY <6>1, <6>2, <6>3
        <5> QED BY <5>2, <4>1
      <4> QED BY <4>2 DEF t
    <3>3. ASSUME NEW i \in 1 .. Len(file') PROVE file'[i] = ImageByte(origin, i)
      <4>1. CASE i <= Len(file)
        <5>1. i \in 1 .. Len(file)
            BY <4>1, <1>2, <1>t
        <5> QED BY <5>1, <2>1, <3>2 DEF FileInv, OwnerWrites
      <4>2. CASE i > Len(file)
        <5>1. i - Len(file) \in 1 .. n /\ Len(file) + (i - Len(file)) = i
            BY <4>2, <3>2, <1>t
        <5>2. file'[i] = s[i - Len(file)]
            BY <5>1, <3>2, <1>1
        <5>3. s[i - Len(file)] = ImageByte(origin, i)
            BY <5>1, <3>1
        <5> QED BY <5>2, <5>3
      <4> QED BY <4>1, <4>2, <1>2, <1>t
    <3>4. Len(file') <= ImageSize(origin)
        BY <3>1, <3>2, <1>t DEF ImageSize, HeaderSize
    <3> QED BY <2>1, <1>4, <3>1, <3>2, <3>3, <3>4 DEF OwnerWrites
  <2>2. CASE owner # p
      BY <2>2, <1>4, ProcAssumption DEF OwnerWrites
  <2> QED BY <2>1, <2>2
<1>7. ASSUME NEW q \in Procs
      PROVE  CallOK(q)' /\ Follows(q)' /\ ReturnsSaved(q)' /\ Accepts(q)'
  <2>1. CASE q = p
    <3>1. phase = "body" => pos[p] + n \in HeaderSize .. ImageSize(key[p])
        BY <1>t DEF ImageSize, HeaderSize
    <3> QED BY <2>1, <3>1, <1>t, <1>4
               DEF CallOK, Follows, ReturnsSaved, Accepts, Saving, Loading, Ended
  <2>2. CASE q # p
    <3>1. CallOK(q) /\ ReturnsSaved(q) /\ Accepts(q)
        BY DEF FileInv
    <3>2. CallOK(q)' /\ ReturnsSaved(q)' /\ Accepts(q)'
        BY <2>2, <3>1, <1>3, <1>4 DEF CallOK, ReturnsSaved, Accepts, Saving
    <3>3. Follows(q)'
        BY <2>2, <1>3, <1>4 DEF Follows, Loading
    <3> QED BY <3>2, <3>3
  <2> QED BY <2>1, <2>2
<1> QED BY <1>5, <1>6, <1>7 DEF FileInv
(* What the ::write loop has still to write continues the image.           *)
LEMMA RemainingBytes ==
    ASSUME FileInv, NEW p \in Procs, pc[p] = "body"
    PROVE  /\ Remaining(p) \in Seq(FileBytes)
           /\ pos[p] + Len(Remaining(p)) = ImageSize(key[p])
           /\ \A i \in 1 .. Len(Remaining(p)) : Remaining(p)[i] = ImageByte(key[p], pos[p] + i)
<1> DEFINE k == key[p]
           done == pos[p] - HeaderSize
           left == SizeOf[k] - done
<1>1. k \in Keys /\ pos[p] \in HeaderSize .. ImageSize(k)
    BY DEF FileInv, CallOK, Saving
<1>2. /\ SizeOf[k] \in Nat /\ KeyBytes(k) \in Seq(FileBytes) /\ Len(KeyBytes(k)) = SizeOf[k]
      /\ \A i \in 1 .. SizeOf[k] : KeyBytes(k)[i] = ImageByte(k, HeaderSize + i)
    BY <1>1, ImageBytes
<1>3. /\ done \in Nat /\ left \in Nat /\ done + left = SizeOf[k] /\ pos[p] \in Nat
      /\ done + HeaderSize = pos[p] /\ pos[p] + left = ImageSize(k)
  <2>1. HeaderSize \in Nat /\ pos[p] \in HeaderSize .. HeaderSize + SizeOf[k] /\ SizeOf[k] \in Nat
      BY <1>1, <1>2 DEF ImageSize, HeaderSize
  <2> QED BY <2>1 DEF ImageSize
<1>4. Remaining(p) = ReadAt(KeyBytes(k), done, left)
    BY <1>3 DEF Remaining, ReadAt
<1> HIDE DEF k, done, left
<1>5. /\ Remaining(p) \in Seq(FileBytes) /\ Len(Remaining(p)) = left
      /\ \A i \in 1 .. left : Remaining(p)[i] = KeyBytes(k)[done + i]
  <2>1. done + left <= Len(KeyBytes(k))
      BY <1>2, <1>3
  <2>2. KeyBytes(k) \in Seq(FileBytes) /\ done \in Nat /\ left \in Nat
      BY <1>2, <1>3
  <2>3. Remaining(p) \in Seq(FileBytes) /\ Len(Remaining(p)) = left
      BY <1>4, <2>1, <2>2, ReadAtBytes
  <2>4. \A i \in 1 .. left : Remaining(p)[i] = KeyBytes(k)[done + i]
      BY <1>4, <2>1, <2>2, ReadAtBytes, SMTT(30)
  <2> QED BY <2>3, <2>4
<1>6. ASSUME NEW i \in 1 .. left PROVE KeyBytes(k)[done + i] = ImageByte(k, pos[p] + i)
  <2>1. HeaderSize \in Nat
      BY DEF HeaderSize
  <2>2. done + i \in 1 .. SizeOf[k] /\ HeaderSize + (done + i) = pos[p] + i
      BY <1>3, <2>1
  <2> QED BY <2>2, <1>2
<1> QED BY <1>3, <1>5, <1>6 DEF k

LEMMA SaveFileInv ==
    ASSUME FileInv, UNCHANGED disk, NEW p \in Procs, SaveHeader(p) \/ SaveBody(p) \/ SaveClose(p)
    PROVE  FileInv'
<1>1. ASSUME SaveHeader(p) PROVE FileInv'
  <2>1. PICK n \in 0 .. HeaderSize :
          /\ Put(p, Header(key[p]), n)
          /\ Goto(p, IF n = HeaderSize THEN "body" ELSE "fail")
      BY <1>1 DEF SaveHeader
  <2>2. pc[p] = "header" /\ UNCHANGED <<exists, buf, latest, origin>>
      BY <1>1 DEF SaveHeader
  <2>3. Saving(p) /\ key[p] \in Keys /\ pos[p] = 0
      BY <2>2 DEF FileInv, CallOK, Saving
  <2>4. /\ Header(key[p]) \in Seq(FileBytes) /\ Len(Header(key[p])) = HeaderSize
        /\ SizeOf[key[p]] \in Nat
        /\ \A i \in 1 .. HeaderSize : Header(key[p])[i] = ImageByte(key[p], pos[p] + i)
      BY <2>3, ImageBytes DEF HeaderSize
  <2>5. pos[p] + Len(Header(key[p])) <= ImageSize(key[p])
      BY <2>3, <2>4 DEF ImageSize, HeaderSize
  <2>6. n = HeaderSize => pos[p] + n >= HeaderSize
      BY <2>3 DEF HeaderSize
  <2>7. CASE n = HeaderSize
      BY <2>1, <2>2, <2>3, <2>4, <2>5, <2>6, <2>7, PutFileInv
  <2>8. CASE n # HeaderSize
      BY <2>1, <2>2, <2>3, <2>4, <2>5, <2>8, PutFileInv
  <2> QED BY <2>7, <2>8
<1>2. ASSUME SaveBody(p) PROVE FileInv'
  <2>1. pc[p] = "body" /\ UNCHANGED <<exists, buf, latest, origin>>
      BY <1>2 DEF SaveBody
  <2>2. /\ Remaining(p) \in Seq(FileBytes)
        /\ pos[p] + Len(Remaining(p)) = ImageSize(key[p])
        /\ \A i \in 1 .. Len(Remaining(p)) : Remaining(p)[i] = ImageByte(key[p], pos[p] + i)
      BY <2>1, RemainingBytes
  <2>3. Saving(p) /\ key[p] \in Keys /\ pos[p] \in Nat /\ pos[p] >= HeaderSize
      BY <2>1 DEF FileInv, CallOK, Saving, HeaderSize
  <2>4. ASSUME NEW n \in 1 .. Len(Remaining(p)), Put(p, Remaining(p), n), Goto(p, "body")
        PROVE  FileInv'
    <3>1. /\ n \in 0 .. Len(Remaining(p)) /\ pos[p] + n >= HeaderSize
          /\ pos[p] + Len(Remaining(p)) <= ImageSize(key[p])
        BY <2>2, <2>3 DEF HeaderSize
    <3> QED BY <2>1, <2>2, <2>3, <2>4, <3>1, PutFileInv
  <2>5. ASSUME Goto(p, "fail"), UNCHANGED <<file, pos, intact, owner, seen>>
        PROVE  FileInv'
    <3>1. /\ pc'[p] = "fail" /\ \A q \in Procs \ {p} : pc'[q] = pc[q]
          /\ UNCHANGED <<key, marker>>
        BY <2>5 DEF Goto, FileInv, TypeOK
    <3>2. TypeOK' /\ LoadTypes'
        BY <2>1, <2>5 DEF Goto, FileInv, TypeOK, LoadTypes
    <3>3. ~Saving(p)' /\ CallOK(p)' /\ Follows(p)' /\ ReturnsSaved(p)' /\ Accepts(p)'
        BY <3>1 DEF Saving, CallOK, Follows, Loading, ReturnsSaved, Accepts, Ended
    <3> QED BY <2>1, <2>5, <3>1, <3>2, <3>3, LocalStep
  <2> QED BY <1>2, <2>4, <2>5 DEF SaveBody
<1>3. ASSUME SaveClose(p) PROVE FileInv'
  <2>1. UNCHANGED <<file, exists, buf, latest, origin, owner, seen>>
      BY <1>3 DEF SaveClose
  <2>2. LoadTypes'
      BY <2>1 DEF FileInv, LoadTypes
  <2>3. ASSUME pc[p] = "body", Remaining(p) = <<>>, End(p, "saved"),
               intact' = (intact \/ owner = p)
        PROVE  FileInv'
    <3>1. pos[p] + 0 = ImageSize(key[p])
        BY <2>3, RemainingBytes
    <3>2. pos[p] \in Nat /\ pos[p] + 0 = pos[p]
        BY DEF FileInv, TypeOK
    <3>3. owner = p => Len(file) = ImageSize(origin)
        BY <2>3, <3>1, <3>2 DEF FileInv, OwnerWrites, Saving
    <3>4. pc'[p] = "saved"
        BY <2>3 DEF End, FileInv, TypeOK
    <3>5. ReturnsSaved(p)' /\ Accepts(p)'
        BY <3>4 DEF ReturnsSaved, Accepts
    <3>6. intact' \in BOOLEAN /\ (intact => intact') /\ (intact' => intact \/ owner = p)
        BY <2>3
    <3> QED BY <2>1, <2>2, <2>3, <3>3, <3>5, <3>6, EndStep DEF Ended
  <2>4. ASSUME End(p, "IoError"), UNCHANGED intact PROVE FileInv'
    <3>1. pc'[p] = "IoError" /\ intact' \in BOOLEAN
        BY <2>4 DEF End, FileInv, TypeOK
    <3>2. ReturnsSaved(p)' /\ Accepts(p)'
        BY <3>1 DEF ReturnsSaved, Accepts
    <3> QED BY <2>1, <2>2, <2>4, <3>1, <3>2, EndStep DEF Ended
  <2> QED BY <1>3, <2>3, <2>4 DEF SaveClose
<1> QED BY <1>1, <1>2, <1>3
LEMMA LoadOpenFileInv ==
    ASSUME FileInv, UNCHANGED disk, NEW p \in Procs, LoadOpen(p)
    PROVE  FileInv'
<1> DEFINE r == [latest |-> latest, intact |-> intact, fault |-> FALSE, mixed |-> owner = NoProc]
<1>1. r \in SeenRecords
    BY DEF FileInv, TypeOK, SeenRecords
<1>2. /\ UNCHANGED <<file, exists, pos, latest, origin, intact, owner, key, marker>>
      /\ pc' = [pc EXCEPT ![p] = "readHeader"] /\ buf' = [buf EXCEPT ![p] = <<>>]
      /\ seen' = [seen EXCEPT ![p] = r] /\ pc[p] \in Ended
    BY DEF LoadOpen, Goto
<1>3. TypeOK' /\ LoadTypes'
    BY <1>1, <1>2 DEF FileInv, TypeOK, LoadTypes
<1>4. /\ pc'[p] = "readHeader" /\ buf'[p] = <<>> /\ pos'[p] = 0 /\ seen'[p] = r
      /\ \A q \in Procs \ {p} : pc'[q] = pc[q] /\ buf'[q] = buf[q] /\ seen'[q] = seen[q]
    BY <1>2 DEF FileInv, TypeOK, LoadTypes, CallOK
<1>5. ~Saving(p)' /\ CallOK(p)' /\ ReturnsSaved(p)' /\ Accepts(p)'
    BY <1>4 DEF Saving, CallOK, ReturnsSaved, Accepts, Ended
<1>6. Follows(p)'
  <2>1. seen'[p].latest \in {origin, NoKey} /\ (seen'[p].intact => intact)
      BY <1>4 DEF FileInv, OwnerWrites
  <2>2. ~seen'[p].mixed => owner # NoProc
    <3> DEFINE b == owner = NoProc
    <3>1. b \in BOOLEAN /\ seen'[p] = [latest |-> latest, intact |-> intact,
                                       fault |-> FALSE, mixed |-> b]
        BY <1>4
    <3>2. owner = NoProc => b
        OBVIOUS
    <3> HIDE DEF b
    <3>3. seen'[p].mixed = b
        BY <3>1
    <3> QED BY <3>2, <3>3
  <2> QED BY <1>2, <1>4, <2>1, <2>2 DEF Follows, FileInv, TypeOK
<1> QED BY <1>2, <1>3, <1>4, <1>5, <1>6, LocalStep

(* A call of p ends without a key: an error of open or read, or a death.   *)
LEMMA AbortFileInv ==
    ASSUME FileInv, UNCHANGED disk, NEW p \in Procs, OpenFails(p) \/ LoadFault(p) \/ Die(p)
    PROVE  FileInv'
<1>1. /\ UNCHANGED <<file, exists, latest, origin, intact, owner>>
      /\ buf' = [buf EXCEPT ![p] = <<>>]
    BY DEF OpenFails, LoadFault, Die
<1>2. LoadTypes' /\ \A q \in Procs \ {p} : buf'[q] = buf[q] /\ seen'[q] = seen[q]
  <2>1. buf' \in [Procs -> Seq(FileBytes)] /\ \A q \in Procs \ {p} : buf'[q] = buf[q]
      BY <1>1 DEF FileInv, LoadTypes
  <2>2. seen' \in [Procs -> SeenRecords] /\ \A q \in Procs \ {p} : seen'[q] = seen[q]
    <3>1. seen \in [Procs -> SeenRecords] /\ NothingSeen \in SeenRecords
        BY DEF FileInv, LoadTypes, SeenRecords, NothingSeen
    <3>2. CASE LoadFault(p)
        BY <3>1, <3>2 DEF LoadFault, SeenRecords
    <3>3. CASE OpenFails(p) \/ Die(p)
      <4>1. seen' = [seen EXCEPT ![p] = NothingSeen]
          BY <3>3 DEF OpenFails, Die
      <4> QED BY <3>1, <4>1
    <3> QED BY <3>2, <3>3
  <2> QED BY <2>1, <2>2 DEF LoadTypes
<1>3. PICK outcome \in {"IoError", "FormatError", "idle"} :
        End(p, outcome) /\ (outcome = "FormatError" => seen'[p].fault)
    BY DEF OpenFails, LoadFault, Die, FileInv, LoadTypes, SeenRecords
<1>4. pc'[p] = outcome
    BY <1>3 DEF End, FileInv, TypeOK
<1>5. ReturnsSaved(p)' /\ Accepts(p)'
    BY <1>3, <1>4 DEF ReturnsSaved, Accepts
<1>6. outcome \in Ended /\ intact' \in BOOLEAN
    BY <1>1 DEF Ended, FileInv, TypeOK
<1> QED BY <1>1, <1>2, <1>3, <1>5, <1>6, EndStep

LEMMA LoadHeaderFileInv ==
    ASSUME FileInv, UNCHANGED disk, NEW p \in Procs, LoadHeader(p)
    PROVE  FileInv'
<1> DEFINE a == Available(file, 0, HeaderSize)
           h == ReadAt(file, 0, a)
           good == Len(h) = HeaderSize /\ h[1] = VersionByte /\ is_valid_size_marker(h[2])
<1>1. /\ pc[p] = "readHeader" /\ pos[p] = 0 /\ buf[p] = <<>>
      /\ UNCHANGED <<file, exists, buf, latest, origin, intact, owner, seen>>
    BY DEF LoadHeader, FileInv, CallOK, Ended
<1>2. file \in Seq(FileBytes) /\ intact' \in BOOLEAN
    BY <1>1 DEF FileInv, TypeOK, FileBytes
<1>3. LoadTypes'
    BY <1>1 DEF FileInv, LoadTypes
<1>4. a \in 0 .. HeaderSize /\ a <= Len(file) /\ (HeaderSize <= Len(file) => a = HeaderSize)
  <2>1. HeaderSize \in Nat /\ 0 \in Nat
      BY DEF HeaderSize
  <2>2. /\ a \in 0 .. HeaderSize /\ (0 + a <= Len(file) \/ a = 0)
        /\ 0 + HeaderSize <= Len(file) => a = HeaderSize
      BY <2>1, <1>2, AvailableBytes
  <2> HIDE DEF a
  <2> QED BY <2>1, <2>2, <1>2
<1>5. Len(h) = a /\ \A i \in 1 .. a : h[i] = file[i]
  <2>1. a \in 0 .. Len(file)
      BY <1>2, <1>4 DEF HeaderSize
  <2> QED BY <2>1, <1>2, FirstBytes DEF ReadAt
<1>g. IF good THEN /\ pc' = [pc EXCEPT ![p] = "readBody"]
                   /\ marker' = [marker EXCEPT ![p] = h[2][2]]
                   /\ pos' = [pos EXCEPT ![p] = HeaderSize]
                   /\ UNCHANGED key
              ELSE End(p, "FormatError")
    BY DEF LoadHeader
<1>6. ASSUME ~seen[p].mixed
      PROVE  /\ owner \in Procs /\ seen[p].latest \in {origin, NoKey} /\ (seen[p].intact => intact)
             /\ origin \in Keys /\ SizeOf[origin] \in Nat \ {0}
             /\ \A i \in 1 .. a : h[i] = ImageByte(origin, i)
  <2>1. owner \in Procs /\ seen[p].latest \in {origin, NoKey} /\ (seen[p].intact => intact)
      BY <1>1, <1>6 DEF FileInv, Follows, Loading
  <2>2. origin \in Keys /\ \A i \in 1 .. Len(file) : file[i] = ImageByte(origin, i)
      BY <2>1 DEF FileInv, OwnerWrites
  <2>3. \A i \in 1 .. a : i \in 1 .. Len(file)
      BY <1>2, <1>4 DEF HeaderSize
  <2> QED BY <2>1, <2>2, <2>3, <1>5, SizeAssumption
<1> HIDE DEF a, h
<1>7. CASE good
  <2>1. PICK k \in Keys : h[2] = SizeByte(SizeOf[k])
      BY <1>7 DEF is_valid_size_marker
  <2>2. h[2][2] = SizeOf[k] /\ SizeOf[k] \in Nat
      BY <2>1, SizeAssumption DEF SizeByte
  <2>3. /\ pc'[p] = "readBody" /\ marker'[p] = SizeOf[k] /\ pos'[p] = HeaderSize
        /\ \A q \in Procs \ {p} : pc'[q] = pc[q] /\ marker'[q] = marker[q] /\ pos'[q] = pos[q]
        /\ key' = key
      BY <1>7, <1>g, <2>2 DEF FileInv, TypeOK
  <2>4. TypeOK'
    <3>1. pos' \in [Procs -> Nat] /\ marker' \in [Procs -> Nat]
      <4>1. /\ marker' = [marker EXCEPT ![p] = SizeOf[k]]
            /\ pos' = [pos EXCEPT ![p] = HeaderSize]
          BY <1>7, <1>g, <2>2
      <4>2. HeaderSize \in Nat
          BY DEF HeaderSize
      <4> QED BY <4>1, <4>2, <2>2 DEF FileInv, TypeOK
    <3> QED BY <1>7, <1>1, <1>g, <3>1 DEF FileInv, TypeOK
  <2>5. ~Saving(p)' /\ CallOK(p)' /\ ReturnsSaved(p)' /\ Accepts(p)'
      BY <1>1, <2>2, <2>3 DEF Saving, CallOK, ReturnsSaved, Accepts, Ended
  <2>6. Follows(p)'
    <3>1. SUFFICES ASSUME ~seen[p].mixed
                   PROVE  /\ owner \in Procs /\ seen[p].latest \in {origin, NoKey}
                          /\ seen[p].intact => intact
                          /\ SizeOf[k] = SizeOf[origin]
        BY <1>1, <2>3 DEF Follows, HeaderSize
    <3>2. h[2] = ImageByte(origin, 2)
        BY <3>1, <1>5, <1>6, <1>7 DEF HeaderSize
    <3>3. h[2] = SizeByte(SizeOf[origin])
        BY <3>2 DEF ImageByte
    <3>4. h[2][2] = SizeOf[origin]
        BY <3>3 DEF SizeByte
    <3> QED BY <3>1, <3>4, <2>2, <1>6
  <2> QED BY <1>1, <2>3, <2>4, <2>5, <2>6, <1>3, LocalStep
<1>8. CASE ~good
  <2>1. End(p, "FormatError") /\ pc'[p] = "FormatError"
      BY <1>8, <1>g DEF End, FileInv, TypeOK
  <2>2. Accepts(p)'
    <3>1. SUFFICES ASSUME ~seen[p].mixed, seen[p].intact PROVE FALSE
        BY <1>1, <2>1 DEF Accepts
    <3>2. Len(file) = ImageSize(origin)
        BY <3>1, <1>6 DEF FileInv, OwnerWrites
    <3>3. a = HeaderSize
        BY <3>2, <3>1, <1>4, <1>6 DEF ImageSize, HeaderSize
    <3>4. h[1] = VersionByte /\ h[2] = SizeByte(SizeOf[origin])
        BY <3>1, <3>3, <1>6 DEF HeaderSize, ImageByte
    <3>5. is_valid_size_marker(h[2])
        BY <3>1, <3>4, <1>6 DEF is_valid_size_marker
    <3> QED BY <3>3, <3>4, <3>5, <1>5, <1>8
  <2>3. ReturnsSaved(p)'
      BY <2>1 DEF ReturnsSaved
  <2> QED BY <1>1, <1>2, <1>3, <2>1, <2>2, <2>3, EndStep DEF Ended
<1> QED BY <1>7, <1>8
LEMMA LoadBodyFileInv ==
    ASSUME FileInv, UNCHANGED disk, NEW p \in Procs, LoadBody(p)
    PROVE  FileInv'
<1> DEFINE wanted == marker[p] - Len(buf[p])
           most == Available(file, pos[p], wanted)
<1>1. /\ pc[p] = "readBody" /\ Len(buf[p]) < marker[p]
      /\ UNCHANGED <<file, exists, latest, origin, intact, owner, seen>>
    BY DEF LoadBody
<1>2. /\ file \in Seq(FileBytes) /\ intact' \in BOOLEAN /\ buf \in [Procs -> Seq(FileBytes)]
      /\ buf[p] \in Seq(FileBytes) /\ pos[p] \in Nat /\ marker[p] \in Nat
  <2>1. file \in Seq(FileBytes) /\ intact' \in BOOLEAN
      BY <1>1 DEF FileInv, TypeOK, FileBytes
  <2>2. pos[p] \in Nat /\ marker[p] \in Nat
      BY DEF FileInv, TypeOK
  <2> QED BY <2>1, <2>2 DEF FileInv, LoadTypes
<1>3. wanted \in Nat /\ wanted > 0 /\ Len(buf[p]) + wanted = marker[p] /\ Len(buf[p]) \in Nat
    BY <1>1, <1>2
<1>4. \/ \E n \in 1 .. most :
           /\ buf' = [buf EXCEPT ![p] = @ \o ReadAt(file, pos[p], n)]
           /\ pos' = [pos EXCEPT ![p] = @ + n]
           /\ Goto(p, "readBody")
      \/ most = 0 /\ AtEof(p)
    BY DEF LoadBody
<1> HIDE DEF wanted
<1>5. /\ most \in 0 .. wanted /\ (most > 0 => pos[p] + most <= Len(file))
      /\ pos[p] < Len(file) => most > 0
  <2>1. /\ most \in 0 .. wanted /\ (pos[p] + most <= Len(file) \/ most = 0)
        /\ pos[p] < Len(file) /\ wanted > 0 => most > 0
      BY <1>2, <1>3, AvailableBytes
  <2> HIDE DEF most
  <2> QED BY <2>1, <1>2, <1>3
<1> HIDE DEF most
<1>6. ASSUME ~seen[p].mixed
      PROVE  /\ owner \in Procs /\ seen[p].latest \in {origin, NoKey} /\ (seen[p].intact => intact)
             /\ origin \in Keys /\ SizeOf[origin] \in Nat \ {0}
             /\ marker[p] = SizeOf[origin] /\ pos[p] = HeaderSize + Len(buf[p])
             /\ \A i \in 1 .. Len(buf[p]) : buf[p][i] = <<origin, i>>
             /\ \A i \in 1 .. Len(file) : file[i] = ImageByte(origin, i)
  <2>1. Follows(p) /\ OwnerWrites
      BY DEF FileInv
  <2>2. owner \in Procs
      BY <1>1, <1>6, <2>1 DEF Follows, Loading
  <2>3. origin \in Keys /\ SizeOf[origin] \in Nat \ {0}
      BY <2>1, <2>2, SizeAssumption DEF OwnerWrites
  <2> QED BY <1>1, <1>6, <2>1, <2>2, <2>3 DEF Follows, OwnerWrites, Loading
<1>7. ASSUME NEW n \in 1 .. most,
             buf' = [buf EXCEPT ![p] = @ \o ReadAt(file, pos[p], n)],
             pos' = [pos EXCEPT ![p] = @ + n], Goto(p, "readBody")
      PROVE  FileInv'
  <2> DEFINE t == ReadAt(file, pos[p], n)
  <2>1. n \in Nat /\ pos[p] + n <= Len(file) /\ n <= wanted
      BY <1>2, <1>3, <1>5
  <2>2. t \in Seq(FileBytes) /\ Len(t) = n /\ \A i \in 1 .. n : t[i] = file[pos[p] + i]
      BY <1>2, <2>1, ReadAtBytes
  <2>3. buf' = [buf EXCEPT ![p] = buf[p] \o t]
      BY <1>7
  <2> HIDE DEF t
  <2>4. /\ buf[p] \o t \in Seq(FileBytes)
        /\ Len(buf[p] \o t) = Len(buf[p]) + n
        /\ \A i \in 1 .. Len(buf[p]) + n :
             (buf[p] \o t)[i] = IF i <= Len(buf[p]) THEN buf[p][i] ELSE t[i - Len(buf[p])]
      BY <1>2, <2>2, ConcatProperties
  <2>5. /\ buf' \in [Procs -> Seq(FileBytes)] /\ buf'[p] = buf[p] \o t
        /\ \A q \in Procs \ {p} : buf'[q] = buf[q]
      BY <1>2, <2>3, <2>4
  <2>6. /\ pc' = pc /\ key' = key /\ marker' = marker
        /\ pos'[p] = pos[p] + n /\ pos' \in [Procs -> Nat]
        /\ \A q \in Procs \ {p} : pos'[q] = pos[q]
      BY <1>7, <1>1, <1>2, <2>1 DEF Goto, FileInv, TypeOK
  <2>7. TypeOK' /\ LoadTypes'
      BY <1>1, <2>5, <2>6 DEF FileInv, TypeOK, LoadTypes
  <2>8. ~Saving(p)' /\ CallOK(p)' /\ ReturnsSaved(p)' /\ Accepts(p)'
    <3>1. Len(buf[p]) + n <= marker[p]
        BY <2>1, <1>2, <1>3
    <3> QED BY <1>1, <2>4, <2>5, <2>6, <3>1 DEF Saving, CallOK, ReturnsSaved, Accepts, Ended
  <2>9. Follows(p)'
    <3>1. SUFFICES ASSUME ~seen[p].mixed
                   PROVE  /\ owner \in Procs /\ seen[p].latest \in {origin, NoKey}
                          /\ seen[p].intact => intact
                          /\ marker[p] = SizeOf[origin]
                          /\ pos[p] + n = HeaderSize + (Len(buf[p]) + n)
                          /\ \A i \in 1 .. Len(buf[p]) + n : (buf[p] \o t)[i] = <<origin, i>>
        BY <1>1, <2>4, <2>5, <2>6 DEF Follows
    <3>2. pos[p] = HeaderSize + Len(buf[p]) /\ HeaderSize = 2
        BY <3>1, <1>6 DEF HeaderSize
    <3>3. ASSUME NEW i \in 1 .. Len(buf[p]) + n PROVE (buf[p] \o t)[i] = <<origin, i>>
      <4>1. CASE i <= Len(buf[p])
        <5>1. i \in 1 .. Len(buf[p])
            BY <4>1, <1>3
        <5> QED BY <5>1, <4>1, <2>4, <3>1, <1>6
      <4>2. CASE ~(i <= Len(buf[p]))
        <5> DEFINE j == i - Len(buf[p])
        <5>1. j \in 1 .. n /\ pos[p] + j = i + 2 /\ pos[p] + j \in 1 .. Len(file)
            BY <4>2, <1>2, <1>3, <2>1, <3>2
        <5>2. (buf[p] \o t)[i] = t[j]
            BY <4>2, <2>4
        <5>3. t[j] = file[pos[p] + j]
            BY <5>1, <2>2
        <5>4. file[pos[p] + j] = ImageByte(origin, i + 2)
            BY <5>1, <3>1, <1>6
        <5>5. i + 2 # 1 /\ i + 2 # 2 /\ (i + 2) - HeaderSize = i
            BY <3>2, <1>3, <2>1
        <5>6. ImageByte(origin, i + 2) = <<origin, i>>
            BY <5>5 DEF ImageByte
        <5> QED BY <5>2, <5>3, <5>4, <5>6
      <4> QED BY <4>1, <4>2
    <3>4. pos[p] + n = HeaderSize + (Len(buf[p]) + n)
        BY <3>2, <1>2, <1>3, <2>1
    <3> QED BY <3>1, <3>3, <3>4, <1>6
  <2> QED BY <1>1, <2>5, <2>6, <2>7, <2>8, <2>9, LocalStep
<1>8. ASSUME most = 0, AtEof(p) PROVE FileInv'
  <2>1. /\ End(p, "FormatError") /\ pc'[p] = "FormatError"
        /\ LoadTypes' /\ \A q \in Procs \ {p} : buf'[q] = buf[q]
      BY <1>8, <1>1 DEF AtEof, End, FileInv, TypeOK, LoadTypes
  <2>2. Accepts(p)'
    <3>1. SUFFICES ASSUME ~seen[p].mixed, seen[p].intact PROVE FALSE
        BY <1>1, <2>1 DEF Accepts
    <3>2. Len(file) = HeaderSize + SizeOf[origin] /\ marker[p] = SizeOf[origin]
          /\ pos[p] = HeaderSize + Len(buf[p]) /\ HeaderSize = 2
        BY <3>1, <1>6 DEF FileInv, OwnerWrites, ImageSize, HeaderSize
    <3>3. pos[p] < Len(file)
        BY <3>2, <1>1, <1>2, <1>3
    <3> QED BY <3>3, <1>5, <1>8
  <2>3. ReturnsSaved(p)'
      BY <2>1 DEF ReturnsSaved
  <2> QED BY <1>1, <1>2, <2>1, <2>2, <2>3, EndStep DEF Ended
<1> QED BY <1>4, <1>7, <1>8

LEMMA LoadReturnFileInv ==
    ASSUME FileInv, UNCHANGED disk, NEW p \in Procs, LoadReturn(p)
    PROVE  FileInv'
<1>1. /\ pc[p] = "readBody" /\ Len(buf[p]) = marker[p] /\ End(p, "loaded")
      /\ UNCHANGED <<file, exists, buf, latest, origin, intact, owner, seen>>
    BY DEF LoadReturn
<1>2. LoadTypes' /\ pc'[p] = "loaded" /\ buf[p] \in Seq(FileBytes) /\ intact' \in BOOLEAN
    BY <1>1 DEF End, FileInv, TypeOK, LoadTypes
<1>3. ReturnsSaved(p)'
  <2>1. SUFFICES ASSUME ~seen[p].mixed
                 PROVE  /\ origin \in Keys /\ buf[p] = KeyBytes(origin)
                        /\ seen[p].latest \in {origin, NoKey}
      BY <1>1 DEF ReturnsSaved
  <2>0. origin \in Keys /\ seen[p].latest \in {origin, NoKey}
      BY <1>1, <2>1 DEF FileInv, Follows, Loading, OwnerWrites
  <2>2. /\ Len(buf[p]) = SizeOf[origin]
        /\ \A i \in 1 .. Len(buf[p]) : buf[p][i] = <<origin, i>>
      BY <1>1, <2>1 DEF FileInv, Follows, Loading
  <2>3. buf[p] = [i \in 1 .. Len(buf[p]) |-> buf[p][i]]
      BY <1>2
  <2> QED BY <2>0, <2>2, <2>3 DEF KeyBytes
<1>4. Accepts(p)'
    BY <1>2 DEF Accepts
<1> QED BY <1>1, <1>2, <1>3, <1>4, EndStep DEF Ended

(* The kernel writes back a prefix of what one save wrote.                 *)
LEMMA FlushIInv == ASSUME IInv, Flush PROVE IInv'
<1>1. PICK f \in Prefixes(file) : disk' = Disk(f)
    BY DEF Flush
<1>2. file \in Seq(FileBytes)
    BY DEF IInv, FileInv, TypeOK
<1>3. f \in Seq(FileBytes) /\ Len(f) <= Len(file) /\ \A i \in 1 .. Len(f) : f[i] = file[i]
    BY <1>2, PrefixBytes
<1>4. /\ disk'.file = f /\ disk'.origin = origin /\ disk'.owner = owner
      /\ disk' \in [file : Seq(FileBytes), exists : BOOLEAN, origin : Keys \cup {NoKey},
                    owner : Procs \cup {NoProc}]
    BY <1>1, <1>3 DEF Disk, IInv, FileInv, TypeOK
<1>5. UNCHANGED <<file, exists, pc, key, pos, marker, buf, latest, origin, intact, owner, seen>>
    BY DEF Flush
<1>6. TypeOK'
    BY <1>4, <1>5 DEF IInv, FileInv, TypeOK
<1>7. LoadTypes' /\ OwnerWrites'
    BY <1>5 DEF IInv, FileInv, LoadTypes, OwnerWrites, Saving
<1>8. \A p \in Procs : CallOK(p)' /\ Follows(p)' /\ ReturnsSaved(p)' /\ Accepts(p)'
    BY <1>5 DEF IInv, FileInv, CallOK, Follows, ReturnsSaved, Accepts, Saving, Loading
<1>9. DiskInv'
  <2>1. SUFFICES ASSUME owner \in Procs
                 PROVE  /\ origin \in Keys /\ Len(f) <= ImageSize(origin)
                        /\ \A i \in 1 .. Len(f) : f[i] = ImageByte(origin, i)
      BY <1>4 DEF DiskInv
  <2>2. /\ origin \in Keys /\ Len(file) <= ImageSize(origin) /\ ImageSize(origin) \in Nat
        /\ \A i \in 1 .. Len(file) : file[i] = ImageByte(origin, i)
      BY <2>1, SizeAssumption DEF IInv, FileInv, OwnerWrites, ImageSize, HeaderSize
  <2>3. \A i \in 1 .. Len(f) : i \in 1 .. Len(file)
      BY <1>2, <1>3
  <2>4. Len(f) <= ImageSize(origin)
      BY <1>2, <1>3, <2>2
  <2> QED BY <1>3, <2>2, <2>3, <2>4
<1> QED BY <1>6, <1>7, <1>8, <1>9 DEF IInv, FileInv

(* The file on the disk comes back, with whose writes it is.               *)
LEMMA PowerFailureIInv == ASSUME IInv, PowerFailure PROVE IInv'
<1>1. /\ file' = disk.file /\ origin' = disk.origin /\ owner' = disk.owner
      /\ latest' = NoKey /\ ~intact' /\ disk' = disk
    BY DEF PowerFailure
<1>2. /\ disk.file \in Seq(FileBytes) /\ disk.exists \in BOOLEAN
      /\ disk.origin \in Keys \cup {NoKey} /\ disk.owner \in Procs \cup {NoProc}
    BY DEF IInv, FileInv, TypeOK
<1>3. TypeOK'
    BY <1>2 DEF PowerFailure, IInv, FileInv, TypeOK, Ended
<1>4. LoadTypes'
    BY DEF PowerFailure, LoadTypes, SeenRecords, NothingSeen
<1>5. OwnerWrites'
  <2>1. disk.owner \in Procs => ~Saving(disk.owner)'
      BY DEF PowerFailure, Saving
  <2> QED BY <1>1, <2>1 DEF IInv, DiskInv, OwnerWrites
<1>6. \A p \in Procs : CallOK(p)' /\ Follows(p)' /\ ReturnsSaved(p)' /\ Accepts(p)'
    BY DEF PowerFailure, CallOK, Follows, ReturnsSaved, Accepts, Saving, Loading
<1>7. DiskInv'
    BY <1>1 DEF IInv, DiskInv
<1> QED BY <1>3, <1>4, <1>5, <1>6, <1>7 DEF IInv, FileInv

LEMMA NextIInv == IInv /\ [Next]_vars => IInv'
<1> SUFFICES ASSUME IInv, [Next]_vars PROVE IInv'
    OBVIOUS
<1>0. ASSUME UNCHANGED disk, FileInv' PROVE IInv'
    BY <1>0 DEF IInv, DiskInv
<1>1. ASSUME NEW p \in Procs, NEW k \in Keys, SaveOpen(p, k), UNCHANGED disk PROVE IInv'
    BY <1>1, <1>0, SaveOpenFileInv DEF IInv
<1>2. ASSUME NEW p \in Procs, OpenFails(p) \/ LoadFault(p) \/ Die(p), UNCHANGED disk PROVE IInv'
    BY <1>2, <1>0, AbortFileInv DEF IInv
<1>3. ASSUME NEW p \in Procs, LoadOpen(p), UNCHANGED disk PROVE IInv'
    BY <1>3, <1>0, LoadOpenFileInv DEF IInv
<1>4. ASSUME NEW p \in Procs, Step(p) PROVE IInv'
    BY <1>4, <1>0, SaveFileInv, LoadHeaderFileInv, LoadBodyFileInv, LoadReturnFileInv
       DEF Step, IInv
<1>5. CASE Flush
    BY <1>5, FlushIInv
<1>6. CASE PowerFailure
    BY <1>6, PowerFailureIInv
<1>7. CASE UNCHANGED vars
  <2>1. FileInv' /\ UNCHANGED disk
      BY <1>7 DEF vars, IInv, FileInv, TypeOK, LoadTypes, OwnerWrites, CallOK, Follows,
                  ReturnsSaved, Accepts, Saving, Loading
  <2> QED BY <2>1, <1>0
<1> QED BY <1>1, <1>2, <1>3, <1>4, <1>5, <1>6, <1>7 DEF Next

(* The key file on any path, used by any number of processes: while the    *)
(* writes of one save are in it, it is a prefix of what that save of       *)
(* save_to_file writes, and an undisturbed load has read from that; so is  *)
(* what the disk holds and a power failure brings back.                    *)
THEOREM Invariance == Spec => []IInv
BY InitIInv, NextIInv, PTL DEF Spec

(* A load_from_file that no save overlaps returns the key of one save,     *)
(* whole, whatever short writes, short reads, deaths and power failures    *)
(* went before, for every key size; the key of the last save of the path   *)
(* unless the machine lost power since that save opened the file.          *)
THEOREM LoadsReturnSavedKey == Spec => []LoadReturnsSavedKey
<1>1. IInv => LoadReturnsSavedKey
    BY DEF IInv, FileInv, ReturnsSaved, LoadReturnsSavedKey
<1> QED BY <1>1, Invariance, PTL

(* load_from_file accepts every file that a completed save_to_file left    *)
(* and nothing disturbed since: FormatError needs a failed read, another   *)
(* save, or a save that did not complete.                                  *)
THEOREM SavedFilesAccepted == Spec => []SavedKeyLoads
<1>1. IInv => SavedKeyLoads
    BY DEF IInv, FileInv, Accepts, SavedKeyLoads
<1> QED BY <1>1, Invariance, PTL

-----------------------------------------------------------------------------
(* Loads that saves overlap.                                               *)

(* Every byte behind the header of a file is a byte of a key at its place. *)
InPlace(f) == \A i \in 1 .. Len(f) : i > HeaderSize => f[i] \in Placed(i - HeaderSize)

(* A load of p has read from the start of the key on.                      *)
LoadPlaced(p) ==
    /\ pc[p] = "readBody" =>
         pos[p] = HeaderSize + Len(buf[p]) /\ marker[p] \in {SizeOf[k] : k \in Keys}
    /\ pc[p] = "loaded" => Len(buf[p]) \in {SizeOf[k] : k \in Keys}
    /\ pc[p] \in {"readBody", "loaded"} => \A i \in 1 .. Len(buf[p]) : buf[p][i] \in Placed(i)

PlaceInv == InPlace(file) /\ InPlace(disk.file) /\ \A p \in Procs : LoadPlaced(p)

(* A write that continues the image of a key, at any offset of any file.   *)
LEMMA WriteInPlace ==
    ASSUME NEW f \in Seq(FileBytes), InPlace(f), NEW k \in Keys, NEW at \in Nat,
           NEW s \in Seq(FileBytes), at + Len(s) <= ImageSize(k),
           \A i \in 1 .. Len(s) : s[i] = ImageByte(k, at + i),
           NEW g, g = WriteAt(f, at, s)
    PROVE  InPlace(g)
<1> DEFINE end == at + Len(s)
           n == IF Len(f) > end THEN Len(f) ELSE end
<1>1. Len(f) \in Nat /\ Len(s) \in Nat /\ end \in Nat /\ n \in Nat /\ SizeOf[k] \in Nat
    BY SizeAssumption
<1>2. g = [i \in 1 .. n |-> IF i > at /\ i <= end THEN s[i - at]
                             ELSE IF i <= Len(f) THEN f[i] ELSE HoleByte]
    BY DEF WriteAt
<1> HIDE DEF n
<1>3. Len(g) = n
    BY <1>1, <1>2
<1>4. ASSUME NEW i \in 1 .. n, i > HeaderSize PROVE g[i] \in Placed(i - HeaderSize)
  <2>1. CASE i > at /\ i <= end
    <3>1. i - at \in 1 .. Len(s) /\ at + (i - at) = i
        BY <2>1, <1>1
    <3>2. g[i] = s[i - at]
        BY <1>2, <2>1
    <3>3. s[i - at] = ImageByte(k, i)
        BY <3>1
    <3>4. i # 1 /\ i # 2 /\ i - HeaderSize <= SizeOf[k]
        BY <1>1, <1>4, <2>1 DEF HeaderSize, ImageSize
    <3>5. g[i] = <<k, i - HeaderSize>>
        BY <3>2, <3>3, <3>4 DEF ImageByte
    <3> QED BY <3>4, <3>5 DEF Placed
  <2>2. CASE ~(i > at /\ i <= end) /\ i <= Len(f)
    <3>1. g[i] = f[i] /\ i \in 1 .. Len(f)
        BY <1>1, <1>2, <2>2
    <3> QED BY <3>1, <1>4 DEF InPlace
  <2>3. CASE ~(i > at /\ i <= end) /\ ~(i <= Len(f))
    <3>1. g[i] = HoleByte
        BY <1>2, <2>3
    <3> QED BY <3>1 DEF Placed
  <2> QED BY <2>1, <2>2, <2>3
<1> QED BY <1>3, <1>4 DEF InPlace

(* A ::write of a save, short or not.                                      *)
LEMMA PutInPlace ==
    ASSUME FileInv, InPlace(file), NEW p \in Procs, key[p] \in Keys,
           NEW s \in Seq(FileBytes), NEW n \in 0 .. Len(s), Put(p, s, n),
           pos[p] + Len(s) <= ImageSize(key[p]),
           \A i \in 1 .. Len(s) : s[i] = ImageByte(key[p], pos[p] + i)
    PROVE  InPlace(file')
<1> DEFINE t == SubSeq(s, 1, n)
<1>1. t \in Seq(FileBytes) /\ Len(t) = n /\ \A i \in 1 .. n : t[i] = s[i]
    BY FirstBytes
<1>2. /\ file \in Seq(FileBytes) /\ pos[p] \in Nat /\ n \in Nat /\ Len(s) \in Nat
      /\ ImageSize(key[p]) \in Nat
    BY SizeAssumption DEF FileInv, TypeOK, ImageSize, HeaderSize
<1>3. file' = WriteAt(file, pos[p], t)
    BY DEF Put
<1> HIDE DEF t
<1>4. pos[p] + Len(t) <= ImageSize(key[p])
    BY <1>1, <1>2
<1>5. \A i \in 1 .. Len(t) : t[i] = ImageByte(key[p], pos[p] + i)
    BY <1>1, <1>2
<1> QED BY <1>1, <1>2, <1>3, <1>4, <1>5, WriteInPlace

(* No step puts a byte of a key at another place of the file or the disk.  *)
LEMMA NextFilePlaced ==
    ASSUME IInv, InPlace(file), InPlace(disk.file), Next
    PROVE  InPlace(file') /\ InPlace(disk'.file)
<1>f. FileInv
    BY DEF IInv
<1>1. ASSUME NEW p \in Procs, NEW k \in Keys, SaveOpen(p, k) PROVE InPlace(file')
    BY <1>1 DEF SaveOpen, Truncate, InPlace
<1>2. ASSUME NEW p \in Procs, SaveHeader(p) PROVE InPlace(file')
  <2>1. pc[p] = "header" /\ \E n \in 0 .. HeaderSize : Put(p, Header(key[p]), n)
      BY <1>2 DEF SaveHeader
  <2>2. key[p] \in Keys /\ pos[p] = 0
      BY <2>1, <1>f DEF FileInv, CallOK, Saving
  <2>3. /\ Header(key[p]) \in Seq(FileBytes) /\ Len(Header(key[p])) = HeaderSize
        /\ SizeOf[key[p]] \in Nat
        /\ \A i \in 1 .. HeaderSize : Header(key[p])[i] = ImageByte(key[p], pos[p] + i)
      BY <2>2, ImageBytes DEF HeaderSize
  <2>4. pos[p] + Len(Header(key[p])) <= ImageSize(key[p])
      BY <2>2, <2>3 DEF ImageSize, HeaderSize
  <2> QED BY <1>f, <2>1, <2>2, <2>3, <2>4, PutInPlace
<1>3. ASSUME NEW p \in Procs, SaveBody(p) PROVE InPlace(file')
  <2>1. pc[p] = "body" /\ (file' = file \/ \E n \in 1 .. Len(Remaining(p)) : Put(p, Remaining(p), n))
      BY <1>3 DEF SaveBody
  <2>2. /\ Remaining(p) \in Seq(FileBytes)
        /\ pos[p] + Len(Remaining(p)) = ImageSize(key[p])
        /\ \A i \in 1 .. Len(Remaining(p)) : Remaining(p)[i] = ImageByte(key[p], pos[p] + i)
      BY <1>f, <2>1, RemainingBytes
  <2>3. key[p] \in Keys
      BY <2>1, <1>f DEF FileInv, CallOK, Saving
  <2>4. ImageSize(key[p]) \in Nat
      BY <2>3, SizeAssumption DEF ImageSize, HeaderSize
  <2>5. pos[p] + Len(Remaining(p)) <= ImageSize(key[p])
      BY <2>2, <2>4
  <2>6. ASSUME NEW n \in 1 .. Len(Remaining(p)), Put(p, Remaining(p), n) PROVE InPlace(file')
    <3>1. n \in 0 .. Len(Remaining(p))
        BY <2>2
    <3> QED BY <1>f, <2>2, <2>3, <2>5, <2>6, <3>1, PutInPlace
  <2> QED BY <2>1, <2>6
<1>4. ASSUME NEW p \in Procs,
             \/ SaveClose(p) \/ LoadHeader(p) \/ LoadBody(p) \/ LoadReturn(p)
             \/ OpenFails(p) \/ LoadOpen(p) \/ LoadFault(p) \/ Die(p)
      PROVE  InPlace(file')
  <2>1. file' = file
      BY <1>4 DEF SaveClose, LoadHeader, LoadBody, LoadReturn, OpenFails, LoadOpen, LoadFault, Die
  <2> QED BY <2>1
<1>5. CASE Flush
  <2>1. PICK f \in Prefixes(file) : disk' = Disk(f)
      BY <1>5 DEF Flush
  <2>2. file \in Seq(FileBytes) /\ file' = file
      BY <1>5, <1>f DEF Flush, FileInv, TypeOK
  <2>3. f \in Seq(FileBytes) /\ Len(f) <= Len(file) /\ \A i \in 1 .. Len(f) : f[i] = file[i]
      BY <2>2, PrefixBytes
  <2>4. disk'.file = f
      BY <2>1 DEF Disk
  <2>5. \A i \in 1 .. Len(f) : i \in 1 .. Len(file)
      BY <2>2, <2>3
  <2> QED BY <2>2, <2>3, <2>4, <2>5 DEF InPlace
<1>6. CASE PowerFailure
    BY <1>6 DEF PowerFailure
<1>7. \/ Flush \/ PowerFailure
      \/ /\ UNCHANGED disk
         /\ \/ \E p \in Procs, k \in Keys : SaveOpen(p, k)
            \/ \E p \in Procs : SaveHeader(p) \/ SaveBody(p)
            \/ \E p \in Procs : \/ SaveClose(p) \/ LoadHeader(p) \/ LoadBody(p) \/ LoadReturn(p)
                                \/ OpenFails(p) \/ LoadOpen(p) \/ LoadFault(p) \/ Die(p)
    BY DEF Next, Step
<1> QED BY <1>1, <1>2, <1>3, <1>4, <1>5, <1>6, <1>7

(* A step of p disturbs no other load, and its own only by a read.         *)
LEMMA OtherPlaced ==
    ASSUME FileInv, PlaceInv, NEW p \in Procs,
           \A q \in Procs \ {p} : /\ pc'[q] = pc[q] /\ pos'[q] = pos[q]
                                  /\ marker'[q] = marker[q] /\ buf'[q] = buf[q],
           LoadPlaced(p)'
    PROVE  \A q \in Procs : LoadPlaced(q)'
<1> SUFFICES ASSUME NEW q \in Procs \ {p} PROVE LoadPlaced(q)'
    OBVIOUS
<1>1. LoadPlaced(q)
    BY DEF PlaceInv
<1> QED BY <1>1 DEF LoadPlaced

LEMMA LoadHeaderPlaced ==
    ASSUME FileInv, PlaceInv, NEW p \in Procs, LoadHeader(p)
    PROVE  \A q \in Procs : LoadPlaced(q)'
<1> DEFINE h == ReadAt(file, 0, Available(file, 0, HeaderSize))
<1>1. /\ pc[p] = "readHeader" /\ buf' = buf /\ buf[p] = <<>>
      /\ \/ /\ pc' = [pc EXCEPT ![p] = "readBody"]
            /\ marker' = [marker EXCEPT ![p] = h[2][2]]
            /\ pos' = [pos EXCEPT ![p] = HeaderSize]
            /\ is_valid_size_marker(h[2])
         \/ End(p, "FormatError")
    BY DEF LoadHeader, FileInv, CallOK
<1> HIDE DEF h
<1>2. \A q \in Procs \ {p} : pc'[q] = pc[q] /\ pos'[q] = pos[q] /\ marker'[q] = marker[q]
    BY <1>1 DEF End, FileInv, TypeOK
<1>3. LoadPlaced(p)'
  <2>1. CASE End(p, "FormatError")
    <3>1. pc'[p] = "FormatError"
        BY <2>1 DEF End, FileInv, TypeOK
    <3> QED BY <3>1 DEF LoadPlaced
  <2>2. CASE ~End(p, "FormatError")
    <3>1. PICK k \in Keys : h[2] = SizeByte(SizeOf[k])
        BY <1>1, <2>2 DEF is_valid_size_marker
    <3>2. pc'[p] = "readBody" /\ marker'[p] = SizeOf[k] /\ pos'[p] = HeaderSize /\ buf'[p] = <<>>
        BY <1>1, <2>2, <3>1 DEF SizeByte, FileInv, TypeOK
    <3>3. Len(buf'[p]) = 0 /\ HeaderSize + 0 = HeaderSize
        BY <3>2 DEF HeaderSize
    <3> QED BY <3>2, <3>3 DEF LoadPlaced
  <2> QED BY <2>1, <2>2
<1> QED BY <1>1, <1>2, <1>3, OtherPlaced

LEMMA LoadBodyPlaced ==
    ASSUME FileInv, PlaceInv, NEW p \in Procs, LoadBody(p)
    PROVE  \A q \in Procs : LoadPlaced(q)'
<1> DEFINE wanted == marker[p] - Len(buf[p])
           most == Available(file, pos[p], wanted)
<1>1. pc[p] = "readBody" /\ Len(buf[p]) < marker[p]
    BY DEF LoadBody
<1>2. /\ file \in Seq(FileBytes) /\ buf \in [Procs -> Seq(FileBytes)] /\ Len(buf[p]) \in Nat
      /\ buf[p] \in Seq(FileBytes) /\ pos[p] \in Nat /\ marker[p] \in Nat
    BY DEF FileInv, TypeOK, LoadTypes
<1>3. wanted \in Nat
    BY <1>1, <1>2
<1>4. \/ \E n \in 1 .. most :
           /\ buf' = [buf EXCEPT ![p] = @ \o ReadAt(file, pos[p], n)]
           /\ pos' = [pos EXCEPT ![p] = @ + n]
           /\ Goto(p, "readBody")
      \/ AtEof(p)
    BY DEF LoadBody
<1> HIDE DEF wanted
<1>5. most \in 0 .. wanted /\ (pos[p] + most <= Len(file) \/ most = 0)
    BY <1>2, <1>3, AvailableBytes
<1> HIDE DEF most
<1>6. /\ pos[p] = HeaderSize + Len(buf[p]) /\ marker[p] \in {SizeOf[k] : k \in Keys}
      /\ \A i \in 1 .. Len(buf[p]) : buf[p][i] \in Placed(i)
    BY <1>1 DEF PlaceInv, LoadPlaced
<1>7. ASSUME NEW n \in 1 .. most,
             buf' = [buf EXCEPT ![p] = @ \o ReadAt(file, pos[p], n)],
             pos' = [pos EXCEPT ![p] = @ + n], Goto(p, "readBody")
      PROVE  \A q \in Procs : LoadPlaced(q)'
  <2> DEFINE t == ReadAt(file, pos[p], n)
  <2>1. n \in Nat /\ pos[p] + n <= Len(file) /\ Len(file) \in Nat
      BY <1>2, <1>3, <1>5
  <2>2. t \in Seq(FileBytes) /\ Len(t) = n /\ \A i \in 1 .. n : t[i] = file[pos[p] + i]
      BY <1>2, <2>1, ReadAtBytes
  <2>3. buf' = [buf EXCEPT ![p] = buf[p] \o t]
      BY <1>7
  <2> HIDE DEF t
  <2>4. /\ Len(buf[p] \o t) = Len(buf[p]) + n
        /\ \A i \in 1 .. Len(buf[p]) + n :
             (buf[p] \o t)[i] = IF i <= Len(buf[p]) THEN buf[p][i] ELSE t[i - Len(buf[p])]
      BY <1>2, <2>2, ConcatProperties
  <2>5. buf'[p] = buf[p] \o t /\ \A q \in Procs \ {p} : buf'[q] = buf[q]
      BY <1>2, <2>3
  <2>6. /\ pc' = pc /\ marker' = marker /\ pos'[p] = pos[p] + n
        /\ \A q \in Procs \ {p} : pos'[q] = pos[q]
      BY <1>7, <1>1 DEF Goto, FileInv, TypeOK
  <2>7. ASSUME NEW i \in 1 .. Len(buf[p]) + n PROVE (buf[p] \o t)[i] \in Placed(i)
    <3>1. CASE i <= Len(buf[p])
      <4>1. i \in 1 .. Len(buf[p])
          BY <3>1, <1>2
      <4> QED BY <4>1, <3>1, <2>4, <1>6
    <3>2. CASE ~(i <= Len(buf[p]))
      <4> DEFINE j == i - Len(buf[p])
      <4>1. j \in 1 .. n /\ pos[p] + j = i + 2 /\ i + 2 \in 1 .. Len(file)
          BY <3>2, <1>2, <1>6, <2>1 DEF HeaderSize
      <4>2. (buf[p] \o t)[i] = file[i + 2]
          BY <3>2, <4>1, <2>2, <2>4
      <4>3. i + 2 > HeaderSize /\ (i + 2) - HeaderSize = i
          BY <1>2, <2>1 DEF HeaderSize
      <4>4. file[i + 2] \in Placed((i + 2) - HeaderSize)
          BY <4>1, <4>3 DEF PlaceInv, InPlace
      <4> QED BY <4>2, <4>3, <4>4
    <3> QED BY <3>1, <3>2
  <2>8. pos[p] + n = HeaderSize + (Len(buf[p]) + n)
      BY <1>2, <1>6, <2>1 DEF HeaderSize
  <2>9. LoadPlaced(p)'
      BY <1>1, <1>6, <2>4, <2>5, <2>6, <2>7, <2>8 DEF LoadPlaced
  <2> QED BY <2>5, <2>6, <2>9, OtherPlaced
<1>8. ASSUME AtEof(p) PROVE \A q \in Procs : LoadPlaced(q)'
  <2>1. /\ pc'[p] = "FormatError"
        /\ \A q \in Procs \ {p} : /\ pc'[q] = pc[q] /\ pos'[q] = pos[q]
                                  /\ marker'[q] = marker[q] /\ buf'[q] = buf[q]
      BY <1>8, <1>2 DEF AtEof, End, FileInv, TypeOK
  <2>2. LoadPlaced(p)'
      BY <2>1 DEF LoadPlaced
  <2> QED BY <2>1, <2>2, OtherPlaced
<1> QED BY <1>4, <1>7, <1>8

LEMMA LoadReturnPlaced ==
    ASSUME FileInv, PlaceInv, NEW p \in Procs, LoadReturn(p)
    PROVE  \A q \in Procs : LoadPlaced(q)'
<1>1. /\ pc[p] = "readBody" /\ Len(buf[p]) = marker[p] /\ buf' = buf /\ pc'[p] = "loaded"
      /\ \A q \in Procs \ {p} : pc'[q] = pc[q] /\ pos'[q] = pos[q] /\ marker'[q] = marker[q]
    BY DEF LoadReturn, End, FileInv, TypeOK
<1>2. LoadPlaced(p)
    BY DEF PlaceInv
<1>3. LoadPlaced(p)'
    BY <1>1, <1>2 DEF LoadPlaced
<1> QED BY <1>1, <1>3, OtherPlaced

LEMMA NextPlaceInv == IInv /\ PlaceInv /\ [Next]_vars => PlaceInv'
<1> SUFFICES ASSUME IInv, PlaceInv, [Next]_vars PROVE PlaceInv'
    OBVIOUS
<1>f. FileInv
    BY DEF IInv
<1>1. ASSUME NEW p \in Procs,
             \/ \E k \in Keys : SaveOpen(p, k)
             \/ SaveHeader(p) \/ SaveBody(p) \/ SaveClose(p)
             \/ OpenFails(p) \/ LoadOpen(p) \/ LoadFault(p) \/ Die(p)
      PROVE  \A q \in Procs : LoadPlaced(q)'
  <2>1. /\ pc'[p] \notin {"readBody", "loaded"}
        /\ \A q \in Procs \ {p} : /\ pc'[q] = pc[q] /\ pos'[q] = pos[q]
                                  /\ marker'[q] = marker[q] /\ buf'[q] = buf[q]
    <3>1. pc \in [Procs -> Ended \cup {"header", "body", "fail", "readHeader", "readBody"}]
          /\ pos \in [Procs -> Nat] /\ marker \in [Procs -> Nat] /\ buf \in [Procs -> Seq(FileBytes)]
        BY <1>f DEF FileInv, TypeOK, LoadTypes
    <3>2. CASE \E k \in Keys : SaveOpen(p, k)
        BY <3>1, <3>2 DEF SaveOpen
    <3>3. CASE SaveHeader(p)
        BY <3>1, <3>3 DEF SaveHeader, Put, Goto
    <3>4. CASE SaveBody(p)
      <4>1. pc[p] = "body" /\ buf' = buf
          BY <3>4 DEF SaveBody
      <4>2. \/ \E n \in 1 .. Len(Remaining(p)) : Put(p, Remaining(p), n) /\ Goto(p, "body")
            \/ Goto(p, "fail") /\ UNCHANGED pos
          BY <3>4 DEF SaveBody
      <4> QED BY <3>1, <4>1, <4>2 DEF Put, Goto
    <3>5. CASE SaveClose(p)
        BY <3>1, <3>5 DEF SaveClose, End
    <3>6. CASE OpenFails(p) \/ LoadFault(p) \/ Die(p)
        BY <3>1, <3>6 DEF OpenFails, LoadFault, Die, End
    <3>7. CASE LoadOpen(p)
        BY <3>1, <3>7 DEF LoadOpen, Goto
    <3> QED BY <1>1, <3>2, <3>3, <3>4, <3>5, <3>6, <3>7
  <2>2. LoadPlaced(p)'
      BY <2>1 DEF LoadPlaced
  <2> QED BY <1>f, <2>1, <2>2, OtherPlaced
<1>2. ASSUME NEW p \in Procs, LoadHeader(p) \/ LoadBody(p) \/ LoadReturn(p)
      PROVE  \A q \in Procs : LoadPlaced(q)'
    BY <1>f, <1>2, LoadHeaderPlaced, LoadBodyPlaced, LoadReturnPlaced
<1>3. CASE UNCHANGED vars
    BY <1>3 DEF vars, PlaceInv, LoadPlaced, InPlace
<1>4. ASSUME Next PROVE PlaceInv'
  <2>1. InPlace(file') /\ InPlace(disk'.file)
      BY <1>4, NextFilePlaced DEF PlaceInv
  <2>2. \A q \in Procs : LoadPlaced(q)'
    <3>1. CASE Flush
      BY <3>1 DEF Flush, PlaceInv, LoadPlaced
    <3>2. CASE PowerFailure
      BY <3>2 DEF PowerFailure, LoadPlaced
    <3> QED BY <1>1, <1>2, <1>4, <3>1, <3>2 DEF Next, Step
  <2> QED BY <2>1, <2>2 DEF PlaceInv
<1> QED BY <1>3, <1>4

(* Whatever saves, deaths and power failures overlap a load_from_file, for *)
(* any number of processes and keys of any sizes: a key that it returns    *)
(* has the size of a key and only bytes that saves put at those places.    *)
THEOREM OverlappedLoadsInPlace == Spec => []LoadedBytesInPlace
<1>1. Init => PlaceInv
    BY DEF Init, PlaceInv, InPlace, LoadPlaced
<1>2. PlaceInv => LoadedBytesInPlace
    BY DEF PlaceInv, LoadPlaced, LoadedBytesInPlace
<1> QED BY <1>1, <1>2, Invariance, NextPlaceInv, PTL DEF Spec
=============================================================================
