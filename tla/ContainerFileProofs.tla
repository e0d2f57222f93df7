------------------------ MODULE ContainerFileProofs ------------------------
(* Proofs about ContainerFile for any processes, messages, message sizes,  *)
(* width of ct_len and number of saves, with saves and loads of the path   *)
(* interleaved at their system calls.                                      *)
EXTENDS ContainerFile, ArithmeticProofs, SequenceTheorems, TLAPS

(* The cells.  All but the tags are plain, the zeros of a hole included.   *)
Kinds == {"magic", "version", "nonce", "ct", "zero"}
Nonces == {Nonce(n) : n \in Nat}
Values == Formats \cup Nat \cup [nonce : Nonces, at : Nat, byte : Msgs \X Nat]
LengthCells == {EncodeLen(SizeOf[m])[i] : m \in Msgs, i \in 1 .. LenBytes}
Plain == (Kinds \X Values) \cup LengthCells

Saves == [format : Formats, nonce : Nat, msg : Msgs]
Tag(n, m) == compute_tag(Nonce(n), Mask(Nonce(n), m))
TagsOf(W) == {Tag(x.nonce, x.msg) : x \in {y \in W : y.format = "gcm"}}
Cell == Plain \cup TagsOf(Saves)

(* What the save x writes.                                                 *)
Image(x) == serialize(x.format, x.nonce, x.msg)

(* The tags in f were computed by saves that began to write.               *)
TagsWritten(f) == \A i \in 1 .. Len(f) : f[i] \in Plain \cup TagsOf(written)

Types ==
    /\ file \in Seq(Cell) /\ data \in [Procs -> Seq(Cell)]
    /\ pc \in [Procs -> Ended \cup {"write", "read"}]
    /\ format \in [Procs -> Formats \cup {NoFormat}]
    /\ size \in [Procs -> Nat] /\ pos \in [Procs -> Nat]
    /\ result = [p \in Procs |-> result[p]]
    /\ drawn \in Nat /\ sole \in BOOLEAN /\ intact \in Formats \cup {NoFormat}
    /\ written \subseteq Saves
    /\ seen \in [Procs -> Formats \cup {NoFormat}] /\ alone \in [Procs -> BOOLEAN]

(* Where a call can be, by its phase.                                      *)
CallOK(p) ==
    /\ pc[p] \in Ended => pos[p] = 0 /\ data[p] = <<>>
    /\ pc[p] = "write" => pos[p] <= Len(data[p])
    /\ pc[p] \in {"write", "read", "FormatError", "AuthenticationError"} => format[p] \in Formats

(* GcmLoadReturnsSaved of one process.                                     *)
GcmReturnsSaved(p) == pc[p] = "loaded" /\ format[p] = "gcm" => ReturnsSaved(p)

(* The inductive invariant behind GcmLoadReturnsSaved.                     *)
TagInv ==
    /\ Types /\ TagsWritten(file)
    /\ \A p \in Procs : TagsWritten(data[p]) /\ CallOK(p) /\ GcmReturnsSaved(p)

(* The part of it that a power failure brings back.                        *)
DiskInv == disk.file \in Seq(Cell) /\ disk.sole \in BOOLEAN /\ TagsWritten(disk.file)
IInv == TagInv /\ DiskInv

(* The whole or the beginning of what a save writes.                       *)
CutImage(g) ==
    \/ g = <<>>
    \/ \E x \in written : \E n \in 0 .. Len(Image(x)) : g = SubSeq(Image(x), 1, n)

(* While the last save is the only one that wrote, the file is what it     *)
(* wrote of its container, and it has the file to itself; once it          *)
(* completed, the file is the container.                                   *)
SoleWriter ==
    /\ sole =>
         /\ CutImage(file)
         /\ \A p \in Procs : pc[p] = "write" =>
              /\ \A q \in Procs : pc[q] = "write" => q = p
              /\ \E x \in written : x.format = format[p] /\ data[p] = Image(x)
              /\ file = SubSeq(data[p], 1, pos[p])
    /\ intact # NoFormat =>
         /\ sole /\ \A p \in Procs : pc[p] # "write"
         /\ \E x \in written : x.format = intact /\ file = Image(x)

(* A load that no save disturbs reads what the file begins with, and all   *)
(* of the file when it began after a completed save.                       *)
Follows(p) ==
    pc[p] = "read" =>
        /\ alone[p] => /\ sole /\ size[p] <= Len(file) /\ pos[p] <= size[p]
                       /\ data[p] = SubSeq(file, 1, pos[p])
        /\ seen[p] # NoFormat => alone[p] /\ intact = seen[p] /\ size[p] = Len(file)

(* LoadReturnsSaved and SavedContainerLoads of one process.                *)
AloneReturnsSaved(p) == pc[p] = "loaded" /\ alone[p] => ReturnsSaved(p)
Accepts(p) == pc[p] \in {"FormatError", "AuthenticationError"} => seen[p] # format[p]

(* What these need besides, of the file and of the disk.                   *)
DiskCut == disk.sole => CutImage(disk.file)
SoleInv ==
    SoleWriter /\ \A p \in Procs : Follows(p) /\ AloneReturnsSaved(p) /\ Accepts(p)
-----------------------------------------------------------------------------
(* The file operations, on cells.                                          *)
LEMMA ReadAtCells ==
    ASSUME NEW f \in Seq(Cell), NEW at \in Nat, NEW n \in Nat, at + n <= Len(f)
    PROVE  /\ ReadAt(f, at, n) \in Seq(Cell) /\ Len(ReadAt(f, at, n)) = n
           /\ \A i \in 1 .. n : ReadAt(f, at, n)[i] = f[at + i]
<1>1. \A i \in at + 1 .. at + n : f[i] \in Cell
    OBVIOUS
<1>2. /\ SubSeq(f, at + 1, at + n) \in Seq(Cell)
      /\ Len(SubSeq(f, at + 1, at + n)) =
           IF at + 1 <= at + n THEN (at + n) - (at + 1) + 1 ELSE 0
      /\ \A i \in 1 .. (at + n) - (at + 1) + 1 :
           SubSeq(f, at + 1, at + n)[i] = f[(at + 1) + i - 1]
    BY <1>1, SubSeqProperties
<1>3. /\ (at + n) - (at + 1) + 1 = n /\ (n # 0 <=> at + 1 <= at + n)
      /\ \A i \in 1 .. n : (at + 1) + i - 1 = at + i
    OBVIOUS
<1> QED BY <1>2, <1>3 DEF ReadAt

LEMMA FirstCells ==
    ASSUME NEW f \in Seq(Cell), NEW n \in 0 .. Len(f)
    PROVE  /\ SubSeq(f, 1, n) \in Seq(Cell) /\ Len(SubSeq(f, 1, n)) = n
           /\ \A i \in 1 .. n : SubSeq(f, 1, n)[i] = f[i]
<1>1. n \in Nat /\ 0 \in Nat /\ 0 + n <= Len(f)
    OBVIOUS
<1>2. /\ ReadAt(f, 0, n) \in Seq(Cell) /\ Len(ReadAt(f, 0, n)) = n
      /\ \A i \in 1 .. n : ReadAt(f, 0, n)[i] = f[0 + i]
    BY <1>1, ReadAtCells
<1> QED BY <1>2, <1>1 DEF ReadAt

(* Sequences with the same cells are equal.                                *)
LEMMA SameCells ==
    ASSUME NEW f \in Seq(Cell), NEW g \in Seq(Cell), Len(f) = Len(g),
           \A i \in 1 .. Len(f) : f[i] = g[i]
    PROVE  f = g
BY SeqDef

(* Reading on from cell n gives the first cells up to e.                   *)
LEMMA ReadOn ==
    ASSUME NEW f \in Seq(Cell), NEW n \in 0 .. Len(f), NEW e \in n .. Len(f)
    PROVE  SubSeq(f, 1, n) \o ReadAt(f, n, e - n) = SubSeq(f, 1, e)
<1> DEFINE a == SubSeq(f, 1, n)
           b == ReadAt(f, n, e - n)
           c == SubSeq(f, 1, e)
<1>1. n \in Nat /\ e \in Nat /\ e - n \in Nat /\ n + (e - n) = e /\ e \in 0 .. Len(f)
    OBVIOUS
<1>2. a \in Seq(Cell) /\ Len(a) = n /\ \A i \in 1 .. n : a[i] = f[i]
    BY FirstCells
<1>3. b \in Seq(Cell) /\ Len(b) = e - n /\ \A i \in 1 .. e - n : b[i] = f[n + i]
  <2> DEFINE k == e - n
  <2>1. k \in Nat /\ n \in Nat /\ n + k <= Len(f)
      BY <1>1
  <2> HIDE DEF k
  <2>2. /\ ReadAt(f, n, k) \in Seq(Cell) /\ Len(ReadAt(f, n, k)) = k
        /\ \A i \in 1 .. k : ReadAt(f, n, k)[i] = f[n + i]
      BY <2>1, ReadAtCells
  <2> QED BY <2>2 DEF k
<1>4. c \in Seq(Cell) /\ Len(c) = e /\ \A i \in 1 .. e : c[i] = f[i]
    BY <1>1, FirstCells
<1> HIDE DEF a, b, c
<1>5. /\ a \o b \in Seq(Cell) /\ Len(a \o b) = e
      /\ \A i \in 1 .. e : (a \o b)[i] = IF i <= n THEN a[i] ELSE b[i - n]
  <2>1. /\ a \o b \in Seq(Cell) /\ Len(a \o b) = Len(a) + Len(b)
        /\ \A i \in 1 .. Len(a) + Len(b) :
             (a \o b)[i] = IF i <= Len(a) THEN a[i] ELSE b[i - Len(a)]
      BY <1>2, <1>3, ConcatProperties
  <2>2. Len(a) + Len(b) = e
      BY <1>1, <1>2, <1>3
  <2> QED BY <2>1, <2>2, <1>2
<1>6. ASSUME NEW i \in 1 .. e PROVE (a \o b)[i] = c[i]
  <2>1. CASE i <= n
    <3>1. i \in 1 .. n
        BY <2>1, <1>1
    <3> QED BY <2>1, <3>1, <1>2, <1>4, <1>5
  <2>2. CASE ~(i <= n)
    <3>1. i - n \in 1 .. e - n /\ n + (i - n) = i
        BY <2>2, <1>1
    <3> QED BY <2>2, <3>1, <1>3, <1>4, <1>5
  <2> QED BY <2>1, <2>2
<1>7. a \o b = c
    BY <1>4, <1>5, <1>6, SameCells
<1> QED BY <1>7 DEF a, b, c

(* A write gives a file again; its cells are old ones, new ones, or zeros. *)
LEMMA WriteAtCells ==
    ASSUME NEW f \in Seq(Cell), NEW at \in Nat, NEW s \in Seq(Cell),
           NEW g, g = WriteAt(f, at, s)
    PROVE  /\ g \in Seq(Cell)
           /\ \A i \in 1 .. Len(g) : \/ g[i] = HoleByte
                                     \/ \E j \in 1 .. Len(f) : g[i] = f[j]
                                     \/ \E j \in 1 .. Len(s) : g[i] = s[j]
           /\ at = Len(f) => g = f \o s
<1> DEFINE end == at + Len(s)
           n == IF Len(f) > end THEN Len(f) ELSE end
           G(i) == IF i > at /\ i <= end THEN s[i - at]
                   ELSE IF i <= Len(f) THEN f[i] ELSE HoleByte
<1>h. HoleByte \in Cell
    BY DEF HoleByte, Cell, Plain, Kinds, Values
<1>1. Len(f) \in Nat /\ Len(s) \in Nat /\ n \in Nat /\ end \in Nat
    OBVIOUS
<1>2. g = [i \in 1 .. n |-> G(i)]
    BY DEF WriteAt
<1>3. ASSUME NEW i \in 1 .. n
      PROVE  /\ G(i) \in Cell
             /\ \/ G(i) = HoleByte
                \/ \E j \in 1 .. Len(f) : G(i) = f[j]
                \/ \E j \in 1 .. Len(s) : G(i) = s[j]
  <2>1. CASE i > at /\ i <= end
    <3>1. i - at \in 1 .. Len(s) /\ G(i) = s[i - at]
        BY <2>1, <1>1
    <3>2. s[i - at] \in Cell
        BY <3>1
    <3> QED BY <3>1, <3>2
  <2>2. CASE ~(i > at /\ i <= end) /\ i <= Len(f)
    <3>1. i \in 1 .. Len(f) /\ G(i) = f[i]
        BY <2>2, <1>1
    <3>2. f[i] \in Cell
        BY <3>1
    <3> QED BY <3>1, <3>2
  <2>3. CASE ~(i > at /\ i <= end) /\ ~(i <= Len(f))
      BY <2>3, <1>h
  <2> QED BY <2>1, <2>2, <2>3
<1> HIDE DEF G, n
<1>4. g \in [1 .. n -> Cell] /\ g \in Seq(Cell)
  <2>1. g \in [1 .. n -> Cell]
      BY <1>2, <1>3
  <2>2. [1 .. n -> Cell] \subseteq Seq(Cell)
      BY <1>1, SeqDef
  <2> QED BY <2>1, <2>2
<1>5. Len(g) = n
    BY <1>1, <1>2
<1>6. ASSUME at = Len(f) PROVE g = f \o s
  <2>1. n = Len(f) + Len(s) /\ end = Len(f) + Len(s)
      BY <1>1, <1>6 DEF n
  <2>2. /\ f \o s \in Seq(Cell) /\ Len(f \o s) = Len(f) + Len(s)
        /\ \A i \in 1 .. Len(f) + Len(s) :
             (f \o s)[i] = IF i <= Len(f) THEN f[i] ELSE s[i - Len(f)]
      BY ConcatProperties
  <2>3. ASSUME NEW i \in 1 .. Len(f) + Len(s)
        PROVE  G(i) = IF i <= Len(f) THEN f[i] ELSE s[i - Len(f)]
    <3>1. CASE i <= Len(f)
        BY <3>1, <1>1, <1>6, <2>1 DEF G
    <3>2. CASE ~(i <= Len(f))
        BY <3>2, <1>1, <1>6, <2>1 DEF G
    <3> QED BY <3>1, <3>2
  <2>4. \A i \in 1 .. Len(g) : g[i] = (f \o s)[i]
      BY <1>2, <1>5, <2>1, <2>2, <2>3
  <2> QED BY <1>4, <1>5, <2>1, <2>2, <2>4, SameCells
<1> QED BY <1>2, <1>3, <1>4, <1>5, <1>6

LEMMA PrefixCells ==
    ASSUME NEW f \in Seq(Cell), NEW g \in Prefixes(f)
    PROVE  g \in Seq(Cell) /\ Len(g) <= Len(f) /\ \A i \in 1 .. Len(g) : g[i] = f[i]
<1>1. PICK n \in 0 .. Len(f) : g = SubSeq(f, 1, n)
    BY DEF Prefixes
<1> QED BY <1>1, FirstCells

(* All of a sequence is the sequence.                                      *)
LEMMA AllCells ==
    ASSUME NEW f \in Seq(Cell), NEW n, n = Len(f) PROVE SubSeq(f, 1, n) = f
<1>1. n \in 0 .. Len(f)
    OBVIOUS
<1> QED BY <1>1, FirstCells, SameCells

(* Where a system call may stop lies beyond where it began.                *)
LEMMA StopsAtRange ==
    ASSUME NEW from \in Nat, NEW end \in Nat, from < end, NEW e \in StopsAt(from, end)
    PROVE  e \in Nat /\ from < e /\ e <= end
BY SizeAssumption DEF StopsAt

LEMMA AvailableCells ==
    ASSUME NEW f \in Seq(Cell), NEW at \in Nat, NEW n \in Nat
    PROVE  /\ Available(f, at, n) \in 0 .. n
           /\ Available(f, at, n) > 0 => at + Available(f, at, n) <= Len(f)
BY DEF Available

-----------------------------------------------------------------------------
(* What a save writes.                                                     *)
LEMMA SizeIsNat == ASSUME NEW m \in Msgs PROVE SizeOf[m] \in Nat
BY SizeAssumption

LEMMA MaskCells ==
    ASSUME NEW m \in Msgs, NEW n \in Nat
    PROVE  /\ Mask(Nonce(n), m) \in Seq(Plain) /\ Len(Mask(Nonce(n), m)) = SizeOf[m]
           /\ Unmask(Nonce(n), Mask(Nonce(n), m)) = PlainBytes(m)
<1> DEFINE N == Nonce(n)
           B(i) == [nonce |-> N, at |-> i, byte |-> <<m, i>>]
<1>1. SizeOf[m] \in Nat
    BY SizeIsNat
<1>2. PlainBytes(m) = [i \in 1 .. SizeOf[m] |-> <<m, i>>]
    BY DEF PlainBytes
<1>3. Mask(N, m) = [i \in 1 .. SizeOf[m] |-> <<"ct", B(i)>>]
    BY <1>2 DEF Mask
<1>4. N \in Nonces
    BY DEF Nonces
<1> HIDE DEF N
<1>5. ASSUME NEW i \in 1 .. SizeOf[m] PROVE <<"ct", B(i)>> \in Plain
  <2>1. B(i) \in Values
      BY <1>1, <1>4 DEF Values
  <2> QED BY <2>1 DEF Plain, Kinds
<1>6. \A i \in 1 .. SizeOf[m] : B(i).nonce = N /\ B(i).at = i /\ B(i).byte = <<m, i>>
    OBVIOUS
<1> HIDE DEF B
<1>7. Mask(N, m) \in Seq(Plain) /\ Len(Mask(N, m)) = SizeOf[m] /\ DOMAIN Mask(N, m) = 1 .. SizeOf[m]
  <2>1. Mask(N, m) \in [1 .. SizeOf[m] -> Plain]
      BY <1>3, <1>5
  <2> QED BY <1>1, <2>1, SeqDef
<1>8. Unmask(N, Mask(N, m)) = [i \in 1 .. SizeOf[m] |-> <<m, i>>]
  <2>1. ASSUME NEW i \in 1 .. SizeOf[m]
        PROVE  /\ Mask(N, m)[i][1] = "ct" /\ Mask(N, m)[i][2].nonce = N
               /\ Mask(N, m)[i][2].at = i /\ Mask(N, m)[i][2].byte = <<m, i>>
    <3>1. Mask(N, m)[i] = <<"ct", B(i)>>
        BY <1>3
    <3>2. Mask(N, m)[i][1] = "ct" /\ Mask(N, m)[i][2] = B(i)
        BY <3>1
    <3> QED BY <1>6, <3>2
  <2> QED BY <1>7, <2>1 DEF Unmask
<1> QED BY <1>2, <1>7, <1>8 DEF N

LEMMA LengthsCells ==
    ASSUME NEW m \in Msgs
    PROVE  EncodeLen(SizeOf[m]) \in Seq(Plain) /\ Len(EncodeLen(SizeOf[m])) = LenBytes
<1> DEFINE E == EncodeLen(SizeOf[m])
<1>1. DOMAIN E = 1 .. LenBytes /\ E = [i \in 1 .. LenBytes |-> E[i]]
    BY DEF EncodeLen
<1>2. \A i \in 1 .. LenBytes : E[i] \in Plain
    BY DEF Plain, LengthCells
<1> HIDE DEF E
<1>3. E \in [1 .. LenBytes -> Plain] /\ LenBytes \in Nat
    BY <1>1, <1>2, SizeAssumption
<1>4. E \in Seq(Plain) /\ Len(E) = LenBytes
    BY <1>3, SeqDef
<1> QED BY <1>4 DEF E

(* Three pieces, one after the other.                                      *)
Joined(g, A, B, C) ==
    /\ g \in Seq(Cell) /\ Len(g) = Len(A) + Len(B) + Len(C)
    /\ \A i \in 1 .. Len(A) : g[i] = A[i]
    /\ ReadAt(g, Len(A), Len(B)) = B /\ ReadAt(g, Len(A) + Len(B), Len(C)) = C
    /\ \A i \in 1 .. Len(g) : \/ \E j \in 1 .. Len(A) : g[i] = A[j]
                              \/ \E j \in 1 .. Len(B) : g[i] = B[j]
                              \/ \E j \in 1 .. Len(C) : g[i] = C[j]

LEMMA JoinedCells ==
    ASSUME NEW A \in Seq(Cell), NEW B \in Seq(Cell), NEW C \in Seq(Cell),
           NEW g, g = (A \o B) \o C
    PROVE  Joined(g, A, B, C)
<1> DEFINE D == A \o B
           a == Len(A)
           b == Len(B)
           c == Len(C)
<1>1. a \in Nat /\ b \in Nat /\ c \in Nat
    OBVIOUS
<1>2. /\ D \in Seq(Cell) /\ Len(D) = a + b
      /\ \A i \in 1 .. a + b : D[i] = IF i <= a THEN A[i] ELSE B[i - a]
    BY ConcatProperties
<1>3. g = D \o C
    OBVIOUS
<1> HIDE DEF D
<1>4. /\ g \in Seq(Cell) /\ Len(g) = Len(D) + c
      /\ \A i \in 1 .. Len(D) + c : g[i] = IF i <= Len(D) THEN D[i] ELSE C[i - Len(D)]
  <2>1. /\ D \o C \in Seq(Cell) /\ Len(D \o C) = Len(D) + Len(C)
        /\ \A i \in 1 .. Len(D) + Len(C) :
             (D \o C)[i] = IF i <= Len(D) THEN D[i] ELSE C[i - Len(D)]
    <3>1. D \in Seq(Cell)
        BY <1>2
    <3> QED BY <3>1, ConcatProperties
  <2> QED BY <2>1, <1>3
<1>5. Len(g) = a + b + c /\ a + b \in Nat
    BY <1>1, <1>2, <1>4
<1> HIDE DEF a, b, c
<1>6. \A i \in 1 .. a : g[i] = A[i]
    BY <1>1, <1>2, <1>4
<1>7. ASSUME NEW j \in 1 .. b PROVE g[a + j] = B[j]
  <2>1. a + j \in 1 .. a + b /\ a + j \in 1 .. Len(D) + c /\ a + j <= Len(D)
        /\ ~(a + j <= a) /\ (a + j) - a = j
      BY <1>1, <1>2
  <2> QED BY <2>1, <1>2, <1>4
<1>8. ASSUME NEW j \in 1 .. c PROVE g[(a + b) + j] = C[j]
  <2>1. (a + b) + j \in 1 .. Len(D) + c /\ ~((a + b) + j <= Len(D))
        /\ ((a + b) + j) - Len(D) = j
      BY <1>1, <1>2
  <2> QED BY <2>1, <1>4
<1>9. ReadAt(g, a, b) = B
  <2>1. a + b <= Len(g)
      BY <1>1, <1>5
  <2>2. /\ ReadAt(g, a, b) \in Seq(Cell) /\ Len(ReadAt(g, a, b)) = b
        /\ \A i \in 1 .. b : ReadAt(g, a, b)[i] = g[a + i]
    <3>1. g \in Seq(Cell) /\ a \in Nat /\ b \in Nat /\ a + b <= Len(g)
        BY <1>1, <1>4, <2>1
    <3> QED BY <3>1, ReadAtCells
  <2>3. Len(B) = b
      BY DEF b
  <2> QED BY <1>7, <2>2, <2>3, SameCells
<1>10. ReadAt(g, a + b, c) = C
  <2> DEFINE h == a + b
  <2>1. h + c <= Len(g) /\ h \in Nat
      BY <1>1, <1>5
  <2> HIDE DEF h
  <2>2. /\ ReadAt(g, h, c) \in Seq(Cell) /\ Len(ReadAt(g, h, c)) = c
        /\ \A i \in 1 .. c : ReadAt(g, h, c)[i] = g[h + i]
    <3>1. g \in Seq(Cell) /\ h \in Nat /\ c \in Nat /\ h + c <= Len(g)
        BY <1>1, <1>4, <2>1
    <3> QED BY <3>1, ReadAtCells
  <2>3. Len(C) = c
      BY DEF c
  <2>4. \A i \in 1 .. c : ReadAt(g, h, c)[i] = C[i]
      BY <1>8, <2>2 DEF h
  <2>5. ReadAt(g, h, c) = C
      BY <2>2, <2>3, <2>4, SameCells
  <2> QED BY <2>5 DEF h
<1>11. ASSUME NEW i \in 1 .. Len(g)
       PROVE  \/ \E j \in 1 .. a : g[i] = A[j]
              \/ \E j \in 1 .. b : g[i] = B[j]
              \/ \E j \in 1 .. c : g[i] = C[j]
  <2>1. CASE i <= a
      BY <2>1, <1>1, <1>6
  <2>2. CASE ~(i <= a) /\ i <= a + b
    <3>1. i - a \in 1 .. b /\ a + (i - a) = i
        BY <2>2, <1>1
    <3>2. g[a + (i - a)] = B[i - a]
        BY <3>1, <1>7
    <3> QED BY <3>1, <3>2
  <2>3. CASE ~(i <= a + b)
    <3>1. i - (a + b) \in 1 .. c /\ (a + b) + (i - (a + b)) = i
        BY <2>3, <1>1, <1>5
    <3>2. g[(a + b) + (i - (a + b))] = C[i - (a + b)]
        BY <3>1, <1>8
    <3> QED BY <3>1, <3>2
  <2> QED BY <2>1, <2>2, <2>3
<1> QED BY <1>4, <1>5, <1>6, <1>9, <1>10, <1>11 DEF Joined, a, b, c

(* The fields of a container, and that it is one of cells.                 *)
IsContainer(im, f, n, m) ==
    /\ SizeOf[m] \in Nat /\ LenBytes \in Nat
    /\ HeaderSize(f) \in Nat /\ HeaderSize(f) >= LenBytes + 3
    /\ im \in Seq(Cell) /\ Len(im) = HeaderSize(f) + SizeOf[m]
    /\ im[1] = Magic(f) /\ im[2] = Version /\ im[3] = Nonce(n)
    /\ f = "gcm" => im[4] = Tag(n, m)
    /\ ReadAt(im, HeaderSize(f) - LenBytes, LenBytes) = EncodeLen(SizeOf[m])
    /\ ReadAt(im, HeaderSize(f), SizeOf[m]) = Mask(Nonce(n), m)
    /\ \A i \in 1 .. Len(im) : im[i] \in Plain \/ (f = "gcm" /\ im[i] = Tag(n, m))

LEMMA ContainerCells ==
    ASSUME NEW f \in Formats, NEW n \in Nat, NEW m \in Msgs
    PROVE  IsContainer(serialize(f, n, m), f, n, m)
<1> DEFINE im == serialize(f, n, m)
           tag == Tag(n, m)
           H == <<Magic(f), Version, Nonce(n)>>
           A == H \o (IF f = "gcm" THEN <<tag>> ELSE <<>>)
           E == EncodeLen(SizeOf[m])
           M == Mask(Nonce(n), m)
<1>0. SizeOf[m] \in Nat /\ LenBytes \in Nat
    BY SizeIsNat, SizeAssumption
<1>1. im = (A \o E) \o M
    BY DEF serialize, Tag
<1>2. /\ E \in Seq(Plain) /\ Len(E) = LenBytes
      /\ M \in Seq(Plain) /\ Len(M) = SizeOf[m]
    BY LengthsCells, MaskCells
<1>3. Magic(f) \in Plain /\ Version \in Plain /\ Nonce(n) \in Plain
    BY DEF Magic, Version, Nonce, Plain, Kinds, Values
<1>4. f = "gcm" => tag \in Cell
  <2> DEFINE x == [format |-> f, nonce |-> n, msg |-> m]
  <2>1. x \in Saves /\ x.format = f /\ x.nonce = n /\ x.msg = m
      BY DEF Saves
  <2> HIDE DEF x
  <2>2. f = "gcm" => tag \in TagsOf(Saves)
      BY <2>1 DEF TagsOf
  <2> QED BY <2>2 DEF Cell
<1> HIDE DEF im, tag, E, M
<1>5. /\ A \in Seq(Cell) /\ Len(A) = IF f = "gcm" THEN 4 ELSE 3
      /\ A[1] = Magic(f) /\ A[2] = Version /\ A[3] = Nonce(n)
      /\ f = "gcm" => A[4] = tag
  <2>1. Magic(f) \in Cell /\ Version \in Cell /\ Nonce(n) \in Cell
      BY <1>3 DEF Cell
  <2>2. CASE f = "gcm"
    <3>1. A = H \o <<tag>> /\ <<tag>> \in Seq(Cell) /\ H \in Seq(Cell) /\ Len(H) = 3
        BY <1>4, <2>1, <2>2
    <3>2. H[1] = Magic(f) /\ H[2] = Version /\ H[3] = Nonce(n)
        OBVIOUS
    <3>3. <<tag>>[1] = tag /\ Len(<<tag>>) = 1
        OBVIOUS
    <3> HIDE DEF A, H
    <3>4. /\ H \o <<tag>> \in Seq(Cell) /\ Len(H \o <<tag>>) = Len(H) + Len(<<tag>>)
          /\ \A i \in 1 .. Len(H) + Len(<<tag>>) :
               (H \o <<tag>>)[i] = IF i <= Len(H) THEN H[i] ELSE <<tag>>[i - Len(H)]
        BY <3>1, ConcatProperties
    <3>5. A \in Seq(Cell) /\ Len(A) = 4
        BY <3>1, <3>3, <3>4
    <3>6. A[1] = H[1] /\ A[2] = H[2] /\ A[3] = H[3] /\ A[4] = <<tag>>[1]
        BY <3>1, <3>3, <3>4
    <3> QED BY <2>2, <3>2, <3>3, <3>5, <3>6
  <2>3. CASE f # "gcm"
    <3>1. A = <<Magic(f), Version, Nonce(n)>>
        BY <2>3
    <3> HIDE DEF A
    <3> QED BY <2>1, <2>3, <3>1
  <2> QED BY <2>2, <2>3
<1> HIDE DEF A
<1>6. E \in Seq(Cell) /\ M \in Seq(Cell)
    BY <1>2, SeqMonotonic DEF Cell
<1>7. Joined(im, A, E, M)
    BY <1>1, <1>5, <1>6, JoinedCells
<1>8. Len(A) + LenBytes = HeaderSize(f) /\ HeaderSize(f) - LenBytes = Len(A) /\ Len(A) \in {3, 4}
      /\ HeaderSize(f) \in Nat
    BY <1>0, <1>5 DEF HeaderSize
<1>9. /\ im \in Seq(Cell) /\ Len(im) = HeaderSize(f) + SizeOf[m]
      /\ im[1] = Magic(f) /\ im[2] = Version /\ im[3] = Nonce(n)
      /\ f = "gcm" => im[4] = tag
  <2>1. /\ im \in Seq(Cell) /\ Len(im) = Len(A) + Len(E) + Len(M)
        /\ \A i \in 1 .. Len(A) : im[i] = A[i]
      BY <1>7 DEF Joined
  <2>2. 1 \in 1 .. Len(A) /\ 2 \in 1 .. Len(A) /\ 3 \in 1 .. Len(A) /\ (f = "gcm" => 4 \in 1 .. Len(A))
      BY <1>5
  <2> QED BY <1>0, <1>2, <1>5, <1>8, <2>1, <2>2
<1>10. /\ ReadAt(im, HeaderSize(f) - LenBytes, LenBytes) = E
       /\ ReadAt(im, HeaderSize(f), SizeOf[m]) = M
  <2>1. ReadAt(im, Len(A), Len(E)) = E /\ ReadAt(im, Len(A) + Len(E), Len(M)) = M
      BY <1>7 DEF Joined
  <2> QED BY <1>2, <1>8, <2>1
<1>11. ASSUME NEW i \in 1 .. Len(im) PROVE im[i] \in Plain \/ (f = "gcm" /\ im[i] = tag)
  <2>1. \A j \in 1 .. Len(A) : A[j] \in Plain \/ (f = "gcm" /\ A[j] = tag)
      BY <1>3, <1>5
  <2>2. (\A j \in 1 .. Len(E) : E[j] \in Plain) /\ (\A j \in 1 .. Len(M) : M[j] \in Plain)
      BY <1>2
  <2> QED BY <1>7, <2>1, <2>2 DEF Joined
<1>12. IsContainer(im, f, n, m)
  <2>1. HeaderSize(f) >= LenBytes + 3
      BY <1>0 DEF HeaderSize
  <2>2. tag = Tag(n, m) /\ E = EncodeLen(SizeOf[m]) /\ M = Mask(Nonce(n), m)
      BY DEF tag, E, M
  <2> QED BY <1>0, <1>8, <1>9, <1>10, <1>11, <2>1, <2>2 DEF IsContainer
<1> QED BY <1>12 DEF im

(* A load of its format accepts a container, read whole ...                *)
LEMMA ContainerAccepted ==
    ASSUME NEW f \in Formats, NEW n \in Nat, NEW m \in Msgs,
           NEW im, im = serialize(f, n, m)
    PROVE  WellFormed(im, f, SizeOf[m]) /\ TagMatches(im, f)
<1>1. IsContainer(im, f, n, m)
    BY ContainerCells
<1>2. /\ HeaderSize(f) \in Nat /\ SizeOf[m] \in Nat /\ Len(im) = HeaderSize(f) + SizeOf[m]
      /\ im[1] = Magic(f) /\ im[2] = Version /\ im[3] = Nonce(n)
      /\ f = "gcm" => im[4] = Tag(n, m)
      /\ ReadAt(im, HeaderSize(f), SizeOf[m]) = Mask(Nonce(n), m)
    BY <1>1 DEF IsContainer
<1>3. WellFormed(im, f, SizeOf[m])
    BY <1>2 DEF WellFormed, MagicMatches, LengthMatches
<1>4. SubSeq(im, HeaderSize(f) + 1, Len(im)) = Mask(Nonce(n), m)
    BY <1>2 DEF ReadAt
<1>5. TagMatches(im, f)
    BY <1>2, <1>4 DEF TagMatches, Tag
<1> QED BY <1>3, <1>5

(* ... and unmasks its message.                                            *)
LEMMA ContainerDecrypts ==
    ASSUME NEW f \in Formats, NEW n \in Nat, NEW m \in Msgs,
           NEW im, im = serialize(f, n, m)
    PROVE  Unmask(im[3], SubSeq(im, HeaderSize(f) + 1, Len(im))) = PlainBytes(m)
<1>1. IsContainer(im, f, n, m)
    BY ContainerCells
<1>2. im[3] = Nonce(n) /\ SubSeq(im, HeaderSize(f) + 1, Len(im)) = Mask(Nonce(n), m)
    BY <1>1 DEF IsContainer, ReadAt
<1> QED BY <1>2, MaskCells

(* The tag binds: when all tags in d come from saves, and d has the tag of *)
(* its own nonce and ciphertext, these are the ones of a GCM save.         *)
LEMMA TagBinds ==
    ASSUME NEW d \in Seq(Cell), written \subseteq Saves, TagsWritten(d), NEW len,
           WellFormed(d, "gcm", len), TagMatches(d, "gcm")
    PROVE  \E x \in written :
             /\ x.format = "gcm"
             /\ Unmask(d[3], SubSeq(d, HeaderSize("gcm") + 1, Len(d))) = PlainBytes(x.msg)
<1> DEFINE ct == SubSeq(d, HeaderSize("gcm") + 1, Len(d))
<1>1. 4 \in 1 .. Len(d)
  <2>1. Len(d) >= 4 + LenBytes /\ LenBytes \in Nat
      BY SizeAssumption DEF WellFormed, HeaderSize
  <2> QED BY <2>1
<1>2. d[4] = <<"tag", [nonce |-> d[3], over |-> ct]>>
    BY DEF TagMatches, compute_tag
<1> HIDE DEF ct
<1>3. d[4] \notin Plain
  <2>1. d[4][1] = "tag"
      BY <1>2
  <2> QED BY <2>1 DEF Plain, Kinds, LengthCells, EncodeLen, LenByte
<1>4. PICK x \in written : x.format = "gcm" /\ d[4] = Tag(x.nonce, x.msg)
    BY <1>1, <1>3 DEF TagsWritten, TagsOf
<1> DEFINE n == x.nonce
           m == x.msg
<1>5. n \in Nat /\ m \in Msgs
    BY DEF Saves
<1>6. d[3] = Nonce(n) /\ ct = Mask(Nonce(n), m)
  <2> DEFINE r == [nonce |-> d[3], over |-> ct]
             s == [nonce |-> Nonce(n), over |-> Mask(Nonce(n), m)]
  <2>1. r.nonce = d[3] /\ r.over = ct /\ s.nonce = Nonce(n) /\ s.over = Mask(Nonce(n), m)
      OBVIOUS
  <2>2. d[4] = <<"tag", r>> /\ d[4] = <<"tag", s>>
      BY <1>2, <1>4 DEF Tag, compute_tag
  <2> HIDE DEF r, s
  <2>3. r = s
      BY <2>2
  <2> QED BY <2>1, <2>3
<1> HIDE DEF n, m
<1>7. Unmask(d[3], ct) = PlainBytes(m)
    BY <1>5, <1>6, MaskCells
<1> QED BY <1>4, <1>7 DEF ct, m
-----------------------------------------------------------------------------
LEMMA InitTagInv == Init => TagInv
<1> SUFFICES ASSUME Init PROVE TagInv
    OBVIOUS
<1>1. Types
  <2>1. sole \in BOOLEAN /\ alone \in [Procs -> BOOLEAN]
      BY DEF Init
  <2> QED BY <2>1 DEF Init, Types, Ended
<1>2. TagsWritten(file) /\ \A p \in Procs : TagsWritten(data[p])
    BY DEF Init, TagsWritten
<1>3. \A p \in Procs : CallOK(p) /\ GcmReturnsSaved(p)
    BY DEF Init, CallOK, GcmReturnsSaved
<1> QED BY <1>1, <1>2, <1>3 DEF TagInv

(* The end of a call of p: only what it returns is left to show.           *)
LEMMA EndTagInv ==
    ASSUME TagInv, NEW p \in Procs, NEW outcome \in Ended, NEW res, End(p, outcome, res),
           UNCHANGED <<file, drawn, written, sole>>, intact' \in Formats \cup {NoFormat},
           seen' \in [Procs -> Formats \cup {NoFormat}], alone' \in [Procs -> BOOLEAN],
           outcome \in {"FormatError", "AuthenticationError"} => pc[p] = "read",
           outcome = "loaded" => GcmReturnsSaved(p)'
    PROVE  TagInv'
<1>1. /\ pc' = [pc EXCEPT ![p] = outcome] /\ data' = [data EXCEPT ![p] = <<>>]
      /\ size' = [size EXCEPT ![p] = 0] /\ pos' = [pos EXCEPT ![p] = 0]
      /\ result' = [result EXCEPT ![p] = res] /\ UNCHANGED format
    BY DEF End
<1>2. Types'
  <2>1. result' = [q \in Procs |-> result'[q]]
      BY <1>1 DEF TagInv, Types
  <2> QED BY <1>1, <2>1 DEF TagInv, Types
<1>3. /\ pc'[p] = outcome /\ data'[p] = <<>> /\ pos'[p] = 0
      /\ \A q \in Procs \ {p} : /\ pc'[q] = pc[q] /\ data'[q] = data[q] /\ size'[q] = size[q]
                                /\ pos'[q] = pos[q] /\ result'[q] = result[q]
    BY <1>1 DEF TagInv, Types
<1>4. TagsWritten(file)' /\ \A q \in Procs : TagsWritten(data[q])'
    BY <1>3 DEF TagInv, TagsWritten
<1>5. ASSUME NEW q \in Procs PROVE CallOK(q)' /\ GcmReturnsSaved(q)'
  <2>0. CallOK(q) /\ GcmReturnsSaved(q)
      BY DEF TagInv
  <2>1. CASE q = p
    <3>1. CallOK(q)'
        BY <1>1, <1>3, <2>0, <2>1 DEF CallOK, Ended
    <3>2. GcmReturnsSaved(q)'
        BY <1>3, <2>1 DEF GcmReturnsSaved
    <3> QED BY <3>1, <3>2
  <2>2. CASE q # p
      BY <1>1, <1>3, <2>0, <2>2 DEF CallOK, GcmReturnsSaved, ReturnsSaved
  <2> QED BY <2>1, <2>2
<1> QED BY <1>2, <1>4, <1>5 DEF TagInv

(* A call of p ends without a look at what it read.                        *)
LEMMA FailTagInv ==
    ASSUME TagInv, NEW p \in Procs, NEW outcome \in {"idle", "saved", "IoError"},
           Fail(p, outcome), UNCHANGED <<file, drawn, written, sole>>,
           intact' \in Formats \cup {NoFormat},
           \/ UNCHANGED <<seen, alone>>
           \/ /\ seen' = [seen EXCEPT ![p] = NoFormat]
              /\ alone' = [alone EXCEPT ![p] = FALSE]
    PROVE  TagInv'
<1>1. outcome \in Ended /\ outcome \notin {"FormatError", "AuthenticationError", "loaded"}
    BY DEF Ended
<1>2. seen' \in [Procs -> Formats \cup {NoFormat}] /\ alone' \in [Procs -> BOOLEAN]
    BY DEF TagInv, Types
<1> QED BY <1>1, <1>2, EndTagInv DEF Fail

LEMMA SaveOpenTagInv ==
    ASSUME TagInv, NEW p \in Procs, NEW f \in Formats, NEW m \in Msgs, SaveOpen(p, f, m)
    PROVE  TagInv'
<1> DEFINE n == drawn + 1
           x == [format |-> f, nonce |-> n, msg |-> m]
           im == serialize(f, n, m)
<1>1. n \in Nat /\ x \in Saves /\ x.format = f /\ x.nonce = n /\ x.msg = m
    BY DEF Saves, TagInv, Types
<1>2. /\ file' = <<>> /\ written' = written \cup {x} /\ drawn' = n
      /\ data' = [data EXCEPT ![p] = im] /\ pc' = [pc EXCEPT ![p] = "write"]
      /\ format' = [format EXCEPT ![p] = f] /\ result' = [result EXCEPT ![p] = <<>>]
      /\ sole' = (\A q \in Procs : pc[q] # "write") /\ intact' = NoFormat
      /\ seen' = [q \in Procs |-> NoFormat] /\ alone' = [q \in Procs |-> FALSE]
      /\ UNCHANGED <<size, pos>> /\ pc[p] \in Ended
    BY DEF SaveOpen
<1>3. /\ im \in Seq(Cell)
      /\ \A i \in 1 .. Len(im) : im[i] \in Plain \/ (f = "gcm" /\ im[i] = Tag(n, m))
  <2>1. IsContainer(im, f, n, m)
      BY <1>1, ContainerCells
  <2> QED BY <2>1 DEF IsContainer
<1> HIDE DEF im, x, n
<1>4. f = "gcm" => Tag(n, m) \in TagsOf(written')
    BY <1>1, <1>2 DEF TagsOf
<1>5. Types'
  <2>1. data' \in [Procs -> Seq(Cell)] /\ file' \in Seq(Cell)
      BY <1>2, <1>3 DEF TagInv, Types
  <2>2. sole' \in BOOLEAN /\ alone' \in [Procs -> BOOLEAN]
      BY <1>2
  <2>3. /\ pc' \in [Procs -> Ended \cup {"write", "read"}] /\ result' = [q \in Procs |-> result'[q]]
        /\ format' \in [Procs -> Formats \cup {NoFormat}]
      BY <1>2 DEF TagInv, Types
  <2> QED BY <1>1, <1>2, <2>1, <2>2, <2>3 DEF TagInv, Types
<1>6. TagsOf(written) \subseteq TagsOf(written')
    BY <1>2 DEF TagsOf
<1>7. /\ pc'[p] = "write" /\ data'[p] = im /\ pos'[p] = 0 /\ format'[p] = f
      /\ \A q \in Procs \ {p} : /\ pc'[q] = pc[q] /\ data'[q] = data[q] /\ pos'[q] = pos[q]
                                /\ format'[q] = format[q] /\ result'[q] = result[q]
    BY <1>2 DEF TagInv, Types, CallOK
<1>8. TagsWritten(file)'
    BY <1>2 DEF TagsWritten
<1>9. ASSUME NEW q \in Procs PROVE TagsWritten(data[q])' /\ CallOK(q)' /\ GcmReturnsSaved(q)'
  <2>1. CASE q = p
    <3>1. TagsWritten(data[q])'
        BY <2>1, <1>3, <1>4, <1>7 DEF TagsWritten
    <3>2. CallOK(q)' /\ GcmReturnsSaved(q)'
        BY <2>1, <1>3, <1>7 DEF CallOK, GcmReturnsSaved, Ended
    <3> QED BY <3>1, <3>2
  <2>2. CASE q # p
    <3>1. TagsWritten(data[q]) /\ CallOK(q) /\ GcmReturnsSaved(q)
        BY DEF TagInv
    <3>2. TagsWritten(data[q])'
        BY <2>2, <3>1, <1>6, <1>7 DEF TagsWritten
    <3>3. CallOK(q)' /\ GcmReturnsSaved(q)'
        BY <2>2, <3>1, <1>2, <1>7 DEF CallOK, GcmReturnsSaved, ReturnsSaved
    <3> QED BY <3>2, <3>3
  <2> QED BY <2>1, <2>2
<1> QED BY <1>5, <1>8, <1>9 DEF TagInv

(* One ::write of a save, as far as both invariants need it.               *)
WriteStep(p, e) ==
    /\ pc[p] = "write" /\ e \in Nat /\ pos[p] < e /\ e <= Len(data[p])
    /\ file' = WriteAt(file, pos[p], SubSeq(data[p], pos[p] + 1, e))
    /\ pos' = [pos EXCEPT ![p] = e]
    /\ UNCHANGED <<pc, format, data, size, result, drawn, written, sole, intact, alone, seen>>

LEMMA SaveWriteCases ==
    ASSUME TagInv, NEW p \in Procs, SaveWrite(p)
    PROVE  \/ \E e \in Nat : WriteStep(p, e)
           \/ Fail(p, "IoError") /\ UNCHANGED <<file, drawn, written, sole, intact, alone, seen>>
<1> DEFINE end == Len(data[p])
<1>1. pos[p] \in Nat /\ end \in Nat /\ pos[p] < end /\ pc[p] = "write"
    BY DEF SaveWrite, TagInv, Types
<1>2. ASSUME NEW e \in StopsAt(pos[p], end),
             file' = WriteAt(file, pos[p], SubSeq(data[p], pos[p] + 1, e)),
             pos' = [pos EXCEPT ![p] = e],
             UNCHANGED <<pc, format, data, size, result, drawn, written, sole, intact, alone, seen>>
      PROVE  \E i \in Nat : WriteStep(p, i)
  <2>1. e \in Nat /\ pos[p] < e /\ e <= end
      BY <1>1, StopsAtRange
  <2>2. WriteStep(p, e)
      BY <1>1, <1>2, <2>1 DEF WriteStep
  <2> QED BY <2>1, <2>2
<1> QED BY <1>2 DEF SaveWrite

(* The cells a ::write puts into the file.                                 *)
Chunk(p, e) == ReadAt(data[p], pos[p], e - pos[p])

LEMMA WrittenCells ==
    ASSUME TagInv, NEW p \in Procs, NEW e \in Nat, WriteStep(p, e)
    PROVE  /\ data[p] \in Seq(Cell) /\ pos[p] \in 0 .. Len(data[p]) /\ e \in pos[p] .. Len(data[p])
           /\ file' = WriteAt(file, pos[p], Chunk(p, e))
           /\ Chunk(p, e) \in Seq(Cell) /\ Len(Chunk(p, e)) = e - pos[p]
           /\ \A i \in 1 .. e - pos[p] :
                pos[p] + i \in 1 .. Len(data[p]) /\ Chunk(p, e)[i] = data[p][pos[p] + i]
<1>1. data[p] \in Seq(Cell) /\ pos[p] \in Nat /\ Len(data[p]) \in Nat
    BY DEF TagInv, Types
<1>2. e - pos[p] \in Nat /\ pos[p] + (e - pos[p]) = e /\ pos[p] + (e - pos[p]) <= Len(data[p])
      /\ pos[p] \in 0 .. Len(data[p]) /\ e \in pos[p] .. Len(data[p])
    BY <1>1 DEF WriteStep
<1>3. file' = WriteAt(file, pos[p], Chunk(p, e))
    BY <1>2 DEF ReadAt, WriteStep, Chunk
<1>4. /\ Chunk(p, e) \in Seq(Cell) /\ Len(Chunk(p, e)) = e - pos[p]
      /\ \A i \in 1 .. e - pos[p] : Chunk(p, e)[i] = data[p][pos[p] + i]
  <2> DEFINE f == data[p]
             at == pos[p]
             n == e - pos[p]
  <2>1. f \in Seq(Cell) /\ at \in Nat /\ n \in Nat /\ at + n <= Len(f)
      BY <1>1, <1>2
  <2>2. Chunk(p, e) = ReadAt(f, at, n)
      BY DEF Chunk
  <2> HIDE DEF f, at, n
  <2>3. /\ ReadAt(f, at, n) \in Seq(Cell) /\ Len(ReadAt(f, at, n)) = n
        /\ \A i \in 1 .. n : ReadAt(f, at, n)[i] = f[at + i]
      BY <2>1, ReadAtCells
  <2> QED BY <2>2, <2>3 DEF f, at, n
<1>5. \A i \in 1 .. e - pos[p] : pos[p] + i \in 1 .. Len(data[p])
    BY <1>1, <1>2
<1> QED BY <1>1, <1>2, <1>3, <1>4, <1>5

LEMMA WriteTagInv ==
    ASSUME TagInv, NEW p \in Procs, NEW e \in Nat, WriteStep(p, e)
    PROVE  TagInv'
<1> DEFINE s == Chunk(p, e)
<1>1. /\ s \in Seq(Cell) /\ file' = WriteAt(file, pos[p], s)
      /\ \A i \in 1 .. Len(s) : \E j \in 1 .. Len(data[p]) : s[i] = data[p][j]
  <2>1. /\ s \in Seq(Cell) /\ file' = WriteAt(file, pos[p], s) /\ Len(s) = e - pos[p]
        /\ \A i \in 1 .. e - pos[p] :
             pos[p] + i \in 1 .. Len(data[p]) /\ s[i] = data[p][pos[p] + i]
      BY WrittenCells
  <2> QED BY <2>1
<1>2. /\ file \in Seq(Cell) /\ pos[p] \in Nat
      /\ pos' = [pos EXCEPT ![p] = e] /\ pc[p] = "write" /\ e <= Len(data[p])
      /\ UNCHANGED <<pc, format, data, size, result, drawn, written, sole, intact, alone, seen>>
    BY DEF WriteStep, TagInv, Types
<1> HIDE DEF s
<1>3. /\ file' \in Seq(Cell)
      /\ \A i \in 1 .. Len(file') : \/ file'[i] = HoleByte
                                    \/ \E j \in 1 .. Len(file) : file'[i] = file[j]
                                    \/ \E j \in 1 .. Len(s) : file'[i] = s[j]
  <2> DEFINE at == pos[p]
  <2>1. at \in Nat /\ file' = WriteAt(file, at, s)
      BY <1>1, <1>2
  <2> HIDE DEF at
  <2>2. s \in Seq(Cell) /\ file \in Seq(Cell)
      BY <1>1, <1>2
  <2> QED BY <2>1, <2>2, WriteAtCells
<1>4. Types'
    BY <1>2, <1>3 DEF TagInv, Types
<1>5. TagsWritten(file)'
  <2>1. HoleByte \in Plain
      BY DEF HoleByte, Plain, Kinds, Values
  <2>2. TagsWritten(file) /\ TagsWritten(data[p])
      BY DEF TagInv
  <2>3. \A i \in 1 .. Len(s) : s[i] \in Plain \cup TagsOf(written)
      BY <1>1, <2>2 DEF TagsWritten
  <2>4. \A i \in 1 .. Len(file') : file'[i] \in Plain \cup TagsOf(written)
      BY <1>3, <2>1, <2>2, <2>3 DEF TagsWritten
  <2> QED BY <1>2, <2>4 DEF TagsWritten
<1>6. ASSUME NEW q \in Procs PROVE TagsWritten(data[q])' /\ CallOK(q)' /\ GcmReturnsSaved(q)'
  <2>1. TagsWritten(data[q]) /\ CallOK(q) /\ GcmReturnsSaved(q)
      BY DEF TagInv
  <2>2. TagsWritten(data[q])' /\ GcmReturnsSaved(q)'
      BY <1>2, <2>1 DEF TagsWritten, GcmReturnsSaved, ReturnsSaved
  <2>3. pos'[q] = IF q = p THEN e ELSE pos[q]
      BY <1>2 DEF TagInv, Types
  <2>4. CallOK(q)'
      BY <1>2, <2>1, <2>3 DEF CallOK, Ended
  <2> QED BY <2>2, <2>4
<1> QED BY <1>4, <1>5, <1>6 DEF TagInv

LEMMA LoadOpenTagInv ==
    ASSUME TagInv, NEW p \in Procs, NEW f \in Formats, LoadOpen(p, f)
    PROVE  TagInv'
<1>1. /\ pc' = [pc EXCEPT ![p] = "read"] /\ format' = [format EXCEPT ![p] = f]
      /\ size' = [size EXCEPT ![p] = Len(file)] /\ result' = [result EXCEPT ![p] = <<>>]
      /\ seen' = [seen EXCEPT ![p] = intact] /\ alone' = [alone EXCEPT ![p] = sole]
      /\ UNCHANGED <<file, data, pos, drawn, written, sole, intact>>
    BY DEF LoadOpen
<1>2. Types'
  <2>1. Len(file) \in Nat
      BY DEF TagInv, Types
  <2>2. alone' \in [Procs -> BOOLEAN]
      BY <1>1 DEF TagInv, Types
  <2>3. size' \in [Procs -> Nat] /\ result' = [q \in Procs |-> result'[q]]
      BY <1>1, <2>1 DEF TagInv, Types
  <2>4. /\ pc' \in [Procs -> Ended \cup {"write", "read"}]
        /\ format' \in [Procs -> Formats \cup {NoFormat}]
        /\ seen' \in [Procs -> Formats \cup {NoFormat}]
      BY <1>1 DEF TagInv, Types
  <2> QED BY <1>1, <2>2, <2>3, <2>4 DEF TagInv, Types
<1>3. /\ pc'[p] = "read" /\ format'[p] = f
      /\ \A q \in Procs \ {p} : /\ pc'[q] = pc[q] /\ format'[q] = format[q]
                                /\ result'[q] = result[q]
    BY <1>1 DEF TagInv, Types
<1>4. TagsWritten(file)'
    BY <1>1 DEF TagInv, TagsWritten
<1>5. ASSUME NEW q \in Procs PROVE TagsWritten(data[q])' /\ CallOK(q)' /\ GcmReturnsSaved(q)'
  <2>1. TagsWritten(data[q]) /\ CallOK(q) /\ GcmReturnsSaved(q)
      BY DEF TagInv
  <2>2. TagsWritten(data[q])'
      BY <1>1, <2>1 DEF TagsWritten
  <2>3. CASE q = p
      BY <1>3, <2>2, <2>3 DEF CallOK, GcmReturnsSaved, Ended
  <2>4. CASE q # p
      BY <1>1, <1>3, <2>1, <2>2, <2>4 DEF CallOK, GcmReturnsSaved, ReturnsSaved
  <2> QED BY <2>3, <2>4
<1> QED BY <1>2, <1>4, <1>5 DEF TagInv

(* One read of a load, as far as both invariants need it.                  *)
ReadStep(p, e) ==
    /\ pc[p] = "read" /\ e \in Nat /\ pos[p] < e /\ e <= size[p] /\ e <= Len(file)
    /\ data' = [data EXCEPT ![p] = data[p] \o ReadAt(file, pos[p], e - pos[p])]
    /\ pos' = [pos EXCEPT ![p] = e]
    /\ UNCHANGED <<file, pc, format, size, result, drawn, written, sole, intact, alone, seen>>

LEMMA LoadReadCases ==
    ASSUME TagInv, NEW p \in Procs, LoadRead(p)
    PROVE  \/ \E e \in Nat : ReadStep(p, e)
           \/ Fail(p, "IoError") /\ UNCHANGED <<file, drawn, written, sole, intact, alone, seen>>
<1> DEFINE n == size[p] - pos[p]
           most == Available(file, pos[p], n)
<1>1. /\ pos[p] \in Nat /\ size[p] \in Nat /\ pos[p] < size[p] /\ pc[p] = "read"
      /\ file \in Seq(Cell) /\ Len(file) \in Nat
    BY DEF LoadRead, TagInv, Types
<1>2. n \in Nat /\ pos[p] + n = size[p]
    BY <1>1
<1>3. most \in 0 .. n /\ (most > 0 => pos[p] + most <= Len(file))
    BY <1>1, <1>2, AvailableCells
<1>4. ASSUME most > 0, NEW e \in StopsAt(pos[p], pos[p] + most),
             data' = [data EXCEPT ![p] = @ \o ReadAt(file, pos[p], e - pos[p])],
             pos' = [pos EXCEPT ![p] = e],
             UNCHANGED <<file, pc, format, size, result, drawn, written, sole, intact, alone, seen>>
      PROVE  \E i \in Nat : ReadStep(p, i)
  <2> HIDE DEF most, n
  <2>1. pos[p] + most \in Nat /\ pos[p] < pos[p] + most
      BY <1>1, <1>2, <1>3, <1>4
  <2>2. e \in Nat /\ pos[p] < e /\ e <= pos[p] + most
      BY <1>1, <1>4, <2>1, StopsAtRange
  <2>3. e <= size[p] /\ e <= Len(file)
      BY <1>1, <1>2, <1>3, <1>4, <2>2
  <2>4. ReadStep(p, e)
      BY <1>1, <1>4, <2>2, <2>3 DEF ReadStep
  <2> QED BY <2>2, <2>4
<1> QED BY <1>4 DEF LoadRead

LEMMA ReadTagInv ==
    ASSUME TagInv, NEW p \in Procs, NEW e \in Nat, ReadStep(p, e)
    PROVE  TagInv'
<1> DEFINE t == ReadAt(file, pos[p], e - pos[p])
           old == data[p]
<1>1. /\ file \in Seq(Cell) /\ Len(file) \in Nat /\ pos[p] \in Nat /\ old \in Seq(Cell)
      /\ pc[p] = "read"
      /\ data' = [data EXCEPT ![p] = old \o t] /\ pos' = [pos EXCEPT ![p] = e]
      /\ UNCHANGED <<file, pc, format, size, result, drawn, written, sole, intact, alone, seen>>
    BY DEF ReadStep, TagInv, Types
<1>2. e - pos[p] \in Nat /\ pos[p] + (e - pos[p]) <= Len(file)
    BY <1>1 DEF ReadStep
<1>3. /\ t \in Seq(Cell) /\ Len(t) = e - pos[p]
      /\ \A i \in 1 .. e - pos[p] : t[i] = file[pos[p] + i]
    BY <1>1, <1>2, ReadAtCells
<1> HIDE DEF t, old
<1>4. /\ old \o t \in Seq(Cell) /\ Len(old \o t) = Len(old) + Len(t)
      /\ \A i \in 1 .. Len(old) + Len(t) :
           (old \o t)[i] = IF i <= Len(old) THEN old[i] ELSE t[i - Len(old)]
    BY <1>1, <1>3, ConcatProperties
<1>5. Types'
    BY <1>1, <1>4 DEF TagInv, Types
<1>6. TagsWritten(file)'
    BY <1>1 DEF TagInv, TagsWritten
<1>7. TagsWritten(old \o t)
  <2>1. TagsWritten(file) /\ TagsWritten(old)
      BY DEF TagInv, old
  <2>2. ASSUME NEW i \in 1 .. Len(old \o t) PROVE (old \o t)[i] \in Plain \cup TagsOf(written)
    <3>1. CASE i <= Len(old)
      <4>1. i \in 1 .. Len(old) /\ (old \o t)[i] = old[i]
          BY <3>1, <1>1, <1>3, <1>4
      <4> QED BY <4>1, <2>1 DEF TagsWritten
    <3>2. CASE ~(i <= Len(old))
      <4> DEFINE j == i - Len(old)
                 l == Len(old)
                 d == e - pos[p]
      <4>a. l \in Nat /\ d \in Nat /\ pos[p] \in Nat /\ pos[p] + d <= Len(file) /\ Len(file) \in Nat
          BY <1>1, <1>2
      <4>b. i \in 1 .. l + d /\ ~(i <= l) /\ (old \o t)[i] = t[j]
          BY <3>2, <1>3, <1>4
      <4> HIDE DEF l, d
      <4>c. i - l \in 1 .. d
          BY <4>a, <4>b
      <4>1. j \in 1 .. e - pos[p] /\ (old \o t)[i] = t[j]
          BY <4>b, <4>c DEF l, d
      <4> HIDE DEF j
      <4>2. pos[p] + j \in 1 .. Len(file)
        <5>1. j \in 1 .. d
            BY <4>1 DEF d
        <5> QED BY <5>1, <4>a
      <4> QED BY <4>1, <4>2, <1>3, <2>1 DEF TagsWritten
    <3> QED BY <3>1, <3>2
  <2> QED BY <2>2 DEF TagsWritten
<1>8. ASSUME NEW q \in Procs PROVE TagsWritten(data[q])' /\ CallOK(q)' /\ GcmReturnsSaved(q)'
  <2>1. TagsWritten(data[q]) /\ CallOK(q) /\ GcmReturnsSaved(q)
      BY DEF TagInv
  <2>2. /\ data'[q] = IF q = p THEN old \o t ELSE data[q]
        /\ pos'[q] = IF q = p THEN e ELSE pos[q]
      BY <1>1 DEF TagInv, Types
  <2>3. TagsWritten(data[q])'
      BY <1>1, <1>7, <2>1, <2>2 DEF TagsWritten
  <2>4. CallOK(q)' /\ GcmReturnsSaved(q)'
      BY <1>1, <2>1, <2>2 DEF CallOK, GcmReturnsSaved, ReturnsSaved, Ended
  <2> QED BY <2>3, <2>4
<1> QED BY <1>5, <1>6, <1>8 DEF TagInv

(* What deserialize may read as ct_len, and the message behind the header. *)
ReadLengths(d, f) ==
    IF Len(d) >= HeaderSize(f)
    THEN Lengths(SubSeq(d, HeaderSize(f) - LenBytes + 1, HeaderSize(f))) ELSE {0}
Decrypted(d, f) == Unmask(d[3], SubSeq(d, HeaderSize(f) + 1, Len(d)))

(* The ways LoadParse ends.                                                *)
LEMMA LoadParseCases ==
    ASSUME NEW p \in Procs, LoadParse(p)
    PROVE  /\ pc[p] = "read" /\ pos[p] = size[p]
           /\ UNCHANGED <<file, drawn, written, sole, intact, alone, seen>>
           /\ \E len \in ReadLengths(data[p], format[p]) :
                \/ /\ ~WellFormed(data[p], format[p], len)
                   /\ Fail(p, "FormatError")
                \/ /\ ~TagMatches(data[p], format[p])
                   /\ Fail(p, "AuthenticationError")
                \/ /\ WellFormed(data[p], format[p], len) /\ TagMatches(data[p], format[p])
                   /\ End(p, "loaded", Decrypted(data[p], format[p]))
BY DEF LoadParse, ReadLengths, Decrypted

LEMMA LoadParseTagInv ==
    ASSUME TagInv, NEW p \in Procs, LoadParse(p)
    PROVE  TagInv'
<1> DEFINE d == data[p]
           f == format[p]
<1>1. /\ pc[p] = "read" /\ UNCHANGED <<file, drawn, written, sole, intact, alone, seen>>
      /\ intact' \in Formats \cup {NoFormat}
      /\ seen' \in [Procs -> Formats \cup {NoFormat}] /\ alone' \in [Procs -> BOOLEAN]
    BY LoadParseCases DEF TagInv, Types
<1>2. CASE Fail(p, "FormatError") \/ Fail(p, "AuthenticationError")
    BY <1>1, <1>2, EndTagInv DEF Fail, Ended
<1>3. ASSUME NEW len, WellFormed(d, f, len), TagMatches(d, f), End(p, "loaded", Decrypted(d, f))
      PROVE  TagInv'
  <2>1. d \in Seq(Cell) /\ written \subseteq Saves /\ TagsWritten(d)
      BY DEF TagInv, Types
  <2>2. f = "gcm" => \E x \in written : x.format = "gcm" /\ Decrypted(d, f) = PlainBytes(x.msg)
    <3> HIDE DEF d, f
    <3> QED BY <1>3, <2>1, TagBinds DEF Decrypted
  <2>3. result'[p] = Decrypted(d, f) /\ format'[p] = f
      BY <1>3 DEF End, TagInv, Types
  <2> HIDE DEF d, f
  <2>4. GcmReturnsSaved(p)'
      BY <1>1, <2>2, <2>3 DEF GcmReturnsSaved, ReturnsSaved
  <2> QED BY <1>1, <1>3, <2>4, EndTagInv DEF Ended
<1> QED BY <1>2, <1>3, LoadParseCases

(* The file comes back from the disk, and no call survives.                *)
LEMMA PowerFailureTagInv == ASSUME IInv, PowerFailure PROVE TagInv'
<1>1. /\ file' = disk.file /\ disk.file \in Seq(Cell) /\ TagsWritten(disk.file)
      /\ written' = written /\ sole' \in BOOLEAN
    BY DEF IInv, DiskInv, PowerFailure
<1>2. Types'
  <2>1. alone' \in [Procs -> BOOLEAN]
      BY DEF PowerFailure
  <2> QED BY <1>1, <2>1 DEF PowerFailure, IInv, TagInv, Types, Ended
<1>3. TagsWritten(file)'
    BY <1>1 DEF TagsWritten
<1>4. ASSUME NEW q \in Procs PROVE TagsWritten(data[q])' /\ CallOK(q)' /\ GcmReturnsSaved(q)'
    BY DEF PowerFailure, TagsWritten, CallOK, GcmReturnsSaved
<1> QED BY <1>2, <1>3, <1>4 DEF TagInv

(* No step but Flush writes to the disk, and the saves that began only     *)
(* become more.                                                            *)
LEMMA DiskKept == ASSUME [Next]_vars, ~Flush PROVE disk' = disk /\ written \subseteq written'
BY DEF Next, vars, SaveOpen, SaveWrite, SaveReturn, OpenFails, LoadOpen, LoadRead, LoadParse, Die,
       PowerFailure

(* What is written back is a prefix of the file.                           *)
LEMMA NextDiskInv == IInv /\ [Next]_vars => DiskInv'
<1> SUFFICES ASSUME IInv, [Next]_vars PROVE DiskInv'
    OBVIOUS
<1>1. CASE Flush
  <2>1. PICK f \in Prefixes(file) : disk' = [file |-> f, exists |-> exists, sole |-> sole]
      BY <1>1 DEF Flush
  <2>2. /\ file \in Seq(Cell) /\ Len(file) \in Nat /\ TagsWritten(file) /\ written' = written
        /\ sole \in BOOLEAN
      BY <1>1 DEF Flush, IInv, TagInv, Types
  <2>3. f \in Seq(Cell) /\ Len(f) <= Len(file) /\ \A i \in 1 .. Len(f) : f[i] = file[i]
      BY <2>2, PrefixCells
  <2>4. \A i \in 1 .. Len(f) : i \in 1 .. Len(file)
      BY <2>2, <2>3
  <2>5. disk'.file = f /\ disk'.sole = sole
      BY <2>1
  <2> QED BY <2>2, <2>3, <2>4, <2>5 DEF DiskInv, TagsWritten
<1>2. CASE ~Flush
  <2>1. disk' = disk /\ written \subseteq written'
      BY <1>2, DiskKept
  <2>2. TagsOf(written) \subseteq TagsOf(written')
      BY <2>1 DEF TagsOf
  <2> QED BY <2>1, <2>2 DEF IInv, DiskInv, TagsWritten
<1> QED BY <1>1, <1>2

LEMMA NextTagInv == IInv /\ [Next]_vars => TagInv'
<1> SUFFICES ASSUME IInv, TagInv, [Next]_vars PROVE TagInv'
    BY DEF IInv
<1>t. intact \in Formats \cup {NoFormat}
    BY DEF TagInv, Types
<1>1. ASSUME NEW p \in Procs, NEW f \in Formats, NEW m \in Msgs, SaveOpen(p, f, m)
      PROVE  TagInv'
    BY <1>1, SaveOpenTagInv
<1>2. ASSUME NEW p \in Procs, SaveWrite(p) PROVE TagInv'
  <2>1. CASE \E e \in Nat : WriteStep(p, e)
      BY <2>1, WriteTagInv
  <2>2. CASE Fail(p, "IoError") /\ UNCHANGED <<file, drawn, written, sole, intact, alone, seen>>
      BY <1>t, <2>2, FailTagInv
  <2> QED BY <1>2, <2>1, <2>2, SaveWriteCases
<1>3. ASSUME NEW p \in Procs, SaveReturn(p) PROVE TagInv'
  <2>1. intact' \in Formats \cup {NoFormat}
      BY <1>3 DEF SaveReturn, TagInv, Types
  <2> QED BY <1>3, <2>1, FailTagInv DEF SaveReturn
<1>4. ASSUME NEW p \in Procs, OpenFails(p) PROVE TagInv'
    BY <1>t, <1>4, FailTagInv DEF OpenFails
<1>5. ASSUME NEW p \in Procs, NEW f \in Formats, LoadOpen(p, f) PROVE TagInv'
    BY <1>5, LoadOpenTagInv
<1>6. ASSUME NEW p \in Procs, LoadRead(p) PROVE TagInv'
  <2>1. CASE \E e \in Nat : ReadStep(p, e)
      BY <2>1, ReadTagInv
  <2>2. CASE Fail(p, "IoError") /\ UNCHANGED <<file, drawn, written, sole, intact, alone, seen>>
      BY <1>t, <2>2, FailTagInv
  <2> QED BY <1>6, <2>1, <2>2, LoadReadCases
<1>7. ASSUME NEW p \in Procs, LoadParse(p) PROVE TagInv'
    BY <1>7, LoadParseTagInv
<1>8. ASSUME NEW p \in Procs, Die(p) PROVE TagInv'
    BY <1>t, <1>8, FailTagInv DEF Die
<1>9. CASE PowerFailure
    BY <1>9, PowerFailureTagInv
<1>10. CASE Flush \/ UNCHANGED vars
  <2>1. UNCHANGED <<file, data, pc, format, size, pos, result, drawn, written, sole,
                    intact, alone, seen>>
      BY <1>10 DEF Flush, vars
  <2>2. Types' /\ TagsWritten(file)'
      BY <2>1 DEF TagInv, Types, TagsWritten
  <2>3. ASSUME NEW q \in Procs PROVE TagsWritten(data[q])' /\ CallOK(q)' /\ GcmReturnsSaved(q)'
    <3>1. TagsWritten(data[q]) /\ CallOK(q) /\ GcmReturnsSaved(q)
        BY DEF TagInv
    <3> QED BY <2>1, <3>1 DEF TagsWritten, CallOK, GcmReturnsSaved, ReturnsSaved
  <2> QED BY <2>2, <2>3 DEF TagInv
<1> QED BY <1>1, <1>2, <1>3, <1>4, <1>5, <1>6, <1>7, <1>8, <1>9, <1>10 DEF Next

(* Every tag in the file, or in what a load has read of it, was computed   *)
(* by compute_tag for a GCM container that write_file began to write, and  *)
(* so was every tag that a power failure can bring back.                   *)
THEOREM TagInvariance == Spec => []IInv
<1>1. Init => IInv
  <2>1. Init => DiskInv
      BY DEF Init, DiskInv, TagsWritten
  <2> QED BY <2>1, InitTagInv DEF IInv
<1>2. IInv /\ [Next]_vars => IInv'
    BY NextTagInv, NextDiskInv DEF IInv
<1> QED BY <1>1, <1>2, PTL DEF Spec

(* A GCM load returns a message that was saved as a GCM container, for any *)
(* overlap of any saves and loads in both formats.                         *)
THEOREM GcmLoadsReturnSaved == Spec => []GcmLoadReturnsSaved
<1>1. IInv => GcmLoadReturnsSaved
    BY DEF IInv, TagInv, GcmReturnsSaved, GcmLoadReturnsSaved
<1> QED BY <1>1, TagInvariance, PTL
-----------------------------------------------------------------------------
(* deserialize reads back the ct_len that serialize wrote, for every       *)
(* length that fits its bytes.                                             *)
LEMMA LengthsExact ==
    \A n \in 0 .. Weight(Base, LenBytes) - 1 : Lengths(EncodeLen(n)) = {n}
<1> TAKE n \in 0 .. Weight(Base, LenBytes) - 1
<1> DEFINE d == [i \in 1 .. LenBytes |-> Digit(n, Base, i - 1)]
           s == EncodeLen(n)
           V == {v \in [DOMAIN s -> 0 .. Base - 1] :
                   \A i \in DOMAIN s : s[i][1] = "zero" => v[i] = s[i][2]}
<1>1. Base \in Nat \ {0} /\ LenBytes \in Nat /\ Weight(Base, LenBytes) \in Nat
    BY SizeAssumption, WeightLaws
<1>2. ASSUME NEW i \in 1 .. LenBytes PROVE d[i] \in 0 .. Base - 1
  <2> DEFINE w == Weight(Base, i - 1)
  <2>1. n \in Nat
      BY <1>1
  <2>a. w \in Nat \ {0}
    <3>1. i - 1 \in Nat
        OBVIOUS
    <3>2. \A k \in Nat : Weight(Base, k) \in Nat \ {0}
        BY <1>1, WeightLaws
    <3> QED BY <3>1, <3>2
  <2> DEFINE q == n \div w
  <2>2. q = n \div w
      OBVIOUS
  <2> HIDE DEF w, q
  <2>3. q \in Nat
      BY <2>1, <2>a, <2>2
  <2>4. q % Base \in 0 .. Base - 1
      BY <1>1, <2>3
  <2> QED BY <2>4 DEF Digit, q, w
<1>3. /\ DOMAIN s = 1 .. LenBytes
      /\ \A i \in 1 .. LenBytes : s[i][1] = "zero" /\ s[i][2] = d[i]
    BY DEF EncodeLen, LenByte
<1>4. d = [i \in 1 .. LenBytes |-> d[i]]
    OBVIOUS
<1>5. Value(d, Base, LenBytes) = n
    BY <1>1, ValueOfDigits
<1> HIDE DEF d, s
<1>6. V = {d}
  <2>1. d \in V
      BY <1>2, <1>3, <1>4
  <2>2. ASSUME NEW v \in V PROVE v = d
    <3>1. v \in [1 .. LenBytes -> 0 .. Base - 1] /\ \A i \in 1 .. LenBytes : v[i] = d[i]
        BY <1>3
    <3> QED BY <1>4, <3>1
  <2> QED BY <2>1, <2>2
<1>7. Lengths(s) = {DecodeLen(v) : v \in V}
    BY DEF Lengths
<1>8. Lengths(s) = {DecodeLen(d)}
    BY <1>6, <1>7
<1> QED BY <1>5, <1>8 DEF DecodeLen, s

(* As soon as the header has been read, ct_len is what serialize wrote.    *)
LEMMA CutLengths ==
    ASSUME NEW f \in Formats, NEW k \in Nat, NEW m \in Msgs,
           NEW im, im = serialize(f, k, m), NEW n \in 0 .. Len(im), n >= HeaderSize(f)
    PROVE  ReadLengths(SubSeq(im, 1, n), f) = {SizeOf[m]}
<1> DEFINE d == SubSeq(im, 1, n)
           at == HeaderSize(f) - LenBytes
<1>1. /\ HeaderSize(f) \in Nat /\ LenBytes \in Nat /\ HeaderSize(f) >= LenBytes
      /\ im \in Seq(Cell) /\ Len(im) \in Nat
      /\ ReadAt(im, at, LenBytes) = EncodeLen(SizeOf[m])
  <2>1. IsContainer(im, f, k, m)
      BY ContainerCells
  <2> QED BY <2>1 DEF IsContainer
<1>2. d \in Seq(Cell) /\ Len(d) = n /\ \A i \in 1 .. n : d[i] = im[i]
    BY <1>1, FirstCells
<1>3. at \in Nat /\ at + LenBytes = HeaderSize(f) /\ at + LenBytes <= n /\ n <= Len(im)
    BY <1>1
<1> HIDE DEF d
<1>4. SubSeq(d, HeaderSize(f) - LenBytes + 1, HeaderSize(f)) = ReadAt(d, at, LenBytes)
    BY <1>3 DEF ReadAt
<1> HIDE DEF at
<1>5. /\ ReadAt(d, at, LenBytes) \in Seq(Cell) /\ Len(ReadAt(d, at, LenBytes)) = LenBytes
      /\ \A i \in 1 .. LenBytes : ReadAt(d, at, LenBytes)[i] = d[at + i]
    BY <1>1, <1>2, <1>3, ReadAtCells
<1>6. /\ ReadAt(im, at, LenBytes) \in Seq(Cell) /\ Len(ReadAt(im, at, LenBytes)) = LenBytes
      /\ \A i \in 1 .. LenBytes : ReadAt(im, at, LenBytes)[i] = im[at + i]
  <2>1. at + LenBytes <= Len(im)
      BY <1>1, <1>3
  <2> QED BY <1>1, <1>3, <2>1, ReadAtCells
<1>7. \A i \in 1 .. LenBytes : at + i \in 1 .. n
    BY <1>1, <1>3
<1>8. ReadAt(d, at, LenBytes) = ReadAt(im, at, LenBytes)
    BY <1>2, <1>5, <1>6, <1>7, SameCells
<1>9. Lengths(EncodeLen(SizeOf[m])) = {SizeOf[m]}
    BY SizeAssumption, LengthsExact
<1>10. ReadLengths(d, f) = Lengths(EncodeLen(SizeOf[m]))
    BY <1>1, <1>2, <1>4, <1>8 DEF ReadLengths
<1> QED BY <1>9, <1>10 DEF d

IsCut(d, g, k, m) ==
    \E n \in 0 .. Len(serialize(g, k, m)) : d = SubSeq(serialize(g, k, m), 1, n)

(* No proper beginning of a container is well-formed, in either format.    *)
LEMMA CutRejected ==
    ASSUME NEW g \in Formats, NEW k \in Nat, NEW m \in Msgs,
           NEW d, IsCut(d, g, k, m), NEW f \in Formats,
           NEW len \in ReadLengths(d, f), WellFormed(d, f, len)
    PROVE  f = g /\ d = serialize(g, k, m)
<1> DEFINE im == serialize(g, k, m)
<1>0. PICK n \in 0 .. Len(im) : d = SubSeq(im, 1, n)
    BY DEF IsCut
<1>1. /\ HeaderSize(g) \in Nat /\ SizeOf[m] \in Nat /\ HeaderSize(g) >= LenBytes + 3
      /\ im \in Seq(Cell) /\ Len(im) = HeaderSize(g) + SizeOf[m] /\ im[1] = Magic(g)
      /\ LenBytes \in Nat
  <2>1. IsContainer(im, g, k, m)
      BY ContainerCells
  <2> QED BY <2>1 DEF IsContainer
<1>d. im = serialize(g, k, m)
    OBVIOUS
<1> HIDE DEF im
<1>2. d \in Seq(Cell) /\ Len(d) = n /\ \A i \in 1 .. n : d[i] = im[i]
    BY <1>0, <1>1, FirstCells
<1>3. /\ Len(d) >= HeaderSize(f) /\ d[1] = Magic(f) /\ len = Len(d) - HeaderSize(f)
    BY DEF WellFormed, MagicMatches, LengthMatches
<1>4. 1 \in 1 .. n
  <2>1. HeaderSize(f) >= 3 /\ HeaderSize(f) \in Nat
      BY <1>1 DEF HeaderSize
  <2> QED BY <1>2, <1>3, <2>1
<1>5. f = g
  <2>1. Magic(f) = Magic(g)
      BY <1>1, <1>2, <1>3, <1>4
  <2>2. <<"magic", f>> = <<"magic", g>>
      BY <2>1 DEF Magic
  <2> QED BY <2>2
<1>6. n >= HeaderSize(g)
    BY <1>2, <1>3, <1>5
<1>7. len = SizeOf[m]
  <2>1. ReadLengths(SubSeq(im, 1, n), g) = {SizeOf[m]}
      BY <1>d, <1>6, CutLengths
  <2> QED BY <1>0, <1>5, <2>1
<1>8. n = Len(im)
    BY <1>1, <1>2, <1>3, <1>5, <1>7
<1> QED BY <1>0, <1>1, <1>5, <1>8, AllCells DEF im

LEMMA ImagesOfSaves ==
    ASSUME NEW x \in Saves
    PROVE  /\ x.format \in Formats /\ x.nonce \in Nat /\ x.msg \in Msgs
           /\ Image(x) = serialize(x.format, x.nonce, x.msg)
           /\ Image(x) \in Seq(Cell) /\ Len(Image(x)) \in Nat
<1> DEFINE f == x.format
           n == x.nonce
           m == x.msg
<1>1. f \in Formats /\ n \in Nat /\ m \in Msgs
    BY DEF Saves
<1>2. Image(x) = serialize(f, n, m)
    BY DEF Image
<1> HIDE DEF f, n, m
<1>3. IsContainer(serialize(f, n, m), f, n, m)
    BY <1>1, ContainerCells
<1>4. serialize(f, n, m) \in Seq(Cell) /\ Len(serialize(f, n, m)) \in Nat
    BY <1>3 DEF IsContainer
<1> QED BY <1>1, <1>2, <1>4 DEF f, n, m

(* A well-formed beginning of what a save wrote decrypts to its message.   *)
LEMMA CutLoads ==
    ASSUME written \subseteq Saves, NEW d, CutImage(d), NEW f \in Formats,
           NEW len \in ReadLengths(d, f), WellFormed(d, f, len)
    PROVE  \E x \in written : x.format = f /\ Decrypted(d, f) = PlainBytes(x.msg)
<1>1. d # <<>>
  <2>1. Len(d) >= HeaderSize(f) /\ HeaderSize(f) >= 3 /\ HeaderSize(f) \in Nat
      BY SizeAssumption DEF WellFormed, HeaderSize
  <2>2. Len(<<>>) = 0
      OBVIOUS
  <2> QED BY <2>1, <2>2
<1>2. PICK x \in written : \E n \in 0 .. Len(Image(x)) : d = SubSeq(Image(x), 1, n)
    BY <1>1 DEF CutImage
<1> DEFINE im == Image(x)
           g == x.format
           k == x.nonce
           m == x.msg
<1>3. g \in Formats /\ k \in Nat /\ m \in Msgs /\ im = serialize(g, k, m)
    BY ImagesOfSaves
<1>4. IsCut(d, g, k, m)
    BY <1>2, <1>3 DEF IsCut
<1> HIDE DEF im, g, k, m
<1>5. f = g /\ d = im
    BY <1>3, <1>4, CutRejected
<1>6. Decrypted(d, f) = PlainBytes(m)
    BY <1>3, <1>5, ContainerDecrypts DEF Decrypted
<1> QED BY <1>5, <1>6 DEF g, m

(* A load of its format accepts the whole of what a save wrote.            *)
LEMMA WholeAccepted ==
    ASSUME NEW x \in Saves, NEW len \in ReadLengths(Image(x), x.format)
    PROVE  WellFormed(Image(x), x.format, len) /\ TagMatches(Image(x), x.format)
<1> DEFINE im == Image(x)
           g == x.format
           k == x.nonce
           m == x.msg
           n == Len(im)
<1>1. /\ g \in Formats /\ k \in Nat /\ m \in Msgs /\ im = serialize(g, k, m)
      /\ im \in Seq(Cell) /\ n \in Nat /\ len \in ReadLengths(im, g)
    BY ImagesOfSaves
<1> HIDE DEF im, g, k, m
<1>2. SubSeq(im, 1, n) = im
    BY <1>1, AllCells
<1>3. WellFormed(im, g, SizeOf[m]) /\ TagMatches(im, g)
    BY <1>1, ContainerAccepted
<1>4. n >= HeaderSize(g) /\ n \in 0 .. Len(im)
    BY <1>1, <1>3 DEF WellFormed
<1>5. ReadLengths(SubSeq(im, 1, n), g) = {SizeOf[m]}
  <2> HIDE DEF n
  <2> QED BY <1>1, <1>4, CutLengths
<1>6. len = SizeOf[m]
    BY <1>1, <1>2, <1>5
<1> QED BY <1>3, <1>6 DEF im, g

(* The beginning of a beginning.                                           *)
LEMMA CutOfCut ==
    ASSUME NEW f \in Seq(Cell), NEW n \in 0 .. Len(f), NEW k \in 0 .. n
    PROVE  SubSeq(SubSeq(f, 1, n), 1, k) = SubSeq(f, 1, k)
<1> DEFINE g == SubSeq(f, 1, n)
<1>1. g \in Seq(Cell) /\ Len(g) = n /\ \A i \in 1 .. n : g[i] = f[i]
    BY FirstCells
<1>2. k \in 0 .. Len(f) /\ k \in 0 .. Len(g) /\ \A i \in 1 .. k : i \in 1 .. n
    BY <1>1
<1> HIDE DEF g
<1>3. /\ SubSeq(g, 1, k) \in Seq(Cell) /\ Len(SubSeq(g, 1, k)) = k
      /\ \A i \in 1 .. k : SubSeq(g, 1, k)[i] = g[i]
    BY <1>1, <1>2, FirstCells
<1>4. /\ SubSeq(f, 1, k) \in Seq(Cell) /\ Len(SubSeq(f, 1, k)) = k
      /\ \A i \in 1 .. k : SubSeq(f, 1, k)[i] = f[i]
    BY <1>2, FirstCells
<1>5. SubSeq(g, 1, k) = SubSeq(f, 1, k)
    BY <1>1, <1>2, <1>3, <1>4, SameCells
<1> QED BY <1>5 DEF g

LEMMA CutOfImage ==
    ASSUME written \subseteq Saves, NEW g \in Seq(Cell), CutImage(g), NEW k \in 0 .. Len(g)
    PROVE  CutImage(SubSeq(g, 1, k))
<1>1. CASE g = <<>>
  <2>1. k = 0
      BY <1>1
  <2>2. Len(SubSeq(g, 1, k)) = 0 /\ SubSeq(g, 1, k) \in Seq(Cell)
      BY <2>1, FirstCells
  <2>3. SubSeq(g, 1, k) = <<>>
      BY <2>2
  <2> QED BY <2>3 DEF CutImage
<1>2. ASSUME NEW x \in written, NEW n \in 0 .. Len(Image(x)), g = SubSeq(Image(x), 1, n)
      PROVE  CutImage(SubSeq(g, 1, k))
  <2> DEFINE im == Image(x)
  <2>1. im \in Seq(Cell) /\ Len(im) \in Nat /\ n \in 0 .. Len(im) /\ g = SubSeq(im, 1, n)
      BY <1>2, ImagesOfSaves
  <2> HIDE DEF im
  <2>2. Len(g) = n
      BY <2>1, FirstCells
  <2>3. k \in 0 .. n /\ k \in 0 .. Len(im)
      BY <2>1, <2>2
  <2>4. SubSeq(g, 1, k) = SubSeq(im, 1, k)
      BY <2>1, <2>3, CutOfCut
  <2> QED BY <2>3, <2>4 DEF CutImage, im
<1> QED BY <1>1, <1>2 DEF CutImage

LEMMA InitSoleInv == Init => SoleInv
<1> SUFFICES ASSUME Init PROVE SoleInv
    OBVIOUS
<1>1. SoleWriter
    BY DEF Init, SoleWriter, CutImage
<1>2. \A p \in Procs : Follows(p) /\ AloneReturnsSaved(p) /\ Accepts(p)
    BY DEF Init, Follows, AloneReturnsSaved, Accepts
<1> QED BY <1>1, <1>2 DEF SoleInv

(* The end of a call of p: only its verdict is left to show.               *)
LEMMA EndSoleInv ==
    ASSUME TagInv, SoleInv, NEW p \in Procs, NEW outcome \in Ended, NEW res,
           End(p, outcome, res), UNCHANGED <<file, written, sole>>,
           \A q \in Procs \ {p} : seen'[q] = seen[q] /\ alone'[q] = alone[q],
           \/ intact' = intact
           \/ /\ intact' = IF sole THEN format[p] ELSE NoFormat
              /\ pc[p] = "write" /\ pos[p] = Len(data[p]),
           AloneReturnsSaved(p)', Accepts(p)'
    PROVE  SoleInv'
<1>1. /\ pc'[p] \in Ended /\ format' = format
      /\ \A q \in Procs \ {p} : /\ pc'[q] = pc[q] /\ data'[q] = data[q] /\ size'[q] = size[q]
                                /\ pos'[q] = pos[q] /\ result'[q] = result[q]
    BY DEF End, TagInv, Types
<1>2. "write" \notin Ended /\ "read" \notin Ended
    BY DEF Ended
<1>3. ASSUME sole', NEW q \in Procs, pc'[q] = "write"
      PROVE  /\ \A r \in Procs : pc'[r] = "write" => r = q
             /\ \E x \in written' : x.format = format'[q] /\ data'[q] = Image(x)
             /\ file' = SubSeq(data'[q], 1, pos'[q])
  <2>1. q # p /\ pc[q] = "write" /\ data'[q] = data[q] /\ pos'[q] = pos[q] /\ sole
      BY <1>1, <1>2, <1>3
  <2>2. /\ \A r \in Procs : pc[r] = "write" => r = q
        /\ \E x \in written : x.format = format[q] /\ data[q] = Image(x)
        /\ file = SubSeq(data[q], 1, pos[q])
      BY <2>1 DEF SoleInv, SoleWriter
  <2> QED BY <1>1, <1>2, <2>1, <2>2
<1>4. intact # NoFormat => intact' = intact
    BY DEF SoleInv, SoleWriter
<1>5. ASSUME intact' # NoFormat
      PROVE  /\ sole' /\ \A q \in Procs : pc'[q] # "write"
             /\ \E x \in written' : x.format = intact' /\ file' = Image(x)
  <2>1. CASE intact # NoFormat
      BY <1>1, <1>2, <1>4, <2>1 DEF SoleInv, SoleWriter
  <2>2. CASE intact = NoFormat
    <3>1. sole /\ intact' = format[p] /\ pc[p] = "write" /\ pos[p] = Len(data[p])
        BY <1>5, <2>2
    <3>2. /\ \A q \in Procs : pc[q] = "write" => q = p
          /\ \E x \in written : x.format = format[p] /\ data[p] = Image(x)
          /\ file = SubSeq(data[p], 1, pos[p])
        BY <3>1 DEF SoleInv, SoleWriter
    <3>3. file = data[p]
      <4>1. data[p] \in Seq(Cell)
          BY DEF TagInv, Types
      <4> QED BY <3>1, <3>2, <4>1, AllCells
    <3> QED BY <1>1, <1>2, <3>1, <3>2, <3>3
  <2> QED BY <2>1, <2>2
<1>6. SoleWriter'
  <2>1. sole' => CutImage(file)'
      BY DEF SoleInv, SoleWriter, CutImage
  <2> QED BY <1>3, <1>5, <2>1 DEF SoleWriter, Image
<1>7. ASSUME NEW q \in Procs PROVE Follows(q)' /\ AloneReturnsSaved(q)' /\ Accepts(q)'
  <2>1. CASE q = p
      BY <1>1, <1>2, <2>1 DEF Follows
  <2>2. CASE q # p
    <3>1. Follows(q) /\ AloneReturnsSaved(q) /\ Accepts(q)
        BY DEF SoleInv
    <3>2. AloneReturnsSaved(q)' /\ Accepts(q)'
        BY <1>1, <2>2, <3>1 DEF AloneReturnsSaved, ReturnsSaved, Accepts
    <3>3. Follows(q)'
        BY <1>1, <1>4, <2>2, <3>1 DEF Follows
    <3> QED BY <3>2, <3>3
  <2> QED BY <2>1, <2>2
<1> QED BY <1>6, <1>7 DEF SoleInv

(* A call of p ends without a look at what it read.                        *)
LEMMA FailSoleInv ==
    ASSUME TagInv, SoleInv, NEW p \in Procs, NEW outcome \in {"idle", "saved", "IoError"},
           Fail(p, outcome), UNCHANGED <<file, written, sole>>,
           \/ UNCHANGED <<seen, alone>>
           \/ /\ seen' = [seen EXCEPT ![p] = NoFormat]
              /\ alone' = [alone EXCEPT ![p] = FALSE],
           \/ intact' = intact
           \/ /\ intact' = IF sole THEN format[p] ELSE NoFormat
              /\ pc[p] = "write" /\ pos[p] = Len(data[p])
    PROVE  SoleInv'
<1>1. \A q \in Procs \ {p} : seen'[q] = seen[q] /\ alone'[q] = alone[q]
    BY DEF TagInv, Types
<1>2. pc'[p] = outcome /\ outcome \in Ended
    BY DEF Fail, End, TagInv, Types, Ended
<1>3. AloneReturnsSaved(p)' /\ Accepts(p)'
    BY <1>2 DEF AloneReturnsSaved, Accepts
<1> QED BY <1>1, <1>2, <1>3, EndSoleInv DEF Fail

LEMMA SaveOpenSoleInv ==
    ASSUME TagInv, SoleInv, NEW p \in Procs, NEW f \in Formats, NEW m \in Msgs,
           SaveOpen(p, f, m)
    PROVE  SoleInv'
<1> DEFINE n == drawn + 1
           x == [format |-> f, nonce |-> n, msg |-> m]
           im == serialize(f, n, m)
<1>1. x \in Saves /\ x.format = f /\ im = Image(x)
    BY DEF Saves, Image, TagInv, Types
<1>2. /\ file' = <<>> /\ written' = written \cup {x}
      /\ data' = [data EXCEPT ![p] = im] /\ pc' = [pc EXCEPT ![p] = "write"]
      /\ format' = [format EXCEPT ![p] = f]
      /\ sole' = (\A q \in Procs : pc[q] # "write") /\ intact' = NoFormat
      /\ seen' = [q \in Procs |-> NoFormat] /\ alone' = [q \in Procs |-> FALSE]
      /\ UNCHANGED pos /\ pc[p] \in Ended
    BY DEF SaveOpen
<1> HIDE DEF im, x
<1>3. im \in Seq(Cell) /\ Len(im) \in Nat
    BY <1>1, ImagesOfSaves
<1>4. /\ pc'[p] = "write" /\ data'[p] = im /\ pos'[p] = 0 /\ format'[p] = f
      /\ \A q \in Procs \ {p} : pc'[q] = pc[q] /\ format'[q] = format[q]
      /\ \A q \in Procs : seen'[q] = NoFormat /\ ~alone'[q]
  <2>1. CallOK(p)
      BY DEF TagInv
  <2> QED BY <1>2, <2>1 DEF TagInv, Types, CallOK
<1>5. SoleWriter'
  <2>1. SubSeq(im, 1, 0) = <<>>
      BY <1>3, FirstCells
  <2>2. ASSUME sole', NEW q \in Procs, pc'[q] = "write"
        PROVE  /\ \A r \in Procs : pc'[r] = "write" => r = q
               /\ \E y \in written' : y.format = format'[q] /\ data'[q] = Image(y)
               /\ file' = SubSeq(data'[q], 1, pos'[q])
    <3>1. q = p /\ \A r \in Procs : pc'[r] = "write" => r = p
        BY <1>2, <1>4, <2>2
    <3> QED BY <1>1, <1>2, <1>4, <2>1, <3>1
  <2>3. CutImage(file)'
      BY <1>2 DEF CutImage
  <2> QED BY <1>2, <2>2, <2>3 DEF SoleWriter, Image
<1>6. ASSUME NEW q \in Procs PROVE Follows(q)' /\ AloneReturnsSaved(q)' /\ Accepts(q)'
  <2>1. CallOK(q)
      BY DEF TagInv
  <2>2. pc'[q] \in {"FormatError", "AuthenticationError"} => format'[q] \in Formats
      BY <1>4, <2>1 DEF CallOK
  <2>3. NoFormat \notin Formats
      BY DEF NoFormat, Formats
  <2> QED BY <1>4, <2>2, <2>3 DEF Follows, AloneReturnsSaved, Accepts
<1> QED BY <1>5, <1>6 DEF SoleInv

(* A ::write of the sole writer appends to the file.                       *)
LEMMA SoleWriteAppends ==
    ASSUME TagInv, SoleInv, sole, NEW p \in Procs, NEW e \in Nat, WriteStep(p, e)
    PROVE  /\ data[p] \in Seq(Cell) /\ pos[p] \in 0 .. Len(data[p]) /\ e \in pos[p] .. Len(data[p])
           /\ file = SubSeq(data[p], 1, pos[p]) /\ file' = SubSeq(data[p], 1, e)
<1> DEFINE d == data[p]
           at == pos[p]
           s == Chunk(p, e)
<1>1. /\ d \in Seq(Cell) /\ at \in 0 .. Len(d) /\ e \in at .. Len(d)
      /\ file' = WriteAt(file, at, s) /\ s \in Seq(Cell)
    BY WrittenCells
<1>2. file = SubSeq(d, 1, at) /\ file \in Seq(Cell) /\ s = ReadAt(d, at, e - at)
    BY DEF WriteStep, SoleInv, SoleWriter, Chunk, TagInv, Types
<1> HIDE DEF d, at, s
<1>3. at = Len(file) /\ at \in Nat
    BY <1>1, <1>2, FirstCells
<1>4. file' = file \o s
    BY <1>1, <1>2, <1>3, WriteAtCells
<1>5. SubSeq(d, 1, at) \o ReadAt(d, at, e - at) = SubSeq(d, 1, e)
    BY <1>1, ReadOn
<1>6. file' = SubSeq(d, 1, e)
    BY <1>2, <1>4, <1>5
<1> QED BY <1>1, <1>2, <1>6 DEF d, at

LEMMA WriteSoleInv ==
    ASSUME TagInv, SoleInv, NEW p \in Procs, NEW e \in Nat, WriteStep(p, e)
    PROVE  SoleInv'
<1>1. /\ pc[p] = "write" /\ pos' = [pos EXCEPT ![p] = e]
      /\ UNCHANGED <<pc, format, data, size, result, drawn, written, sole, intact, alone, seen>>
    BY DEF WriteStep
<1>2. intact = NoFormat
    BY <1>1 DEF SoleInv, SoleWriter
<1>3. pos'[p] = e /\ \A q \in Procs \ {p} : pos'[q] = pos[q]
    BY <1>1 DEF TagInv, Types
<1>4. ASSUME sole
      PROVE  /\ CutImage(file')
             /\ \A q \in Procs : pc[q] = "write" =>
                  /\ \A r \in Procs : pc[r] = "write" => r = q
                  /\ \E x \in written : x.format = format[q] /\ data[q] = Image(x)
                  /\ file' = SubSeq(data[q], 1, pos'[q])
  <2>1. /\ \A r \in Procs : pc[r] = "write" => r = p
        /\ \E x \in written : x.format = format[p] /\ data[p] = Image(x)
      BY <1>1, <1>4 DEF SoleInv, SoleWriter
  <2>2. file' = SubSeq(data[p], 1, e) /\ e \in 0 .. Len(data[p])
    <3>1. /\ data[p] \in Seq(Cell) /\ pos[p] \in 0 .. Len(data[p])
          /\ e \in pos[p] .. Len(data[p]) /\ file' = SubSeq(data[p], 1, e)
        BY <1>4, SoleWriteAppends
    <3> QED BY <3>1
  <2>3. CutImage(file')
      BY <2>1, <2>2 DEF CutImage
  <2> QED BY <1>3, <2>1, <2>2, <2>3
<1>5. SoleWriter'
  <2>1. CutImage(file)' <=> CutImage(file')
      BY <1>1 DEF CutImage, Image
  <2> QED BY <1>1, <1>2, <1>4, <2>1 DEF SoleWriter, Image
<1>6. ASSUME NEW q \in Procs PROVE Follows(q)' /\ AloneReturnsSaved(q)' /\ Accepts(q)'
  <2>1. Follows(q) /\ AloneReturnsSaved(q) /\ Accepts(q)
      BY DEF SoleInv
  <2>2. AloneReturnsSaved(q)' /\ Accepts(q)'
      BY <1>1, <2>1 DEF AloneReturnsSaved, ReturnsSaved, Accepts
  <2>3. ASSUME pc[q] = "read", alone[q]
        PROVE  size[q] <= Len(file') /\ data[q] = SubSeq(file', 1, pos[q])
    <3> DEFINE d == data[p]
               at == pos[p]
               k == pos[q]
    <3>1. sole /\ size[q] <= Len(file) /\ k <= size[q] /\ data[q] = SubSeq(file, 1, k)
        BY <2>1, <2>3 DEF Follows
    <3>2. /\ d \in Seq(Cell) /\ at \in 0 .. Len(d) /\ e \in at .. Len(d)
          /\ file = SubSeq(d, 1, at) /\ file' = SubSeq(d, 1, e)
        BY <3>1, SoleWriteAppends
    <3>3. size[q] \in Nat /\ k \in Nat
        BY DEF TagInv, Types
    <3> HIDE DEF d, at, k
    <3>4. e \in 0 .. Len(d)
        BY <3>2
    <3>5. Len(file) = at /\ Len(file') = e
        BY <3>2, <3>4, FirstCells
    <3>6. k \in 0 .. at /\ k \in 0 .. e
        BY <3>1, <3>2, <3>3, <3>5
    <3>7. SubSeq(SubSeq(d, 1, at), 1, k) = SubSeq(d, 1, k)
        BY <3>2, <3>6, CutOfCut
    <3>8. SubSeq(SubSeq(d, 1, e), 1, k) = SubSeq(d, 1, k)
        BY <3>2, <3>4, <3>6, CutOfCut
    <3>9. size[q] <= Len(file')
        BY <3>1, <3>2, <3>3, <3>5
    <3> QED BY <3>1, <3>2, <3>7, <3>8, <3>9 DEF k
  <2>4. Follows(q)'
    <3>1. pc[q] = "read" => q # p
        BY <1>1
    <3> QED BY <1>1, <1>2, <1>3, <2>1, <2>3, <3>1 DEF Follows
  <2> QED BY <2>2, <2>4
<1> QED BY <1>5, <1>6 DEF SoleInv

LEMMA LoadOpenSoleInv ==
    ASSUME TagInv, SoleInv, NEW p \in Procs, NEW f \in Formats, LoadOpen(p, f)
    PROVE  SoleInv'
<1>1. /\ pc[p] \in Ended /\ pc' = [pc EXCEPT ![p] = "read"]
      /\ format' = [format EXCEPT ![p] = f] /\ size' = [size EXCEPT ![p] = Len(file)]
      /\ result' = [result EXCEPT ![p] = <<>>]
      /\ seen' = [seen EXCEPT ![p] = intact] /\ alone' = [alone EXCEPT ![p] = sole]
      /\ UNCHANGED <<file, data, pos, drawn, written, sole, intact>>
    BY DEF LoadOpen
<1>2. /\ pc'[p] = "read" /\ size'[p] = Len(file) /\ seen'[p] = intact /\ alone'[p] = sole
      /\ \A q \in Procs \ {p} :
           /\ pc'[q] = pc[q] /\ size'[q] = size[q] /\ seen'[q] = seen[q] /\ format'[q] = format[q]
           /\ alone'[q] = alone[q] /\ result'[q] = result[q]
    BY <1>1 DEF TagInv, Types
<1>3. SoleWriter'
  <2>1. \A q \in Procs : pc'[q] = "write" => q # p /\ pc[q] = "write" /\ format'[q] = format[q]
      BY <1>2
  <2> QED BY <1>1, <2>1 DEF SoleInv, SoleWriter, CutImage, Image
<1>4. ASSUME NEW q \in Procs PROVE Follows(q)' /\ AloneReturnsSaved(q)' /\ Accepts(q)'
  <2>1. CASE q = p
    <3>1. file \in Seq(Cell) /\ Len(file) \in Nat /\ pos[p] = 0 /\ data[p] = <<>>
        BY <1>1 DEF TagInv, Types, CallOK
    <3>2. SubSeq(file, 1, 0) = <<>>
        BY <3>1, FirstCells
    <3>3. intact # NoFormat => sole
        BY DEF SoleInv, SoleWriter
    <3>4. Follows(p)'
        BY <1>1, <1>2, <3>1, <3>2, <3>3 DEF Follows
    <3>5. AloneReturnsSaved(p)' /\ Accepts(p)'
        BY <1>2 DEF AloneReturnsSaved, Accepts
    <3> QED BY <2>1, <3>4, <3>5
  <2>2. CASE q # p
    <3>1. Follows(q) /\ AloneReturnsSaved(q) /\ Accepts(q)
        BY DEF SoleInv
    <3> QED BY <1>1, <1>2, <2>2, <3>1 DEF Follows, AloneReturnsSaved, ReturnsSaved, Accepts
  <2> QED BY <2>1, <2>2
<1> QED BY <1>3, <1>4 DEF SoleInv

LEMMA ReadSoleInv ==
    ASSUME TagInv, SoleInv, NEW p \in Procs, NEW e \in Nat, ReadStep(p, e)
    PROVE  SoleInv'
<1> DEFINE t == ReadAt(file, pos[p], e - pos[p])
           new == data[p] \o t
<1>1. /\ pc[p] = "read" /\ pos[p] < e /\ e <= size[p] /\ e <= Len(file)
      /\ data' = [data EXCEPT ![p] = new] /\ pos' = [pos EXCEPT ![p] = e]
      /\ UNCHANGED <<file, pc, format, size, result, drawn, written, sole, intact, alone, seen>>
    BY DEF ReadStep
<1>2. ASSUME alone[p] PROVE new = SubSeq(file, 1, e)
  <2> DEFINE at == pos[p]
  <2>1. data[p] = SubSeq(file, 1, at)
      BY <1>1, <1>2 DEF SoleInv, Follows
  <2>2. file \in Seq(Cell) /\ at \in 0 .. Len(file) /\ e \in at .. Len(file)
    <3>1. file \in Seq(Cell) /\ pos[p] \in Nat /\ Len(file) \in Nat
        BY DEF TagInv, Types
    <3> QED BY <1>1, <3>1
  <2> HIDE DEF at
  <2>3. SubSeq(file, 1, at) \o ReadAt(file, at, e - at) = SubSeq(file, 1, e)
      BY <2>2, ReadOn
  <2> QED BY <2>1, <2>3 DEF at
<1> HIDE DEF new, t
<1>3. /\ data'[p] = new /\ pos'[p] = e
      /\ \A q \in Procs \ {p} : data'[q] = data[q] /\ pos'[q] = pos[q]
    BY <1>1 DEF TagInv, Types
<1>4. SoleWriter'
  <2>1. \A q \in Procs : pc'[q] = "write" => q # p
      BY <1>1
  <2> QED BY <1>1, <1>3, <2>1 DEF SoleInv, SoleWriter, CutImage, Image
<1>5. ASSUME NEW q \in Procs PROVE Follows(q)' /\ AloneReturnsSaved(q)' /\ Accepts(q)'
  <2>1. Follows(q) /\ AloneReturnsSaved(q) /\ Accepts(q)
      BY DEF SoleInv
  <2>2. AloneReturnsSaved(q)' /\ Accepts(q)'
      BY <1>1, <2>1 DEF AloneReturnsSaved, ReturnsSaved, Accepts
  <2>3. CASE q = p
      BY <1>1, <1>2, <1>3, <2>1, <2>2, <2>3 DEF Follows
  <2>4. CASE q # p
      BY <1>1, <1>3, <2>1, <2>2, <2>4 DEF Follows
  <2> QED BY <2>3, <2>4
<1> QED BY <1>4, <1>5 DEF SoleInv

(* What an undisturbed load has read when it parses.                       *)
LEMMA LoadParseSoleInv ==
    ASSUME TagInv, SoleInv, NEW p \in Procs, LoadParse(p)
    PROVE  SoleInv'
<1> DEFINE d == data[p]
           f == format[p]
<1>1. /\ pc[p] = "read" /\ pos[p] = size[p] /\ f \in Formats
      /\ UNCHANGED <<file, drawn, written, sole, intact, alone, seen>>
    BY LoadParseCases DEF TagInv, CallOK
<1>2. file \in Seq(Cell) /\ Len(file) \in Nat /\ written \subseteq Saves /\ size[p] \in Nat
    BY DEF TagInv, Types
<1>3. ASSUME alone[p] PROVE CutImage(d)
  <2>1. sole /\ size[p] <= Len(file) /\ d = SubSeq(file, 1, size[p])
      BY <1>1, <1>3 DEF SoleInv, Follows
  <2>2. CutImage(file)
      BY <2>1 DEF SoleInv, SoleWriter
  <2> DEFINE k == size[p]
  <2>3. k \in 0 .. Len(file) /\ d = SubSeq(file, 1, k)
      BY <1>2, <2>1
  <2> HIDE DEF d, k
  <2>4. CutImage(SubSeq(file, 1, k))
      BY <1>2, <2>2, <2>3, CutOfImage
  <2> QED BY <2>3, <2>4
<1>4. ASSUME seen[p] = f PROVE \E x \in written : x.format = f /\ d = Image(x)
  <2>1. seen[p] # NoFormat
      BY <1>1, <1>4 DEF Formats, NoFormat
  <2>2. intact = f /\ d = SubSeq(file, 1, size[p]) /\ size[p] = Len(file) /\ intact # NoFormat
      BY <1>1, <1>4, <2>1 DEF SoleInv, Follows
  <2>3. \E x \in written : x.format = f /\ file = Image(x)
      BY <2>2 DEF SoleInv, SoleWriter
  <2>4. d = file
      BY <1>2, <2>2, AllCells
  <2> QED BY <2>3, <2>4
<1> HIDE DEF d, f
<1>5. ASSUME NEW len \in ReadLengths(d, f), NEW outcome \in {"FormatError", "AuthenticationError"},
             Fail(p, outcome), ~(WellFormed(d, f, len) /\ TagMatches(d, f))
      PROVE  SoleInv'
  <2>1. seen[p] # f
      BY <1>2, <1>4, <1>5, WholeAccepted
  <2>2. pc'[p] = outcome /\ format'[p] = f
      BY <1>5 DEF Fail, End, TagInv, Types, f
  <2>3. AloneReturnsSaved(p)' /\ Accepts(p)'
      BY <1>1, <2>1, <2>2 DEF AloneReturnsSaved, Accepts
  <2> QED BY <1>1, <1>5, <2>3, EndSoleInv DEF Fail, Ended
<1>6. ASSUME NEW len \in ReadLengths(d, f), WellFormed(d, f, len),
             End(p, "loaded", Decrypted(d, f))
      PROVE  SoleInv'
  <2>1. alone[p] => \E x \in written : x.format = f /\ Decrypted(d, f) = PlainBytes(x.msg)
      BY <1>1, <1>2, <1>3, <1>6, CutLoads
  <2>2. pc'[p] = "loaded" /\ format'[p] = f /\ result'[p] = Decrypted(d, f)
      BY <1>6 DEF End, TagInv, Types, f
  <2>3. AloneReturnsSaved(p)' /\ Accepts(p)'
      BY <1>1, <2>1, <2>2 DEF AloneReturnsSaved, ReturnsSaved, Accepts
  <2> QED BY <1>1, <1>6, <2>3, EndSoleInv DEF Ended
<1> QED BY <1>5, <1>6, LoadParseCases DEF d, f

(* What the disk holds of the writes of one save is the beginning of a     *)
(* container, so the file is one after a power failure.                    *)
LEMMA PowerFailureSoleInv == ASSUME IInv, SoleInv, DiskCut, PowerFailure PROVE SoleInv'
<1>1. /\ \A p \in Procs : pc'[p] = "idle"
      /\ file' = disk.file /\ intact' = NoFormat /\ sole' = disk.sole /\ UNCHANGED written
    BY DEF PowerFailure
<1>2. sole' => CutImage(file')
    BY <1>1 DEF DiskCut
<1>3. SoleWriter'
    BY <1>1, <1>2 DEF SoleWriter, CutImage, Image
<1>4. \A p \in Procs : Follows(p)' /\ AloneReturnsSaved(p)' /\ Accepts(p)'
    BY <1>1 DEF Follows, AloneReturnsSaved, Accepts
<1> QED BY <1>3, <1>4 DEF SoleInv

LEMMA NextDiskCut == IInv /\ SoleInv /\ DiskCut /\ [Next]_vars => DiskCut'
<1> SUFFICES ASSUME IInv, SoleInv, DiskCut, [Next]_vars PROVE DiskCut'
    OBVIOUS
<1>1. CASE Flush
  <2>1. PICK f \in Prefixes(file) : disk' = [file |-> f, exists |-> exists, sole |-> sole]
      BY <1>1 DEF Flush
  <2>2. /\ file \in Seq(Cell) /\ written \subseteq Saves /\ (sole => CutImage(file))
        /\ written' = written
      BY <1>1 DEF Flush, IInv, TagInv, Types, SoleInv, SoleWriter
  <2>3. PICK n \in 0 .. Len(file) : f = SubSeq(file, 1, n)
      BY DEF Prefixes
  <2>4. sole => CutImage(SubSeq(file, 1, n))
      BY <2>2, CutOfImage
  <2>5. disk'.file = f /\ disk'.sole = sole
      BY <2>1
  <2> QED BY <2>2, <2>3, <2>4, <2>5 DEF DiskCut, CutImage, Image
<1>2. CASE ~Flush
  <2>1. disk' = disk /\ written \subseteq written'
      BY <1>2, DiskKept
  <2> QED BY <2>1 DEF DiskCut, CutImage, Image
<1> QED BY <1>1, <1>2

LEMMA NextSoleInv == IInv /\ SoleInv /\ DiskCut /\ [Next]_vars => SoleInv'
<1> SUFFICES ASSUME IInv, TagInv, SoleInv, DiskCut, [Next]_vars PROVE SoleInv'
    BY DEF IInv
<1>1. ASSUME NEW p \in Procs, NEW f \in Formats, NEW m \in Msgs, SaveOpen(p, f, m)
      PROVE  SoleInv'
    BY <1>1, SaveOpenSoleInv
<1>2. ASSUME NEW p \in Procs, SaveWrite(p) PROVE SoleInv'
  <2>1. CASE \E e \in Nat : WriteStep(p, e)
      BY <2>1, WriteSoleInv
  <2>2. CASE Fail(p, "IoError") /\ UNCHANGED <<file, drawn, written, sole, intact, alone, seen>>
      BY <2>2, FailSoleInv
  <2> QED BY <1>2, <2>1, <2>2, SaveWriteCases
<1>3. ASSUME NEW p \in Procs, SaveReturn(p) PROVE SoleInv'
    BY <1>3, FailSoleInv DEF SaveReturn
<1>4. ASSUME NEW p \in Procs, OpenFails(p) PROVE SoleInv'
    BY <1>4, FailSoleInv DEF OpenFails
<1>5. ASSUME NEW p \in Procs, NEW f \in Formats, LoadOpen(p, f) PROVE SoleInv'
    BY <1>5, LoadOpenSoleInv
<1>6. ASSUME NEW p \in Procs, LoadRead(p) PROVE SoleInv'
  <2>1. CASE \E e \in Nat : ReadStep(p, e)
      BY <2>1, ReadSoleInv
  <2>2. CASE Fail(p, "IoError") /\ UNCHANGED <<file, drawn, written, sole, intact, alone, seen>>
      BY <2>2, FailSoleInv
  <2> QED BY <1>6, <2>1, <2>2, LoadReadCases
<1>7. ASSUME NEW p \in Procs, LoadParse(p) PROVE SoleInv'
    BY <1>7, LoadParseSoleInv
<1>8. ASSUME NEW p \in Procs, Die(p) PROVE SoleInv'
    BY <1>8, FailSoleInv DEF Die
<1>9. CASE PowerFailure
    BY <1>9, PowerFailureSoleInv
<1>10. CASE Flush \/ UNCHANGED vars
  <2>1. UNCHANGED <<file, data, pc, format, size, pos, result, written, sole, intact, alone, seen>>
      BY <1>10 DEF Flush, vars
  <2>2. SoleWriter'
      BY <2>1 DEF SoleInv, SoleWriter, CutImage, Image
  <2>3. ASSUME NEW q \in Procs PROVE Follows(q)' /\ AloneReturnsSaved(q)' /\ Accepts(q)'
    <3>1. Follows(q) /\ AloneReturnsSaved(q) /\ Accepts(q)
        BY DEF SoleInv
    <3> QED BY <2>1, <3>1 DEF Follows, AloneReturnsSaved, ReturnsSaved, Accepts
  <2> QED BY <2>2, <2>3 DEF SoleInv
<1> QED BY <1>1, <1>2, <1>3, <1>4, <1>5, <1>6, <1>7, <1>8, <1>9, <1>10 DEF Next

(* An undisturbed load has read the beginning of one container; as         *)
(* deserialize reads back the ct_len that serialize wrote, it accepts all  *)
(* of it and nothing less.                                                 *)
THEOREM SoleInvariance == Spec => [](IInv /\ SoleInv /\ DiskCut)
<1>1. Init => DiskCut
    BY DEF Init, DiskCut, CutImage
<1> QED BY <1>1, NextSoleInv, NextDiskCut, InitSoleInv, TagInvariance, PTL DEF Spec

(* Whatever cut the file short, a load in either format, with no save      *)
(* overlapping, returns one whole message of a save in that format.        *)
THEOREM LoadsReturnSaved == Spec => []LoadReturnsSaved
<1>1. SoleInv => LoadReturnsSaved
    BY DEF SoleInv, AloneReturnsSaved, LoadReturnsSaved
<1> QED BY <1>1, SoleInvariance, PTL

(* A completed save is accepted by every undisturbed load of its format.   *)
THEOREM SavedContainersAccepted == Spec => []SavedContainerLoads
<1>1. SoleInv => SavedContainerLoads
    BY DEF SoleInv, Accepts, SavedContainerLoads
<1> QED BY <1>1, SoleInvariance, PTL
=============================================================================
