------------------------ MODULE WrappedKeyFileProofs ------------------------
(* Proofs about WrappedKeyFile for any processes, keys, key sizes,         *)
(* passphrases, iteration counts and number of saves, with saves and loads *)
(* of the path interleaved at their system calls.                          *)
EXTENDS WrappedKeyFile, SequenceTheorems, TLAPS

(* The cells.  Part is what the tag of a save covers, Tag the tag cell;    *)
(* all other cells of a file, the zeros of a hole included, are plain.     *)
Part(k, w, iter, salt) ==
    <<Magic, Version, MarkerOf(k), <<"salt", salt>>, <<"iter", iter>>, <<"nonce", salt>>>>
      \o Wrap(Derive(w, salt, iter), salt, KeyBytes(k))
Tag(k, w, iter, salt) == Hmac(Derive(w, salt, iter), Part(k, w, iter, salt))

Kinds == {"magic", "version", "size", "salt", "iter", "nonce", "wrapped", "zero"}
Derived == {Derive(w, salt, iter) : w \in Passphrases, salt \in Nat, iter \in Nat}
Values == {"AESW"} \cup Nat \cup [derived : Derived, nonce : Nat, byte : Keys \X Nat]
Plain == Kinds \X Values
Saves == [key : Keys, pass : Passphrases]
TagsOf(W) == {Tag(x.key, x.pass, iter, salt) : x \in W, iter \in Nat, salt \in Nat}
Cell == Plain \cup TagsOf(Saves)

(* The images a save of x can write: its iteration count passed the check. *)
Images(x) ==
    {Image(x.key, x.pass, iter, salt) :
       iter \in {i \in Iterations : i >= kMinPbkdf2Iterations}, salt \in Nat}

(* The tags in f were computed by saves that began to write.               *)
TagsWritten(f) == \A i \in 1 .. Len(f) : f[i] \in Plain \cup TagsOf(written)

LastRecords == [key : Keys \cup {NoKey}, pass : Passphrases \cup {"none"}]
SeenRecords == [pass : Passphrases \cup {"none"}, last : LastRecords, intact : BOOLEAN]

Types ==
    /\ file \in Seq(Cell) /\ data \in [Procs -> Seq(Cell)]
    /\ pc \in [Procs -> Ended \cup {"write", "read"}]
    /\ size \in [Procs -> Nat] /\ pos \in [Procs -> Nat]
    /\ pass \in [Procs -> Passphrases \cup {"none"}]
    /\ result = [p \in Procs |-> result[p]]
    /\ salts \in Nat /\ sole \in BOOLEAN /\ intact \in BOOLEAN
    /\ written \subseteq Saves /\ seen \in [Procs -> SeenRecords]
    /\ last \in LastRecords

(* Where a call can be, by its phase.                                      *)
CallOK(p) ==
    /\ pc[p] \in Ended => pos[p] = 0 /\ data[p] = <<>>
    /\ pc[p] = "write" => pos[p] <= Len(data[p])
    /\ pc[p] = "read" => seen[p].pass = pass[p]

(* While the last save is the only one that wrote, it has the file to      *)
(* itself and the file is what it wrote of its image; once it completed,   *)
(* the file is the image.                                                  *)
SoleWriter ==
    /\ sole => \A p \in Procs : pc[p] = "write" =>
         /\ \A q \in Procs : pc[q] = "write" => q = p
         /\ last \in written /\ data[p] \in Images(last)
         /\ file = SubSeq(data[p], 1, pos[p])
    /\ intact => /\ last \in written /\ file \in Images(last)
                 /\ \A p \in Procs : pc[p] # "write"

(* An undisturbed load of a completed save has read what is in the file.   *)
Follows(p) ==
    pc[p] = "read" /\ seen[p].intact =>
        /\ intact /\ seen[p].last = last
        /\ size[p] = Len(file) /\ pos[p] <= size[p]
        /\ data[p] = SubSeq(file, 1, pos[p])

(* LoadReturnsSavedKey of one process.                                     *)
ReturnsSaved(p) ==
    pc[p] = "loaded" =>
        \E x \in written : x.pass = seen[p].pass /\ result[p] = KeyBytes(x.key)

(* The inductive invariant behind LoadReturnsSavedKey ...                  *)
TagInv ==
    /\ Types /\ TagsWritten(file)
    /\ \A p \in Procs : TagsWritten(data[p]) /\ CallOK(p) /\ ReturnsSaved(p)
(* ... of which a power failure brings back the part about the file, ...   *)
DiskInv == disk.file \in Seq(Cell) /\ TagsWritten(disk.file)
IInv == TagInv /\ DiskInv
(* ... and what SavedKeyLoads, here of one process, needs besides.         *)
Accepts(p) ==
    pc[p] \in {"FormatError", "AuthenticationError"} =>
        ~seen[p].intact \/ seen[p].pass # seen[p].last.pass
SoleInv == SoleWriter /\ \A p \in Procs : Follows(p) /\ Accepts(p)
-----------------------------------------------------------------------------
(* The file operations, on cells.                                          *)
LEMMA ReadAtCells ==
    ASSUME NEW f \in Seq(Cell), NEW at \in Nat, NEW n \in Nat, at + n <= Len(f)
    PROVE  /\ ReadAt(f, at, n) \in Seq(Cell) /\ Len(ReadAt(f, at, n)) = n
           /\ \A i \in 1 .. n : ReadAt(f, at, n)[i] = f[at + i]
<1>1. \A i \in at + 1 .. at + n : f[i] \in Cell
    OBVIOUS
<1>2. /\ SubSeq(f, at + 1, at + n) \in Seq(Cell)
      /\ Len(SubSeq(f, at + 1, at + n)) =
           IF at + 1 <= at + n THEN (at + n) - (at + 1) + 1 ELSE 0
      /\ \A i \in 1 .. (at + n) - (at + 1) + 1 :
           SubSeq(f, at + 1, at + n)[i] = f[(at + 1) + i - 1]
    BY <1>1, SubSeqProperties
<1>3. /\ (at + n) - (at + 1) + 1 = n /\ (n # 0 <=> at + 1 <= at + n)
      /\ \A i \in 1 .. n : (at + 1) + i - 1 = at + i
    OBVIOUS
<1> QED BY <1>2, <1>3 DEF ReadAt

LEMMA FirstCells ==
    ASSUME NEW f \in Seq(Cell), NEW n \in 0 .. Len(f)
    PROVE  /\ SubSeq(f, 1, n) \in Seq(Cell) /\ Len(SubSeq(f, 1, n)) = n
           /\ \A i \in 1 .. n : SubSeq(f, 1, n)[i] = f[i]
<1>1. n \in Nat /\ 0 \in Nat /\ 0 + n <= Len(f)
    OBVIOUS
<1>2. /\ ReadAt(f, 0, n) \in Seq(Cell) /\ Len(ReadAt(f, 0, n)) = n
      /\ \A i \in 1 .. n : ReadAt(f, 0, n)[i] = f[0 + i]
    BY <1>1, ReadAtCells
<1> QED BY <1>2, <1>1 DEF ReadAt

(* Sequences with the same cells are equal.                                *)
LEMMA SameCells ==
    ASSUME NEW f \in Seq(Cell), NEW g \in Seq(Cell), Len(f) = Len(g),
           \A i \in 1 .. Len(f) : f[i] = g[i]
    PROVE  f = g
BY SeqDef

(* Reading on from cell n gives the first cells up to e.                   *)
LEMMA ReadOn ==
    ASSUME NEW f \in Seq(Cell), NEW n \in 0 .. Len(f), NEW e \in n .. Len(f)
    PROVE  SubSeq(f, 1, n) \o ReadAt(f, n, e - n) = SubSeq(f, 1, e)
<1> DEFINE a == SubSeq(f, 1, n)
           b == ReadAt(f, n, e - n)
           c == SubSeq(f, 1, e)
<1>1. n \in Nat /\ e \in Nat /\ e - n \in Nat /\ n + (e - n) = e /\ e \in 0 .. Len(f)
    OBVIOUS
<1>2. a \in Seq(Cell) /\ Len(a) = n /\ \A i \in 1 .. n : a[i] = f[i]
    BY FirstCells
<1>3. b \in Seq(Cell) /\ Len(b) = e - n /\ \A i \in 1 .. e - n : b[i] = f[n + i]
  <2> DEFINE k == e - n
  <2>1. k \in Nat /\ n \in Nat /\ n + k <= Len(f)
      BY <1>1
  <2> HIDE DEF k
  <2>2. /\ ReadAt(f, n, k) \in Seq(Cell) /\ Len(ReadAt(f, n, k)) = k
        /\ \A i \in 1 .. k : ReadAt(f, n, k)[i] = f[n + i]
      BY <2>1, ReadAtCells
  <2> QED BY <2>2 DEF k
<1>4. c \in Seq(Cell) /\ Len(c) = e /\ \A i \in 1 .. e : c[i] = f[i]
    BY <1>1, FirstCells
<1> HIDE DEF a, b, c
<1>5. /\ a \o b \in Seq(Cell) /\ Len(a \o b) = e
      /\ \A i \in 1 .. e : (a \o b)[i] = IF i <= n THEN a[i] ELSE b[i - n]
  <2>1. /\ a \o b \in Seq(Cell) /\ Len(a \o b) = Len(a) + Len(b)
        /\ \A i \in 1 .. Len(a) + Len(b) :
             (a \o b)[i] = IF i <= Len(a) THEN a[i] ELSE b[i - Len(a)]
      BY <1>2, <1>3, ConcatProperties
  <2>2. Len(a) + Len(b) = e
      BY <1>1, <1>2, <1>3
  <2> QED BY <2>1, <2>2, <1>2
<1>6. ASSUME NEW i \in 1 .. e PROVE (a \o b)[i] = c[i]
  <2>1. CASE i <= n
    <3>1. i \in 1 .. n
        BY <2>1, <1>1
    <3> QED BY <2>1, <3>1, <1>2, <1>4, <1>5
  <2>2. CASE ~(i <= n)
    <3>1. i - n \in 1 .. e - n /\ n + (i - n) = i
        BY <2>2, <1>1
    <3> QED BY <2>2, <3>1, <1>3, <1>4, <1>5
  <2> QED BY <2>1, <2>2
<1>7. a \o b = c
    BY <1>4, <1>5, <1>6, SameCells
<1> QED BY <1>7 DEF a, b, c

(* A write gives a file again; its cells are old ones, new ones, or zeros. *)
LEMMA WriteAtCells ==
    ASSUME NEW f \in Seq(Cell), NEW at \in Nat, NEW s \in Seq(Cell),
           NEW g, g = WriteAt(f, at, s)
    PROVE  /\ g \in Seq(Cell)
           /\ \A i \in 1 .. Len(g) : \/ g[i] = HoleByte
                                     \/ \E j \in 1 .. Len(f) : g[i] = f[j]
                                     \/ \E j \in 1 .. Len(s) : g[i] = s[j]
           /\ at = Len(f) => g = f \o s
<1> DEFINE end == at + Len(s)
           n == IF Len(f) > end THEN Len(f) ELSE end
           G(i) == IF i > at /\ i <= end THEN s[i - at]
                   ELSE IF i <= Len(f) THEN f[i] ELSE HoleByte
<1>h. HoleByte \in Cell
    BY DEF HoleByte, Cell, Plain, Kinds, Values
<1>1. Len(f) \in Nat /\ Len(s) \in Nat /\ n \in Nat /\ end \in Nat
    OBVIOUS
<1>2. g = [i \in 1 .. n |-> G(i)]
    BY DEF WriteAt
<1>3. ASSUME NEW i \in 1 .. n
      PROVE  /\ G(i) \in Cell
             /\ \/ G(i) = HoleByte
                \/ \E j \in 1 .. Len(f) : G(i) = f[j]
                \/ \E j \in 1 .. Len(s) : G(i) = s[j]
  <2>1. CASE i > at /\ i <= end
    <3>1. i - at \in 1 .. Len(s) /\ G(i) = s[i - at]
        BY <2>1, <1>1
    <3>2. s[i - at] \in Cell
        BY <3>1
    <3> QED BY <3>1, <3>2
  <2>2. CASE ~(i > at /\ i <= end) /\ i <= Len(f)
    <3>1. i \in 1 .. Len(f) /\ G(i) = f[i]
        BY <2>2, <1>1
    <3>2. f[i] \in Cell
        BY <3>1
    <3> QED BY <3>1, <3>2
  <2>3. CASE ~(i > at /\ i <= end) /\ ~(i <= Len(f))
      BY <2>3, <1>h
  <2> QED BY <2>1, <2>2, <2>3
<1> HIDE DEF G, n
<1>4. g \in [1 .. n -> Cell] /\ g \in Seq(Cell)
  <2>1. g \in [1 .. n -> Cell]
      BY <1>2, <1>3
  <2>2. [1 .. n -> Cell] \subseteq Seq(Cell)
      BY <1>1, SeqDef
  <2> QED BY <2>1, <2>2
<1>5. Len(g) = n
    BY <1>1, <1>2
<1>6. ASSUME at = Len(f) PROVE g = f \o s
  <2>1. n = Len(f) + Len(s) /\ end = Len(f) + Len(s)
      BY <1>1, <1>6 DEF n
  <2>2. /\ f \o s \in Seq(Cell) /\ Len(f \o s) = Len(f) + Len(s)
        /\ \A i \in 1 .. Len(f) + Len(s) :
             (f \o s)[i] = IF i <= Len(f) THEN f[i] ELSE s[i - Len(f)]
      BY ConcatProperties
  <2>3. ASSUME NEW i \in 1 .. Len(f) + Len(s)
        PROVE  G(i) = IF i <= Len(f) THEN f[i] ELSE s[i - Len(f)]
    <3>1. CASE i <= Len(f)
        BY <3>1, <1>1, <1>6, <2>1 DEF G
    <3>2. CASE ~(i <= Len(f))
        BY <3>2, <1>1, <1>6, <2>1 DEF G
    <3> QED BY <3>1, <3>2
  <2>4. \A i \in 1 .. Len(g) : g[i] = (f \o s)[i]
      BY <1>2, <1>5, <2>1, <2>2, <2>3
  <2> QED BY <1>4, <1>5, <2>1, <2>2, <2>4, SameCells
<1> QED BY <1>2, <1>3, <1>4, <1>5, <1>6

LEMMA PrefixCells ==
    ASSUME NEW f \in Seq(Cell), NEW g \in Prefixes(f)
    PROVE  g \in Seq(Cell) /\ Len(g) <= Len(f) /\ \A i \in 1 .. Len(g) : g[i] = f[i]
<1>1. PICK n \in 0 .. Len(f) : g = SubSeq(f, 1, n)
    BY DEF Prefixes
<1> QED BY <1>1, FirstCells
-----------------------------------------------------------------------------
(* What a save writes.                                                     *)
IsPart(part, k, w, iter, salt) ==
    /\ SizeOf[k] \in Nat \ {0}
    /\ part \in Seq(Plain) /\ Len(part) = kWrappedKeyOffset + SizeOf[k]
    /\ part[1] = Magic /\ part[2] = Version /\ part[3] = MarkerOf(k)
    /\ part[4] = <<"salt", salt>> /\ part[5] = <<"iter", iter>> /\ part[6] = <<"nonce", salt>>
    /\ \A j \in 1 .. SizeOf[k] : part[kWrappedKeyOffset + j] =
         <<"wrapped", [derived |-> Derive(w, salt, iter), nonce |-> salt,
                       byte |-> KeyBytes(k)[j]]>>

LEMMA PartCells ==
    ASSUME NEW k \in Keys, NEW w \in Passphrases, NEW iter \in Nat, NEW salt \in Nat
    PROVE  IsPart(Part(k, w, iter, salt), k, w, iter, salt)
<1> DEFINE part == Part(k, w, iter, salt)
<1> DEFINE d == Derive(w, salt, iter)
           H == <<Magic, Version, MarkerOf(k), <<"salt", salt>>, <<"iter", iter>>,
                  <<"nonce", salt>>>>
           B == Wrap(d, salt, KeyBytes(k))
<1>1. SizeOf[k] \in Nat \ {0}
    BY SizeAssumption
<1>2. KeyBytes(k) \in [1 .. SizeOf[k] -> Keys \X Nat] /\ DOMAIN KeyBytes(k) = 1 .. SizeOf[k]
    BY <1>1 DEF KeyBytes
<1>3. H \in Seq(Plain) /\ Len(H) = 6
  <2>1. Magic \in Plain /\ Version \in Plain
      BY DEF Magic, Version, Plain, Kinds, Values
  <2>2. MarkerOf(k) \in Plain
      BY <1>1 DEF MarkerOf, Marker, Plain, Kinds, Values
  <2>3. <<"salt", salt>> \in Plain /\ <<"iter", iter>> \in Plain /\ <<"nonce", salt>> \in Plain
      BY DEF Plain, Kinds, Values
  <2> QED BY <2>1, <2>2, <2>3
<1>4. d \in Derived
    BY DEF Derived
<1>5. B = [j \in 1 .. SizeOf[k] |->
             <<"wrapped", [derived |-> d, nonce |-> salt, byte |-> KeyBytes(k)[j]]>>]
    BY <1>2 DEF Wrap
<1>6. part = H \o B
    BY DEF Part
<1> HIDE DEF d, H, B, part
<1>7. B \in Seq(Plain) /\ Len(B) = SizeOf[k]
  <2>1. ASSUME NEW j \in 1 .. SizeOf[k]
        PROVE  <<"wrapped", [derived |-> d, nonce |-> salt, byte |-> KeyBytes(k)[j]]>> \in Plain
    <3>1. KeyBytes(k)[j] \in Keys \X Nat
        BY <1>2
    <3>2. [derived |-> d, nonce |-> salt, byte |-> KeyBytes(k)[j]] \in Values
        BY <1>4, <3>1 DEF Values
    <3> QED BY <3>2 DEF Plain, Kinds
  <2>2. B \in [1 .. SizeOf[k] -> Plain]
      BY <1>5, <2>1
  <2>3. Len(B) = SizeOf[k]
      BY <1>1, <1>5
  <2> QED BY <1>1, <2>2, <2>3, SeqDef
<1>8. /\ part \in Seq(Plain) /\ Len(part) = Len(H) + Len(B)
      /\ \A i \in 1 .. Len(H) + Len(B) :
           part[i] = IF i <= Len(H) THEN H[i] ELSE B[i - Len(H)]
  <2>1. /\ H \o B \in Seq(Plain) /\ Len(H \o B) = Len(H) + Len(B)
        /\ \A i \in 1 .. Len(H) + Len(B) :
             (H \o B)[i] = IF i <= Len(H) THEN H[i] ELSE B[i - Len(H)]
      BY <1>3, <1>7, ConcatProperties
  <2> QED BY <2>1, <1>6
<1>9. \A i \in 1 .. 6 : part[i] = H[i]
    BY <1>1, <1>3, <1>7, <1>8
<1>10. ASSUME NEW j \in 1 .. SizeOf[k] PROVE part[6 + j] = B[j]
  <2>1. 6 + j \in 1 .. Len(H) + Len(B) /\ ~(6 + j <= Len(H)) /\ (6 + j) - Len(H) = j
      BY <1>1, <1>3, <1>7
  <2> QED BY <2>1, <1>8
<1>11. /\ part[1] = Magic /\ part[2] = Version /\ part[3] = MarkerOf(k)
       /\ part[4] = <<"salt", salt>> /\ part[5] = <<"iter", iter>>
       /\ part[6] = <<"nonce", salt>>
    BY <1>9 DEF H
<1>12. \A j \in 1 .. SizeOf[k] : part[6 + j] =
          <<"wrapped", [derived |-> Derive(w, salt, iter), nonce |-> salt,
                        byte |-> KeyBytes(k)[j]]>>
    BY <1>10, <1>5 DEF d
<1>13. IsPart(part, k, w, iter, salt)
    BY <1>1, <1>3, <1>7, <1>8, <1>11, <1>12 DEF IsPart, kWrappedKeyOffset
<1> QED BY <1>13 DEF part

(* The cells of an image: the part, and the tag over it at the end.        *)
IsImage(im, k, w, iter, salt) ==
    /\ im \in Seq(Cell) /\ Len(im) = kWrappedKeyOffset + SizeOf[k] + kTagSize
    /\ im[Len(im)] = Tag(k, w, iter, salt)
    /\ \A i \in 1 .. Len(im) - 1 : im[i] = Part(k, w, iter, salt)[i]
    /\ SubSeq(im, 1, Len(im) - 1) = Part(k, w, iter, salt)
    /\ \A i \in 1 .. Len(im) : im[i] \in Plain \cup {Tag(k, w, iter, salt)}

LEMMA ImageCells ==
    ASSUME NEW k \in Keys, NEW w \in Passphrases, NEW iter \in Nat, NEW salt \in Nat,
           NEW im, im = Image(k, w, iter, salt)
    PROVE  IsImage(im, k, w, iter, salt)
<1> DEFINE part == Part(k, w, iter, salt)
           tag == Tag(k, w, iter, salt)
<1>1. im = Append(part, tag)
    BY DEF Image, Part, Tag
<1>0. part = Part(k, w, iter, salt)
    OBVIOUS
<1> HIDE DEF part
<1>2. SizeOf[k] \in Nat /\ part \in Seq(Plain) /\ Len(part) = kWrappedKeyOffset + SizeOf[k]
  <2>1. IsPart(part, k, w, iter, salt)
      BY <1>0, PartCells
  <2> QED BY <2>1 DEF IsPart
<1>3. tag \in Cell
  <2>1. [key |-> k, pass |-> w] \in Saves
      BY DEF Saves
  <2>2. tag = Tag([key |-> k, pass |-> w].key, [key |-> k, pass |-> w].pass, iter, salt)
      OBVIOUS
  <2>3. tag \in TagsOf(Saves)
      BY <2>1, <2>2 DEF TagsOf
  <2> QED BY <2>3 DEF Cell
<1> HIDE DEF tag
<1>4. part \in Seq(Cell)
    BY <1>2, SeqMonotonic DEF Cell
<1>5. /\ im \in Seq(Cell) /\ Len(im) = Len(part) + 1 /\ im[Len(im)] = tag
      /\ \A i \in 1 .. Len(part) : im[i] = part[i]
    BY <1>1, <1>3, <1>4
<1>6. Len(im) - 1 = Len(part) /\ Len(part) \in Nat
    BY <1>2, <1>5
<1>7. SubSeq(im, 1, Len(im) - 1) = part
  <2>1. Len(im) - 1 \in 0 .. Len(im)
      BY <1>5, <1>6
  <2>2. /\ SubSeq(im, 1, Len(im) - 1) \in Seq(Cell) /\ Len(SubSeq(im, 1, Len(im) - 1)) = Len(part)
        /\ \A i \in 1 .. Len(part) : SubSeq(im, 1, Len(im) - 1)[i] = im[i]
      BY <2>1, <1>5, <1>6, FirstCells
  <2> QED BY <2>2, <1>4, <1>5, SameCells
<1>8. ASSUME NEW i \in 1 .. Len(im) PROVE im[i] \in Plain \cup {tag}
  <2>1. CASE i = Len(im)
      BY <2>1, <1>5
  <2>2. CASE i # Len(im)
    <3>1. i \in 1 .. Len(part)
        BY <2>2, <1>5, <1>6
    <3>2. im[i] = part[i]
        BY <3>1, <1>5
    <3>3. part[i] \in Plain
        BY <3>1, <1>2
    <3> QED BY <3>2, <3>3
  <2> QED BY <2>1, <2>2
<1>9. Len(im) = kWrappedKeyOffset + SizeOf[k] + kTagSize
    BY <1>2, <1>5 DEF kTagSize
<1> QED BY <1>5, <1>6, <1>7, <1>8, <1>9 DEF IsImage, part, tag

(* The load accepts the structure of every image and, with its passphrase, *)
(* the tag.                                                                *)
LEMMA ImageAccepted ==
    ASSUME NEW k \in Keys, NEW w \in Passphrases, NEW iter \in Nat, NEW salt \in Nat,
           NEW im, im = Image(k, w, iter, salt)
    PROVE  WellFormed(im) /\ im[5][2] = iter /\ TagMatches(im, w)
<1> DEFINE part == Part(k, w, iter, salt)
<1>0. part = Part(k, w, iter, salt)
    OBVIOUS
<1> HIDE DEF part
<1>1. /\ SizeOf[k] \in Nat \ {0}
      /\ part[1] = Magic /\ part[2] = Version /\ part[3] = MarkerOf(k)
      /\ part[4] = <<"salt", salt>> /\ part[5] = <<"iter", iter>>
  <2>1. IsPart(part, k, w, iter, salt)
      BY <1>0, PartCells
  <2> QED BY <2>1 DEF IsPart
<1>2. /\ Len(im) = 6 + SizeOf[k] + 1 /\ im[Len(im)] = Tag(k, w, iter, salt)
      /\ \A i \in 1 .. Len(im) - 1 : im[i] = part[i]
      /\ SubSeq(im, 1, Len(im) - 1) = part
  <2>1. IsImage(im, k, w, iter, salt)
      BY ImageCells
  <2> QED BY <1>0, <2>1 DEF IsImage, kWrappedKeyOffset, kTagSize
<1>3. /\ im[1] = Magic /\ im[2] = Version /\ im[3] = MarkerOf(k)
      /\ im[4] = <<"salt", salt>> /\ im[5] = <<"iter", iter>>
  <2>1. \A i \in 1 .. 6 : i \in 1 .. Len(im) - 1
    <3>1. SizeOf[k] \in Nat /\ Len(im) = 6 + SizeOf[k] + 1
        BY <1>1, <1>2
    <3> QED BY <3>1
  <2>2. \A i \in 1 .. 6 : im[i] = part[i]
      BY <1>2, <2>1
  <2> QED BY <1>1, <2>2
<1>4. is_valid_size_marker(im[3]) /\ im[3][2] = SizeOf[k]
    BY <1>3 DEF is_valid_size_marker, MarkerOf, Marker
<1>5. WellFormed(im)
    BY <1>1, <1>2, <1>3, <1>4 DEF WellFormed, kWrappedKeyOffset, kTagSize
<1>6. TagMatches(im, w)
  <2>1. im[4][2] = salt /\ im[5][2] = iter
      BY <1>3
  <2> QED BY <1>0, <1>2, <2>1 DEF TagMatches, Tag
<1> QED BY <1>3, <1>5, <1>6

(* The tag binds: a file all of whose tags come from saves, and whose last *)
(* cell is the tag over the rest under the passphrase of the load, is the  *)
(* image of a save under that passphrase, and it unwraps to its key.       *)
LEMMA TagBinds ==
    ASSUME NEW d \in Seq(Cell), written \subseteq Saves, TagsWritten(d),
           WellFormed(d), NEW w, TagMatches(d, w)
    PROVE  \E x \in written :
             /\ x.pass = w
             /\ Unwrap(Derive(w, d[4][2], d[5][2]), d[6][2],
                       SubSeq(d, kWrappedKeyOffset + 1, kWrappedKeyOffset + d[3][2]))
                  = KeyBytes(x.key)
<1> DEFINE n == Len(d) - 1
<1>1. PICK m \in Nat \ {0} : d[3][2] = m
    BY SizeAssumption DEF WellFormed, is_valid_size_marker, Marker
<1>2. Len(d) = 6 + m + 1 /\ n = 6 + m /\ n \in Nat /\ Len(d) \in 1 .. Len(d)
    BY <1>1 DEF WellFormed, kWrappedKeyOffset, kTagSize
<1>3. d[Len(d)] = <<"tag", [derived |-> Derive(w, d[4][2], d[5][2]), over |-> SubSeq(d, 1, n)]>>
    BY DEF TagMatches, Hmac
<1> HIDE DEF n
<1>4. d[Len(d)] \notin Plain
  <2>1. d[Len(d)][1] = "tag"
      BY <1>3
  <2> QED BY <2>1 DEF Plain, Kinds
<1>5. d[Len(d)] \in TagsOf(written)
    BY <1>2, <1>4 DEF TagsWritten
<1>6. PICK x \in written, iter \in Nat, salt \in Nat :
        d[Len(d)] = Tag(x.key, x.pass, iter, salt)
    BY <1>5 DEF TagsOf
<1>7. x.key \in Keys /\ x.pass \in Passphrases
    BY DEF Saves
<1> DEFINE k == x.key
           part == Part(k, x.pass, iter, salt)
<1>8. /\ Derive(w, d[4][2], d[5][2]) = Derive(x.pass, salt, iter)
      /\ SubSeq(d, 1, n) = part
  <2>1. d[Len(d)] = <<"tag", [derived |-> Derive(x.pass, salt, iter), over |-> part]>>
      BY <1>6 DEF Tag, Hmac
  <2> HIDE DEF part
  <2>2. d[Len(d)][2].derived = Derive(w, d[4][2], d[5][2]) /\ d[Len(d)][2].over = SubSeq(d, 1, n)
      BY <1>3
  <2>3. d[Len(d)][2].derived = Derive(x.pass, salt, iter) /\ d[Len(d)][2].over = part
      BY <2>1
  <2> QED BY <2>2, <2>3
<1>9. w = x.pass
    BY <1>8 DEF Derive
<1>10. \A i \in 1 .. n : d[i] = part[i]
  <2>1. n \in 0 .. Len(d)
      BY <1>2
  <2>2. \A i \in 1 .. n : SubSeq(d, 1, n)[i] = d[i]
      BY <2>1, FirstCells
  <2> QED BY <2>2, <1>8
<1>11. /\ SizeOf[k] \in Nat \ {0}
       /\ part[3] = MarkerOf(k) /\ part[6] = <<"nonce", salt>>
       /\ \A j \in 1 .. SizeOf[k] : part[6 + j] =
            <<"wrapped", [derived |-> Derive(w, d[4][2], d[5][2]), nonce |-> salt,
                          byte |-> KeyBytes(k)[j]]>>
  <2>1. part = Part(k, x.pass, iter, salt)
      OBVIOUS
  <2> HIDE DEF part
  <2>2. IsPart(part, k, x.pass, iter, salt)
      BY <1>7, <2>1, PartCells
  <2> HIDE DEF k
  <2> QED BY <1>8, <2>2 DEF IsPart, kWrappedKeyOffset
<1> HIDE DEF part
<1>12. d[3] = part[3] /\ d[6] = part[6] /\ d[3][2] = SizeOf[k] /\ d[6][2] = salt
  <2>1. 3 \in 1 .. n /\ 6 \in 1 .. n
      BY <1>2
  <2> QED BY <2>1, <1>10, <1>11 DEF MarkerOf, Marker
<1> DEFINE cells == SubSeq(d, kWrappedKeyOffset + 1, kWrappedKeyOffset + d[3][2])
           D == Derive(w, d[4][2], d[5][2])
<1>13. /\ cells \in Seq(Cell) /\ Len(cells) = SizeOf[k]
       /\ \A j \in 1 .. SizeOf[k] : cells[j] = d[6 + j]
  <2>1. SizeOf[k] = m /\ 6 + m <= Len(d) /\ 6 \in Nat
      BY <1>1, <1>2, <1>12
  <2>2. cells = ReadAt(d, 6, m)
      BY <1>1 DEF ReadAt, kWrappedKeyOffset
  <2> HIDE DEF cells
  <2>3. /\ ReadAt(d, 6, m) \in Seq(Cell) /\ Len(ReadAt(d, 6, m)) = m
        /\ \A i \in 1 .. m : ReadAt(d, 6, m)[i] = d[6 + i]
      BY <2>1, ReadAtCells
  <2> QED BY <2>1, <2>2, <2>3
<1> HIDE DEF cells, D
<1>14. DOMAIN cells = 1 .. SizeOf[k]
    BY <1>13
<1>15. ASSUME NEW j \in 1 .. SizeOf[k]
       PROVE  cells[j] = <<"wrapped", [derived |-> D, nonce |-> salt, byte |-> KeyBytes(k)[j]]>>
  <2>1. 6 + j \in 1 .. n
      BY <1>1, <1>2, <1>11, <1>12
  <2> QED BY <2>1, <1>10, <1>11, <1>13 DEF D
<1>16. Unwrap(D, salt, cells) = [j \in 1 .. SizeOf[k] |-> KeyBytes(k)[j]]
  <2>1. ASSUME NEW j \in 1 .. SizeOf[k]
        PROVE  /\ cells[j][1] = "wrapped" /\ cells[j][2].derived = D
               /\ cells[j][2].nonce = salt /\ cells[j][2].byte = KeyBytes(k)[j]
    <3> DEFINE r == [derived |-> D, nonce |-> salt, byte |-> KeyBytes(k)[j]]
    <3>1. r.derived = D /\ r.nonce = salt /\ r.byte = KeyBytes(k)[j]
        OBVIOUS
    <3>2. cells[j] = <<"wrapped", r>>
        BY <1>15
    <3> HIDE DEF r
    <3>3. cells[j][1] = "wrapped" /\ cells[j][2] = r
        BY <3>2
    <3> QED BY <3>1, <3>3
  <2> QED BY <2>1, <1>14 DEF Unwrap
<1>17. KeyBytes(k) = [j \in 1 .. SizeOf[k] |-> KeyBytes(k)[j]]
    BY DEF KeyBytes
<1>18. Unwrap(D, d[6][2], cells) = KeyBytes(k)
    BY <1>12, <1>16, <1>17
<1> QED BY <1>9, <1>18 DEF D, cells
-----------------------------------------------------------------------------
(* Where a system call may stop lies beyond where it began.                *)
LEMMA StopsAtRange ==
    ASSUME NEW from \in Nat, NEW end \in Nat, from < end, NEW e \in StopsAt(from, end)
    PROVE  e \in Nat /\ from < e /\ e <= end
BY IterationsAssumption DEF StopsAt

LEMMA AvailableCells ==
    ASSUME NEW f \in Seq(Cell), NEW at \in Nat, NEW n \in Nat
    PROVE  /\ Available(f, at, n) \in 0 .. n
           /\ Available(f, at, n) > 0 => at + Available(f, at, n) <= Len(f)
BY DEF Available

LEMMA InitTagInv == Init => TagInv
<1> SUFFICES ASSUME Init PROVE TagInv
    OBVIOUS
<1>1. Types
  <2>1. NothingSeen \in SeenRecords /\ NothingSeen.last \in LastRecords
      BY DEF NothingSeen, SeenRecords, LastRecords
  <2>2. sole \in BOOLEAN /\ intact \in BOOLEAN
      BY DEF Init
  <2> QED BY <2>1, <2>2 DEF Init, Types, Ended
<1>2. TagsWritten(file)
    BY DEF Init, TagsWritten
<1>3. \A p \in Procs : TagsWritten(data[p])
    BY DEF Init, TagsWritten
<1>4. \A p \in Procs : CallOK(p) /\ ReturnsSaved(p)
    BY DEF Init, CallOK, ReturnsSaved
<1> QED BY <1>1, <1>2, <1>3, <1>4 DEF TagInv

(* The end of a call of p: only what it returns is left to show.           *)
LEMMA EndTagInv ==
    ASSUME TagInv, NEW p \in Procs, NEW outcome \in Ended, End(p, outcome),
           UNCHANGED <<file, salts, written, last, sole>>, intact' \in BOOLEAN,
           result' = [q \in Procs |-> result'[q]], seen' \in [Procs -> SeenRecords],
           \A q \in Procs \ {p} : result'[q] = result[q] /\ seen'[q] = seen[q],
           ReturnsSaved(p)'
    PROVE  TagInv'
<1>1. /\ pc' = [pc EXCEPT ![p] = outcome] /\ data' = [data EXCEPT ![p] = <<>>]
      /\ size' = [size EXCEPT ![p] = 0] /\ pos' = [pos EXCEPT ![p] = 0]
      /\ pass' = [pass EXCEPT ![p] = "none"]
    BY DEF End
<1>2. Types'
    BY <1>1 DEF TagInv, Types
<1>3. /\ pc'[p] = outcome /\ data'[p] = <<>> /\ pos'[p] = 0
      /\ \A q \in Procs \ {p} : /\ pc'[q] = pc[q] /\ data'[q] = data[q] /\ size'[q] = size[q]
                                /\ pos'[q] = pos[q] /\ pass'[q] = pass[q]
    BY <1>1 DEF TagInv, Types
<1>4. TagsWritten(file)' /\ \A q \in Procs : TagsWritten(data[q])'
    BY <1>3 DEF TagInv, TagsWritten
<1>5. ASSUME NEW q \in Procs PROVE CallOK(q)' /\ ReturnsSaved(q)'
  <2>1. CASE q = p
      BY <1>3, <2>1 DEF CallOK, Ended
  <2>2. CASE q # p
    <3>1. CallOK(q) /\ ReturnsSaved(q)
        BY DEF TagInv
    <3> QED BY <1>3, <2>2, <3>1 DEF CallOK, ReturnsSaved
  <2> QED BY <2>1, <2>2
<1> QED BY <1>2, <1>4, <1>5 DEF TagInv

(* A call of p ends with no result.                                        *)
LEMMA FailTagInv ==
    ASSUME TagInv, NEW p \in Procs, NEW outcome \in Ended \ {"loaded"}, Fail(p, outcome),
           UNCHANGED <<file, salts, written, last, sole>>, intact' \in BOOLEAN,
           seen' = seen \/ seen' = [seen EXCEPT ![p] = NothingSeen]
    PROVE  TagInv'
<1>1. result' = [result EXCEPT ![p] = <<>>] /\ End(p, outcome)
    BY DEF Fail
<1>2. /\ result' = [q \in Procs |-> result'[q]]
      /\ \A q \in Procs \ {p} : result'[q] = result[q]
    BY <1>1 DEF TagInv, Types
<1>3. /\ seen' \in [Procs -> SeenRecords]
      /\ \A q \in Procs \ {p} : seen'[q] = seen[q]
  <2>1. NothingSeen \in SeenRecords /\ seen \in [Procs -> SeenRecords]
      BY DEF NothingSeen, SeenRecords, LastRecords, TagInv, Types
  <2> QED BY <2>1
<1>4. ReturnsSaved(p)'
  <2>1. pc'[p] = outcome
      BY <1>1 DEF End, TagInv, Types
  <2> QED BY <2>1 DEF ReturnsSaved
<1> QED BY <1>1, <1>2, <1>3, <1>4, EndTagInv

LEMMA SaveOpenTagInv ==
    ASSUME TagInv, NEW p \in Procs, NEW k \in Keys, NEW w \in Passphrases,
           NEW iter \in Iterations, SaveOpen(p, k, w, iter)
    PROVE  TagInv'
<1> DEFINE x == [key |-> k, pass |-> w]
           im == Image(k, w, iter, salts + 1)
<1>1. x \in Saves /\ salts + 1 \in Nat /\ iter \in Nat
    BY IterationsAssumption DEF Saves, TagInv, Types
<1>2. /\ file' = <<>> /\ written' = written \cup {x} /\ last' = x
      /\ data' = [data EXCEPT ![p] = im] /\ pc' = [pc EXCEPT ![p] = "write"]
      /\ result' = [result EXCEPT ![p] = <<>>] /\ salts' = salts + 1
      /\ sole' = (\A q \in Procs : pc[q] # "write") /\ intact' = FALSE
      /\ seen' = [q \in Procs |-> [seen[q] EXCEPT !.intact = FALSE]]
      /\ UNCHANGED <<size, pos, pass>> /\ pc[p] \in Ended
    BY DEF SaveOpen
<1>3. /\ im \in Seq(Cell)
      /\ \A i \in 1 .. Len(im) : im[i] \in Plain \cup {Tag(k, w, iter, salts + 1)}
  <2>1. IsImage(im, k, w, iter, salts + 1)
      BY <1>1, ImageCells
  <2> QED BY <2>1 DEF IsImage
<1> HIDE DEF im
<1>4. Tag(k, w, iter, salts + 1) \in TagsOf(written')
  <2>1. x \in written' /\ x.key = k /\ x.pass = w
      BY <1>2
  <2> QED BY <1>1, <2>1 DEF TagsOf
<1>5. Types'
  <2>1. data' \in [Procs -> Seq(Cell)] /\ file' \in Seq(Cell)
      BY <1>2, <1>3 DEF TagInv, Types
  <2>2. seen' \in [Procs -> SeenRecords]
    <3>1. ASSUME NEW q \in Procs PROVE [seen[q] EXCEPT !.intact = FALSE] \in SeenRecords
      <4>1. seen[q] \in SeenRecords
          BY DEF TagInv, Types
      <4> QED BY <4>1 DEF SeenRecords
    <3> QED BY <1>2, <3>1
  <2>3. pc' \in [Procs -> Ended \cup {"write", "read"}] /\ result' = [q \in Procs |-> result'[q]]
      BY <1>2 DEF TagInv, Types
  <2>4. /\ salts' \in Nat /\ sole' \in BOOLEAN /\ intact' \in BOOLEAN /\ written' \subseteq Saves
        /\ last' \in LastRecords
    <3>1. sole' \in BOOLEAN /\ intact' \in BOOLEAN
        BY <1>2
    <3>2. last' \in LastRecords
        BY <1>2 DEF LastRecords
    <3> QED BY <1>1, <1>2, <3>1, <3>2 DEF TagInv, Types
  <2> QED BY <1>2, <2>1, <2>2, <2>3, <2>4 DEF TagInv, Types
<1>6. TagsOf(written) \subseteq TagsOf(written')
    BY <1>2 DEF TagsOf
<1>7. /\ pc'[p] = "write" /\ data'[p] = im /\ pos'[p] = 0
      /\ \A q \in Procs : seen'[q].pass = seen[q].pass
      /\ \A q \in Procs \ {p} : /\ pc'[q] = pc[q] /\ data'[q] = data[q] /\ pos'[q] = pos[q]
                                /\ pass'[q] = pass[q] /\ result'[q] = result[q]
  <2>1. \A q \in Procs : seen'[q].pass = seen[q].pass
      BY <1>2 DEF TagInv, Types, SeenRecords
  <2> QED BY <1>2, <2>1 DEF TagInv, Types, CallOK
<1>8. TagsWritten(file)'
    BY <1>2 DEF TagsWritten
<1>9. ASSUME NEW q \in Procs PROVE TagsWritten(data[q])' /\ CallOK(q)' /\ ReturnsSaved(q)'
  <2>1. CASE q = p
    <3>1. TagsWritten(data[q])'
        BY <2>1, <1>3, <1>4, <1>7 DEF TagsWritten
    <3>2. CallOK(q)' /\ ReturnsSaved(q)'
        BY <2>1, <1>3, <1>7 DEF CallOK, ReturnsSaved, Ended
    <3> QED BY <3>1, <3>2
  <2>2. CASE q # p
    <3>1. TagsWritten(data[q]) /\ CallOK(q) /\ ReturnsSaved(q)
        BY DEF TagInv
    <3>2. TagsWritten(data[q])'
        BY <2>2, <3>1, <1>6, <1>7 DEF TagsWritten
    <3>3. CallOK(q)' /\ ReturnsSaved(q)'
      <4>1. /\ pc'[q] = pc[q] /\ data'[q] = data[q] /\ pos'[q] = pos[q]
            /\ pass'[q] = pass[q] /\ result'[q] = result[q] /\ seen'[q].pass = seen[q].pass
          BY <2>2, <1>7
      <4>2. CallOK(q)'
          BY <3>1, <4>1 DEF CallOK
      <4>3. ReturnsSaved(q)'
          BY <3>1, <4>1, <1>2 DEF ReturnsSaved
      <4> QED BY <4>2, <4>3
    <3> QED BY <3>2, <3>3
  <2> QED BY <2>1, <2>2
<1> QED BY <1>5, <1>8, <1>9 DEF TagInv
(* One ::write of a save, as far as both invariants need it.               *)
WriteStep(p, e) ==
    /\ pc[p] = "write" /\ e \in Nat /\ pos[p] < e /\ e <= Len(data[p])
    /\ file' = WriteAt(file, pos[p], SubSeq(data[p], pos[p] + 1, e))
    /\ pos' = [pos EXCEPT ![p] = e]
    /\ UNCHANGED <<pc, data, size, pass, result, salts, written, last, sole, intact, seen>>

LEMMA SaveWriteCases ==
    ASSUME TagInv, NEW p \in Procs, SaveWrite(p)
    PROVE  \/ \E e \in Nat : WriteStep(p, e)
           \/ Fail(p, "IoError") /\ UNCHANGED <<file, salts, written, last, sole, intact, seen>>
<1> DEFINE n == Len(data[p])
           part == n - kTagSize
           end == IF pos[p] < part THEN part ELSE n
<1>1. pos[p] \in Nat /\ n \in Nat /\ pos[p] < n /\ pc[p] = "write"
    BY DEF SaveWrite, TagInv, Types
<1>2. end \in Nat /\ pos[p] < end /\ end <= n
    BY <1>1 DEF kTagSize
<1>3. ASSUME NEW e \in StopsAt(pos[p], end),
             file' = WriteAt(file, pos[p], SubSeq(data[p], pos[p] + 1, e)),
             pos' = [pos EXCEPT ![p] = e],
             UNCHANGED <<pc, data, size, pass, result, salts, written, last, sole, intact, seen>>
      PROVE  \E i \in Nat : WriteStep(p, i)
  <2> HIDE DEF end
  <2>1. e \in Nat /\ pos[p] < e /\ e <= end
      BY <1>1, <1>2, StopsAtRange
  <2>2. e <= n
      BY <1>1, <1>2, <2>1
  <2>3. WriteStep(p, e)
      BY <1>1, <1>3, <2>1, <2>2 DEF WriteStep
  <2> QED BY <2>1, <2>3
<1> QED BY <1>3 DEF SaveWrite

(* The cells a ::write puts into the file.                                 *)
Chunk(p, e) == ReadAt(data[p], pos[p], e - pos[p])

LEMMA WrittenCells ==
    ASSUME TagInv, NEW p \in Procs, NEW e \in Nat, WriteStep(p, e)
    PROVE  /\ data[p] \in Seq(Cell) /\ pos[p] \in 0 .. Len(data[p]) /\ e \in pos[p] .. Len(data[p])
           /\ file' = WriteAt(file, pos[p], Chunk(p, e))
           /\ Chunk(p, e) \in Seq(Cell) /\ Len(Chunk(p, e)) = e - pos[p]
           /\ \A i \in 1 .. e - pos[p] :
                pos[p] + i \in 1 .. Len(data[p]) /\ Chunk(p, e)[i] = data[p][pos[p] + i]
<1>1. data[p] \in Seq(Cell) /\ pos[p] \in Nat /\ Len(data[p]) \in Nat
    BY DEF TagInv, Types
<1>2. e - pos[p] \in Nat /\ pos[p] + (e - pos[p]) = e /\ pos[p] + (e - pos[p]) <= Len(data[p])
      /\ pos[p] \in 0 .. Len(data[p]) /\ e \in pos[p] .. Len(data[p])
    BY <1>1 DEF WriteStep
<1>3. file' = WriteAt(file, pos[p], Chunk(p, e))
    BY <1>2 DEF ReadAt, WriteStep, Chunk
<1>4. /\ Chunk(p, e) \in Seq(Cell) /\ Len(Chunk(p, e)) = e - pos[p]
      /\ \A i \in 1 .. e - pos[p] : Chunk(p, e)[i] = data[p][pos[p] + i]
  <2> DEFINE f == data[p]
             at == pos[p]
             n == e - pos[p]
  <2>1. f \in Seq(Cell) /\ at \in Nat /\ n \in Nat /\ at + n <= Len(f)
      BY <1>1, <1>2
  <2>2. Chunk(p, e) = ReadAt(f, at, n)
      BY DEF Chunk
  <2> HIDE DEF f, at, n
  <2>3. /\ ReadAt(f, at, n) \in Seq(Cell) /\ Len(ReadAt(f, at, n)) = n
        /\ \A i \in 1 .. n : ReadAt(f, at, n)[i] = f[at + i]
      BY <2>1, ReadAtCells
  <2> QED BY <2>2, <2>3 DEF f, at, n
<1>5. \A i \in 1 .. e - pos[p] : pos[p] + i \in 1 .. Len(data[p])
    BY <1>1, <1>2
<1> QED BY <1>1, <1>2, <1>3, <1>4, <1>5

LEMMA WriteTagInv ==
    ASSUME TagInv, NEW p \in Procs, NEW e \in Nat, WriteStep(p, e)
    PROVE  TagInv'
<1> DEFINE s == Chunk(p, e)
<1>1. /\ s \in Seq(Cell) /\ file' = WriteAt(file, pos[p], s)
      /\ \A i \in 1 .. Len(s) : \E j \in 1 .. Len(data[p]) : s[i] = data[p][j]
  <2>1. /\ s \in Seq(Cell) /\ file' = WriteAt(file, pos[p], s) /\ Len(s) = e - pos[p]
        /\ \A i \in 1 .. e - pos[p] :
             pos[p] + i \in 1 .. Len(data[p]) /\ s[i] = data[p][pos[p] + i]
      BY WrittenCells
  <2> QED BY <2>1
<1>2. /\ file \in Seq(Cell) /\ pos[p] \in Nat
      /\ pos' = [pos EXCEPT ![p] = e] /\ pc[p] = "write" /\ e <= Len(data[p])
      /\ UNCHANGED <<pc, data, size, pass, result, salts, written, last, sole, intact, seen>>
    BY DEF WriteStep, TagInv, Types
<1> HIDE DEF s
<1>3. /\ file' \in Seq(Cell)
      /\ \A i \in 1 .. Len(file') : \/ file'[i] = HoleByte
                                    \/ \E j \in 1 .. Len(file) : file'[i] = file[j]
                                    \/ \E j \in 1 .. Len(s) : file'[i] = s[j]
  <2> DEFINE at == pos[p]
  <2>1. at \in Nat /\ file' = WriteAt(file, at, s)
      BY <1>1, <1>2
  <2> HIDE DEF at
  <2>2. s \in Seq(Cell) /\ file \in Seq(Cell)
      BY <1>1, <1>2
  <2> QED BY <2>1, <2>2, WriteAtCells, SMTT(30)
<1>4. Types'
    BY <1>2, <1>3 DEF TagInv, Types
<1>5. TagsWritten(file)'
  <2>1. HoleByte \in Plain
      BY DEF HoleByte, Plain, Kinds, Values
  <2>2. TagsWritten(file) /\ TagsWritten(data[p])
      BY DEF TagInv
  <2>3. \A i \in 1 .. Len(s) : s[i] \in Plain \cup TagsOf(written)
      BY <1>1, <2>2 DEF TagsWritten
  <2>4. \A i \in 1 .. Len(file') : file'[i] \in Plain \cup TagsOf(written)
      BY <1>3, <2>1, <2>2, <2>3 DEF TagsWritten
  <2> QED BY <1>2, <2>4 DEF TagsWritten
<1>6. ASSUME NEW q \in Procs PROVE TagsWritten(data[q])' /\ CallOK(q)' /\ ReturnsSaved(q)'
  <2>1. TagsWritten(data[q]) /\ CallOK(q) /\ ReturnsSaved(q)
      BY DEF TagInv
  <2>2. TagsWritten(data[q])' /\ ReturnsSaved(q)'
      BY <1>2, <2>1 DEF TagsWritten, ReturnsSaved
  <2>3. pos'[q] = IF q = p THEN e ELSE pos[q]
      BY <1>2 DEF TagInv, Types
  <2>4. CallOK(q)'
      BY <1>2, <2>1, <2>3 DEF CallOK, Ended
  <2> QED BY <2>2, <2>4
<1> QED BY <1>4, <1>5, <1>6 DEF TagInv

LEMMA LoadOpenTagInv ==
    ASSUME TagInv, NEW p \in Procs, NEW w \in Passphrases, LoadOpen(p, w)
    PROVE  TagInv'
<1> DEFINE r == [pass |-> w, last |-> last, intact |-> intact]
<1>1. r \in SeenRecords /\ r.pass = w
    BY DEF TagInv, Types, SeenRecords
<1>2. /\ pc' = [pc EXCEPT ![p] = "read"] /\ size' = [size EXCEPT ![p] = Len(file)]
      /\ pass' = [pass EXCEPT ![p] = w] /\ result' = [result EXCEPT ![p] = <<>>]
      /\ seen' = [seen EXCEPT ![p] = r]
      /\ UNCHANGED <<file, data, pos, salts, written, last, sole, intact>>
    BY DEF LoadOpen
<1> HIDE DEF r
<1>3. Types'
  <2>1. Len(file) \in Nat
      BY DEF TagInv, Types
  <2>2. size' \in [Procs -> Nat] /\ seen' \in [Procs -> SeenRecords]
      BY <1>1, <1>2, <2>1 DEF TagInv, Types
  <2> QED BY <1>2, <2>2 DEF TagInv, Types
<1>4. /\ pc'[p] = "read" /\ pass'[p] = w /\ seen'[p] = r
      /\ \A q \in Procs \ {p} : /\ pc'[q] = pc[q] /\ pass'[q] = pass[q]
                                /\ result'[q] = result[q] /\ seen'[q] = seen[q]
    BY <1>2 DEF TagInv, Types
<1>5. TagsWritten(file)'
    BY <1>2 DEF TagInv, TagsWritten
<1>6. ASSUME NEW q \in Procs PROVE TagsWritten(data[q])' /\ CallOK(q)' /\ ReturnsSaved(q)'
  <2>1. TagsWritten(data[q]) /\ CallOK(q) /\ ReturnsSaved(q)
      BY DEF TagInv
  <2>2. TagsWritten(data[q])'
      BY <1>2, <2>1 DEF TagsWritten
  <2>3. CASE q = p
      BY <1>1, <1>4, <2>2, <2>3 DEF CallOK, ReturnsSaved, Ended
  <2>4. CASE q # p
      BY <1>2, <1>4, <2>1, <2>2, <2>4 DEF CallOK, ReturnsSaved
  <2> QED BY <2>3, <2>4
<1> QED BY <1>3, <1>5, <1>6 DEF TagInv

(* One read of a load, as far as both invariants need it.                  *)
ReadStep(p, e) ==
    /\ pc[p] = "read" /\ e \in Nat /\ pos[p] < e /\ e <= size[p] /\ e <= Len(file)
    /\ data' = [data EXCEPT ![p] = data[p] \o ReadAt(file, pos[p], e - pos[p])]
    /\ pos' = [pos EXCEPT ![p] = e]
    /\ UNCHANGED <<file, pc, size, pass, result, salts, written, last, sole, intact, seen>>

LEMMA LoadReadCases ==
    ASSUME TagInv, NEW p \in Procs, LoadRead(p)
    PROVE  \/ \E e \in Nat : ReadStep(p, e)
           \/ Fail(p, "IoError") /\ UNCHANGED <<file, salts, written, last, sole, intact, seen>>
<1> DEFINE n == size[p] - pos[p]
           most == Available(file, pos[p], n)
<1>1. /\ pos[p] \in Nat /\ size[p] \in Nat /\ pos[p] < size[p] /\ pc[p] = "read"
      /\ file \in Seq(Cell) /\ Len(file) \in Nat
    BY DEF LoadRead, TagInv, Types
<1>2. n \in Nat /\ pos[p] + n = size[p]
    BY <1>1
<1>3. most \in 0 .. n /\ (most > 0 => pos[p] + most <= Len(file))
    BY <1>1, <1>2, AvailableCells
<1>4. ASSUME most > 0, NEW e \in StopsAt(pos[p], pos[p] + most),
             data' = [data EXCEPT ![p] = @ \o ReadAt(file, pos[p], e - pos[p])],
             pos' = [pos EXCEPT ![p] = e],
             UNCHANGED <<file, pc, size, pass, result, salts, written, last, sole, intact, seen>>
      PROVE  \E i \in Nat : ReadStep(p, i)
  <2> HIDE DEF most, n
  <2>1. pos[p] + most \in Nat /\ pos[p] < pos[p] + most
      BY <1>1, <1>2, <1>3, <1>4
  <2>2. e \in Nat /\ pos[p] < e /\ e <= pos[p] + most
      BY <1>1, <1>4, <2>1, StopsAtRange
  <2>3. e <= size[p] /\ e <= Len(file)
      BY <1>1, <1>2, <1>3, <1>4, <2>2
  <2>4. ReadStep(p, e)
      BY <1>1, <1>4, <2>2, <2>3 DEF ReadStep
  <2> QED BY <2>2, <2>4
<1> QED BY <1>4 DEF LoadRead

LEMMA ReadTagInv ==
    ASSUME TagInv, NEW p \in Procs, NEW e \in Nat, ReadStep(p, e)
    PROVE  TagInv'
<1> DEFINE t == ReadAt(file, pos[p], e - pos[p])
           old == data[p]
<1>1. /\ file \in Seq(Cell) /\ Len(file) \in Nat /\ pos[p] \in Nat /\ old \in Seq(Cell)
      /\ pc[p] = "read"
      /\ data' = [data EXCEPT ![p] = old \o t] /\ pos' = [pos EXCEPT ![p] = e]
      /\ UNCHANGED <<file, pc, size, pass, result, salts, written, last, sole, intact, seen>>
    BY DEF ReadStep, TagInv, Types
<1>2. e - pos[p] \in Nat /\ pos[p] + (e - pos[p]) <= Len(file)
    BY <1>1 DEF ReadStep
<1>3. /\ t \in Seq(Cell) /\ Len(t) = e - pos[p]
      /\ \A i \in 1 .. e - pos[p] : t[i] = file[pos[p] + i]
    BY <1>1, <1>2, ReadAtCells
<1> HIDE DEF t, old
<1>4. /\ old \o t \in Seq(Cell) /\ Len(old \o t) = Len(old) + Len(t)
      /\ \A i \in 1 .. Len(old) + Len(t) :
           (old \o t)[i] = IF i <= Len(old) THEN old[i] ELSE t[i - Len(old)]
    BY <1>1, <1>3, ConcatProperties
<1>5. Types'
    BY <1>1, <1>4 DEF TagInv, Types
<1>6. TagsWritten(file)'
    BY <1>1 DEF TagInv, TagsWritten
<1>7. TagsWritten(old \o t)
  <2>1. TagsWritten(file) /\ TagsWritten(old)
      BY DEF TagInv, old
  <2>2. ASSUME NEW i \in 1 .. Len(old \o t) PROVE (old \o t)[i] \in Plain \cup TagsOf(written)
    <3>1. CASE i <= Len(old)
      <4>1. i \in 1 .. Len(old) /\ (old \o t)[i] = old[i]
          BY <3>1, <1>1, <1>3, <1>4
      <4> QED BY <4>1, <2>1 DEF TagsWritten
    <3>2. CASE ~(i <= Len(old))
      <4> DEFINE j == i - Len(old)
                 l == Len(old)
                 d == e - pos[p]
      <4>a. l \in Nat /\ d \in Nat /\ pos[p] \in Nat /\ pos[p] + d <= Len(file) /\ Len(file) \in Nat
          BY <1>1, <1>2
      <4>b. i \in 1 .. l + d /\ ~(i <= l) /\ (old \o t)[i] = t[j]
          BY <3>2, <1>3, <1>4
      <4> HIDE DEF l, d
      <4>c. i - l \in 1 .. d
          BY <4>a, <4>b
      <4>1. j \in 1 .. e - pos[p] /\ (old \o t)[i] = t[j]
          BY <4>b, <4>c DEF l, d
      <4> HIDE DEF j
      <4>2. pos[p] + j \in 1 .. Len(file)
        <5>1. j \in 1 .. d
            BY <4>1 DEF d
        <5> QED BY <5>1, <4>a
      <4> QED BY <4>1, <4>2, <1>3, <2>1 DEF TagsWritten
    <3> QED BY <3>1, <3>2
  <2> QED BY <2>2 DEF TagsWritten
<1>8. ASSUME NEW q \in Procs PROVE TagsWritten(data[q])' /\ CallOK(q)' /\ ReturnsSaved(q)'
  <2>1. TagsWritten(data[q]) /\ CallOK(q) /\ ReturnsSaved(q)
      BY DEF TagInv
  <2>2. /\ data'[q] = IF q = p THEN old \o t ELSE data[q]
        /\ pos'[q] = IF q = p THEN e ELSE pos[q]
      BY <1>1 DEF TagInv, Types
  <2>3. TagsWritten(data[q])'
      BY <1>1, <1>7, <2>1, <2>2 DEF TagsWritten
  <2>4. CallOK(q)' /\ ReturnsSaved(q)'
      BY <1>1, <2>1, <2>2 DEF CallOK, ReturnsSaved, Ended
  <2> QED BY <2>3, <2>4
<1> QED BY <1>5, <1>6, <1>8 DEF TagInv
(* The ways LoadParse ends.                                                *)
LEMMA LoadParseCases ==
    ASSUME NEW p \in Procs, LoadParse(p)
    PROVE  /\ pc[p] = "read" /\ pos[p] = size[p]
           /\ UNCHANGED <<file, salts, written, last, sole, intact, seen>>
           /\ \/ /\ ~WellFormed(data[p]) \/ ~IterationsAccepted(data[p][5][2])
                 /\ Fail(p, "FormatError")
              \/ /\ ~TagMatches(data[p], pass[p])
                 /\ Fail(p, "AuthenticationError")
              \/ /\ WellFormed(data[p]) /\ TagMatches(data[p], pass[p])
                 /\ End(p, "loaded")
                 /\ result' = [result EXCEPT ![p] =
                      Unwrap(Derive(pass[p], data[p][4][2], data[p][5][2]), data[p][6][2],
                             SubSeq(data[p], kWrappedKeyOffset + 1,
                                    kWrappedKeyOffset + data[p][3][2]))]
BY DEF LoadParse

LEMMA LoadParseTagInv ==
    ASSUME TagInv, NEW p \in Procs, LoadParse(p)
    PROVE  TagInv'
<1> DEFINE d == data[p]
           w == pass[p]
           key == Unwrap(Derive(w, d[4][2], d[5][2]), d[6][2],
                         SubSeq(d, kWrappedKeyOffset + 1, kWrappedKeyOffset + d[3][2]))
<1>1. /\ pc[p] = "read" /\ UNCHANGED <<file, salts, written, last, sole, intact, seen>>
      /\ intact' \in BOOLEAN
    BY LoadParseCases DEF TagInv, Types
<1>2. CASE Fail(p, "FormatError") \/ Fail(p, "AuthenticationError")
    BY <1>1, <1>2, FailTagInv DEF Ended
<1>3. ASSUME WellFormed(d), TagMatches(d, w), End(p, "loaded"),
             result' = [result EXCEPT ![p] = key]
      PROVE  TagInv'
  <2>1. d \in Seq(Cell) /\ written \subseteq Saves /\ TagsWritten(d) /\ w = seen[p].pass
      BY <1>1 DEF TagInv, Types, CallOK
  <2>2. \E x \in written : x.pass = w /\ key = KeyBytes(x.key)
    <3> HIDE DEF d, w
    <3> QED BY <1>3, <2>1, TagBinds
  <2> HIDE DEF d, w, key
  <2>3. /\ result'[p] = key /\ result' = [q \in Procs |-> result'[q]]
        /\ \A q \in Procs \ {p} : result'[q] = result[q]
      BY <1>3 DEF TagInv, Types
  <2>4. ReturnsSaved(p)'
      BY <1>1, <2>1, <2>2, <2>3 DEF ReturnsSaved
  <2>5. "loaded" \in Ended /\ seen' \in [Procs -> SeenRecords]
      BY <1>1 DEF Ended, TagInv, Types
  <2> QED BY <1>1, <1>3, <2>3, <2>4, <2>5, EndTagInv
<1> QED BY <1>2, <1>3, LoadParseCases

(* The file comes back from the disk, and no call survives.                *)
LEMMA PowerFailureTagInv == ASSUME IInv, PowerFailure PROVE TagInv'
<1>1. file' = disk.file /\ disk.file \in Seq(Cell) /\ TagsWritten(disk.file) /\ written' = written
    BY DEF IInv, DiskInv, PowerFailure
<1>2. Types'
  <2>1. NothingSeen \in SeenRecords
      BY DEF NothingSeen, SeenRecords, LastRecords
  <2>2. intact' \in BOOLEAN
      BY DEF PowerFailure
  <2> QED BY <1>1, <2>1, <2>2 DEF PowerFailure, IInv, TagInv, Types, Ended
<1>3. TagsWritten(file)'
    BY <1>1 DEF TagsWritten
<1>4. ASSUME NEW q \in Procs PROVE TagsWritten(data[q])' /\ CallOK(q)' /\ ReturnsSaved(q)'
    BY DEF PowerFailure, TagsWritten, CallOK, ReturnsSaved
<1> QED BY <1>2, <1>3, <1>4 DEF TagInv

(* What is written back is a prefix of the file; no step but Flush writes  *)
(* to the disk.                                                            *)
LEMMA NextDiskInv == IInv /\ [Next]_vars => DiskInv'
<1> SUFFICES ASSUME IInv, [Next]_vars PROVE DiskInv'
    OBVIOUS
<1>1. CASE Flush
  <2>1. PICK f \in Prefixes(file) : disk' = [file |-> f, exists |-> exists]
      BY <1>1 DEF Flush
  <2>2. file \in Seq(Cell) /\ Len(file) \in Nat /\ TagsWritten(file) /\ written' = written
      BY <1>1 DEF Flush, IInv, TagInv, Types
  <2>3. f \in Seq(Cell) /\ Len(f) <= Len(file) /\ \A i \in 1 .. Len(f) : f[i] = file[i]
      BY <2>2, PrefixCells
  <2>4. \A i \in 1 .. Len(f) : i \in 1 .. Len(file)
      BY <2>2, <2>3
  <2>5. disk'.file = f
      BY <2>1
  <2> QED BY <2>2, <2>3, <2>4, <2>5 DEF DiskInv, TagsWritten
<1>2. CASE ~Flush
  <2>1. disk' = disk /\ written \subseteq written'
      BY <1>2 DEF Next, vars, SaveRefused, SaveRngFails, SaveOpen, SaveWrite, SaveReturn, OpenFails,
                  LoadOpen, LoadRead, LoadParse, Die, PowerFailure
  <2>2. TagsOf(written) \subseteq TagsOf(written')
      BY <2>1 DEF TagsOf
  <2> QED BY <2>1, <2>2 DEF IInv, DiskInv, TagsWritten
<1> QED BY <1>1, <1>2

LEMMA NextTagInv == IInv /\ [Next]_vars => TagInv'
<1> SUFFICES ASSUME IInv, TagInv, [Next]_vars PROVE TagInv'
    BY DEF IInv
<1>t. intact \in BOOLEAN /\ sole \in BOOLEAN
    BY DEF TagInv, Types
<1>1. ASSUME NEW p \in Procs, NEW iter \in Iterations, SaveRefused(p, iter) PROVE TagInv'
    BY <1>t, <1>1, FailTagInv DEF SaveRefused, Ended
<1>2. ASSUME NEW p \in Procs, NEW iter \in Iterations, SaveRngFails(p, iter) PROVE TagInv'
    BY <1>t, <1>2, FailTagInv DEF SaveRngFails, Ended
<1>3. ASSUME NEW p \in Procs, NEW k \in Keys, NEW w \in Passphrases, NEW iter \in Iterations,
             SaveOpen(p, k, w, iter)
      PROVE  TagInv'
    BY <1>3, SaveOpenTagInv
<1>4. ASSUME NEW p \in Procs, SaveWrite(p) PROVE TagInv'
  <2>1. CASE \E e \in Nat : WriteStep(p, e)
      BY <2>1, WriteTagInv
  <2>2. CASE Fail(p, "IoError") /\ UNCHANGED <<file, salts, written, last, sole, intact, seen>>
      BY <1>t, <2>2, FailTagInv DEF Ended
  <2> QED BY <1>4, <2>1, <2>2, SaveWriteCases
<1>5. ASSUME NEW p \in Procs, SaveReturn(p) PROVE TagInv'
    BY <1>t, <1>5, FailTagInv DEF SaveReturn, Ended
<1>6. ASSUME NEW p \in Procs, OpenFails(p) PROVE TagInv'
    BY <1>t, <1>6, FailTagInv DEF OpenFails, Ended
<1>7. ASSUME NEW p \in Procs, NEW w \in Passphrases, LoadOpen(p, w) PROVE TagInv'
    BY <1>7, LoadOpenTagInv
<1>8. ASSUME NEW p \in Procs, LoadRead(p) PROVE TagInv'
  <2>1. CASE \E e \in Nat : ReadStep(p, e)
      BY <2>1, ReadTagInv
  <2>2. CASE Fail(p, "IoError") /\ UNCHANGED <<file, salts, written, last, sole, intact, seen>>
      BY <1>t, <2>2, FailTagInv DEF Ended
  <2> QED BY <1>8, <2>1, <2>2, LoadReadCases
<1>9. ASSUME NEW p \in Procs, LoadParse(p) PROVE TagInv'
    BY <1>9, LoadParseTagInv
<1>10. ASSUME NEW p \in Procs, Die(p) PROVE TagInv'
    BY <1>t, <1>10, FailTagInv DEF Die, Ended
<1>11. CASE PowerFailure
    BY <1>11, PowerFailureTagInv
<1>12. CASE Flush \/ UNCHANGED vars
  <2>1. UNCHANGED <<file, data, pc, size, pos, pass, result, salts, written, last, sole,
                    intact, seen>>
      BY <1>12 DEF Flush, vars
  <2>2. Types' /\ TagsWritten(file)'
      BY <2>1 DEF TagInv, Types, TagsWritten
  <2>3. ASSUME NEW q \in Procs PROVE TagsWritten(data[q])' /\ CallOK(q)' /\ ReturnsSaved(q)'
    <3>1. TagsWritten(data[q]) /\ CallOK(q) /\ ReturnsSaved(q)
        BY DEF TagInv
    <3> QED BY <2>1, <3>1 DEF TagsWritten, CallOK, ReturnsSaved
  <2> QED BY <2>2, <2>3 DEF TagInv
<1> QED BY <1>1, <1>2, <1>3, <1>4, <1>5, <1>6, <1>7, <1>8, <1>9, <1>10, <1>11, <1>12 DEF Next

(* Every tag in the file, or in what a load has read of it, is the tag of  *)
(* a save of key_storage.cpp that began to write, and so is every tag that *)
(* a power failure can bring back.                                         *)
THEOREM TagInvariance == Spec => []IInv
<1>1. Init => IInv
  <2>1. Init => DiskInv
      BY DEF Init, DiskInv, TagsWritten
  <2> QED BY <2>1, InitTagInv DEF IInv
<1>2. IInv /\ [Next]_vars => IInv'
    BY NextTagInv, NextDiskInv DEF IInv
<1> QED BY <1>1, <1>2, PTL DEF Spec

(* load_from_file_encrypted returns only a key that was saved under the    *)
(* passphrase of the load, for any overlap of any saves and loads: the     *)
(* HMAC covers everything the key is unwrapped from.                       *)
THEOREM LoadsReturnSavedKeys == Spec => []LoadReturnsSavedKey
<1>1. IInv => LoadReturnsSavedKey
    BY DEF IInv, TagInv, ReturnsSaved, LoadReturnsSavedKey
<1> QED BY <1>1, TagInvariance, PTL

-----------------------------------------------------------------------------
LEMMA InitSoleInv == Init => SoleInv
<1> SUFFICES ASSUME Init PROVE SoleInv
    OBVIOUS
<1>1. SoleWriter
    BY DEF Init, SoleWriter
<1>2. \A p \in Procs : Follows(p) /\ Accepts(p)
    BY DEF Init, Follows, Accepts
<1> QED BY <1>1, <1>2 DEF SoleInv

(* All of a sequence is the sequence.                                      *)
LEMMA AllCells ==
    ASSUME NEW f \in Seq(Cell), NEW n, n = Len(f) PROVE SubSeq(f, 1, n) = f
<1>1. n \in 0 .. Len(f)
    OBVIOUS
<1> QED BY <1>1, FirstCells, SameCells

(* The end of a call of p: only what p saw is left to show.                *)
LEMMA EndSoleInv ==
    ASSUME TagInv, SoleInv, NEW p \in Procs, NEW outcome \in Ended, End(p, outcome),
           UNCHANGED <<file, written, last, sole>>,
           \A q \in Procs \ {p} : seen'[q] = seen[q],
           \/ intact' = intact
           \/ intact' = sole /\ pc[p] = "write" /\ pos[p] = Len(data[p]),
           Accepts(p)'
    PROVE  SoleInv'
<1>1. /\ pc'[p] \in Ended
      /\ \A q \in Procs \ {p} : /\ pc'[q] = pc[q] /\ data'[q] = data[q] /\ size'[q] = size[q]
                                /\ pos'[q] = pos[q] /\ pass'[q] = pass[q]
    BY DEF End, TagInv, Types
<1>2. "write" \notin Ended /\ "read" \notin Ended
    BY DEF Ended
<1>3. ASSUME sole', NEW q \in Procs, pc'[q] = "write"
      PROVE  /\ \A r \in Procs : pc'[r] = "write" => r = q
             /\ last' \in written' /\ data'[q] \in Images(last)'
             /\ file' = SubSeq(data'[q], 1, pos'[q])
  <2>1. q # p /\ pc[q] = "write" /\ data'[q] = data[q] /\ pos'[q] = pos[q] /\ sole
      BY <1>1, <1>2, <1>3
  <2>2. /\ \A r \in Procs : pc[r] = "write" => r = q
        /\ last \in written /\ data[q] \in Images(last) /\ file = SubSeq(data[q], 1, pos[q])
      BY <2>1 DEF SoleInv, SoleWriter
  <2>3. Images(last)' = Images(last)
      BY DEF Images
  <2> QED BY <1>1, <1>2, <2>1, <2>2, <2>3
<1>4. ASSUME intact'
      PROVE  /\ last' \in written' /\ file' \in Images(last)'
             /\ \A q \in Procs : pc'[q] # "write"
  <2>0. Images(last)' = Images(last)
      BY DEF Images
  <2>1. CASE intact
      BY <1>1, <1>2, <2>0, <2>1 DEF SoleInv, SoleWriter
  <2>2. CASE ~intact
    <3>1. sole /\ pc[p] = "write" /\ pos[p] = Len(data[p])
        BY <1>4, <2>2
    <3>2. /\ \A q \in Procs : pc[q] = "write" => q = p
          /\ last \in written /\ data[p] \in Images(last) /\ file = SubSeq(data[p], 1, pos[p])
        BY <3>1 DEF SoleInv, SoleWriter
    <3>3. file = data[p]
      <4>1. data[p] \in Seq(Cell)
          BY DEF TagInv, Types
      <4> QED BY <3>1, <3>2, <4>1, AllCells
    <3> QED BY <1>1, <1>2, <2>0, <3>2, <3>3
  <2> QED BY <2>1, <2>2
<1>5. SoleWriter'
    BY <1>3, <1>4 DEF SoleWriter
<1>6. ASSUME NEW q \in Procs PROVE Follows(q)' /\ Accepts(q)'
  <2>1. CASE q = p
      BY <1>1, <1>2, <2>1 DEF Follows
  <2>2. CASE q # p
    <3>1. Follows(q) /\ Accepts(q)
        BY DEF SoleInv
    <3>2. Accepts(q)'
        BY <1>1, <2>2, <3>1 DEF Accepts
    <3>3. intact => intact'
        BY DEF SoleInv, SoleWriter
    <3>4. Follows(q)'
        BY <1>1, <2>2, <3>1, <3>3 DEF Follows
    <3> QED BY <3>2, <3>4
  <2> QED BY <2>1, <2>2
<1> QED BY <1>5, <1>6 DEF SoleInv

(* A call of p ends without a verdict on the file.                         *)
LEMMA QuietSoleInv ==
    ASSUME TagInv, SoleInv, NEW p \in Procs,
           NEW outcome \in Ended \ {"FormatError", "AuthenticationError"}, End(p, outcome),
           UNCHANGED <<file, written, last, sole>>,
           seen' = seen \/ seen' = [seen EXCEPT ![p] = NothingSeen],
           \/ intact' = intact
           \/ intact' = sole /\ pc[p] = "write" /\ pos[p] = Len(data[p])
    PROVE  SoleInv'
<1>1. \A q \in Procs \ {p} : seen'[q] = seen[q]
    BY DEF TagInv, Types
<1>2. pc'[p] = outcome
    BY DEF End, TagInv, Types
<1>3. Accepts(p)'
    BY <1>2 DEF Accepts
<1> QED BY <1>1, <1>3, EndSoleInv

LEMMA SaveOpenSoleInv ==
    ASSUME TagInv, SoleInv, NEW p \in Procs, NEW k \in Keys, NEW w \in Passphrases,
           NEW iter \in Iterations, SaveOpen(p, k, w, iter)
    PROVE  SoleInv'
<1> DEFINE x == [key |-> k, pass |-> w]
           im == Image(k, w, iter, salts + 1)
<1>1. salts + 1 \in Nat /\ iter \in Nat /\ iter >= kMinPbkdf2Iterations
    BY IterationsAssumption DEF SaveOpen, TagInv, Types
<1>2. /\ file' = <<>> /\ written' = written \cup {x} /\ last' = x
      /\ data' = [data EXCEPT ![p] = im] /\ pc' = [pc EXCEPT ![p] = "write"]
      /\ sole' = (\A q \in Procs : pc[q] # "write") /\ intact' = FALSE
      /\ seen' = [q \in Procs |-> [seen[q] EXCEPT !.intact = FALSE]]
      /\ UNCHANGED <<size, pos, pass>> /\ pc[p] \in Ended
    BY DEF SaveOpen
<1>3. im \in Images(x)
    BY <1>1 DEF Images
<1>4. im \in Seq(Cell) /\ Len(im) \in Nat
  <2>1. IsImage(im, k, w, iter, salts + 1)
      BY <1>1, ImageCells
  <2>2. im \in Seq(Cell)
      BY <2>1 DEF IsImage
  <2> HIDE DEF im
  <2> QED BY <2>2
<1> HIDE DEF im, x
<1>5. /\ pc'[p] = "write" /\ data'[p] = im /\ pos'[p] = 0
      /\ \A q \in Procs \ {p} : pc'[q] = pc[q]
      /\ \A q \in Procs : ~seen'[q].intact
  <2>1. CallOK(p)
      BY DEF TagInv
  <2>2. \A q \in Procs : seen'[q].intact = FALSE
      BY <1>2 DEF TagInv, Types, SeenRecords
  <2> QED BY <1>2, <2>1, <2>2 DEF TagInv, Types, CallOK
<1>6. SoleWriter'
  <2>1. SubSeq(im, 1, 0) = <<>>
      BY <1>4, FirstCells
  <2>2. Images(last)' = Images(x)
      BY <1>2 DEF Images
  <2>3. ASSUME sole', NEW q \in Procs, pc'[q] = "write"
        PROVE  /\ \A r \in Procs : pc'[r] = "write" => r = q
               /\ last' \in written' /\ data'[q] \in Images(last)'
               /\ file' = SubSeq(data'[q], 1, pos'[q])
    <3>1. q = p /\ \A r \in Procs : pc'[r] = "write" => r = p
        BY <1>2, <1>5, <2>3
    <3> QED BY <1>2, <1>3, <1>5, <2>1, <2>2, <3>1
  <2> QED BY <1>2, <2>3 DEF SoleWriter
<1>7. ASSUME NEW q \in Procs PROVE Follows(q)' /\ Accepts(q)'
    BY <1>5 DEF Follows, Accepts
<1> QED BY <1>6, <1>7 DEF SoleInv

LEMMA WriteSoleInv ==
    ASSUME TagInv, SoleInv, NEW p \in Procs, NEW e \in Nat, WriteStep(p, e)
    PROVE  SoleInv'
<1>1. /\ pc[p] = "write" /\ pos' = [pos EXCEPT ![p] = e]
      /\ UNCHANGED <<pc, data, size, pass, result, salts, written, last, sole, intact, seen>>
    BY DEF WriteStep
<1>2. ~intact
    BY <1>1 DEF SoleInv, SoleWriter
<1>3. ASSUME sole, NEW q \in Procs, pc[q] = "write"
      PROVE  /\ \A r \in Procs : pc[r] = "write" => r = q
             /\ last \in written /\ data[q] \in Images(last)
             /\ file' = SubSeq(data[q], 1, pos'[q])
  <2>1. /\ \A r \in Procs : pc[r] = "write" => r = q
        /\ last \in written /\ data[q] \in Images(last) /\ file = SubSeq(data[q], 1, pos[q])
      BY <1>3 DEF SoleInv, SoleWriter
  <2>2. q = p
      BY <1>1, <2>1
  <2> DEFINE d == data[p]
             at == pos[p]
             s == Chunk(p, e)
  <2>3. /\ d \in Seq(Cell) /\ at \in 0 .. Len(d) /\ e \in at .. Len(d)
        /\ file' = WriteAt(file, at, s) /\ s \in Seq(Cell)
      BY WrittenCells
  <2>4. s = ReadAt(d, at, e - at) /\ file = SubSeq(d, 1, at) /\ file \in Seq(Cell)
      BY <2>1, <2>2 DEF Chunk, TagInv, Types
  <2> HIDE DEF d, at, s
  <2>5. at = Len(file) /\ at \in Nat
      BY <2>3, <2>4, FirstCells
  <2>6. file' = file \o s
      BY <2>3, <2>4, <2>5, WriteAtCells
  <2>7. SubSeq(d, 1, at) \o ReadAt(d, at, e - at) = SubSeq(d, 1, e)
      BY <2>3, ReadOn
  <2>8. pos'[p] = e
      BY <1>1 DEF TagInv, Types
  <2> QED BY <2>1, <2>2, <2>4, <2>6, <2>7, <2>8 DEF d
<1>4. SoleWriter'
  <2>1. Images(last)' = Images(last)
      BY <1>1 DEF Images
  <2> QED BY <1>1, <1>2, <1>3, <2>1 DEF SoleWriter
<1>5. ASSUME NEW q \in Procs PROVE Follows(q)' /\ Accepts(q)'
  <2>1. Follows(q) /\ Accepts(q)
      BY DEF SoleInv
  <2> QED BY <1>1, <1>2, <2>1 DEF Follows, Accepts
<1> QED BY <1>4, <1>5 DEF SoleInv

LEMMA LoadOpenSoleInv ==
    ASSUME TagInv, SoleInv, NEW p \in Procs, NEW w \in Passphrases, LoadOpen(p, w)
    PROVE  SoleInv'
<1> DEFINE r == [pass |-> w, last |-> last, intact |-> intact]
<1>1. r.last = last /\ r.intact = intact
    OBVIOUS
<1>2. /\ pc[p] \in Ended /\ pc' = [pc EXCEPT ![p] = "read"]
      /\ size' = [size EXCEPT ![p] = Len(file)] /\ seen' = [seen EXCEPT ![p] = r]
      /\ UNCHANGED <<file, data, pos, written, last, sole, intact>>
    BY DEF LoadOpen
<1> HIDE DEF r
<1>3. /\ pc'[p] = "read" /\ size'[p] = Len(file) /\ seen'[p] = r
      /\ \A q \in Procs \ {p} : pc'[q] = pc[q] /\ size'[q] = size[q] /\ seen'[q] = seen[q]
    BY <1>2 DEF TagInv, Types
<1>4. SoleWriter'
  <2>1. Images(last)' = Images(last)
      BY <1>2 DEF Images
  <2>2. \A q \in Procs : pc'[q] = "write" => q # p /\ pc[q] = "write"
      BY <1>3
  <2> QED BY <1>2, <2>1, <2>2 DEF SoleInv, SoleWriter
<1>5. ASSUME NEW q \in Procs PROVE Follows(q)' /\ Accepts(q)'
  <2>1. CASE q = p
    <3>1. file \in Seq(Cell) /\ Len(file) \in Nat /\ pos[p] = 0 /\ data[p] = <<>>
        BY <1>2 DEF TagInv, Types, CallOK
    <3>2. SubSeq(file, 1, 0) = <<>>
        BY <3>1, FirstCells
    <3>3. Follows(p)'
        BY <1>1, <1>2, <1>3, <3>1, <3>2 DEF Follows
    <3>4. Accepts(p)'
        BY <1>3 DEF Accepts
    <3> QED BY <2>1, <3>3, <3>4
  <2>2. CASE q # p
    <3>1. Follows(q) /\ Accepts(q)
        BY DEF SoleInv
    <3> QED BY <1>2, <1>3, <2>2, <3>1 DEF Follows, Accepts
  <2> QED BY <2>1, <2>2
<1> QED BY <1>4, <1>5 DEF SoleInv

LEMMA ReadSoleInv ==
    ASSUME TagInv, SoleInv, NEW p \in Procs, NEW e \in Nat, ReadStep(p, e)
    PROVE  SoleInv'
<1> DEFINE t == ReadAt(file, pos[p], e - pos[p])
           new == data[p] \o t
<1>1. /\ pc[p] = "read" /\ pos[p] < e /\ e <= size[p] /\ e <= Len(file)
      /\ data' = [data EXCEPT ![p] = new] /\ pos' = [pos EXCEPT ![p] = e]
      /\ UNCHANGED <<file, pc, size, pass, result, salts, written, last, sole, intact, seen>>
    BY DEF ReadStep
<1>2. ASSUME pc[p] = "read", seen[p].intact PROVE new = SubSeq(file, 1, e)
  <2>1. data[p] = SubSeq(file, 1, pos[p])
      BY <1>2 DEF SoleInv, Follows
  <2>2. /\ file \in Seq(Cell) /\ pos[p] \in 0 .. Len(file) /\ e \in pos[p] .. Len(file)
    <3>1. file \in Seq(Cell) /\ pos[p] \in Nat /\ Len(file) \in Nat
        BY DEF TagInv, Types
    <3> QED BY <1>1, <3>1
  <2> DEFINE at == pos[p]
  <2> HIDE DEF at
  <2>3. at \in 0 .. Len(file) /\ e \in at .. Len(file)
      BY <2>2 DEF at
  <2>4. SubSeq(file, 1, at) \o ReadAt(file, at, e - at) = SubSeq(file, 1, e)
      BY <2>2, <2>3, ReadOn
  <2> QED BY <2>1, <2>4 DEF at
<1> HIDE DEF new, t
<1>3. /\ data'[p] = new /\ pos'[p] = e
      /\ \A q \in Procs \ {p} : data'[q] = data[q] /\ pos'[q] = pos[q]
    BY <1>1 DEF TagInv, Types
<1>4. SoleWriter'
  <2>1. Images(last)' = Images(last)
      BY <1>1 DEF Images
  <2>2. \A q \in Procs : pc'[q] = "write" => q # p
      BY <1>1
  <2> QED BY <1>1, <1>3, <2>1, <2>2 DEF SoleInv, SoleWriter
<1>5. ASSUME NEW q \in Procs PROVE Follows(q)' /\ Accepts(q)'
  <2>1. Follows(q) /\ Accepts(q)
      BY DEF SoleInv
  <2>2. Accepts(q)'
      BY <1>1, <2>1 DEF Accepts
  <2>3. CASE q = p
      BY <1>1, <1>2, <1>3, <2>1, <2>2, <2>3 DEF Follows
  <2>4. CASE q # p
      BY <1>1, <1>3, <2>1, <2>2, <2>4 DEF Follows
  <2> QED BY <2>3, <2>4
<1> QED BY <1>4, <1>5 DEF SoleInv

(* The callers pass no iteration count that only the load refuses.         *)
WithinCeiling == \A i \in Iterations : i <= kMaxPbkdf2Iterations

(* An undisturbed load with the right passphrase passes every check.       *)
LEMMA LoadParseSoleInv ==
    ASSUME WithinCeiling, TagInv, SoleInv, NEW p \in Procs, LoadParse(p)
    PROVE  SoleInv'
<1> DEFINE d == data[p]
<1>1. /\ pc[p] = "read" /\ pos[p] = size[p]
      /\ UNCHANGED <<file, salts, written, last, sole, intact, seen>>
    BY LoadParseCases
<1>2. ASSUME seen[p].intact, seen[p].pass = seen[p].last.pass
      PROVE  WellFormed(d) /\ IterationsAccepted(d[5][2]) /\ TagMatches(d, pass[p])
  <2>1. /\ intact /\ seen[p].last = last /\ size[p] = Len(file)
        /\ d = SubSeq(file, 1, pos[p])
      BY <1>1, <1>2 DEF SoleInv, Follows
  <2>2. last \in written /\ file \in Images(last)
      BY <2>1 DEF SoleInv, SoleWriter
  <2>3. file \in Seq(Cell) /\ written \subseteq Saves /\ seen[p].pass = pass[p]
      BY <1>1 DEF TagInv, Types, CallOK
  <2>4. d = file
      BY <1>1, <2>1, <2>3, AllCells
  <2>5. last.key \in Keys /\ last.pass \in Passphrases /\ pass[p] = last.pass
      BY <1>2, <2>1, <2>2, <2>3 DEF Saves
  <2>6. PICK iter \in {i \in Iterations : i >= kMinPbkdf2Iterations}, salt \in Nat :
          file = Image(last.key, last.pass, iter, salt)
      BY <2>2 DEF Images
  <2> HIDE DEF d
  <2>7. iter \in Nat /\ iter >= kMinPbkdf2Iterations /\ iter <= kMaxPbkdf2Iterations
      BY <2>6, IterationsAssumption DEF WithinCeiling
  <2>8. WellFormed(file) /\ file[5][2] = iter /\ TagMatches(file, last.pass)
    <3> DEFINE k == last.key
               w == last.pass
    <3>1. k \in Keys /\ w \in Passphrases /\ file = Image(k, w, iter, salt)
        BY <2>5, <2>6
    <3> HIDE DEF k, w
    <3>2. WellFormed(file) /\ file[5][2] = iter /\ TagMatches(file, w)
        BY <2>7, <3>1, ImageAccepted
    <3> QED BY <3>2 DEF w
  <2> QED BY <2>4, <2>5, <2>7, <2>8 DEF IterationsAccepted
<1> HIDE DEF d
<1>3. ASSUME NEW outcome \in {"FormatError", "AuthenticationError"}, Fail(p, outcome),
             ~(WellFormed(d) /\ IterationsAccepted(d[5][2]) /\ TagMatches(d, pass[p]))
      PROVE  SoleInv'
  <2>1. Accepts(p)'
      BY <1>1, <1>2, <1>3 DEF Accepts
  <2>2. outcome \in Ended /\ End(p, outcome) /\ \A q \in Procs \ {p} : seen'[q] = seen[q]
      BY <1>1, <1>3 DEF Ended, Fail
  <2> QED BY <1>1, <2>1, <2>2, EndSoleInv
<1>4. CASE End(p, "loaded")
    BY <1>1, <1>4, QuietSoleInv DEF Ended
<1> QED BY <1>3, <1>4, LoadParseCases DEF d

LEMMA PowerFailureSoleInv == ASSUME TagInv, SoleInv, PowerFailure PROVE SoleInv'
<1>1. \A p \in Procs : pc'[p] = "idle"
    BY DEF PowerFailure
<1>2. SoleWriter'
    BY <1>1 DEF PowerFailure, SoleWriter
<1>3. \A p \in Procs : Follows(p)' /\ Accepts(p)'
    BY <1>1 DEF Follows, Accepts
<1> QED BY <1>2, <1>3 DEF SoleInv

LEMMA NextSoleInv == WithinCeiling /\ TagInv /\ SoleInv /\ [Next]_vars => SoleInv'
<1> SUFFICES ASSUME WithinCeiling, TagInv, SoleInv, [Next]_vars PROVE SoleInv'
    OBVIOUS
<1>1. ASSUME NEW p \in Procs, NEW iter \in Iterations,
             SaveRefused(p, iter) \/ SaveRngFails(p, iter)
      PROVE  SoleInv'
    BY <1>1, QuietSoleInv DEF SaveRefused, SaveRngFails, Fail, Ended
<1>2. ASSUME NEW p \in Procs, NEW k \in Keys, NEW w \in Passphrases, NEW iter \in Iterations,
             SaveOpen(p, k, w, iter)
      PROVE  SoleInv'
    BY <1>2, SaveOpenSoleInv
<1>3. ASSUME NEW p \in Procs, SaveWrite(p) PROVE SoleInv'
  <2>1. CASE \E e \in Nat : WriteStep(p, e)
      BY <2>1, WriteSoleInv
  <2>2. CASE Fail(p, "IoError") /\ UNCHANGED <<file, salts, written, last, sole, intact, seen>>
      BY <2>2, QuietSoleInv DEF Fail, Ended
  <2> QED BY <1>3, <2>1, <2>2, SaveWriteCases
<1>4. ASSUME NEW p \in Procs, SaveReturn(p) PROVE SoleInv'
    BY <1>4, QuietSoleInv DEF SaveReturn, Fail, Ended
<1>5. ASSUME NEW p \in Procs, OpenFails(p) PROVE SoleInv'
    BY <1>5, QuietSoleInv DEF OpenFails, Fail, Ended
<1>6. ASSUME NEW p \in Procs, NEW w \in Passphrases, LoadOpen(p, w) PROVE SoleInv'
    BY <1>6, LoadOpenSoleInv
<1>7. ASSUME NEW p \in Procs, LoadRead(p) PROVE SoleInv'
  <2>1. CASE \E e \in Nat : ReadStep(p, e)
      BY <2>1, ReadSoleInv
  <2>2. CASE Fail(p, "IoError") /\ UNCHANGED <<file, salts, written, last, sole, intact, seen>>
      BY <2>2, QuietSoleInv DEF Fail, Ended
  <2> QED BY <1>7, <2>1, <2>2, LoadReadCases
<1>8. ASSUME NEW p \in Procs, LoadParse(p) PROVE SoleInv'
    BY <1>8, LoadParseSoleInv
<1>9. ASSUME NEW p \in Procs, Die(p) PROVE SoleInv'
    BY <1>9, QuietSoleInv DEF Die, Fail, Ended
<1>10. CASE PowerFailure
    BY <1>10, PowerFailureSoleInv
<1>11. CASE Flush \/ UNCHANGED vars
  <2>1. UNCHANGED <<file, data, pc, size, pos, written, last, sole, intact, seen>>
      BY <1>11 DEF Flush, vars
  <2>2. SoleWriter'
      BY <2>1 DEF SoleInv, SoleWriter, Images
  <2>3. ASSUME NEW q \in Procs PROVE Follows(q)' /\ Accepts(q)'
    <3>1. Follows(q) /\ Accepts(q)
        BY DEF SoleInv
    <3> QED BY <2>1, <3>1 DEF Follows, Accepts
  <2> QED BY <2>2, <2>3 DEF SoleInv
<1> QED BY <1>1, <1>2, <1>3, <1>4, <1>5, <1>6, <1>7, <1>8, <1>9, <1>10, <1>11 DEF Next

(* What save_to_file_encrypted reported as saved, load_from_file_encrypted *)
(* accepts with its passphrase, as long as no caller passes an iteration   *)
(* count above kMaxPbkdf2Iterations, which only the load checks.           *)
THEOREM SavedKeysAccepted == WithinCeiling => (Spec => []SavedKeyLoads)
<1> SUFFICES ASSUME WithinCeiling PROVE Spec => []SavedKeyLoads
    OBVIOUS
<1>1. IInv /\ SoleInv /\ [Next]_vars => SoleInv'
    BY NextSoleInv DEF IInv
<1>2. SoleInv => SavedKeyLoads
    BY DEF SoleInv, Accepts, SavedKeyLoads
<1> QED BY <1>1, <1>2, InitSoleInv, TagInvariance, PTL DEF Spec
=============================================================================
