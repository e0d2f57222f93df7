-------------------------- MODULE PrimitiveProofs ---------------------------
(***************************************************************************)
(* Proofs about the primitives.  In this order:                            *)
(*   Dispatch, for any set of threads, any length of the messages and      *)
(*   every host;                                                           *)
(*   AesBackends, the call of the chosen backend for a block, for all keys *)
(*   and blocks: no round key is left behind, and FIPS-197 is implemented; *)
(*   the calls of Sha256, for any sizes, lengths and iteration counts;     *)
(*   GHash, for every block size, h and all data: its blocks determine its *)
(*   input, and its result is the polynomial of SP 800-38D.                *)
(* These modules share no variable and no name.                            *)
(***************************************************************************)
EXTENDS Dispatch, AesBackends, Sha256, GHash, ArithmeticProofs, SequenceTheorems, TLAPS

(* What the initializer of the static has established at each of its       *)
(* points: the self-test runs only where the instructions are, its second  *)
(* vector only after the first one matched, and what it leaves in the      *)
(* static has passed both.                                                 *)
SelfTestSound ==
    /\ \A t \in Threads : pc[t] \in Vectors => host.bit
    /\ \A t \in Threads : pc[t] = "kat256" => kat_matches("kat128")
    /\ supported => host.bit /\ host.wrong \cap Vectors = {}

(* A thread goes to the hardware only with the value of the initialised    *)
(* static, and that value is what every has_hw_aes has returned.           *)
StaticPublished ==
    /\ \A t \in Threads : pc[t] = "hw" => supported
    /\ answers \subseteq (IF guard = "done" THEN {supported} ELSE {})

(* A backend is chosen for a block only, so the blocks left never become   *)
(* negative.                                                               *)
BlockPending == \A t \in Threads : pc[t] \in {"hw", "soft"} => left[t] # 0

(* Inductive invariant of the dispatch.                                    *)
IInv ==
    /\ TypeOK /\ SelfTestSound /\ StaticPublished /\ BlockPending
    /\ NoFault /\ WrongOnlyBeyondSelfTest

LEMMA InitIInv == Init => IInv
<1> SUFFICES ASSUME Init PROVE IInv
    OBVIOUS
<1>1. TypeOK
  <2>1. /\ pc \in [Threads -> {"idle", "getenv", "static", "probe", "hw", "soft"} \cup Vectors]
        /\ size \in [Threads -> KeySizes] /\ left \in [Threads -> 0 .. MaxBlocks]
      BY MaxBlocksAssumption DEF Init, KeySizes
  <2>2. \A t \in Threads : pc[t] \in {"probe"} \cup Vectors <=> guard = t
      BY ThreadsAssumption DEF Init, Vectors
  <2> QED BY <2>1, <2>2 DEF Init, TypeOK
<1>2. SelfTestSound /\ StaticPublished /\ BlockPending
    BY DEF Init, SelfTestSound, StaticPublished, BlockPending, Vectors
<1>3. NoFault /\ WrongOnlyBeyondSelfTest
    BY DEF Init, NoFault, WrongOnlyBeyondSelfTest
<1> QED BY <1>1, <1>2, <1>3 DEF IInv

(* The end of the initializer, in whichever of its steps.                  *)
LEMMA MemoizeIInv ==
    ASSUME IInv, NEW t \in Threads, NEW value \in BOOLEAN, Memoize(t, value),
           guard = t, value => host.bit /\ host.wrong \cap Vectors = {}, ~faulted',
           UNCHANGED <<host, env, size, left, answers, wrong>>
    PROVE  IInv'
<1>1. /\ pc' = [pc EXCEPT ![t] = "static"] /\ supported' = value /\ guard' = "done"
    BY DEF Memoize, Goto
<1>2. guard # "done" /\ ~supported /\ answers = {}
    BY ThreadsAssumption DEF IInv, TypeOK, StaticPublished
<1>3. TypeOK'
  <2>1. pc' \in [Threads -> {"idle", "getenv", "static", "probe", "hw", "soft"} \cup Vectors]
      BY <1>1 DEF IInv, TypeOK
  <2>2. \A r \in Threads : pc'[r] \notin {"probe"} \cup Vectors
      BY <1>1 DEF IInv, TypeOK, Vectors
  <2> QED BY <1>1, <1>2, <2>1, <2>2, ThreadsAssumption DEF IInv, TypeOK
<1>4. SelfTestSound'
    BY <1>1 DEF IInv, TypeOK, SelfTestSound, kat_matches, Vectors
<1>5. StaticPublished' /\ BlockPending'
    BY <1>1, <1>2 DEF IInv, TypeOK, StaticPublished, BlockPending
<1>6. NoFault' /\ WrongOnlyBeyondSelfTest'
    BY DEF IInv, NoFault, WrongOnlyBeyondSelfTest
<1> QED BY <1>3, <1>4, <1>5, <1>6 DEF IInv

LEMMA NextIInv == IInv /\ [Next]_vars => IInv'
<1> SUFFICES ASSUME IInv, [Next]_vars PROVE IInv'
    OBVIOUS
<1> USE DEF Goto, Vectors
<1>1. ASSUME NEW t \in Threads, NEW sz \in KeySizes, NEW n \in 0 .. MaxBlocks, Call(t, sz, n)
      PROVE  IInv'
  <2>1. TypeOK'
      BY <1>1 DEF Call, IInv, TypeOK
  <2>2. SelfTestSound' /\ StaticPublished' /\ BlockPending'
      BY <1>1 DEF Call, IInv, TypeOK, SelfTestSound, StaticPublished, BlockPending, kat_matches
  <2> QED BY <1>1, <2>1, <2>2 DEF Call, IInv, NoFault, WrongOnlyBeyondSelfTest
<1>2. CASE SetEnv
    BY <1>2 DEF SetEnv, IInv, TypeOK, SelfTestSound, StaticPublished, BlockPending, kat_matches, NoFault,
                WrongOnlyBeyondSelfTest
<1>3. ASSUME NEW t \in Threads, active_backend(t) PROVE IInv'
  <2>1. PICK where \in {"idle", "soft", "static"} :
          pc' = [pc EXCEPT ![t] = where] /\ (where = "soft" => left[t] # 0)
      BY <1>3 DEF active_backend, Decide
  <2>2. TypeOK'
      BY <1>3, <2>1 DEF active_backend, IInv, TypeOK
  <2>3. SelfTestSound' /\ StaticPublished' /\ BlockPending'
      BY <1>3, <2>1 DEF active_backend, IInv, TypeOK, SelfTestSound, StaticPublished,
                        BlockPending, kat_matches
  <2> QED BY <1>3, <2>2, <2>3 DEF active_backend, IInv, NoFault, WrongOnlyBeyondSelfTest
<1>4. ASSUME NEW t \in Threads, has_hw_aes(t) PROVE IInv'
  <2>1. CASE guard = "new" /\ guard' = t /\ Goto(t, "probe") /\ UNCHANGED answers
    <3>1. TypeOK'
        BY <1>4, <2>1, ThreadsAssumption DEF has_hw_aes, IInv, TypeOK
    <3>2. SelfTestSound' /\ StaticPublished' /\ BlockPending'
        BY <1>4, <2>1, ThreadsAssumption
           DEF has_hw_aes, IInv, TypeOK, SelfTestSound, StaticPublished, BlockPending, kat_matches
    <3> QED BY <1>4, <3>1, <3>2 DEF has_hw_aes, IInv, NoFault, WrongOnlyBeyondSelfTest
  <2>2. CASE /\ Initialised /\ Decide(t, IF supported THEN "hw" ELSE "soft")
             /\ answers' = answers \cup {supported} /\ UNCHANGED guard
    <3>1. PICK where \in {"idle", "hw", "soft"} :
            /\ pc' = [pc EXCEPT ![t] = where]
            /\ (where = "hw" => supported) /\ (where # "idle" => left[t] # 0)
        BY <2>2 DEF Decide
    <3>2. TypeOK'
        BY <1>4, <2>2, <3>1 DEF has_hw_aes, Initialised, IInv, TypeOK
    <3>3. SelfTestSound'
        BY <1>4, <3>1 DEF has_hw_aes, IInv, TypeOK, SelfTestSound, kat_matches
    <3>4. StaticPublished' /\ BlockPending'
        BY <1>4, <2>2, <3>1 DEF has_hw_aes, Initialised, IInv, TypeOK, StaticPublished,
                                BlockPending
    <3> QED BY <1>4, <3>2, <3>3, <3>4 DEF has_hw_aes, IInv, NoFault, WrongOnlyBeyondSelfTest
  <2> QED BY <1>4, <2>1, <2>2 DEF has_hw_aes
<1>5. ASSUME NEW t \in Threads, Probe(t) PROVE IInv'
  <2>1. guard = t
      BY <1>5 DEF Probe, IInv, TypeOK
  <2>2. CASE host.bit
    <3>1. TypeOK'
        BY <1>5, <2>1, <2>2 DEF Probe, FeatureBit, SelfTestStart, IInv, TypeOK
    <3>2. SelfTestSound' /\ StaticPublished' /\ BlockPending'
        BY <1>5, <2>2 DEF Probe, FeatureBit, SelfTestStart, IInv, TypeOK, SelfTestSound,
                          StaticPublished, BlockPending, kat_matches
    <3> QED BY <1>5, <2>2, <3>1, <3>2 DEF Probe, IInv, NoFault, WrongOnlyBeyondSelfTest
  <2>3. CASE ~host.bit
      BY <1>5, <2>1, <2>3, MemoizeIInv DEF Probe, FeatureBit, IInv, NoFault
  <2> QED BY <2>2, <2>3
<1>6. ASSUME NEW t \in Threads, SelfTest(t) PROVE IInv'
  <2>1. guard = t /\ host.bit /\ ~faulted'
      BY <1>6 DEF SelfTest, IInv, TypeOK, SelfTestSound, NoFault
  <2>2. CASE kat_matches(pc[t]) /\ ~LastVector(pc[t])
    <3>1. pc[t] = "kat128" /\ pc' = [pc EXCEPT ![t] = "kat256"]
        BY <1>6, <2>2 DEF SelfTest, LastVector
    <3>2. TypeOK'
        BY <1>6, <2>1, <2>2, <3>1 DEF SelfTest, IInv, TypeOK
    <3>3. SelfTestSound' /\ StaticPublished' /\ BlockPending'
        BY <1>6, <2>1, <2>2, <3>1 DEF SelfTest, IInv, TypeOK, SelfTestSound,
                                      StaticPublished, BlockPending, kat_matches
    <3> QED BY <1>6, <2>1, <3>2, <3>3 DEF SelfTest, IInv, NoFault, WrongOnlyBeyondSelfTest
  <2>3. CASE ~(kat_matches(pc[t]) /\ ~LastVector(pc[t]))
    <3>1. kat_matches(pc[t]) => host.wrong \cap Vectors = {}
        BY <1>6, <2>3 DEF SelfTest, LastVector, IInv, SelfTestSound, kat_matches
    <3>2. Memoize(t, kat_matches(pc[t])) /\ UNCHANGED <<host, env, size, left, answers, wrong>>
        BY <1>6, <2>3 DEF SelfTest
    <3>3. kat_matches(pc[t]) \in BOOLEAN
        BY DEF kat_matches
    <3> QED BY <2>1, <3>1, <3>2, <3>3, MemoizeIInv
  <2> QED BY <2>2, <2>3
<1>7. ASSUME NEW t \in Threads, encrypt_block_hw(t) \/ encrypt_block_soft(t) PROVE IInv'
  <2>1. PICK where \in {"idle", "getenv"} : pc' = [pc EXCEPT ![t] = where]
      BY <1>7 DEF encrypt_block_hw, encrypt_block_soft, NextBlock
  <2>2. /\ left' = [left EXCEPT ![t] = @ - 1]
        /\ UNCHANGED <<host, env, guard, supported, size, answers>>
      BY <1>7 DEF encrypt_block_hw, encrypt_block_soft, NextBlock
  <2>3. left[t] # 0
      BY <1>7 DEF encrypt_block_hw, encrypt_block_soft, IInv, BlockPending
  <2>4. TypeOK'
      BY <1>7, <2>1, <2>2, <2>3, MaxBlocksAssumption
         DEF encrypt_block_hw, encrypt_block_soft, IInv, TypeOK
  <2>5. SelfTestSound' /\ StaticPublished' /\ BlockPending'
      BY <2>1, <2>2 DEF IInv, TypeOK, SelfTestSound, StaticPublished, BlockPending, kat_matches
  <2>6. NoFault' /\ WrongOnlyBeyondSelfTest'
    <3>1. CASE encrypt_block_hw(t)
      <4>1. host.bit /\ host.wrong \cap Vectors = {}
          BY <3>1 DEF encrypt_block_hw, IInv, StaticPublished, SelfTestSound
      <4>2. NoFault'
          BY <3>1, <4>1 DEF encrypt_block_hw, IInv, NoFault
      <4> QED BY <3>1, <4>1, <4>2 DEF encrypt_block_hw, WrongOnlyBeyondSelfTest
    <3>2. CASE encrypt_block_soft(t)
        BY <3>2 DEF encrypt_block_soft, IInv, NoFault, WrongOnlyBeyondSelfTest
    <3> QED BY <1>7, <3>1, <3>2
  <2> QED BY <2>4, <2>5, <2>6 DEF IInv
<1>8. CASE UNCHANGED vars
    BY <1>8 DEF vars, IInv, TypeOK, SelfTestSound, StaticPublished, BlockPending, kat_matches, NoFault,
                WrongOnlyBeyondSelfTest
<1> QED BY <1>1, <1>2, <1>3, <1>4, <1>5, <1>6, <1>7, <1>8 DEF Next, Step

(* For any number of threads and every host the static is initialised once *)
(* and by a self-test that ran where the instructions are.                 *)
THEOREM Invariance == Spec => []IInv
BY InitIInv, NextIInv, PTL DEF Spec

(* No thread executes an AES instruction on a CPU that lacks it, however   *)
(* the override of active_backend changes.                                 *)
THEOREM NeverFaults == Spec => []NoFault
<1>1. IInv => NoFault
    BY DEF IInv
<1> QED BY <1>1, Invariance, PTL

(* Hardware that fails a known-answer vector of hw_backend_passes_self_    *)
(* test never encrypts a block of data.                                    *)
THEOREM SelfTestFilters == Spec => []WrongOnlyBeyondSelfTest
<1>1. IInv => WrongOnlyBeyondSelfTest
    BY DEF IInv
<1> QED BY <1>1, Invariance, PTL

(* All threads get one answer of has_hw_aes, those that ask while its      *)
(* static is being initialised included.                                   *)
THEOREM AnswersAgree == Spec => []OneAnswer
<1>1. IInv => OneAnswer
    BY DEF IInv, StaticPublished, OneAnswer
<1> QED BY <1>1, Invariance, PTL
-----------------------------------------------------------------------------
(* The call of a backend.  Only the portable expansion of soft and arm     *)
(* fills the Word array, and arm has wiped it when its rounds begin.       *)
ScheduleInv ==
    /\ backend \in {"ni", "riscv"} => words = <<>>
    /\ backend \in Backends
    /\ NoRoundKeyLeft

LEMMA InitScheduleInv == BlockInit => ScheduleInv
BY DEF BlockInit, ScheduleInv, NoRoundKeyLeft

LEMMA NextScheduleInv == ScheduleInv /\ [BlockNext]_blockVars => ScheduleInv'
<1> SUFFICES ASSUME ScheduleInv, [BlockNext]_blockVars PROVE ScheduleInv'
    OBVIOUS
<1> USE DEF ScheduleInv, NoRoundKeyLeft
<1>1. CASE Start
    BY <1>1 DEF Start
<1>2. CASE ExpandWords
    BY <1>2 DEF ExpandWords
<1>3. CASE ExpandRegisters
    BY <1>3 DEF ExpandRegisters
<1>4. CASE Load
    BY <1>4 DEF Load, wipe_schedule
<1>5. CASE Round
    BY <1>5 DEF Round
<1>6. CASE LastRound
  <2>1. /\ step = "rounds" /\ backend' = backend
        /\ words' = IF backend = "soft" THEN wipe_schedule(words) ELSE words
        /\ wipe_round_keys
      BY <1>6 DEF LastRound
  <2>2. \A n \in DOMAIN words' : words'[n] = ZeroWord
    <3>1. CASE backend = "soft"
        BY <3>1, <2>1 DEF wipe_schedule
    <3>2. CASE backend # "soft"
        BY <3>2, <2>1 DEF Backends
    <3> QED BY <3>1, <3>2
  <2>3. \A n \in DOMAIN rk' : rk'[n] \in {ZeroState, load_state(ZeroState)}
      BY <2>1 DEF wipe_round_keys
  <2>4. backend \in {"ni", "riscv"} => words' = <<>>
      BY <2>1
  <2> QED BY <2>1, <2>2, <2>3, <2>4
<1>7. CASE UNCHANGED blockVars
    BY <1>7 DEF blockVars
<1> QED BY <1>1, <1>2, <1>3, <1>4, <1>5, <1>6, <1>7 DEF BlockNext

(* In every backend and for every key no round key outlives the call in    *)
(* the schedule or its packed copy: wipe_schedule and the zeroing of the   *)
(* registers reach whole arrays, ARM's before its first round.             *)
THEOREM SchedulesWiped == BlockSpec => []NoRoundKeyLeft
<1>1. ScheduleInv => NoRoundKeyLeft
    BY DEF ScheduleInv
<1> QED BY <1>1, InitScheduleInv, NextScheduleInv, PTL DEF BlockSpec
-----------------------------------------------------------------------------
(***************************************************************************)
(* The four backends implement the cipher of FIPS-197.  The lemmas go from *)
(* bytes to words to states, then from a word or a register of the key     *)
(* schedule to the next round key, and last through the steps of a call.   *)
(***************************************************************************)

(* Bytes, words and states under exclusive or.                             *)
LEMMA XorByte ==
    ASSUME NEW a \in Byte, NEW b \in Byte
    PROVE  a ++ b \in Byte
BY DEF Byte, ++, SymDiff

LEMMA XorZero == \A b : b ++ {} = b /\ {} ++ b = b
BY DEF ++, SymDiff

(* Four values of a set are a function on 1 .. 4, and two such functions   *)
(* are equal when their four values are.                                   *)
LEMMA FourTyped ==
    ASSUME NEW S, NEW a \in S, NEW b \in S, NEW c \in S, NEW d \in S
    PROVE  <<a, b, c, d>> \in [1 .. 4 -> S]
OBVIOUS

LEMMA FourApplied ==
    ASSUME NEW S, NEW f \in [1 .. 4 -> S]
    PROVE  /\ f[1] \in S /\ f[2] \in S /\ f[3] \in S /\ f[4] \in S
           /\ f = <<f[1], f[2], f[3], f[4]>>
OBVIOUS

LEMMA ZeroTyped == ZeroWord \in Word /\ ZeroState \in State
<1>1. {} \in Byte
    BY DEF Byte
<1>2. ZeroWord \in Word
    BY <1>1, FourTyped DEF ZeroWord, Four, Word
<1> QED BY <1>2, FourTyped DEF ZeroState, Four, State

LEMMA XorWordTyped ==
    ASSUME NEW a \in Word, NEW b \in Word
    PROVE  XorWord(a, b) \in Word
<1>1. /\ a[1] ++ b[1] \in Byte /\ a[2] ++ b[2] \in Byte
      /\ a[3] ++ b[3] \in Byte /\ a[4] ++ b[4] \in Byte
    BY XorByte DEF Word
<1> QED BY <1>1, FourTyped DEF XorWord, Four, Word

LEMMA XorStateTyped ==
    ASSUME NEW s \in State, NEW t \in State
    PROVE  XorState(s, t) \in State
<1>1. /\ XorWord(s[1], t[1]) \in Word /\ XorWord(s[2], t[2]) \in Word
      /\ XorWord(s[3], t[3]) \in Word /\ XorWord(s[4], t[4]) \in Word
    BY XorWordTyped DEF State
<1> QED BY <1>1, FourTyped DEF XorState, Four, State

(* Exclusive or of words: commutative, associative, ZeroWord is neutral.   *)
LEMMA XorWordLaws ==
    /\ \A a, b : XorWord(a, b) = XorWord(b, a)
    /\ \A a, b, c : XorWord(XorWord(a, b), c) = XorWord(a, XorWord(b, c))
    /\ \A a \in Word : XorWord(a, ZeroWord) = a
<1>1. ASSUME NEW a, NEW b PROVE XorWord(a, b) = XorWord(b, a)
  <2>1. \A r : a[r] ++ b[r] = b[r] ++ a[r]
      BY XorLaws
  <2> QED BY <2>1 DEF XorWord, Four
<1>2. ASSUME NEW a, NEW b, NEW c
      PROVE  XorWord(XorWord(a, b), c) = XorWord(a, XorWord(b, c))
  <2>1. \A r : (a[r] ++ b[r]) ++ c[r] = a[r] ++ (b[r] ++ c[r])
      BY XorLaws
  <2> QED BY <2>1 DEF XorWord, Four
<1>3. ASSUME NEW a \in Word PROVE XorWord(a, ZeroWord) = a
  <2>1. \A r : a[r] ++ {} = a[r]
      BY XorZero
  <2>2. a = <<a[1], a[2], a[3], a[4]>>
      BY FourApplied DEF Word
  <2> QED BY <2>1, <2>2 DEF XorWord, Four, ZeroWord
<1> QED BY <1>1, <1>2, <1>3

-----------------------------------------------------------------------------
(* The transformations of a round.                                         *)
LEMMA SubWordTyped ==
    ASSUME NEW w \in Word
    PROVE  /\ SubWord(w) \in Word
           /\ schedule_sub_word(w) = SubWord(w)
<1>1. /\ w[1] \in Byte /\ w[2] \in Byte /\ w[3] \in Byte /\ w[4] \in Byte
    BY DEF Word
<1>2. /\ FipsSbox[w[1]] \in Byte /\ FipsSbox[w[2]] \in Byte
      /\ FipsSbox[w[3]] \in Byte /\ FipsSbox[w[4]] \in Byte
      /\ CtSbox[w[1]] = FipsSbox[w[1]] /\ CtSbox[w[2]] = FipsSbox[w[2]]
      /\ CtSbox[w[3]] = FipsSbox[w[3]] /\ CtSbox[w[4]] = FipsSbox[w[4]]
    BY <1>1, TablesAssumption
<1>3. SubWord(w) \in Word
    BY <1>2, FourTyped DEF SubWord, Four, Word
<1> QED BY <1>2, <1>3 DEF SubWord, schedule_sub_word, Four

LEMMA RotWordTyped ==
    ASSUME NEW w \in Word
    PROVE  /\ RotWord(w) = <<w[2], w[3], w[4], w[1]>>
           /\ RotWord(w) \in Word
           /\ schedule_rot_word(w) = RotWord(w)
           /\ RotWord(SubWord(w)) = SubWord(RotWord(w))
<1>1. RotWord(w) = <<w[2], w[3], w[4], w[1]>>
    BY DEF RotWord, Four, Wrap
<1>2. RotWord(w) \in Word
    BY <1>1, FourApplied, FourTyped DEF Word
<1>3. RotWord(SubWord(w)) = SubWord(RotWord(w))
    BY DEF RotWord, SubWord, Four, Wrap
<1> QED BY <1>1, <1>2, <1>3 DEF schedule_rot_word

LEMMA SubBytesTyped ==
    ASSUME NEW s \in State
    PROVE  /\ SubBytes(s) \in State
           /\ sub_bytes(s) = SubBytes(s)
<1>1. /\ s[1] \in Word /\ s[2] \in Word /\ s[3] \in Word /\ s[4] \in Word
    BY DEF State
<1>2. SubBytes(s) \in State
    BY <1>1, SubWordTyped, FourTyped DEF SubBytes, Four, State
<1>3. sub_bytes(s) = <<schedule_sub_word(s[1]), schedule_sub_word(s[2]),
                       schedule_sub_word(s[3]), schedule_sub_word(s[4])>>
    BY DEF sub_bytes, schedule_sub_word, Four
<1>4. SubBytes(s) = <<SubWord(s[1]), SubWord(s[2]), SubWord(s[3]), SubWord(s[4])>>
    BY DEF SubBytes, Four
<1> QED BY <1>1, <1>2, <1>3, <1>4, SubWordTyped

(* Row r of column c comes from column c + r - 1; the loop of the code     *)
(* leaves its first row out.                                               *)
LEMMA ShiftRowsIs ==
    ASSUME NEW s
    PROVE  /\ ShiftRows(s) = << <<s[1][1], s[2][2], s[3][3], s[4][4]>>,
                                <<s[2][1], s[3][2], s[4][3], s[1][4]>>,
                                <<s[3][1], s[4][2], s[1][3], s[2][4]>>,
                                <<s[4][1], s[1][2], s[2][3], s[3][4]>> >>
           /\ shift_rows(s) = ShiftRows(s)
<1>1. ShiftRows(s) = << <<s[1][1], s[2][2], s[3][3], s[4][4]>>,
                        <<s[2][1], s[3][2], s[4][3], s[1][4]>>,
                        <<s[3][1], s[4][2], s[1][3], s[2][4]>>,
                        <<s[4][1], s[1][2], s[2][3], s[3][4]>> >>
    BY DEF ShiftRows, Four, Wrap
<1>2. shift_rows(s) = << <<s[1][1], s[2][2], s[3][3], s[4][4]>>,
                         <<s[2][1], s[3][2], s[4][3], s[1][4]>>,
                         <<s[3][1], s[4][2], s[1][3], s[2][4]>>,
                         <<s[4][1], s[1][2], s[2][3], s[3][4]>> >>
    BY DEF shift_rows, Four, Wrap
<1> QED BY <1>1, <1>2

LEMMA ShiftRowsTyped ==
    ASSUME NEW s \in State
    PROVE  ShiftRows(s) \in State
<1> DEFINE w1 == <<s[1][1], s[2][2], s[3][3], s[4][4]>>
           w2 == <<s[2][1], s[3][2], s[4][3], s[1][4]>>
           w3 == <<s[3][1], s[4][2], s[1][3], s[2][4]>>
           w4 == <<s[4][1], s[1][2], s[2][3], s[3][4]>>
<1>1. \A c \in 1 .. 4 : s[c] \in Word
    BY DEF State
<1>2. \A c, r \in 1 .. 4 : s[c][r] \in Byte
    BY <1>1 DEF Word
<1>3. w1 \in Word
    BY <1>2, FourTyped DEF Word
<1>4. w2 \in Word
    BY <1>2, FourTyped DEF Word
<1>5. w3 \in Word
    BY <1>2, FourTyped DEF Word
<1>6. w4 \in Word
    BY <1>2, FourTyped DEF Word
<1>7. ShiftRows(s) = <<w1, w2, w3, w4>>
    BY ShiftRowsIs
<1> HIDE DEF w1, w2, w3, w4
<1> QED BY <1>3, <1>4, <1>5, <1>6, <1>7, FourTyped DEF State

(* A column times the polynomial of FIPS-197, its coefficients written out. *)
Mixed(w) ==
    << Times2[w[1]] ++ (Times2[w[2]] ++ w[2]) ++ w[3] ++ w[4],
       w[1] ++ Times2[w[2]] ++ (Times2[w[3]] ++ w[3]) ++ w[4],
       w[1] ++ w[2] ++ Times2[w[3]] ++ (Times2[w[4]] ++ w[4]),
       (Times2[w[1]] ++ w[1]) ++ w[2] ++ w[3] ++ Times2[w[4]] >>

LEMMA MixColumnsIs ==
    ASSUME NEW s
    PROVE  MixColumns(s) = <<Mixed(s[1]), Mixed(s[2]), Mixed(s[3]), Mixed(s[4])>>
<1>1. /\ Wrap(5) = 1 /\ Wrap(4) = 4 /\ Wrap(3) = 3 /\ Wrap(2) = 2
      /\ Wrap(6) = 2 /\ Wrap(7) = 3 /\ Wrap(8) = 4
    BY DEF Wrap
<1> QED BY <1>1 DEF MixColumns, Mixed, Four

LEMMA MixedTyped ==
    ASSUME NEW w \in Word
    PROVE  Mixed(w) \in Word
<1>1. /\ w[1] \in Byte /\ w[2] \in Byte /\ w[3] \in Byte /\ w[4] \in Byte
    BY DEF Word
<1>2. /\ Times2[w[1]] \in Byte /\ Times2[w[2]] \in Byte
      /\ Times2[w[3]] \in Byte /\ Times2[w[4]] \in Byte
    BY <1>1, TablesAssumption
<1>3. Times2[w[1]] ++ (Times2[w[2]] ++ w[2]) ++ w[3] ++ w[4] \in Byte
    BY <1>1, <1>2, XorByte
<1>4. w[1] ++ Times2[w[2]] ++ (Times2[w[3]] ++ w[3]) ++ w[4] \in Byte
    BY <1>1, <1>2, XorByte
<1>5. w[1] ++ w[2] ++ Times2[w[3]] ++ (Times2[w[4]] ++ w[4]) \in Byte
    BY <1>1, <1>2, XorByte
<1>6. (Times2[w[1]] ++ w[1]) ++ w[2] ++ w[3] ++ Times2[w[4]] \in Byte
    BY <1>1, <1>2, XorByte
<1> QED BY <1>3, <1>4, <1>5, <1>6, FourTyped DEF Mixed, Word

LEMMA MixColumnsTyped ==
    ASSUME NEW s \in State
    PROVE  /\ MixColumns(s) \in State
           /\ mix_columns(s) = MixColumns(s)
<1>1. /\ s[1] \in Word /\ s[2] \in Word /\ s[3] \in Word /\ s[4] \in Word
    BY DEF State
<1>2. MixColumns(s) \in State
    BY <1>1, MixColumnsIs, MixedTyped, FourTyped DEF State
<1>3. ASSUME NEW w \in Word
      PROVE  << Gmul2[w[1]] ++ Gmul3[w[2]] ++ w[3] ++ w[4],
                w[1] ++ Gmul2[w[2]] ++ Gmul3[w[3]] ++ w[4],
                w[1] ++ w[2] ++ Gmul2[w[3]] ++ Gmul3[w[4]],
                Gmul3[w[1]] ++ w[2] ++ w[3] ++ Gmul2[w[4]] >> = Mixed(w)
  <2>1. /\ w[1] \in Byte /\ w[2] \in Byte /\ w[3] \in Byte /\ w[4] \in Byte
      BY DEF Word
  <2>2. /\ Gmul2[w[1]] = Times2[w[1]] /\ Gmul3[w[1]] = Times2[w[1]] ++ w[1]
        /\ Gmul2[w[2]] = Times2[w[2]] /\ Gmul3[w[2]] = Times2[w[2]] ++ w[2]
        /\ Gmul2[w[3]] = Times2[w[3]] /\ Gmul3[w[3]] = Times2[w[3]] ++ w[3]
        /\ Gmul2[w[4]] = Times2[w[4]] /\ Gmul3[w[4]] = Times2[w[4]] ++ w[4]
      BY <2>1, TablesAssumption
  <2> QED BY <2>2 DEF Mixed
<1>4. mix_columns(s) = <<Mixed(s[1]), Mixed(s[2]), Mixed(s[3]), Mixed(s[4])>>
    BY <1>1, <1>3 DEF mix_columns, Four
<1> QED BY <1>2, <1>4, MixColumnsIs

(* A round of the code is a round of FIPS-197.                             *)
LEMMA RoundTyped ==
    ASSUME NEW s \in State
    PROVE  /\ ShiftRows(SubBytes(s)) \in State
           /\ MixColumns(ShiftRows(SubBytes(s))) \in State
           /\ shift_rows(sub_bytes(s)) = ShiftRows(SubBytes(s))
           /\ mix_columns(shift_rows(sub_bytes(s))) = MixColumns(ShiftRows(SubBytes(s)))
<1>1. SubBytes(s) \in State /\ sub_bytes(s) = SubBytes(s)
    BY SubBytesTyped
<1>2. ShiftRows(SubBytes(s)) \in State
    BY <1>1, ShiftRowsTyped
<1>3. shift_rows(sub_bytes(s)) = ShiftRows(SubBytes(s))
    BY <1>1, ShiftRowsIs
<1> QED BY <1>2, <1>3, MixColumnsTyped

-----------------------------------------------------------------------------
(* The schedule array as round keys of four words.                         *)
LEMMA PartIs ==
    ASSUME NEW W \in Seq(Word), NEW n \in Nat, n >= 1, 4 * n <= Len(W)
    PROVE  /\ SubSeq(W, 4 * n - 3, 4 * n) = <<W[4 * n - 3], W[4 * n - 2], W[4 * n - 1], W[4 * n]>>
           /\ SubSeq(W, 4 * n - 3, 4 * n) \in State
<1> DEFINE m == 4 * n - 3
           e == 4 * n
           four == SubSeq(W, m, e)
<1>1. m \in Int /\ e \in Int /\ e - m + 1 = 4 /\ m <= e
    OBVIOUS
<1>2. \A j \in m .. e : j \in 1 .. Len(W)
    OBVIOUS
<1>3. \A j \in m .. e : W[j] \in Word
    BY <1>2
<1> HIDE DEF m, e
<1>4. /\ four \in Seq(Word) /\ Len(four) = 4
      /\ \A j \in 1 .. 4 : four[j] = W[m + j - 1]
    BY <1>1, <1>3, SubSeqProperties
<1> HIDE DEF four
<1>5. four \in [1 .. 4 -> Word]
  <2>1. four \in [1 .. Len(four) -> Word]
      BY <1>4, LenProperties
  <2> QED BY <1>4, <2>1
<1>6. /\ four[1] = W[4 * n - 3] /\ four[2] = W[4 * n - 2]
      /\ four[3] = W[4 * n - 1] /\ four[4] = W[4 * n]
  <2>1. /\ m + 1 - 1 = 4 * n - 3 /\ m + 2 - 1 = 4 * n - 2
        /\ m + 3 - 1 = 4 * n - 1 /\ m + 4 - 1 = 4 * n
      BY DEF m
  <2> QED BY <1>4, <2>1
<1>7. four = <<W[4 * n - 3], W[4 * n - 2], W[4 * n - 1], W[4 * n]>>
    BY <1>5, <1>6, FourApplied
<1> QED BY <1>5, <1>7 DEF four, m, e, State

LEMMA PartsTyped ==
    ASSUME NEW W \in Seq(Word)
    PROVE  /\ KeyParts(W) \in Seq(State)
           /\ Len(KeyParts(W)) = Len(W) \div 4
           /\ \A n \in 1 .. Len(W) \div 4 :
                KeyParts(W)[n] = <<W[4 * n - 3], W[4 * n - 2], W[4 * n - 1], W[4 * n]>>
<1> DEFINE q == Len(W) \div 4
<1>1. q \in Nat /\ 4 * q <= Len(W)
    OBVIOUS
<1>2. KeyParts(W) = [n \in 1 .. q |-> SubSeq(W, 4 * n - 3, 4 * n)]
    BY DEF KeyParts
<1> HIDE DEF q
<1>3. \A n \in 1 .. q : n \in Nat /\ n >= 1 /\ 4 * n <= Len(W)
    BY <1>1
<1>4. \A n \in 1 .. q :
        /\ KeyParts(W)[n] \in State
        /\ KeyParts(W)[n] = <<W[4 * n - 3], W[4 * n - 2], W[4 * n - 1], W[4 * n]>>
    BY <1>2, <1>3, PartIs
<1>5. KeyParts(W) \in [1 .. q -> State]
    BY <1>2, <1>4
<1>6. KeyParts(W) \in Seq(State) /\ Len(KeyParts(W)) = q
    BY <1>1, <1>5
<1> QED BY <1>4, <1>6 DEF q

LEMMA PartsKept ==
    ASSUME NEW W \in Seq(Word), NEW w \in Word, (Len(W) + 1) % 4 # 0
    PROVE  KeyParts(Append(W, w)) = KeyParts(W)
<1> DEFINE q == Len(W) \div 4
           V == Append(W, w)
<1>1. V \in Seq(Word) /\ Len(V) = Len(W) + 1 /\ \A j \in 1 .. Len(W) : V[j] = W[j]
    OBVIOUS
<1>2. q \in Nat /\ 4 * q <= Len(W) /\ Len(V) \div 4 = q
    BY <1>1
<1>3. Len(W) \div 4 = q
    OBVIOUS
<1>4. /\ KeyParts(V) = [n \in 1 .. q |-> SubSeq(V, 4 * n - 3, 4 * n)]
      /\ KeyParts(W) = [n \in 1 .. q |-> SubSeq(W, 4 * n - 3, 4 * n)]
    BY <1>2, <1>3 DEF KeyParts
<1> HIDE DEF q, V
<1>5. ASSUME NEW n \in 1 .. q
      PROVE  SubSeq(V, 4 * n - 3, 4 * n) = SubSeq(W, 4 * n - 3, 4 * n)
  <2>1. /\ n \in Nat /\ n >= 1 /\ 4 * n <= Len(W) /\ 4 * n <= Len(V)
        /\ 4 * n - 3 \in 1 .. Len(W) /\ 4 * n - 2 \in 1 .. Len(W)
        /\ 4 * n - 1 \in 1 .. Len(W) /\ 4 * n \in 1 .. Len(W)
      BY <1>1, <1>2
  <2>2. SubSeq(W, 4 * n - 3, 4 * n) = <<W[4 * n - 3], W[4 * n - 2], W[4 * n - 1], W[4 * n]>>
      BY <2>1, PartIs
  <2>3. SubSeq(V, 4 * n - 3, 4 * n) = <<V[4 * n - 3], V[4 * n - 2], V[4 * n - 1], V[4 * n]>>
      BY <1>1, <2>1, PartIs
  <2> QED BY <1>1, <2>1, <2>2, <2>3
<1>6. KeyParts(V) = KeyParts(W)
    BY <1>4, <1>5
<1> QED BY <1>6 DEF V

LEMMA PartsGrow ==
    ASSUME NEW W \in Seq(Word), NEW w \in Word, (Len(W) + 1) % 4 = 0
    PROVE  KeyParts(Append(W, w)) =
               Append(KeyParts(W), <<W[Len(W) - 2], W[Len(W) - 1], W[Len(W)], w>>)
<1> DEFINE q == Len(W) \div 4
           V == Append(W, w)
           K == KeyParts(W)
           new == <<W[Len(W) - 2], W[Len(W) - 1], W[Len(W)], w>>
<1>1. /\ V \in Seq(Word) /\ Len(V) = Len(W) + 1 /\ V[Len(W) + 1] = w
      /\ \A j \in 1 .. Len(W) : V[j] = W[j]
    OBVIOUS
<1>2. q \in Nat /\ 4 * q + 3 = Len(W) /\ Len(V) \div 4 = q + 1
    BY <1>1
<1>3. K \in Seq(State) /\ Len(K) = q
      /\ \A n \in 1 .. q : K[n] = <<W[4 * n - 3], W[4 * n - 2], W[4 * n - 1], W[4 * n]>>
    BY PartsTyped
<1>4. KeyParts(V) \in Seq(State) /\ Len(KeyParts(V)) = q + 1
      /\ \A n \in 1 .. q + 1 : KeyParts(V)[n] = <<V[4 * n - 3], V[4 * n - 2], V[4 * n - 1], V[4 * n]>>
    BY <1>1, <1>2, PartsTyped
<1> HIDE DEF q, V, K
<1>5. ASSUME NEW n \in 1 .. q PROVE KeyParts(V)[n] = K[n]
  <2>1. /\ 4 * n - 3 \in 1 .. Len(W) /\ 4 * n - 2 \in 1 .. Len(W)
        /\ 4 * n - 1 \in 1 .. Len(W) /\ 4 * n \in 1 .. Len(W) /\ n \in 1 .. q + 1
      BY <1>2
  <2> QED BY <1>1, <1>3, <1>4, <2>1
<1>6. KeyParts(V)[q + 1] = new
  <2>1. /\ 4 * (q + 1) - 3 = Len(W) - 2 /\ 4 * (q + 1) - 2 = Len(W) - 1
        /\ 4 * (q + 1) - 1 = Len(W) /\ 4 * (q + 1) = Len(W) + 1
        /\ Len(W) - 2 \in 1 .. Len(W) /\ Len(W) - 1 \in 1 .. Len(W) /\ Len(W) \in 1 .. Len(W)
        /\ q + 1 \in 1 .. q + 1
      BY <1>2
  <2> QED BY <1>1, <1>4, <2>1
<1> HIDE DEF new
<1>7. new \in State
  <2>1. q + 1 \in 1 .. q + 1
      BY <1>2
  <2> QED BY <1>4, <1>6, <2>1
<1>8. Append(K, new) = [n \in 1 .. q + 1 |-> IF n = q + 1 THEN new ELSE K[n]]
  <2> DEFINE L == Append(K, new)
  <2>1. /\ L \in Seq(State) /\ Len(L) = q + 1
        /\ \A n \in 1 .. q : L[n] = K[n]
        /\ L[q + 1] = new
      BY <1>3, <1>7, AppendProperties
  <2> HIDE DEF L
  <2>2. L = [n \in 1 .. q + 1 |-> L[n]]
      BY <1>2, <2>1
  <2>3. \A n \in 1 .. q + 1 : n = q + 1 \/ n \in 1 .. q
      BY <1>2
  <2>4. L = [n \in 1 .. q + 1 |-> IF n = q + 1 THEN new ELSE K[n]]
      BY <2>1, <2>2, <2>3
  <2> QED BY <2>4 DEF L
<1>9. KeyParts(V) = [n \in 1 .. q + 1 |-> IF n = q + 1 THEN new ELSE K[n]]
  <2>1. \A n \in 1 .. q + 1 : n = q + 1 \/ n \in 1 .. q
      BY <1>2
  <2>2. KeyParts(V) = [n \in 1 .. q + 1 |-> KeyParts(V)[n]]
      BY <1>2, <1>4
  <2> QED BY <1>5, <1>6, <2>1, <2>2
<1>10. KeyParts(V) = Append(K, new)
    BY <1>8, <1>9
<1> QED BY <1>10 DEF V, K, new

-----------------------------------------------------------------------------
(* The key schedule.  KeyLens are the lengths of a key in words.           *)
KeyLens == {4, 8}

LEMMA RconTyped == \A j \in 1 .. 10 : FipsRcon(j) \in Word
<1> SUFFICES ASSUME NEW j \in 1 .. 10 PROVE FipsRcon(j) \in Word
    OBVIOUS
<1>1. FipsRcon(j) = <<ByteOf(NiRcon[j]), {}, {}, {}>>
    BY TablesAssumption
<1>2. ByteOf(NiRcon[j]) \in Byte /\ {} \in Byte
    BY DEF ByteOf, Byte
<1> QED BY <1>1, <1>2, FourTyped DEF Word

LEMMA FipsWordTyped ==
    ASSUME NEW N \in KeyLens, NEW j \in Nat, N <= j, j < 4 * (Rounds(N) + 1),
           NEW back \in Word, NEW last \in Word
    PROVE  /\ FipsWord(N, j, back, last) \in Word
           /\ schedule_xor_word(back, ScheduleTemp(N, j, last)) = FipsWord(N, j, back, last)
<1>1. j % N = 0 => j \div N \in 1 .. 10
  <2>1. CASE N = 4
      BY <2>1 DEF Rounds
  <2>2. CASE N = 8
      BY <2>2 DEF Rounds
  <2> QED BY <2>1, <2>2 DEF KeyLens
<1>2. SubWord(last) \in Word /\ RotWord(last) \in Word /\ SubWord(RotWord(last)) \in Word
    BY SubWordTyped, RotWordTyped
<1>3. /\ schedule_sub_word(last) = SubWord(last)
      /\ schedule_sub_word(schedule_rot_word(last)) = SubWord(RotWord(last))
    BY <1>2, SubWordTyped, RotWordTyped
<1>4. \A a, b : schedule_xor_word(a, b) = XorWord(a, b)
    BY DEF schedule_xor_word, XorWord
<1>5. CASE j % N = 0
  <2> DEFINE k == j \div N
  <2>1. FipsRcon(k) \in Word /\ <<ByteOf(kScheduleRcon[k + 1]), {}, {}, {}>> = FipsRcon(k)
      BY <1>1, <1>5, RconTyped, TablesAssumption
  <2>2. FipsWord(N, j, back, last) = XorWord(back, XorWord(SubWord(RotWord(last)), FipsRcon(k)))
      BY <1>5 DEF FipsWord
  <2>3. ScheduleTemp(N, j, last) = XorWord(SubWord(RotWord(last)), FipsRcon(k))
      BY <1>3, <1>4, <1>5, <2>1 DEF ScheduleTemp
  <2> QED BY <1>2, <1>4, <2>1, <2>2, <2>3, XorWordTyped
<1>6. CASE j % N # 0 /\ N = 8 /\ j % N = 4
  <2>1. FipsWord(N, j, back, last) = XorWord(back, SubWord(last))
      BY <1>6 DEF FipsWord
  <2>2. ScheduleTemp(N, j, last) = SubWord(last)
      BY <1>3, <1>6 DEF ScheduleTemp, ExtraSubWord
  <2> QED BY <1>2, <1>4, <2>1, <2>2, XorWordTyped
<1>7. CASE j % N # 0 /\ ~(N = 8 /\ j % N = 4)
  <2>1. FipsWord(N, j, back, last) = XorWord(back, last)
      BY <1>7 DEF FipsWord
  <2>2. ScheduleTemp(N, j, last) = last
      BY <1>7 DEF ScheduleTemp, ExtraSubWord, KeyLens
  <2> QED BY <1>4, <2>1, <2>2, XorWordTyped
<1> QED BY <1>5, <1>6, <1>7

(* One round key after the keys K, as the schedule of FIPS-197 makes it:   *)
(* four words that start from temp and add the words of an earlier key.    *)
Chain(back, temp) ==
    LET w1 == XorWord(back[1], temp)
        w2 == XorWord(back[2], w1)
        w3 == XorWord(back[3], w2)
    IN  <<w1, w2, w3, XorWord(back[4], w3)>>

NextRoundKey(N, K) ==
    LET j == 4 * Len(K)
        back == K[Len(K) + 1 - (N \div 4)]
        w1 == FipsWord(N, j, back[1], K[Len(K)][4])
        w2 == FipsWord(N, j + 1, back[2], w1)
        w3 == FipsWord(N, j + 2, back[3], w2)
    IN  <<w1, w2, w3, FipsWord(N, j + 3, back[4], w3)>>

LEMMA ChainTyped ==
    ASSUME NEW back \in State, NEW temp \in Word
    PROVE  Chain(back, temp) \in State
<1> DEFINE w1 == XorWord(back[1], temp)
           w2 == XorWord(back[2], w1)
           w3 == XorWord(back[3], w2)
           w4 == XorWord(back[4], w3)
<1>1. back[1] \in Word /\ back[2] \in Word /\ back[3] \in Word /\ back[4] \in Word
    BY DEF State
<1>2. w1 \in Word
    BY <1>1, XorWordTyped
<1>3. w2 \in Word
    BY <1>1, <1>2, XorWordTyped
<1>4. w3 \in Word
    BY <1>1, <1>3, XorWordTyped
<1>5. w4 \in Word
    BY <1>1, <1>4, XorWordTyped
<1>6. Chain(back, temp) = <<w1, w2, w3, w4>>
    BY DEF Chain
<1> HIDE DEF w1, w2, w3, w4
<1> QED BY <1>2, <1>3, <1>4, <1>5, <1>6, FourTyped DEF State

LEMMA NextRoundKey128 ==
    ASSUME NEW K \in Seq(State), 1 <= Len(K), Len(K) <= 10
    PROVE  NextRoundKey(4, K) =
             Chain(K[Len(K)], XorWord(SubWord(RotWord(K[Len(K)][4])), FipsRcon(Len(K))))
<1> DEFINE n == Len(K)
<1>1. /\ (4 * n) % 4 = 0 /\ (4 * n) \div 4 = n /\ n + 1 - (4 \div 4) = n
      /\ (4 * n + 1) % 4 # 0 /\ (4 * n + 2) % 4 # 0 /\ (4 * n + 3) % 4 # 0
    OBVIOUS
<1> HIDE DEF n
<1>2. \A b, l : FipsWord(4, 4 * n, b, l) = XorWord(b, XorWord(SubWord(RotWord(l)), FipsRcon(n)))
    BY <1>1 DEF FipsWord
<1>3. \A b, l : /\ FipsWord(4, 4 * n + 1, b, l) = XorWord(b, l)
                /\ FipsWord(4, 4 * n + 2, b, l) = XorWord(b, l)
                /\ FipsWord(4, 4 * n + 3, b, l) = XorWord(b, l)
    BY <1>1 DEF FipsWord
<1> QED BY <1>1, <1>2, <1>3 DEF NextRoundKey, Chain, n

LEMMA NextRoundKey256 ==
    ASSUME NEW K \in Seq(State), 2 <= Len(K), Len(K) <= 14
    PROVE  NextRoundKey(8, K) =
             Chain(K[Len(K) - 1],
                   IF Len(K) % 2 = 0
                   THEN XorWord(SubWord(RotWord(K[Len(K)][4])), FipsRcon(Len(K) \div 2))
                   ELSE SubWord(K[Len(K)][4]))
<1> DEFINE n == Len(K)
<1>1. /\ n + 1 - (8 \div 4) = n - 1
      /\ n % 2 = 0 => (4 * n) % 8 = 0 /\ (4 * n) \div 8 = n \div 2
      /\ n % 2 # 0 => (4 * n) % 8 = 4
      /\ (4 * n + 1) % 8 \notin {0, 4} /\ (4 * n + 2) % 8 \notin {0, 4}
      /\ (4 * n + 3) % 8 \notin {0, 4}
    OBVIOUS
<1> HIDE DEF n
<1>2. \A b, l : /\ FipsWord(8, 4 * n + 1, b, l) = XorWord(b, l)
                /\ FipsWord(8, 4 * n + 2, b, l) = XorWord(b, l)
                /\ FipsWord(8, 4 * n + 3, b, l) = XorWord(b, l)
    BY <1>1 DEF FipsWord
<1>3. CASE n % 2 = 0
  <2>1. \A b, l : FipsWord(8, 4 * n, b, l) = XorWord(b, XorWord(SubWord(RotWord(l)), FipsRcon(n \div 2)))
      BY <1>1, <1>3 DEF FipsWord
  <2> QED BY <1>1, <1>2, <1>3, <2>1 DEF NextRoundKey, Chain, n
<1>4. CASE n % 2 # 0
  <2>1. \A b, l : FipsWord(8, 4 * n, b, l) = XorWord(b, SubWord(l))
      BY <1>1, <1>4 DEF FipsWord
  <2> QED BY <1>1, <1>2, <1>4, <2>1 DEF NextRoundKey, Chain, n
<1> QED BY <1>3, <1>4

(* AES-NI: the three shifted copies of a round key add up to the chain,    *)
(* and the broadcast lane of the assist instruction is its temp.           *)
LEMMA RunningXorIsChain ==
    ASSUME NEW b \in State, NEW x, NEW lane, x[lane] \in Word
    PROVE  XorState(RunningXor(b), Broadcast(x, lane)) = Chain(b, x[lane])
<1> DEFINE t == x[lane]
           Z == ZeroWord
           b1 == b[1]
           b2 == b[2]
           b3 == b[3]
           b4 == b[4]
           l1 == XorWord(XorWord(XorWord(XorWord(b1, Z), Z), Z), t)
           l2 == XorWord(XorWord(XorWord(XorWord(b2, b1), Z), Z), t)
           l3 == XorWord(XorWord(XorWord(XorWord(b3, b2), b1), Z), t)
           l4 == XorWord(XorWord(XorWord(XorWord(b4, b3), b2), b1), t)
<1>1. t \in Word /\ Z \in Word /\ b1 \in Word /\ b2 \in Word /\ b3 \in Word /\ b4 \in Word
    BY ZeroTyped DEF State
<1>2. XorState(RunningXor(b), Broadcast(x, lane)) = <<l1, l2, l3, l4>>
    BY DEF XorState, RunningXor, ShiftLane, Broadcast, Four
<1>3. Chain(b, t) = <<XorWord(b1, t), XorWord(b2, XorWord(b1, t)),
                      XorWord(b3, XorWord(b2, XorWord(b1, t))),
                      XorWord(b4, XorWord(b3, XorWord(b2, XorWord(b1, t))))>>
    BY DEF Chain
<1>4. \A a \in Word : XorWord(a, Z) = a
    BY XorWordLaws
<1>5. \A a, c, d : XorWord(XorWord(a, c), d) = XorWord(a, XorWord(c, d))
    BY XorWordLaws
<1>6. \A a, c \in Word : XorWord(a, c) \in Word
    BY XorWordTyped
<1> HIDE DEF t, Z, b1, b2, b3, b4
<1>7. l1 = XorWord(b1, t)
    BY <1>1, <1>4
<1>8. l2 = XorWord(b2, XorWord(b1, t))
    BY <1>1, <1>4, <1>5, <1>6
<1>9. l3 = XorWord(b3, XorWord(b2, XorWord(b1, t)))
    BY <1>1, <1>4, <1>5, <1>6
<1>10. l4 = XorWord(b4, XorWord(b3, XorWord(b2, XorWord(b1, t))))
    BY <1>5
<1> HIDE DEF l1, l2, l3, l4
<1>11. XorState(RunningXor(b), Broadcast(x, lane)) = Chain(b, t)
    BY <1>2, <1>3, <1>7, <1>8, <1>9, <1>10
<1> QED BY <1>11 DEF t

LEMMA AssistIs ==
    ASSUME NEW k \in State
    PROVE  /\ \A j \in 1 .. 10 : _mm_aeskeygenassist_si128(k, NiRcon[j])[4]
                                   = XorWord(SubWord(RotWord(k[4])), FipsRcon(j))
           /\ \A n : _mm_aeskeygenassist_si128(k, n)[3] = SubWord(k[4])
<1>1. k[4] \in Word
    BY DEF State
<1>2. \A n : _mm_aeskeygenassist_si128(k, n)[3] = SubWord(k[4])
    BY DEF _mm_aeskeygenassist_si128
<1>3. \A n : _mm_aeskeygenassist_si128(k, n)[4] = XorWord(RotWord(SubWord(k[4])), <<ByteOf(n), {}, {}, {}>>)
    BY DEF _mm_aeskeygenassist_si128
<1>4. RotWord(SubWord(k[4])) = SubWord(RotWord(k[4]))
    BY <1>1, RotWordTyped
<1>5. \A j \in 1 .. 10 : <<ByteOf(NiRcon[j]), {}, {}, {}>> = FipsRcon(j)
    BY TablesAssumption
<1> QED BY <1>2, <1>3, <1>4, <1>5

LEMMA NiSchedule128 ==
    ASSUME NEW K \in Seq(State), 1 <= Len(K), Len(K) <= 10
    PROVE  /\ expand_key128_ni(K) = NextRoundKey(4, K)
           /\ NextRoundKey(4, K) \in State
<1> DEFINE n == Len(K)
           k == K[n]
           x == _mm_aeskeygenassist_si128(k, NiRcon[n])
           temp == XorWord(SubWord(RotWord(k[4])), FipsRcon(n))
<1>1. n \in 1 .. 10 /\ k \in State
  <2>0. n \in Nat /\ 1 <= n /\ n <= 10
      OBVIOUS
  <2>1. n \in 1 .. Len(K)
      BY <2>0
  <2>2. k \in State
      BY <2>1, ElementOfSeq
  <2> HIDE DEF n
  <2> QED BY <2>0, <2>2
<1>2. k[4] \in Word
    BY <1>1 DEF State
<1>3. temp \in Word
    BY <1>1, <1>2, SubWordTyped, RotWordTyped, RconTyped, XorWordTyped
<1>4. x[4] = temp
    BY <1>1, AssistIs
<1>5. expand_key128_ni(K) = XorState(RunningXor(k), Broadcast(x, 4))
    BY DEF expand_key128_ni, key_128_assist
<1>6. NextRoundKey(4, K) = Chain(k, temp)
    BY NextRoundKey128
<1> HIDE DEF n, k, x, temp
<1>7. expand_key128_ni(K) = Chain(k, temp)
    BY <1>1, <1>3, <1>4, <1>5, RunningXorIsChain
<1> QED BY <1>1, <1>3, <1>6, <1>7, ChainTyped

LEMMA NiSchedule256 ==
    ASSUME NEW K \in Seq(State), 2 <= Len(K), Len(K) <= 14
    PROVE  /\ expand_key_ni(K) = NextRoundKey(8, K)
           /\ NextRoundKey(8, K) \in State
<1> DEFINE n == Len(K)
           k == K[n]
           back == K[n - 1]
<1>1. n \in 2 .. 14 /\ k \in State /\ back \in State
  <2>0. n \in Nat /\ 2 <= n /\ n <= 14
      OBVIOUS
  <2>1. n \in 1 .. Len(K) /\ n - 1 \in 1 .. Len(K)
      BY <2>0
  <2>2. k \in State /\ back \in State
      BY <2>1, ElementOfSeq
  <2> HIDE DEF n
  <2> QED BY <2>0, <2>2
<1>2. k[4] \in Word
    BY <1>1 DEF State
<1>3. CASE n % 2 = 0
  <2> DEFINE j == n \div 2
             x == _mm_aeskeygenassist_si128(k, NiRcon[j])
             temp == XorWord(SubWord(RotWord(k[4])), FipsRcon(j))
  <2>1. j \in 1 .. 10
    <3> HIDE DEF n
    <3> QED BY <1>1
  <2>2. expand_key_ni(K) = XorState(RunningXor(back), Broadcast(x, 4))
      BY <1>3 DEF expand_key_ni, key_expansion_step_even
  <2>3. NextRoundKey(8, K) = Chain(back, temp)
      BY <1>3, NextRoundKey256
  <2> HIDE DEF n, j, k, back
  <2>4. temp \in Word
      BY <1>2, <2>1, SubWordTyped, RotWordTyped, RconTyped, XorWordTyped
  <2>5. x[4] = temp
      BY <1>1, <2>1, AssistIs
  <2> HIDE DEF x, temp
  <2>6. expand_key_ni(K) = Chain(back, temp)
      BY <1>1, <2>2, <2>4, <2>5, RunningXorIsChain
  <2> QED BY <1>1, <2>3, <2>4, <2>6, ChainTyped
<1>4. CASE n % 2 # 0
  <2> DEFINE x == _mm_aeskeygenassist_si128(k, 0)
             temp == SubWord(k[4])
  <2>1. expand_key_ni(K) = XorState(RunningXor(back), Broadcast(x, 3))
      BY <1>4 DEF expand_key_ni, key_expansion_step_odd
  <2>2. NextRoundKey(8, K) = Chain(back, temp)
      BY <1>4, NextRoundKey256
  <2> HIDE DEF n, k, back
  <2>3. temp \in Word
      BY <1>2, SubWordTyped
  <2>4. x[3] = temp
      BY <1>1, AssistIs
  <2> HIDE DEF x, temp
  <2>5. expand_key_ni(K) = Chain(back, temp)
      BY <1>1, <2>1, <2>3, <2>4, RunningXorIsChain
  <2> QED BY <1>1, <2>2, <2>3, <2>5, ChainTyped
<1> QED BY <1>3, <1>4

-----------------------------------------------------------------------------
(* RISC-V: a state in two registers of two words each.                     *)
Half64 == [1 .. 2 -> Word]
HalfState == [lo : Half64, hi : Half64]

LEMMA TwoTyped ==
    ASSUME NEW S, NEW a \in S, NEW b \in S
    PROVE  <<a, b>> \in [1 .. 2 -> S]
OBVIOUS

LEMMA TwoApplied ==
    ASSUME NEW S, NEW f \in [1 .. 2 -> S]
    PROVE  f[1] \in S /\ f[2] \in S /\ f = <<f[1], f[2]>>
OBVIOUS

LEMMA JoinHalves ==
    ASSUME NEW a \in Half64, NEW b \in Half64
    PROVE  /\ a \o b = <<a[1], a[2], b[1], b[2]>>
           /\ a \o b \in State
<1> DEFINE s == a \o b
<1>1. /\ a[1] \in Word /\ a[2] \in Word /\ a = <<a[1], a[2]>>
      /\ b[1] \in Word /\ b[2] \in Word /\ b = <<b[1], b[2]>>
    BY TwoApplied DEF Half64
<1>2. a \in Seq(Word) /\ b \in Seq(Word) /\ Len(a) = 2 /\ Len(b) = 2
  <2>1. \A v, w \in Word : <<v, w>> \in Seq(Word) /\ Len(<<v, w>>) = 2
      OBVIOUS
  <2>2. <<a[1], a[2]>> \in Seq(Word) /\ Len(<<a[1], a[2]>>) = 2
      BY <1>1, <2>1
  <2>3. <<b[1], b[2]>> \in Seq(Word) /\ Len(<<b[1], b[2]>>) = 2
      BY <1>1, <2>1
  <2> QED BY <1>1, <2>2, <2>3
<1>3. /\ s \in Seq(Word) /\ Len(s) = Len(a) + Len(b)
      /\ \A j \in 1 .. Len(a) + Len(b) : s[j] = IF j <= Len(a) THEN a[j] ELSE b[j - Len(a)]
    BY <1>2, ConcatProperties
<1> HIDE DEF s
<1>4. Len(s) = 4 /\ \A j \in 1 .. 4 : s[j] = IF j <= 2 THEN a[j] ELSE b[j - 2]
    BY <1>2, <1>3
<1>5. s[1] = a[1] /\ s[2] = a[2] /\ s[3] = b[1] /\ s[4] = b[2]
    BY <1>4
<1>6. s \in [1 .. 4 -> Word]
  <2>1. s \in [1 .. Len(s) -> Word]
      BY <1>3, LenProperties
  <2> QED BY <1>4, <2>1
<1>7. s = <<a[1], a[2], b[1], b[2]>>
    BY <1>5, <1>6, FourApplied
<1> QED BY <1>6, <1>7 DEF s, State

LEMMA SplitState ==
    ASSUME NEW s \in State
    PROVE  /\ SubSeq(s, 1, 2) = <<s[1], s[2]>> /\ SubSeq(s, 3, 4) = <<s[3], s[4]>>
           /\ SubSeq(s, 1, 2) \in Half64 /\ SubSeq(s, 3, 4) \in Half64
<1> SUFFICES ASSUME NEW m \in {1, 3}
             PROVE  /\ SubSeq(s, m, m + 1) = <<s[m], s[m + 1]>>
                    /\ SubSeq(s, m, m + 1) \in Half64
  <2>1. 1 + 1 = 2 /\ 3 + 1 = 4
      OBVIOUS
  <2> QED BY <2>1
<1> DEFINE e == m + 1
           h == SubSeq(s, m, e)
<1>1. /\ m \in Int /\ e \in Int /\ e - m + 1 = 2 /\ m <= e
      /\ m + 1 - 1 = m /\ m + 2 - 1 = e
    OBVIOUS
<1>2. \A j \in m .. e : s[j] \in Word
    BY DEF State
<1> HIDE DEF e
<1>3. h \in Seq(Word) /\ Len(h) = 2 /\ \A j \in 1 .. 2 : h[j] = s[m + j - 1]
    BY <1>1, <1>2, SubSeqProperties
<1> HIDE DEF h
<1>4. h \in [1 .. 2 -> Word]
  <2>1. h \in [1 .. Len(h) -> Word]
      BY <1>3, LenProperties
  <2> QED BY <1>3, <2>1
<1>5. h[1] = s[m] /\ h[2] = s[e]
    BY <1>1, <1>3
<1>6. h = <<s[m], s[e]>>
    BY <1>4, <1>5, TwoApplied
<1> QED BY <1>4, <1>6 DEF h, e, Half64

LEMMA LoadTyped ==
    ASSUME NEW b \in State
    PROVE  load_state(b) \in HalfState /\ store_state(load_state(b)) = b
<1> DEFINE l == load_state(b)
<1>1. l.lo = <<b[1], b[2]>> /\ l.hi = <<b[3], b[4]>> /\ l \in HalfState
    BY SplitState DEF load_state, HalfState
<1>2. l.lo \in Half64 /\ l.hi \in Half64
    BY <1>1 DEF HalfState
<1> HIDE DEF l
<1>3. store_state(l) = <<b[1], b[2], b[3], b[4]>>
    BY <1>1, <1>2, JoinHalves DEF store_state
<1>4. b = <<b[1], b[2], b[3], b[4]>>
    BY FourApplied DEF State
<1> QED BY <1>1, <1>3, <1>4 DEF l

LEMMA StoreTyped ==
    ASSUME NEW h \in HalfState
    PROVE  /\ store_state(h) = <<h.lo[1], h.lo[2], h.hi[1], h.hi[2]>>
           /\ store_state(h) \in State
<1>1. h.lo \in Half64 /\ h.hi \in Half64
    BY DEF HalfState
<1> QED BY <1>1, JoinHalves DEF store_state

LEMMA XorHalves ==
    ASSUME NEW g \in HalfState, NEW h \in HalfState
    PROVE  /\ xor_state(g, h) \in HalfState
           /\ store_state(xor_state(g, h)) = XorState(store_state(g), store_state(h))
<1> DEFINE x == xor_state(g, h)
<1>1. g.lo \in Half64 /\ g.hi \in Half64 /\ h.lo \in Half64 /\ h.hi \in Half64
    BY DEF HalfState
<1>2. \A a, b \in Half64 : Xor64(a, b) \in Half64
  <2> SUFFICES ASSUME NEW a \in Half64, NEW b \in Half64 PROVE Xor64(a, b) \in Half64
      OBVIOUS
  <2>1. a[1] \in Word /\ a[2] \in Word /\ b[1] \in Word /\ b[2] \in Word
      BY DEF Half64
  <2>2. XorWord(a[1], b[1]) \in Word /\ XorWord(a[2], b[2]) \in Word
      BY <2>1, XorWordTyped
  <2> QED BY <2>2, TwoTyped DEF Xor64, Half64
<1>3. x = [lo |-> Xor64(g.lo, h.lo), hi |-> Xor64(g.hi, h.hi)]
    BY DEF xor_state
<1>4. x \in HalfState
    BY <1>1, <1>2, <1>3 DEF HalfState
<1>5. x.lo = Xor64(g.lo, h.lo) /\ x.hi = Xor64(g.hi, h.hi)
    BY <1>3
<1> HIDE DEF x
<1>6. store_state(x) = <<x.lo[1], x.lo[2], x.hi[1], x.hi[2]>>
    BY <1>4, StoreTyped
<1>7. /\ x.lo[1] = XorWord(g.lo[1], h.lo[1]) /\ x.lo[2] = XorWord(g.lo[2], h.lo[2])
      /\ x.hi[1] = XorWord(g.hi[1], h.hi[1]) /\ x.hi[2] = XorWord(g.hi[2], h.hi[2])
    BY <1>5 DEF Xor64
<1>8. XorState(store_state(g), store_state(h)) =
        <<XorWord(g.lo[1], h.lo[1]), XorWord(g.lo[2], h.lo[2]),
          XorWord(g.hi[1], h.hi[1]), XorWord(g.hi[2], h.hi[2])>>
  <2>1. \A a1, a2, a3, a4, b1, b2, b3, b4 :
          XorState(<<a1, a2, a3, a4>>, <<b1, b2, b3, b4>>) =
            <<XorWord(a1, b1), XorWord(a2, b2), XorWord(a3, b3), XorWord(a4, b4)>>
      BY DEF XorState, Four
  <2> QED BY <2>1, StoreTyped
<1> QED BY <1>4, <1>6, <1>7, <1>8 DEF x

(* With the halves exchanged, the first half of the result is the second   *)
(* half of the round: ShiftRows counts columns modulo 4.                   *)
LEMMA HalvesExchanged ==
    ASSUME NEW s, NEW t, t[1] = s[3], t[2] = s[4], t[3] = s[1], t[4] = s[2]
    PROVE  /\ ShiftRows(SubBytes(t))[1] = ShiftRows(SubBytes(s))[3]
           /\ ShiftRows(SubBytes(t))[2] = ShiftRows(SubBytes(s))[4]
<1>1. /\ SubBytes(t)[1] = SubBytes(s)[3] /\ SubBytes(t)[2] = SubBytes(s)[4]
      /\ SubBytes(t)[3] = SubBytes(s)[1] /\ SubBytes(t)[4] = SubBytes(s)[2]
    BY DEF SubBytes, Four
<1>2. ASSUME NEW x, NEW v, v[1] = x[3], v[2] = x[4], v[3] = x[1], v[4] = x[2]
      PROVE  ShiftRows(v)[1] = ShiftRows(x)[3] /\ ShiftRows(v)[2] = ShiftRows(x)[4]
  <2>1. /\ ShiftRows(v)[1] = <<v[1][1], v[2][2], v[3][3], v[4][4]>>
        /\ ShiftRows(v)[2] = <<v[2][1], v[3][2], v[4][3], v[1][4]>>
    <3>1. ShiftRows(v) = << <<v[1][1], v[2][2], v[3][3], v[4][4]>>,
                          <<v[2][1], v[3][2], v[4][3], v[1][4]>>,
                          <<v[3][1], v[4][2], v[1][3], v[2][4]>>,
                          <<v[4][1], v[1][2], v[2][3], v[3][4]>> >>
        BY ShiftRowsIs
    <3> QED BY <3>1
  <2>2. /\ ShiftRows(x)[3] = <<x[3][1], x[4][2], x[1][3], x[2][4]>>
        /\ ShiftRows(x)[4] = <<x[4][1], x[1][2], x[2][3], x[3][4]>>
    <3>1. ShiftRows(x) = << <<x[1][1], x[2][2], x[3][3], x[4][4]>>,
                          <<x[2][1], x[3][2], x[4][3], x[1][4]>>,
                          <<x[3][1], x[4][2], x[1][3], x[2][4]>>,
                          <<x[4][1], x[1][2], x[2][3], x[3][4]>> >>
        BY ShiftRowsIs
    <3> QED BY <3>1
  <2> QED BY <1>2, <2>1, <2>2
<1> QED BY <1>1, <1>2

LEMMA RoundHalves ==
    ASSUME NEW h \in HalfState
    PROVE  /\ round_middle(h) \in HalfState
           /\ store_state(round_middle(h)) = MixColumns(ShiftRows(SubBytes(store_state(h))))
           /\ round_final(h) \in HalfState
           /\ store_state(round_final(h)) = ShiftRows(SubBytes(store_state(h)))
<1> DEFINE s == h.lo \o h.hi
           t == h.hi \o h.lo
           S == ShiftRows(SubBytes(s))
           T == ShiftRows(SubBytes(t))
           final == round_final(h)
           middle == round_middle(h)
<1>1. h.lo \in Half64 /\ h.hi \in Half64
    BY DEF HalfState
<1>2. /\ s = <<h.lo[1], h.lo[2], h.hi[1], h.hi[2]>> /\ s \in State
      /\ t = <<h.hi[1], h.hi[2], h.lo[1], h.lo[2]>> /\ t \in State
    BY <1>1, JoinHalves
<1>3. store_state(h) = s
    BY DEF store_state
<1>4. t[1] = s[3] /\ t[2] = s[4] /\ t[3] = s[1] /\ t[4] = s[2]
    BY <1>2
<1>5. /\ final = [lo |-> SubSeq(S, 1, 2), hi |-> SubSeq(T, 1, 2)]
      /\ middle = [lo |-> SubSeq(MixColumns(S), 1, 2), hi |-> SubSeq(MixColumns(T), 1, 2)]
    BY DEF round_final, round_middle, riscv_aes64es, riscv_aes64esm, RoundHalf
<1> HIDE DEF s, t
<1>6. S \in State /\ T \in State /\ MixColumns(S) \in State /\ MixColumns(T) \in State
    BY <1>2, RoundTyped
<1>7. T[1] = S[3] /\ T[2] = S[4]
    BY <1>4, HalvesExchanged
<1> HIDE DEF S, T
<1>8. /\ MixColumns(S) = <<Mixed(S[1]), Mixed(S[2]), Mixed(S[3]), Mixed(S[4])>>
      /\ MixColumns(T) = <<Mixed(T[1]), Mixed(T[2]), Mixed(T[3]), Mixed(T[4])>>
    BY MixColumnsIs
<1>9. MixColumns(T)[1] = MixColumns(S)[3] /\ MixColumns(T)[2] = MixColumns(S)[4]
    BY <1>7, <1>8
<1>10. ASSUME NEW a \in State, NEW b \in State, b[1] = a[3], b[2] = a[4],
              NEW r, r = [lo |-> SubSeq(a, 1, 2), hi |-> SubSeq(b, 1, 2)]
       PROVE  r \in HalfState /\ store_state(r) = a
  <2>1. r.lo = <<a[1], a[2]>> /\ r.hi = <<a[3], a[4]>> /\ r.lo \in Half64 /\ r.hi \in Half64
      BY <1>10, SplitState
  <2>2. r \in HalfState
      BY <1>10, SplitState DEF HalfState
  <2>3. store_state(r) = <<a[1], a[2], a[3], a[4]>>
      BY <2>1, JoinHalves DEF store_state
  <2>4. a = <<a[1], a[2], a[3], a[4]>>
      BY FourApplied DEF State
  <2> QED BY <2>2, <2>3, <2>4
<1> HIDE DEF final, middle
<1>11. final \in HalfState /\ store_state(final) = S
    BY <1>5, <1>6, <1>7, <1>10
<1>12. middle \in HalfState /\ store_state(middle) = MixColumns(S)
    BY <1>5, <1>6, <1>9, <1>10
<1> QED BY <1>3, <1>11, <1>12 DEF final, middle, S

(* The pair of schedule instructions adds the words up one after another.  *)
LEMMA Ks2PairIsChain ==
    ASSUME NEW rs, rs[2] \in Word, NEW h \in HalfState
    PROVE  /\ Ks2Pair(rs, h) \in HalfState
           /\ store_state(Ks2Pair(rs, h)) = Chain(store_state(h), rs[2])
<1> DEFINE t == rs[2]
           w1 == XorWord(t, h.lo[1])
           w2 == XorWord(w1, h.lo[2])
           w3 == XorWord(w2, h.hi[1])
           w4 == XorWord(w3, h.hi[2])
           p == Ks2Pair(rs, h)
<1>1. h.lo[1] \in Word /\ h.lo[2] \in Word /\ h.hi[1] \in Word /\ h.hi[2] \in Word
    BY DEF HalfState, Half64
<1>2. p = [lo |-> <<w1, w2>>, hi |-> <<w3, w4>>]
    BY DEF Ks2Pair, riscv_aes64ks2
<1>3. Chain(store_state(h), t) =
        << XorWord(h.lo[1], t), XorWord(h.lo[2], XorWord(h.lo[1], t)),
           XorWord(h.hi[1], XorWord(h.lo[2], XorWord(h.lo[1], t))),
           XorWord(h.hi[2], XorWord(h.hi[1], XorWord(h.lo[2], XorWord(h.lo[1], t)))) >>
  <2>1. store_state(h) = <<h.lo[1], h.lo[2], h.hi[1], h.hi[2]>>
      BY StoreTyped
  <2> QED BY <2>1 DEF Chain
<1>4. \A a, b : XorWord(a, b) = XorWord(b, a)
    BY XorWordLaws
<1>5. w1 \in Word
    BY <1>1, XorWordTyped
<1>6. w2 \in Word
    BY <1>1, <1>5, XorWordTyped
<1>7. w3 \in Word
    BY <1>1, <1>6, XorWordTyped
<1>8. w4 \in Word
    BY <1>1, <1>7, XorWordTyped
<1>9. Chain(store_state(h), t) = <<w1, w2, w3, w4>>
    BY <1>3, <1>4
<1> HIDE DEF w1, w2, w3, w4, p
<1>10. <<w1, w2>> \in Half64 /\ <<w3, w4>> \in Half64
    BY <1>5, <1>6, <1>7, <1>8, TwoTyped DEF Half64
<1>11. p \in HalfState
    BY <1>2, <1>10 DEF HalfState
<1>12. store_state(p) = <<w1, w2, w3, w4>>
  <2>1. p.lo[1] = w1 /\ p.lo[2] = w2 /\ p.hi[1] = w3 /\ p.hi[2] = w4
      BY <1>2
  <2> QED BY <1>11, <2>1, StoreTyped
<1> QED BY <1>9, <1>11, <1>12 DEF p

(* The round keys that the register pairs of a schedule hold.              *)
Joined(R) == [n \in DOMAIN R |-> store_state(R[n])]

LEMMA JoinedTyped ==
    ASSUME NEW R \in Seq(HalfState)
    PROVE  /\ Joined(R) \in Seq(State) /\ Len(Joined(R)) = Len(R)
           /\ \A n \in 1 .. Len(R) : Joined(R)[n] = store_state(R[n])
<1>1. \A n \in 1 .. Len(R) : store_state(R[n]) \in State
    BY ElementOfSeq, StoreTyped
<1>2. Joined(R) = [n \in 1 .. Len(R) |-> store_state(R[n])]
    BY LenProperties DEF Joined
<1>3. Joined(R) \in [1 .. Len(R) -> State]
    BY <1>1, <1>2
<1>4. Len(R) \in Nat
    OBVIOUS
<1>5. Joined(R) \in Seq(State) /\ Len(Joined(R)) = Len(R)
    BY <1>3, <1>4
<1> QED BY <1>2, <1>5

LEMMA JoinedGrows ==
    ASSUME NEW R \in Seq(HalfState), NEW h \in HalfState
    PROVE  Joined(Append(R, h)) = Append(Joined(R), store_state(h))
<1> DEFINE Q == Append(R, h)
           J == Joined(R)
           L == Append(J, store_state(h))
           n == Len(R)
<1>1. /\ Q \in Seq(HalfState) /\ Len(Q) = n + 1 /\ Q[n + 1] = h
      /\ \A j \in 1 .. n : Q[j] = R[j]
    BY AppendProperties
<1>2. J \in Seq(State) /\ Len(J) = n /\ \A j \in 1 .. n : J[j] = store_state(R[j])
    BY JoinedTyped
<1>3. n \in Nat /\ store_state(h) \in State
    BY StoreTyped
<1>4. /\ L \in Seq(State) /\ Len(L) = n + 1 /\ L[n + 1] = store_state(h)
      /\ \A j \in 1 .. n : L[j] = J[j]
    BY <1>2, <1>3, AppendProperties
<1>5. Joined(Q) \in Seq(State) /\ Len(Joined(Q)) = n + 1
      /\ \A j \in 1 .. n + 1 : Joined(Q)[j] = store_state(Q[j])
    BY <1>1, JoinedTyped
<1> HIDE DEF Q, J, L, n
<1>6. \A j \in 1 .. n + 1 : j = n + 1 \/ j \in 1 .. n
    BY <1>3
<1>7. \A j \in 1 .. n + 1 : Joined(Q)[j] = L[j]
    BY <1>1, <1>2, <1>4, <1>5, <1>6
<1>8. Joined(Q) = L
    BY <1>4, <1>5, <1>7, SeqEqual
<1> QED BY <1>8 DEF Q, L, J

LEMMA RiscvSchedule128 ==
    ASSUME NEW R \in Seq(HalfState), 1 <= Len(R), Len(R) <= 10
    PROVE  /\ expand_key128_riscv(R) \in HalfState
           /\ store_state(expand_key128_riscv(R)) = NextRoundKey(4, Joined(R))
<1> DEFINE n == Len(R)
           K == Joined(R)
           h == R[n]
           rs == riscv_aes64ks1i(h.hi, n - 1)
           temp == XorWord(SubWord(RotWord(h.hi[2])), FipsRcon(n))
<1>1. n \in Nat /\ 1 <= n /\ n <= 10
    OBVIOUS
<1>2. h \in HalfState
  <2>1. n \in 1 .. Len(R)
      BY <1>1
  <2> QED BY <2>1, ElementOfSeq
<1>3. K \in Seq(State) /\ Len(K) = n /\ K[n] = store_state(h)
  <2>1. n \in 1 .. Len(R)
      BY <1>1
  <2> QED BY <2>1, JoinedTyped
<1>4. expand_key128_riscv(R) = Ks2Pair(rs, h)
    BY DEF expand_key128_riscv
<1> HIDE DEF n, h, K
<1>5. h.hi[2] \in Word /\ store_state(h)[4] = h.hi[2]
    BY <1>2, StoreTyped DEF HalfState, Half64
<1>6. rs[2] = temp
  <2>1. n - 1 # 10 /\ (n - 1) + 1 = n
      BY <1>1
  <2> QED BY <2>1 DEF riscv_aes64ks1i
<1>7. temp \in Word
  <2>1. n \in 1 .. 10
      BY <1>1
  <2> QED BY <1>5, <2>1, SubWordTyped, RotWordTyped, RconTyped, XorWordTyped
<1>8. NextRoundKey(4, K) = Chain(store_state(h), temp)
  <2>1. NextRoundKey(4, K) = Chain(K[n], XorWord(SubWord(RotWord(K[n][4])), FipsRcon(n)))
      BY <1>1, <1>3, NextRoundKey128
  <2> QED BY <1>3, <1>5, <2>1
<1> HIDE DEF rs, temp
<1>9. Ks2Pair(rs, h) \in HalfState /\ store_state(Ks2Pair(rs, h)) = Chain(store_state(h), temp)
    BY <1>2, <1>6, <1>7, Ks2PairIsChain
<1> QED BY <1>4, <1>8, <1>9 DEF K

LEMMA RiscvSchedule256 ==
    ASSUME NEW R \in Seq(HalfState), 2 <= Len(R), Len(R) <= 14
    PROVE  /\ expand_key256_riscv(R) \in HalfState
           /\ store_state(expand_key256_riscv(R)) = NextRoundKey(8, Joined(R))
<1> DEFINE n == Len(R)
           K == Joined(R)
           h == R[n]
           back == R[n - 1]
           j == n \div 2
           rnum == IF n % 2 = 0 THEN j - 1 ELSE 10
           rs == riscv_aes64ks1i(h.hi, rnum)
           temp == IF n % 2 = 0 THEN XorWord(SubWord(RotWord(h.hi[2])), FipsRcon(j))
                   ELSE SubWord(h.hi[2])
<1>1. n \in Nat /\ 2 <= n /\ n <= 14
    OBVIOUS
<1>2. h \in HalfState /\ back \in HalfState
  <2>1. n \in 1 .. Len(R) /\ n - 1 \in 1 .. Len(R)
      BY <1>1
  <2> QED BY <2>1, ElementOfSeq
<1>3. /\ K \in Seq(State) /\ Len(K) = n
      /\ K[n] = store_state(h) /\ K[n - 1] = store_state(back)
  <2>1. n \in 1 .. Len(R) /\ n - 1 \in 1 .. Len(R)
      BY <1>1
  <2> QED BY <2>1, JoinedTyped
<1>4. expand_key256_riscv(R) = Ks2Pair(rs, back)
    BY DEF expand_key256_riscv
<1> HIDE DEF n, h, back, K
<1>5. h.hi[2] \in Word /\ store_state(h)[4] = h.hi[2]
    BY <1>2, StoreTyped DEF HalfState, Half64
<1>6. j \in 1 .. 10 /\ j - 1 # 10 /\ (j - 1) + 1 = j
    BY <1>1
<1>7. NextRoundKey(8, K) = Chain(store_state(back), temp)
  <2>1. NextRoundKey(8, K) =
          Chain(K[n - 1], IF n % 2 = 0 THEN XorWord(SubWord(RotWord(K[n][4])), FipsRcon(n \div 2))
                          ELSE SubWord(K[n][4]))
      BY <1>1, <1>3, NextRoundKey256
  <2> QED BY <1>3, <1>5, <2>1
<1> HIDE DEF j
<1>8. rs[2] = temp
    BY <1>6 DEF riscv_aes64ks1i
<1>9. temp \in Word
    BY <1>5, <1>6, SubWordTyped, RotWordTyped, RconTyped, XorWordTyped
<1> HIDE DEF rs, temp
<1>10. Ks2Pair(rs, back) \in HalfState /\ store_state(Ks2Pair(rs, back)) = Chain(store_state(back), temp)
    BY <1>2, <1>8, <1>9, Ks2PairIsChain
<1> QED BY <1>4, <1>7, <1>10 DEF K

-----------------------------------------------------------------------------
(* The words of a schedule array, each from those before it.               *)
ScheduleWords(N, W) ==
    \A j \in N .. Len(W) - 1 : W[j + 1] = FipsWord(N, j, W[j - N + 1], W[j])

(* An iteration of the loop of expand_key adds the next word of FIPS-197.  *)
LEMMA WordStep ==
    ASSUME NEW N \in KeyLens, NEW W \in Seq(Word),
           N <= Len(W), Len(W) < 4 * (Rounds(N) + 1), ScheduleWords(N, W),
           NEW V, V = expand_key_step(W, N)
    PROVE  /\ V \in Seq(Word) /\ Len(V) = Len(W) + 1 /\ ScheduleWords(N, V)
           /\ V = Append(W, V[Len(W) + 1]) /\ V[Len(W) + 1] \in Word
           /\ \A j \in 1 .. Len(W) : V[j] = W[j]
<1> DEFINE n == Len(W)
           w == FipsWord(N, n, W[n - N + 1], W[n])
<1>1. N \in Nat /\ 1 <= N /\ n \in Nat /\ N <= n /\ n < 4 * (Rounds(N) + 1)
    BY DEF KeyLens
<1>2. W[n - N + 1] \in Word /\ W[n] \in Word
  <2>1. n - N + 1 \in 1 .. Len(W) /\ n \in 1 .. Len(W)
      BY <1>1
  <2> QED BY <2>1, ElementOfSeq
<1>3. V = Append(W, schedule_xor_word(W[n - N + 1], ScheduleTemp(N, n, W[n])))
    BY DEF expand_key_step
<1> HIDE DEF n
<1>4. w \in Word /\ V = Append(W, w)
    BY <1>1, <1>2, <1>3, FipsWordTyped
<1> HIDE DEF w
<1>5. /\ V \in Seq(Word) /\ Len(V) = n + 1 /\ V[n + 1] = w
      /\ \A j \in 1 .. n : V[j] = W[j]
    BY <1>4, AppendProperties DEF n
<1>6. ScheduleWords(N, V)
  <2> SUFFICES ASSUME NEW j \in N .. n PROVE V[j + 1] = FipsWord(N, j, V[j - N + 1], V[j])
    <3>1. Len(V) - 1 = n
        BY <1>1, <1>5
    <3> QED BY <3>1 DEF ScheduleWords
  <2>1. j - N + 1 \in 1 .. n /\ j \in 1 .. n
      BY <1>1
  <2>2. V[j - N + 1] = W[j - N + 1] /\ V[j] = W[j]
      BY <1>5, <2>1
  <2>3. CASE j = n
      BY <1>5, <2>2, <2>3 DEF w
  <2>4. CASE j < n
    <3>1. j \in N .. Len(W) - 1 /\ j + 1 \in 1 .. n
        BY <1>1, <2>4 DEF n
    <3>2. W[j + 1] = FipsWord(N, j, W[j - N + 1], W[j])
        BY <3>1 DEF ScheduleWords
    <3> QED BY <1>5, <2>2, <3>1, <3>2
  <2> QED BY <1>1, <2>3, <2>4
<1> QED BY <1>4, <1>5, <1>6 DEF n

(* Four words of the array, when they are complete, are the next round key *)
(* of the ones before.                                                     *)
LEMMA WordsMakeKey ==
    ASSUME NEW N \in KeyLens, NEW V \in Seq(Word), NEW q \in Nat, N <= 4 * q,
           Len(V) = 4 * q + 4, ScheduleWords(N, V),
           NEW K \in Seq(State), Len(K) = q,
           \A n \in 1 .. q : K[n] = <<V[4 * n - 3], V[4 * n - 2], V[4 * n - 1], V[4 * n]>>
    PROVE  <<V[4 * q + 1], V[4 * q + 2], V[4 * q + 3], V[4 * q + 4]>> = NextRoundKey(N, K)
<1> DEFINE p == q + 1 - (N \div 4)
           b == 4 * q - N
<1>1. N \in Nat /\ p \in 1 .. q /\ q \in 1 .. q /\ 4 * p = b + 4
  <2>1. CASE N = 4
      BY <2>1
  <2>2. CASE N = 8
      BY <2>2
  <2> QED BY <2>1, <2>2 DEF KeyLens
<1>2. K[p] = <<V[b + 1], V[b + 2], V[b + 3], V[b + 4]>>
  <2>1. b \in Int
      BY <1>1
  <2> HIDE DEF p, b
  <2>2. 4 * p - 3 = b + 1 /\ 4 * p - 2 = b + 2 /\ 4 * p - 1 = b + 3
      BY <1>1, <2>1
  <2> QED BY <1>1, <2>2
<1>3. K[q][4] = V[4 * q]
  <2>1. K[q] = <<V[4 * q - 3], V[4 * q - 2], V[4 * q - 1], V[4 * q]>>
      BY <1>1
  <2> QED BY <2>1
<1>4. \A j \in N .. 4 * q + 3 : V[j + 1] = FipsWord(N, j, V[j - N + 1], V[j])
  <2>1. Len(V) - 1 = 4 * q + 3
      OBVIOUS
  <2> QED BY <2>1 DEF ScheduleWords
<1>5. V[4 * q + 1] = FipsWord(N, 4 * q, V[b + 1], V[4 * q])
  <2>1. 4 * q \in N .. 4 * q + 3 /\ (4 * q) - N + 1 = b + 1
      BY <1>1
  <2> QED BY <1>4, <2>1
<1>6. V[4 * q + 2] = FipsWord(N, 4 * q + 1, V[b + 2], V[4 * q + 1])
  <2>1. 4 * q + 1 \in N .. 4 * q + 3 /\ (4 * q + 1) - N + 1 = b + 2 /\ (4 * q + 1) + 1 = 4 * q + 2
      BY <1>1
  <2> QED BY <1>4, <2>1
<1>7. V[4 * q + 3] = FipsWord(N, 4 * q + 2, V[b + 3], V[4 * q + 2])
  <2>1. 4 * q + 2 \in N .. 4 * q + 3 /\ (4 * q + 2) - N + 1 = b + 3 /\ (4 * q + 2) + 1 = 4 * q + 3
      BY <1>1
  <2> QED BY <1>4, <2>1
<1>8. V[4 * q + 4] = FipsWord(N, 4 * q + 3, V[b + 4], V[4 * q + 3])
  <2>1. 4 * q + 3 \in N .. 4 * q + 3 /\ (4 * q + 3) - N + 1 = b + 4 /\ (4 * q + 3) + 1 = 4 * q + 4
      BY <1>1
  <2> QED BY <1>4, <2>1
<1> DEFINE back == K[p]
<1>9. /\ back[1] = V[b + 1] /\ back[2] = V[b + 2] /\ back[3] = V[b + 3] /\ back[4] = V[b + 4]
    BY <1>2
<1> HIDE DEF back, b
<1>10. NextRoundKey(N, K) =
         LET w1 == FipsWord(N, 4 * q, back[1], K[q][4])
             w2 == FipsWord(N, 4 * q + 1, back[2], w1)
             w3 == FipsWord(N, 4 * q + 2, back[3], w2)
         IN  <<w1, w2, w3, FipsWord(N, 4 * q + 3, back[4], w3)>>
    BY DEF NextRoundKey, back
<1> QED BY <1>3, <1>5, <1>6, <1>7, <1>8, <1>9, <1>10

(* The round keys in the array are found where add_round_key and           *)
(* pack_round_keys look for them.                                          *)
LEMMA AddRoundKeyIs ==
    ASSUME NEW W \in Seq(Word), NEW m \in Nat, Len(W) = 4 * m, NEW r \in Nat, r < m, NEW s
    PROVE  add_round_key(s, W, r) = XorState(s, KeyParts(W)[r + 1])
<1> DEFINE k == KeyParts(W)[r + 1]
           n == r + 1
<1>1. n \in 1 .. Len(W) \div 4 /\ 4 * n - 3 = r * 4 + 1 /\ 4 * n - 2 = r * 4 + 2
      /\ 4 * n - 1 = r * 4 + 3 /\ 4 * n = r * 4 + 4
    OBVIOUS
<1>2. k = <<W[4 * n - 3], W[4 * n - 2], W[4 * n - 1], W[4 * n]>>
    BY <1>1, PartsTyped
<1>3. k[1] = W[r * 4 + 1] /\ k[2] = W[r * 4 + 2] /\ k[3] = W[r * 4 + 3] /\ k[4] = W[r * 4 + 4]
  <2> HIDE DEF k, n
  <2> QED BY <1>1, <1>2
<1>4. XorState(s, k) = <<XorWord(s[1], k[1]), XorWord(s[2], k[2]), XorWord(s[3], k[3]), XorWord(s[4], k[4])>>
    BY DEF XorState, Four
<1> HIDE DEF k
<1>5. add_round_key(s, W, r) =
        <<XorWord(s[1], W[r * 4 + 1]), XorWord(s[2], W[r * 4 + 2]),
          XorWord(s[3], W[r * 4 + 3]), XorWord(s[4], W[r * 4 + 4])>>
    BY DEF add_round_key, XorWord, Four
<1>6. add_round_key(s, W, r) = XorState(s, k)
    BY <1>3, <1>4, <1>5
<1> QED BY <1>6 DEF k

LEMMA PackIsParts ==
    ASSUME NEW W \in Seq(Word), NEW m \in Nat, Len(W) = 4 * (m + 1)
    PROVE  pack_round_keys(W, m) = KeyParts(W)
<1>1. Len(W) \div 4 = m + 1
    OBVIOUS
<1>2. KeyParts(W) = [n \in 1 .. m + 1 |-> SubSeq(W, 4 * n - 3, 4 * n)]
    BY <1>1 DEF KeyParts
<1>3. pack_round_keys(W, m) =
        [n \in 1 .. m + 1 |-> Four(LAMBDA c : Four(LAMBDA r : W[(n - 1) * 4 + c][r]))]
    BY DEF pack_round_keys
<1>4. ASSUME NEW n \in 1 .. m + 1
      PROVE  Four(LAMBDA c : Four(LAMBDA r : W[(n - 1) * 4 + c][r])) = SubSeq(W, 4 * n - 3, 4 * n)
  <2> DEFINE j == (n - 1) * 4
  <2>1. /\ j + 1 \in 1 .. Len(W) /\ j + 2 \in 1 .. Len(W) /\ j + 3 \in 1 .. Len(W) /\ j + 4 \in 1 .. Len(W)
        /\ 4 * n - 3 = j + 1 /\ 4 * n - 2 = j + 2 /\ 4 * n - 1 = j + 3 /\ 4 * n = j + 4
        /\ n \in Nat /\ n >= 1 /\ 4 * n <= Len(W)
      OBVIOUS
  <2>2. SubSeq(W, 4 * n - 3, 4 * n) = <<W[4 * n - 3], W[4 * n - 2], W[4 * n - 1], W[4 * n]>>
      BY <2>1, PartIs
  <2>3. Four(LAMBDA c : Four(LAMBDA r : W[j + c][r])) =
          << <<W[j + 1][1], W[j + 1][2], W[j + 1][3], W[j + 1][4]>>,
             <<W[j + 2][1], W[j + 2][2], W[j + 2][3], W[j + 2][4]>>,
             <<W[j + 3][1], W[j + 3][2], W[j + 3][3], W[j + 3][4]>>,
             <<W[j + 4][1], W[j + 4][2], W[j + 4][3], W[j + 4][4]>> >>
      BY DEF Four
  <2> HIDE DEF j
  <2>4. \A w \in Word : <<w[1], w[2], w[3], w[4]>> = w
      BY FourApplied DEF Word
  <2>5. W[j + 1] \in Word /\ W[j + 2] \in Word /\ W[j + 3] \in Word /\ W[j + 4] \in Word
      BY <2>1, ElementOfSeq
  <2>6. Four(LAMBDA c : Four(LAMBDA r : W[j + c][r])) = <<W[j + 1], W[j + 2], W[j + 3], W[j + 4]>>
      BY <2>3, <2>4, <2>5
  <2>7. Four(LAMBDA c : Four(LAMBDA r : W[j + c][r])) = SubSeq(W, 4 * n - 3, 4 * n)
      BY <2>1, <2>2, <2>6
  <2> QED BY <2>7 DEF j
<1> QED BY <1>2, <1>3, <1>4

-----------------------------------------------------------------------------
(* Inductive invariant of a call: what each backend holds while it expands *)
(* the key and while the rounds run.                                       *)
Expanding ==
    /\ backend \in {"soft", "arm"} =>
         /\ words \in Seq(Word) /\ ScheduleWords(Len(call.key), words)
         /\ Len(call.key) <= Len(words) /\ Len(words) <= 4 * (Nr + 1)
    /\ backend = "ni" => rk \in Seq(State)
    /\ backend = "riscv" => rk \in Seq(HalfState)
    /\ backend \in {"ni", "riscv"} =>
         Len(call.key) \div 4 <= Len(rk) /\ Len(rk) <= Nr + 1

InRounds ==
    /\ round \in Nat /\ round < Nr
    /\ backend = "soft" => words \in Seq(Word) /\ Len(words) = 4 * (Nr + 1)
    /\ backend \in {"ni", "arm"} => rk \in Seq(State)
    /\ backend = "riscv" => rk \in Seq(HalfState) /\ state \in HalfState
    /\ backend # "soft" => Len(rk) = Nr + 1
    /\ backend # "riscv" => state \in State

BlockInv ==
    /\ backend \in Backends /\ call \in Calls
    /\ step \in {"start", "expand", "rounds", "done"}
    /\ step \in {"start", "expand"} => round = 0
    /\ step = "expand" => Expanding
    /\ step = "rounds" => InRounds

LEMMA CallTyped ==
    ASSUME call \in Calls
    PROVE  /\ call.key \in Seq(Word) /\ Len(call.key) \in KeyLens /\ call.block \in State
           /\ Nr = Rounds(Len(call.key)) /\ Nr = Len(call.key) + 6 /\ Nr \in Nat
           /\ KeyParts(call.key) \in Seq(State)
           /\ Len(KeyParts(call.key)) = Len(call.key) \div 4
<1>1. call.key \in Seq(Word) /\ Len(call.key) \in KeyLens /\ call.block \in State
    BY CallsAssumption DEF KeyLens
<1>2. Nr = Rounds(Len(call.key)) /\ Nr = Len(call.key) + 6
    BY DEF Nr, Rounds
<1>3. KeyParts(call.key) \in Seq(State) /\ Len(KeyParts(call.key)) = Len(call.key) \div 4
    BY <1>1, PartsTyped
<1>4. Nr \in Nat
    BY <1>1, <1>2 DEF KeyLens
<1> QED BY <1>1, <1>2, <1>3, <1>4

(* The actions of AesCipher under the refinement mapping.                  *)
CipherRound == IF step \in {"rounds", "done"} THEN round ELSE -1

LEMMA CipherVars ==
    ASSUME call' = call, RoundKeys' = RoundKeys, CipherRound' = CipherRound,
           CipherState' = CipherState
    PROVE  UNCHANGED F!vars
BY DEF F!vars, CipherRound

LEMMA CipherInit ==
    ASSUME call \in Calls, step = "start"
    PROVE  F!Init
BY DEF F!Init, RoundKeys, CipherState

LEMMA CipherExpand ==
    ASSUME CipherRound = -1, Len(RoundKeys) < Nr + 1,
           RoundKeys' = Append(RoundKeys, NextRoundKey(Len(call.key), RoundKeys)),
           call' = call, CipherRound' = CipherRound, CipherState' = CipherState
    PROVE  F!Expand
BY DEF F!Expand, F!Nk, F!Nr, Nr, NextRoundKey, CipherRound

LEMMA CipherBegin ==
    ASSUME CipherRound = -1, Len(RoundKeys) = Nr + 1, CipherRound' = 0,
           CipherState' = XorState(CipherState, RoundKeys[1]),
           call' = call, RoundKeys' = RoundKeys
    PROVE  F!Begin
BY DEF F!Begin, F!Nk, F!Nr, Nr, CipherRound

LEMMA CipherMiddle ==
    ASSUME CipherRound \in 0 .. Nr - 2, CipherRound' = CipherRound + 1,
           CipherState' = FipsRound(CipherState, RoundKeys[CipherRound' + 1]),
           call' = call, RoundKeys' = RoundKeys
    PROVE  F!Round
BY DEF F!Round, F!Nk, F!Nr, Nr, CipherRound

LEMMA CipherLast ==
    ASSUME CipherRound = Nr - 1, CipherRound' = Nr,
           CipherState' = FipsLastRound(CipherState, RoundKeys[Nr + 1]),
           call' = call, RoundKeys' = <<>>
    PROVE  F!Last
BY DEF F!Last, F!Nk, F!Nr, Nr, CipherRound

LEMMA InitBlockInv == BlockInit => BlockInv /\ F!Init
<1> SUFFICES ASSUME BlockInit PROVE BlockInv /\ F!Init
    OBVIOUS
<1>1. BlockInv
    BY DEF BlockInit, BlockInv
<1>2. F!Init
    BY CipherInit DEF BlockInit
<1> QED BY <1>1, <1>2

(* Copying the key to the front of the schedule is no step of the cipher.  *)
LEMMA StartStep ==
    ASSUME BlockInv, Start
    PROVE  BlockInv' /\ UNCHANGED F!vars
<1> DEFINE N == Len(call.key)
           parts == KeyParts(call.key)
<1>0. N = Len(call.key) /\ parts = KeyParts(call.key)
    OBVIOUS
<1>1. /\ call.key \in Seq(Word) /\ N \in KeyLens /\ call.block \in State
      /\ Nr = N + 6 /\ parts \in Seq(State) /\ Len(parts) = N \div 4
    BY CallTyped DEF BlockInv
<1>2. /\ step = "start" /\ step' = "expand" /\ round = 0 /\ round' = round
      /\ backend' = backend /\ call' = call /\ backend \in Backends /\ call \in Calls
    BY DEF Start, BlockInv
<1>3. Nr' = Nr
    BY <1>2 DEF Nr
<1> HIDE DEF N, parts
<1>4. N <= 4 * (Nr + 1) /\ N \div 4 <= Nr + 1 /\ N \in Nat
    BY <1>1 DEF KeyLens
<1>5. /\ N <= N /\ N <= 4 * (Nr' + 1) /\ N \div 4 <= N \div 4 /\ N \div 4 <= Nr' + 1
      /\ Len(call'.key) = N
  <2>1. N <= N /\ N \div 4 <= N \div 4
      BY <1>4
  <2>2. Len(call'.key) = N
      BY <1>0, <1>2
  <2> QED BY <1>3, <1>4, <2>1, <2>2
<1>6. RoundKeys = parts /\ CipherState = call.block /\ CipherRound = -1
    BY <1>0, <1>2 DEF RoundKeys, CipherState, CipherRound
<1>7. CipherState' = call.block /\ CipherRound' = -1
    BY <1>2 DEF CipherState, CipherRound
<1>8. CASE backend \in {"soft", "arm"}
  <2>1. words' = call.key
      BY <1>8 DEF Start
  <2>2. ScheduleWords(N, call.key)
    <3>1. N .. Len(call.key) - 1 = {}
        BY <1>0, <1>4
    <3> QED BY <3>1 DEF ScheduleWords
  <2>3. Expanding'
    <3>1. words' \in Seq(Word) /\ Len(words') = N /\ ScheduleWords(N, words')
        BY <1>0, <1>1, <2>1, <2>2
    <3>2. backend' \notin {"ni", "riscv"}
        BY <1>2, <1>8
    <3> QED BY <1>5, <3>1, <3>2 DEF Expanding
  <2>4. RoundKeys' = parts
      BY <1>0, <1>2, <1>8, <2>1 DEF RoundKeys, KeysSoFar
  <2> QED BY <1>2, <1>6, <1>7, <2>3, <2>4, CipherVars DEF BlockInv
<1>9. CASE backend = "ni"
  <2>1. rk' = parts
      BY <1>0, <1>9 DEF Start
  <2>2. Expanding'
    <3>1. rk' \in Seq(State) /\ Len(rk') = N \div 4
        BY <1>1, <2>1
    <3>2. backend' = "ni"
        BY <1>2, <1>9
    <3> QED BY <1>5, <3>1, <3>2 DEF Expanding
  <2>3. RoundKeys' = parts
      BY <1>2, <1>9, <2>1 DEF RoundKeys, KeysSoFar
  <2> QED BY <1>2, <1>6, <1>7, <2>2, <2>3, CipherVars DEF BlockInv
<1>10. CASE backend = "riscv"
  <2> DEFINE R == [j \in 1 .. Len(parts) |-> load_state(parts[j])]
  <2>1. rk' = R
      BY <1>0, <1>10 DEF Start
  <2>2. Len(parts) \in Nat /\ \A j \in 1 .. Len(parts) : parts[j] \in State
      BY <1>1, ElementOfSeq
  <2>3. \A j \in 1 .. Len(parts) : load_state(parts[j]) \in HalfState /\ store_state(load_state(parts[j])) = parts[j]
      BY <2>2, LoadTyped
  <2>4. R \in Seq(HalfState) /\ Len(R) = Len(parts)
      BY <2>2, <2>3
  <2>5. Joined(R) = parts
    <3>1. Joined(R) = [j \in 1 .. Len(parts) |-> parts[j]]
        BY <2>3 DEF Joined
    <3> QED BY <1>1, <3>1, LenProperties
  <2> HIDE DEF R
  <2>6. Expanding'
    <3>1. rk' \in Seq(HalfState) /\ Len(rk') = N \div 4
        BY <1>1, <2>1, <2>4
    <3>2. backend' = "riscv"
        BY <1>2, <1>10
    <3> QED BY <1>5, <3>1, <3>2 DEF Expanding
  <2>7. RoundKeys' = parts
      BY <1>2, <1>10, <2>1, <2>5 DEF RoundKeys, KeysSoFar, Joined
  <2> QED BY <1>2, <1>6, <1>7, <2>6, <2>7, CipherVars DEF BlockInv
<1> QED BY <1>2, <1>8, <1>9, <1>10 DEF Backends

(* An iteration of the word loop completes a round key or changes none.    *)
LEMMA ExpandWordsStep ==
    ASSUME BlockInv, ExpandWords
    PROVE  BlockInv' /\ (F!Expand \/ UNCHANGED F!vars)
<1> DEFINE N == Len(call.key)
           n == Len(words)
           w == words'[n + 1]
<1>0. N = Len(call.key) /\ n = Len(words)
    OBVIOUS
<1>1. /\ call \in Calls /\ N \in KeyLens /\ Nr = Rounds(N) /\ Nr = N + 6 /\ Nr \in Nat
    BY CallTyped DEF BlockInv
<1>2. /\ step = "expand" /\ step' = step /\ round = 0 /\ round' = round
      /\ backend' = backend /\ call' = call /\ backend \in {"soft", "arm"}
      /\ words' = expand_key_step(words, N) /\ n < 4 * (Nr + 1) /\ Nr' = Nr
    BY DEF ExpandWords, BlockInv, Nr
<1>3. words \in Seq(Word) /\ ScheduleWords(N, words) /\ N <= n /\ n \in Nat
    BY <1>2 DEF BlockInv, Expanding
<1> HIDE DEF N, n
<1>4. /\ words' \in Seq(Word) /\ Len(words') = n + 1 /\ ScheduleWords(N, words')
      /\ words' = Append(words, w) /\ w \in Word
      /\ \A j \in 1 .. n : words'[j] = words[j]
  <2>1. N <= Len(words) /\ Len(words) < 4 * (Rounds(N) + 1)
      BY <1>0, <1>1, <1>2, <1>3
  <2> DEFINE V == expand_key_step(words, N)
  <2>2. /\ V \in Seq(Word) /\ Len(V) = Len(words) + 1 /\ ScheduleWords(N, V)
        /\ V = Append(words, V[Len(words) + 1]) /\ V[Len(words) + 1] \in Word
        /\ \A j \in 1 .. Len(words) : V[j] = words[j]
    <3>1. N \in KeyLens /\ words \in Seq(Word) /\ ScheduleWords(N, words)
        BY <1>1, <1>3
    <3> QED BY <2>1, <3>1, WordStep
  <2>3. words' = V
      BY <1>2
  <2> HIDE DEF V
  <2> QED BY <1>0, <2>2, <2>3
<1> HIDE DEF w
<1>5. BlockInv'
  <2>1. N <= n + 1 /\ n + 1 <= 4 * (Nr' + 1)
      BY <1>1, <1>2, <1>3 DEF KeyLens
  <2>2. Len(call'.key) = N
      BY <1>0, <1>2
  <2>3. Expanding'
      BY <1>2, <1>4, <2>1, <2>2 DEF Expanding
  <2> QED BY <1>1, <1>2, <2>3 DEF BlockInv, Backends
<1>6. /\ RoundKeys = KeyParts(words) /\ RoundKeys' = KeyParts(words')
      /\ CipherState' = CipherState /\ CipherRound = -1 /\ CipherRound' = CipherRound
    BY <1>2 DEF RoundKeys, KeysSoFar, CipherState, CipherRound
<1>7. CASE (n + 1) % 4 # 0
  <2>1. RoundKeys' = RoundKeys
      BY <1>0, <1>3, <1>4, <1>6, <1>7, PartsKept
  <2> QED BY <1>2, <1>5, <1>6, <2>1, CipherVars
<1>8. CASE (n + 1) % 4 = 0
  <2> DEFINE q == n \div 4
             K == KeyParts(words)
             new == <<words[n - 2], words[n - 1], words[n], w>>
  <2>1. q \in Nat /\ n = 4 * q + 3 /\ N <= 4 * q /\ q < Nr + 1
    <3>1. q \in Nat /\ n = 4 * q + 3
        BY <1>3, <1>8
    <3> HIDE DEF q
    <3>2. N <= 4 * q
        BY <1>1, <1>3, <3>1 DEF KeyLens
    <3> QED BY <1>1, <1>2, <3>1, <3>2
  <2>2. RoundKeys' = Append(RoundKeys, new)
      BY <1>0, <1>3, <1>4, <1>6, <1>8, PartsGrow
  <2>3. /\ K \in Seq(State) /\ Len(K) = q
        /\ \A j \in 1 .. q : K[j] = <<words[4 * j - 3], words[4 * j - 2], words[4 * j - 1], words[4 * j]>>
      BY <1>0, <1>3, PartsTyped
  <2> HIDE DEF q, K
  <2>4. \A j \in 1 .. q : K[j] = <<words'[4 * j - 3], words'[4 * j - 2], words'[4 * j - 1], words'[4 * j]>>
    <3> SUFFICES ASSUME NEW j \in 1 .. q
                 PROVE  K[j] = <<words'[4 * j - 3], words'[4 * j - 2], words'[4 * j - 1], words'[4 * j]>>
        OBVIOUS
    <3>1. /\ 4 * j - 3 \in 1 .. n /\ 4 * j - 2 \in 1 .. n /\ 4 * j - 1 \in 1 .. n /\ 4 * j \in 1 .. n
        BY <2>1
    <3> QED BY <1>4, <2>3, <3>1
  <2>5. Len(words') = 4 * q + 4
      BY <1>4, <2>1
  <2>6. <<words'[4 * q + 1], words'[4 * q + 2], words'[4 * q + 3], words'[4 * q + 4]>> = NextRoundKey(N, K)
      BY <1>1, <1>4, <2>1, <2>3, <2>4, <2>5, WordsMakeKey
  <2>7. new = <<words'[4 * q + 1], words'[4 * q + 2], words'[4 * q + 3], words'[4 * q + 4]>>
    <3>1. /\ n - 2 = 4 * q + 1 /\ n - 1 = 4 * q + 2 /\ n + 1 = 4 * q + 4
          /\ n - 2 \in 1 .. n /\ n - 1 \in 1 .. n /\ n \in 1 .. n
        BY <2>1
    <3>2. words'[n - 2] = words[n - 2] /\ words'[n - 1] = words[n - 1] /\ words'[n] = words[n]
        BY <1>4, <3>1
    <3> QED BY <2>1, <3>1, <3>2 DEF w
  <2> HIDE DEF new
  <2>8. RoundKeys' = Append(RoundKeys, NextRoundKey(Len(call.key), RoundKeys))
      BY <1>0, <1>6, <2>2, <2>6, <2>7 DEF K
  <2>9. Len(RoundKeys) < Nr + 1
      BY <1>6, <2>1, <2>3 DEF K
  <2> QED BY <1>2, <1>5, <1>6, <2>8, <2>9, CipherExpand
<1> QED BY <1>7, <1>8

(* Each unrolled step of the register schedules makes one round key.       *)
LEMMA ExpandRegistersStep ==
    ASSUME BlockInv, ExpandRegisters
    PROVE  BlockInv' /\ F!Expand
<1> DEFINE N == Len(call.key)
           n == Len(rk)
<1>0. N = Len(call.key) /\ n = Len(rk)
    OBVIOUS
<1>1. /\ call \in Calls /\ N \in KeyLens /\ Nr = N + 6 /\ Nr \in Nat
    BY CallTyped DEF BlockInv
<1>2. /\ step = "expand" /\ step' = step /\ round = 0 /\ round' = round
      /\ backend' = backend /\ call' = call /\ backend \in {"ni", "riscv"} /\ n < Nr + 1 /\ Nr' = Nr
    BY DEF ExpandRegisters, BlockInv, Nr
<1>3. N \div 4 <= n
    BY <1>2 DEF BlockInv, Expanding
<1>4. /\ CipherState' = CipherState /\ CipherRound = -1 /\ CipherRound' = CipherRound
    BY <1>2 DEF CipherState, CipherRound
<1>5. CASE backend = "ni"
  <2> DEFINE k == NextRoundKey(N, rk)
  <2>1. rk \in Seq(State) /\ n \in Nat
      BY <1>2, <1>5 DEF BlockInv, Expanding
  <2> HIDE DEF N, n
  <2>2. rk' = Append(rk, IF N = 8 THEN expand_key_ni(rk) ELSE expand_key128_ni(rk))
    <3>1. CASE N = 4
      <4>1. Len(call.key) = 4 /\ Len(call.key) # 8 /\ backend = "ni"
          BY <1>0, <1>5, <3>1
      <4>2. rk' = Append(rk, expand_key128_ni(rk))
          BY <4>1 DEF ExpandRegisters
      <4> QED BY <3>1, <4>2
    <3>2. CASE N = 8
      <4>1. Len(call.key) = 8 /\ Len(call.key) # 4 /\ backend = "ni"
          BY <1>0, <1>5, <3>2
      <4>2. rk' = Append(rk, expand_key_ni(rk))
          BY <4>1 DEF ExpandRegisters
      <4> QED BY <3>2, <4>2
    <3> QED BY <1>1, <3>1, <3>2 DEF KeyLens
  <2>3. k \in State /\ rk' = Append(rk, k)
    <3>1. CASE N = 4
      <4>1. 1 <= n /\ n <= 10
          BY <1>1, <1>2, <1>3, <2>1, <3>1
      <4> QED BY <1>0, <2>1, <2>2, <3>1, <4>1, NiSchedule128
    <3>2. CASE N = 8
      <4>1. 2 <= n /\ n <= 14
          BY <1>1, <1>2, <1>3, <2>1, <3>2
      <4> QED BY <1>0, <2>1, <2>2, <3>2, <4>1, NiSchedule256
    <3> QED BY <1>1, <3>1, <3>2 DEF KeyLens
  <2>4. RoundKeys = rk /\ RoundKeys' = rk'
      BY <1>2, <1>5 DEF RoundKeys, KeysSoFar
  <2> HIDE DEF k
  <2>5. rk' \in Seq(State) /\ Len(rk') = n + 1
      BY <1>0, <2>1, <2>3, AppendProperties
  <2>6. BlockInv'
    <3>1. N \div 4 <= n + 1 /\ n + 1 <= Nr' + 1
        BY <1>1, <1>2, <1>3, <2>1 DEF KeyLens
    <3>2. Len(call'.key) = N /\ backend' = "ni"
        BY <1>0, <1>2, <1>5
    <3>3. Expanding'
        BY <2>5, <3>1, <3>2 DEF Expanding
    <3> QED BY <1>1, <1>2, <3>3 DEF BlockInv, Backends
  <2>7. F!Expand
    <3>1. Len(RoundKeys) < Nr + 1
        BY <1>0, <1>2, <2>4
    <3>2. RoundKeys' = Append(RoundKeys, NextRoundKey(Len(call.key), RoundKeys))
        BY <1>0, <2>3, <2>4 DEF k
    <3> QED BY <1>2, <1>4, <3>1, <3>2, CipherExpand
  <2> QED BY <2>6, <2>7
<1>6. CASE backend = "riscv"
  <2> DEFINE h == IF N = 8 THEN expand_key256_riscv(rk) ELSE expand_key128_riscv(rk)
             K == Joined(rk)
  <2>1. rk \in Seq(HalfState) /\ n \in Nat
      BY <1>2, <1>6 DEF BlockInv, Expanding
  <2> HIDE DEF N, n
  <2>2. rk' = Append(rk, h)
    <3>1. CASE N = 4
      <4>1. Len(call.key) = 4 /\ Len(call.key) # 8 /\ backend = "riscv"
          BY <1>0, <1>6, <3>1
      <4>2. rk' = Append(rk, expand_key128_riscv(rk))
          BY <4>1 DEF ExpandRegisters
      <4> QED BY <3>1, <4>2
    <3>2. CASE N = 8
      <4>1. Len(call.key) = 8 /\ Len(call.key) # 4 /\ backend = "riscv"
          BY <1>0, <1>6, <3>2
      <4>2. rk' = Append(rk, expand_key256_riscv(rk))
          BY <4>1 DEF ExpandRegisters
      <4> QED BY <3>2, <4>2
    <3> QED BY <1>1, <3>1, <3>2 DEF KeyLens
  <2>3. h \in HalfState /\ store_state(h) = NextRoundKey(N, K)
    <3>1. CASE N = 4
      <4>1. 1 <= n /\ n <= 10
          BY <1>1, <1>2, <1>3, <2>1, <3>1
      <4> QED BY <1>0, <2>1, <3>1, <4>1, RiscvSchedule128
    <3>2. CASE N = 8
      <4>1. 2 <= n /\ n <= 14
          BY <1>1, <1>2, <1>3, <2>1, <3>2
      <4> QED BY <1>0, <2>1, <3>2, <4>1, RiscvSchedule256
    <3> QED BY <1>1, <3>1, <3>2 DEF KeyLens
  <2>4. RoundKeys = K /\ RoundKeys' = Joined(rk')
      BY <1>2, <1>6 DEF RoundKeys, KeysSoFar, Joined
  <2> HIDE DEF h
  <2>5. rk' \in Seq(HalfState) /\ Len(rk') = n + 1
      BY <1>0, <2>1, <2>2, <2>3, AppendProperties
  <2>6. BlockInv'
    <3>1. N \div 4 <= n + 1 /\ n + 1 <= Nr' + 1
        BY <1>1, <1>2, <1>3, <2>1 DEF KeyLens
    <3>2. Len(call'.key) = N /\ backend' = "riscv"
        BY <1>0, <1>2, <1>6
    <3>3. Expanding'
        BY <2>5, <3>1, <3>2 DEF Expanding
    <3> QED BY <1>1, <1>2, <3>3 DEF BlockInv, Backends
  <2>7. F!Expand
    <3>1. Len(K) = n
        BY <1>0, <2>1, JoinedTyped
    <3>2. Joined(rk') = Append(K, NextRoundKey(N, K))
        BY <2>1, <2>2, <2>3, JoinedGrows
    <3> HIDE DEF K
    <3>3. Len(RoundKeys) < Nr + 1
        BY <1>2, <2>4, <3>1
    <3>4. RoundKeys' = Append(RoundKeys, NextRoundKey(Len(call.key), RoundKeys))
        BY <1>0, <2>4, <3>2
    <3> QED BY <1>2, <1>4, <3>3, <3>4, CipherExpand
  <2> QED BY <2>6, <2>7
<1> QED BY <1>2, <1>5, <1>6

(* With the schedule complete the first key is added; ARM leaves that to   *)
(* its first round and only packs the keys.                                *)
LEMMA LoadStep ==
    ASSUME BlockInv, Load
    PROVE  BlockInv' /\ F!Begin
<1> DEFINE b == call.block
<1>1. call \in Calls /\ b \in State /\ Nr \in Nat /\ 0 < Nr
    BY CallTyped DEF BlockInv, KeyLens
<1>2. /\ step = "expand" /\ step' = "rounds" /\ round = 0 /\ round' = round
      /\ backend' = backend /\ call' = call /\ backend \in Backends /\ Nr' = Nr
      /\ Expanding
    BY DEF Load, BlockInv, Nr
<1>3. CipherState = b /\ CipherRound = -1 /\ CipherRound' = 0
    BY <1>2 DEF CipherState, CipherRound
<1>4. round' \in Nat /\ round' < Nr'
    BY <1>1, <1>2
<1> HIDE DEF b
<1>5. CASE backend = "soft"
  <2>1. /\ words' = words /\ words \in Seq(Word) /\ Len(words) = 4 * (Nr + 1)
        /\ state' = add_round_key(b, words, 0)
      BY <1>2, <1>5 DEF Load, Expanding, b
  <2>2. /\ RoundKeys = KeyParts(words) /\ RoundKeys' = KeyParts(words)
        /\ CipherState' = state'
      BY <1>2, <1>5, <2>1 DEF RoundKeys, KeysSoFar, CipherState, StateSoFar
  <2>3. Len(KeyParts(words)) = Nr + 1 /\ KeyParts(words)[1] \in State
    <3>1. Len(words) \div 4 = Nr + 1 /\ 1 \in 1 .. Nr + 1
        BY <1>1, <2>1
    <3>2. KeyParts(words) \in Seq(State) /\ Len(KeyParts(words)) = Nr + 1
        BY <2>1, <3>1, PartsTyped
    <3> QED BY <3>1, <3>2, ElementOfSeq
  <2>4. state' = XorState(b, KeyParts(words)[1])
    <3>1. Nr + 1 \in Nat /\ 0 \in Nat /\ 0 < Nr + 1 /\ 0 + 1 = 1
        BY <1>1
    <3> QED BY <2>1, <3>1, AddRoundKeyIs
  <2>5. state' \in State
      BY <1>1, <2>3, <2>4, XorStateTyped
  <2>6. InRounds'
      BY <1>2, <1>4, <1>5, <2>1, <2>5 DEF InRounds
  <2>7. BlockInv'
      BY <1>1, <1>2, <2>6 DEF BlockInv
  <2>8. F!Begin
      BY <1>2, <1>3, <2>2, <2>3, <2>4, CipherBegin
  <2> QED BY <2>7, <2>8
<1>6. CASE backend = "ni"
  <2>1. /\ rk' = rk /\ rk \in Seq(State) /\ Len(rk) = Nr + 1
        /\ state' = XorState(b, rk[1])
      BY <1>2, <1>6 DEF Load, Expanding, b
  <2>2. /\ RoundKeys = rk /\ RoundKeys' = rk /\ CipherState' = state'
      BY <1>2, <1>6, <2>1 DEF RoundKeys, KeysSoFar, CipherState, StateSoFar
  <2>3. rk[1] \in State
    <3>1. 1 \in 1 .. Len(rk)
        BY <1>1, <2>1
    <3> QED BY <2>1, <3>1, ElementOfSeq
  <2>4. state' \in State
      BY <1>1, <2>1, <2>3, XorStateTyped
  <2>5. InRounds'
      BY <1>2, <1>4, <1>6, <2>1, <2>4 DEF InRounds
  <2>6. BlockInv'
      BY <1>1, <1>2, <2>5 DEF BlockInv
  <2>7. F!Begin
      BY <1>2, <1>3, <2>1, <2>2, CipherBegin
  <2> QED BY <2>6, <2>7
<1>7. CASE backend = "arm"
  <2>1. /\ words \in Seq(Word) /\ Len(words) = 4 * (Nr + 1)
        /\ rk' = pack_round_keys(words, Nr) /\ state' = b
      BY <1>2, <1>7 DEF Load, Expanding, b
  <2>2. rk' = KeyParts(words)
      BY <1>1, <2>1, PackIsParts
  <2>3. rk' \in Seq(State) /\ Len(rk') = Nr + 1
    <3>1. Len(words) \div 4 = Nr + 1
        BY <1>1, <2>1
    <3> QED BY <2>1, <2>2, <3>1, PartsTyped
  <2>4. RoundKeys = rk' /\ RoundKeys' = rk'
      BY <1>2, <1>7, <2>2 DEF RoundKeys, KeysSoFar
  <2>5. CipherState' = XorState(b, rk'[1])
    <3>1. round' + 1 = 1
        BY <1>2
    <3> QED BY <1>2, <1>7, <2>1, <3>1 DEF CipherState, StateSoFar
  <2>6. InRounds'
      BY <1>1, <1>2, <1>4, <1>7, <2>1, <2>3 DEF InRounds
  <2>7. BlockInv'
      BY <1>1, <1>2, <2>6 DEF BlockInv
  <2>8. F!Begin
      BY <1>2, <1>3, <2>3, <2>4, <2>5, CipherBegin
  <2> QED BY <2>7, <2>8
<1>8. CASE backend = "riscv"
  <2>1. /\ rk' = rk /\ rk \in Seq(HalfState) /\ Len(rk) = Nr + 1
        /\ state' = xor_state(load_state(b), rk[1])
      BY <1>2, <1>8 DEF Load, Expanding, b
  <2>2. /\ RoundKeys = Joined(rk) /\ RoundKeys' = Joined(rk) /\ CipherState' = store_state(state')
      BY <1>2, <1>8, <2>1 DEF RoundKeys, KeysSoFar, CipherState, StateSoFar, Joined
  <2>3. 1 \in 1 .. Len(rk)
      BY <1>1, <2>1
  <2>4. rk[1] \in HalfState
      BY <2>1, <2>3, ElementOfSeq
  <2>5. Len(Joined(rk)) = Nr + 1 /\ Joined(rk)[1] = store_state(rk[1])
      BY <2>1, <2>3, JoinedTyped
  <2>6. load_state(b) \in HalfState /\ store_state(load_state(b)) = b
      BY <1>1, LoadTyped
  <2>7. state' \in HalfState /\ store_state(state') = XorState(b, Joined(rk)[1])
      BY <2>1, <2>4, <2>5, <2>6, XorHalves
  <2>8. InRounds'
      BY <1>2, <1>4, <1>8, <2>1, <2>7 DEF InRounds
  <2>9. BlockInv'
      BY <1>1, <1>2, <2>8 DEF BlockInv
  <2>10. F!Begin
      BY <1>2, <1>3, <2>2, <2>5, <2>7, CipherBegin
  <2> QED BY <2>9, <2>10
<1> QED BY <1>2, <1>5, <1>6, <1>7, <1>8 DEF Backends

(* Each iteration of a round loop is one round with the key of its number. *)
LEMMA RoundStep ==
    ASSUME BlockInv, Round
    PROVE  BlockInv' /\ F!Round
<1> DEFINE r == round + 1
<1>1. call \in Calls /\ Nr \in Nat
    BY CallTyped DEF BlockInv
<1>2. /\ step = "rounds" /\ step' = step /\ round' = r /\ r # Nr
      /\ backend' = backend /\ call' = call /\ backend \in Backends /\ Nr' = Nr
      /\ InRounds
    BY DEF Round, BlockInv, Nr, IsLastRound
<1>3. /\ r \in Nat /\ r < Nr /\ round \in 0 .. Nr - 2 /\ r < Nr + 1
      /\ r \in 1 .. Nr + 1 /\ r + 1 \in 1 .. Nr + 1 /\ Nr + 1 \in Nat
    BY <1>1, <1>2 DEF InRounds
<1>4. CipherRound = round /\ CipherRound' = r /\ r = CipherRound + 1
    BY <1>2 DEF CipherRound
<1> HIDE DEF r
<1>5. CASE backend = "soft"
  <2> DEFINE K == KeyParts(words)
  <2>1. /\ words' = words /\ words \in Seq(Word) /\ Len(words) = 4 * (Nr + 1) /\ state \in State
        /\ state' = add_round_key(mix_columns(shift_rows(sub_bytes(state))), words, r)
      BY <1>2, <1>5 DEF Round, InRounds, SoftRound
  <2>2. /\ RoundKeys = K /\ RoundKeys' = K /\ CipherState = state /\ CipherState' = state'
      BY <1>2, <1>5, <2>1 DEF RoundKeys, KeysSoFar, CipherState, StateSoFar
  <2>3. state' = FipsRound(state, K[r + 1])
      BY <1>3, <2>1, AddRoundKeyIs, RoundTyped DEF FipsRound
  <2>4. K[r + 1] \in State
    <3>1. Len(words) \div 4 = Nr + 1
        BY <1>1, <2>1
    <3>2. K \in Seq(State) /\ Len(K) = Nr + 1
        BY <2>1, <3>1, PartsTyped
    <3> QED BY <1>3, <3>2, ElementOfSeq
  <2> HIDE DEF K
  <2>5. state' \in State
      BY <2>1, <2>3, <2>4, RoundTyped, XorStateTyped DEF FipsRound
  <2>6. InRounds'
      BY <1>2, <1>3, <1>5, <2>1, <2>5 DEF InRounds
  <2>7. BlockInv'
      BY <1>1, <1>2, <2>6 DEF BlockInv
  <2>8. F!Round
      BY <1>2, <1>3, <1>4, <2>2, <2>3, CipherMiddle
  <2> QED BY <2>7, <2>8
<1>6. CASE backend = "ni"
  <2>1. /\ rk' = rk /\ rk \in Seq(State) /\ Len(rk) = Nr + 1 /\ state \in State
        /\ state' = FipsRound(state, rk[r + 1])
      BY <1>2, <1>6 DEF Round, InRounds, NiRound, _mm_aesenc_si128
  <2>2. /\ RoundKeys = rk /\ RoundKeys' = rk /\ CipherState = state /\ CipherState' = state'
      BY <1>2, <1>6, <2>1 DEF RoundKeys, KeysSoFar, CipherState, StateSoFar
  <2>3. rk[r + 1] \in State
      BY <1>3, <2>1, ElementOfSeq
  <2>4. state' \in State
      BY <2>1, <2>3, RoundTyped, XorStateTyped DEF FipsRound
  <2>5. InRounds'
      BY <1>2, <1>3, <1>6, <2>1, <2>4 DEF InRounds
  <2>6. BlockInv'
      BY <1>1, <1>2, <2>5 DEF BlockInv
  <2>7. F!Round
      BY <1>2, <1>3, <1>4, <2>1, <2>2, CipherMiddle
  <2> QED BY <2>6, <2>7
<1>7. CASE backend = "arm"
  <2> DEFINE s == XorState(state, rk[r])
  <2>1. /\ rk' = rk /\ rk \in Seq(State) /\ Len(rk) = Nr + 1 /\ state \in State
        /\ state' = MixColumns(ShiftRows(SubBytes(s)))
      BY <1>2, <1>7 DEF Round, InRounds, ArmRound, vaesmcq_u8, vaeseq_u8
  <2>2. /\ RoundKeys = rk /\ RoundKeys' = rk
        /\ CipherState = s /\ CipherState' = XorState(state', rk[r + 1])
      BY <1>2, <1>7, <2>1 DEF RoundKeys, KeysSoFar, CipherState, StateSoFar, r
  <2>3. rk[r] \in State
      BY <1>3, <2>1, ElementOfSeq
  <2>4. s \in State
      BY <2>1, <2>3, XorStateTyped
  <2> HIDE DEF s
  <2>5. state' \in State
      BY <2>1, <2>4, RoundTyped
  <2>6. InRounds'
      BY <1>2, <1>3, <1>7, <2>1, <2>5 DEF InRounds
  <2>7. BlockInv'
      BY <1>1, <1>2, <2>6 DEF BlockInv
  <2>8. CipherState' = FipsRound(CipherState, rk[r + 1])
      BY <2>1, <2>2 DEF FipsRound
  <2>9. F!Round
      BY <1>2, <1>3, <1>4, <2>2, <2>8, CipherMiddle
  <2> QED BY <2>7, <2>9
<1>8. CASE backend = "riscv"
  <2> DEFINE m == round_middle(state)
  <2>1. /\ rk' = rk /\ rk \in Seq(HalfState) /\ Len(rk) = Nr + 1 /\ state \in HalfState
        /\ state' = xor_state(m, rk[r + 1])
      BY <1>2, <1>8 DEF Round, InRounds, RiscvRound
  <2>2. /\ RoundKeys = Joined(rk) /\ RoundKeys' = Joined(rk)
        /\ CipherState = store_state(state) /\ CipherState' = store_state(state')
      BY <1>2, <1>8, <2>1 DEF RoundKeys, KeysSoFar, CipherState, StateSoFar, Joined
  <2>3. rk[r + 1] \in HalfState
      BY <1>3, <2>1, ElementOfSeq
  <2>4. Joined(rk)[r + 1] = store_state(rk[r + 1])
      BY <1>3, <2>1, JoinedTyped
  <2>5. m \in HalfState /\ store_state(m) = MixColumns(ShiftRows(SubBytes(store_state(state))))
      BY <2>1, RoundHalves
  <2> HIDE DEF m
  <2>6. state' \in HalfState /\ store_state(state') = XorState(store_state(m), store_state(rk[r + 1]))
      BY <2>1, <2>3, <2>5, XorHalves
  <2>7. CipherState' = FipsRound(CipherState, Joined(rk)[r + 1])
      BY <2>2, <2>4, <2>5, <2>6 DEF FipsRound
  <2>8. InRounds'
      BY <1>2, <1>3, <1>8, <2>1, <2>6 DEF InRounds
  <2>9. BlockInv'
      BY <1>1, <1>2, <2>8 DEF BlockInv
  <2>10. F!Round
      BY <1>2, <1>3, <1>4, <2>2, <2>7, CipherMiddle
  <2> QED BY <2>9, <2>10
<1> QED BY <1>2, <1>5, <1>6, <1>7, <1>8 DEF Backends

(* The last round mixes no columns, and leaves the result and no keys.     *)
LEMMA LastRoundStep ==
    ASSUME BlockInv, LastRound
    PROVE  BlockInv' /\ F!Last
<1>1. call \in Calls /\ Nr \in Nat
    BY CallTyped DEF BlockInv
<1>2. /\ step = "rounds" /\ step' = "done" /\ round + 1 = Nr /\ round' = Nr
      /\ backend' = backend /\ call' = call /\ backend \in Backends
      /\ out' = (IF backend = "riscv" THEN store_state(state') ELSE state')
      /\ InRounds
    BY DEF LastRound, BlockInv, IsLastRound
<1>3. /\ Nr + 1 \in Nat /\ Nr < Nr + 1 /\ round = Nr - 1
      /\ Nr \in 1 .. Nr + 1 /\ Nr + 1 \in 1 .. Nr + 1
    BY <1>1, <1>2 DEF InRounds
<1>4. BlockInv'
    BY <1>1, <1>2 DEF BlockInv
<1>5. /\ CipherRound = Nr - 1 /\ CipherRound' = Nr /\ RoundKeys' = <<>> /\ CipherState' = out'
    BY <1>2, <1>3 DEF CipherRound, RoundKeys, CipherState
<1>6. CipherState' = FipsLastRound(CipherState, RoundKeys[Nr + 1])
  <2>1. CASE backend = "soft"
    <3>1. /\ words \in Seq(Word) /\ Len(words) = 4 * (Nr + 1) /\ state \in State
          /\ state' = add_round_key(shift_rows(sub_bytes(state)), words, Nr)
        BY <1>2, <2>1 DEF LastRound, InRounds, SoftLast
    <3>2. RoundKeys = KeyParts(words) /\ CipherState = state /\ CipherState' = state'
        BY <1>2, <1>5, <2>1 DEF RoundKeys, KeysSoFar, CipherState, StateSoFar
    <3> QED BY <1>1, <1>3, <3>1, <3>2, AddRoundKeyIs, RoundTyped DEF FipsLastRound
  <2>2. CASE backend = "ni"
    <3>1. state' = FipsLastRound(state, rk[Nr + 1])
        BY <2>2 DEF LastRound, NiLast, _mm_aesenclast_si128
    <3>2. RoundKeys = rk /\ CipherState = state /\ CipherState' = state'
        BY <1>2, <1>5, <2>2 DEF RoundKeys, KeysSoFar, CipherState, StateSoFar
    <3> QED BY <3>1, <3>2
  <2>3. CASE backend = "arm"
    <3>1. state' = XorState(ShiftRows(SubBytes(XorState(state, rk[Nr]))), rk[Nr + 1])
        BY <2>3 DEF LastRound, ArmLast, vaeseq_u8
    <3>2. RoundKeys = rk /\ CipherState = XorState(state, rk[Nr]) /\ CipherState' = state'
        BY <1>2, <1>5, <2>3 DEF RoundKeys, KeysSoFar, CipherState, StateSoFar
    <3> QED BY <3>1, <3>2 DEF FipsLastRound
  <2>4. CASE backend = "riscv"
    <3> DEFINE f == round_final(state)
    <3>1. /\ rk \in Seq(HalfState) /\ Len(rk) = Nr + 1 /\ state \in HalfState
          /\ state' = xor_state(f, rk[Nr + 1])
        BY <1>2, <2>4 DEF LastRound, InRounds, RiscvLast
    <3>2. RoundKeys = Joined(rk) /\ CipherState = store_state(state) /\ CipherState' = store_state(state')
        BY <1>2, <1>5, <2>4 DEF RoundKeys, KeysSoFar, CipherState, StateSoFar, Joined
    <3>3. rk[Nr + 1] \in HalfState
        BY <1>3, <3>1, ElementOfSeq
    <3>4. Joined(rk)[Nr + 1] = store_state(rk[Nr + 1])
        BY <1>3, <3>1, JoinedTyped
    <3>5. f \in HalfState /\ store_state(f) = ShiftRows(SubBytes(store_state(state)))
        BY <3>1, RoundHalves
    <3> HIDE DEF f
    <3>6. store_state(state') = XorState(store_state(f), store_state(rk[Nr + 1]))
        BY <3>1, <3>3, <3>5, XorHalves
    <3> QED BY <3>2, <3>4, <3>5, <3>6 DEF FipsLastRound
  <2> QED BY <1>2, <2>1, <2>2, <2>3, <2>4 DEF Backends
<1>7. F!Last
    BY <1>2, <1>5, <1>6, CipherLast
<1> QED BY <1>4, <1>7

LEMMA NextBlockInv ==
    BlockInv /\ [BlockNext]_blockVars =>
        BlockInv' /\ [F!Expand \/ F!Begin \/ F!Round \/ F!Last]_(F!vars)
<1> SUFFICES ASSUME BlockInv, [BlockNext]_blockVars
             PROVE  BlockInv' /\ [F!Expand \/ F!Begin \/ F!Round \/ F!Last]_(F!vars)
    OBVIOUS
<1>1. CASE Start
    BY <1>1, StartStep
<1>2. CASE ExpandWords
    BY <1>2, ExpandWordsStep
<1>3. CASE ExpandRegisters
    BY <1>3, ExpandRegistersStep
<1>4. CASE Load
    BY <1>4, LoadStep
<1>5. CASE Round
    BY <1>5, RoundStep
<1>6. CASE LastRound
    BY <1>6, LastRoundStep
<1>7. CASE UNCHANGED blockVars
  <2>1. Nr' = Nr
      BY <1>7 DEF blockVars, Nr
  <2>2. BlockInv'
      BY <1>7, <2>1 DEF blockVars, BlockInv, Expanding, InRounds
  <2>3. /\ call' = call /\ RoundKeys' = RoundKeys /\ CipherRound' = CipherRound
        /\ CipherState' = CipherState
      BY <1>7 DEF blockVars, RoundKeys, KeysSoFar, CipherRound, CipherState, StateSoFar
  <2> QED BY <2>2, <2>3, CipherVars
<1> QED BY <1>1, <1>2, <1>3, <1>4, <1>5, <1>6, <1>7 DEF BlockNext

(* For every key of 16 or 32 bytes and every block, each of the four       *)
(* backends performs the encryption of FIPS-197, round key by round key    *)
(* and round by round: ct_sbox, gmul and the round constants agree with    *)
(* the standard on all bytes (TablesAssumption, which TLC evaluates), and  *)
(* the schedules and round loops put every word in its place.              *)
THEOREM BackendsImplementFips == BlockSpec => ImplementsCipher
<1>1. BlockInit => BlockInv /\ F!Init
    BY InitBlockInv
<1>2. BlockInv /\ [BlockNext]_blockVars =>
        BlockInv' /\ [F!Expand \/ F!Begin \/ F!Round \/ F!Last]_(F!vars)
    BY NextBlockInv
<1> QED BY <1>1, <1>2, PTL DEF BlockSpec, ImplementsCipher, F!Spec
-----------------------------------------------------------------------------
(* The hash functions.  U_1 .. U_n of block b of the derived key.          *)
Us(b, n) == {[salted |-> Big4(b), n |-> k] : k \in 1 .. n}
Half(b) == Us(b, Max({1, job.iterations}))

(* Which function a phase belongs to.                                      *)
PhaseOK ==
    /\ job \in Jobs
    /\ phase \in {"absorb", "length"} => job.f = "sha256"
    /\ phase = "hmac" => job.f = "hmac"
    /\ phase \in {"u1", "iterate"} => job.f = "pbkdf2"

(* The counter i is one ahead of the U's in t_block, unless it has         *)
(* wrapped, and then the loop does not end.                                *)
Deriving ==
    /\ phase \in {"u1", "iterate"} =>
         \/ block_idx = 1 /\ result = <<>>
         \/ block_idx = 2 /\ result = <<Half(1)>>
    /\ phase = "iterate" =>
         /\ i \in 0 .. CounterMod - 1
         /\ job.iterations < CounterMod - 1 =>
              /\ i >= 2 /\ i <= Max({1, job.iterations}) + 1
              /\ u = [salted |-> Big4(block_idx), n |-> i - 1]
              /\ t_block = Us(block_idx, i - 1)

KdfInv == PhaseOK /\ Deriving /\ HmacIsRfc2104 /\ Pbkdf2IsRfc8018

LEMMA MaxOfOne ==
    ASSUME NEW n \in Nat PROVE Max({1, n}) = IF n > 1 THEN n ELSE 1
<1> DEFINE m == IF n > 1 THEN n ELSE 1
<1>1. m \in {1, n} /\ \A z \in {1, n} : m >= z
    OBVIOUS
<1>2. \A x \in {1, n} : (\A z \in {1, n} : x >= z) => x = m
    OBVIOUS
<1> QED BY <1>1, <1>2 DEF Max

LEMMA MinOfTwo ==
    ASSUME NEW n \in Int, NEW c \in Int, n <= c PROVE Min({n, c}) = n
<1>1. n \in {n, c} /\ \A z \in {n, c} : n <= z
    OBVIOUS
<1>2. \A x \in {n, c} : (\A z \in {n, c} : x <= z) => x = n
    OBVIOUS
<1> QED BY <1>1, <1>2 DEF Min

LEMMA AppendSecond ==
    ASSUME NEW first, NEW second PROVE Append(<<first>>, second) = <<first, second>>
<1> DEFINE S == {first, second}
           a == <<first>>
           b == <<first, second>>
           c == Append(a, second)
<1>1. a \in Seq(S) /\ Len(a) = 1 /\ a[1] = first
    OBVIOUS
<1>2. b \in Seq(S) /\ Len(b) = 2 /\ b[1] = first /\ b[2] = second
    OBVIOUS
<1>3. second \in S
    OBVIOUS
<1> HIDE DEF S, a, b
<1>4. c \in Seq(S) /\ Len(c) = 2 /\ c[1] = first /\ c[2] = second
  <2>1. c \in Seq(S)
      BY <1>1, <1>3, AppendProperties
  <2>2. Len(c) = Len(a) + 1
      BY <1>1, <1>3, AppendProperties
  <2>3. \A k \in 1 .. Len(a) : c[k] = a[k]
      BY <1>1, <1>3, AppendProperties
  <2>4. c[Len(a) + 1] = second
      BY <1>1, <1>3, AppendProperties
  <2> HIDE DEF c
  <2> QED BY <1>1, <2>1, <2>2, <2>3, <2>4
<1> HIDE DEF c
<1>5. \A k \in 1 .. Len(b) : c[k] = b[k]
    BY <1>1, <1>2, <1>4
<1>6. c = b
    BY <1>1, <1>2, <1>4, <1>5, SeqEqual
<1> QED BY <1>6 DEF a, b, c

(* A buffer of sufficient capacity keeps what is written to it.            *)
LEMMA ReadBackWhole ==
    ASSUME NEW S, NEW s \in Seq(S), NEW c \in Nat, Len(s) <= c
    PROVE  ReadBack(s, c) = s
<1>1. ReadBack(s, c) = [k \in 1 .. Len(s) |-> s[k]]
    BY DEF ReadBack
<1> QED BY <1>1

(* The buffer of hmac_sha256 is one of those.                              *)
LEMMA HmacIsReference ==
    ASSUME NEW keyLen \in Nat, NEW len \in Nat,
           NEW k0, k0 = IF Len(Message(keyLen)) > BlockBytes
                        THEN DigestOf(Message(keyLen)) ELSE Message(keyLen)
    PROVE  hmac_sha256(Message(keyLen), Message(len)) =
             DigestOf(PaddedKey(k0, 92) \o
               DigestOf(PaddedKey(k0, 54) \o Message(len)))
<1> DEFINE p == PaddedKey(k0, 54)
           m == Message(len)
           S == {p[k] : k \in 1 .. BlockBytes} \cup {m[k] : k \in 1 .. len}
<1>1. BlockBytes \in Nat /\ kInlineCap \in Nat
    BY Sha256Assumption
<1>2. p \in Seq(S) /\ Len(p) = BlockBytes
  <2>1. p \in [1 .. BlockBytes -> S]
      BY DEF PaddedKey
  <2> QED BY <1>1, <2>1, SeqDef
<1>3. m \in Seq(S) /\ Len(m) = len
  <2>1. m \in [1 .. len -> S]
      BY DEF Message
  <2> QED BY <2>1, SeqDef
<1> HIDE DEF p, m, S
<1>4. p \o m \in Seq(S) /\ Len(p \o m) = BlockBytes + len
    BY <1>1, <1>2, <1>3
<1>5. InnerCapacity(Len(m)) \in Nat /\ BlockBytes + len <= InnerCapacity(Len(m))
    BY <1>1, <1>3 DEF InnerCapacity
<1>6. ReadBack(p \o m, InnerCapacity(Len(m))) = p \o m
    BY <1>4, <1>5, ReadBackWhole
<1> QED BY <1>6 DEF hmac_sha256, p, m

LEMMA InitKdfInv == HashInit => KdfInv
<1> SUFFICES ASSUME HashInit PROVE KdfInv
    OBVIOUS
<1>1. job \in Jobs /\ job.f \in {"sha256", "hmac", "pbkdf2"}
    BY JobsAssumption DEF HashInit
<1>2. /\ phase = (CASE job.f = "sha256" -> "absorb" [] job.f = "hmac" -> "hmac"
                 [] job.f = "pbkdf2" -> "u1")
      /\ block_idx = 1 /\ result = <<>>
    BY DEF HashInit
<1>3. PhaseOK /\ phase \notin {"iterate", "done"}
    BY <1>1, <1>2 DEF PhaseOK
<1> QED BY <1>2, <1>3 DEF KdfInv, Deriving, HmacIsRfc2104, Pbkdf2IsRfc8018

(* The iterations of a job fit the i.                                *)
LEMMA IterationsFit ==
    ASSUME job \in Jobs, job.f = "pbkdf2"
    PROVE  /\ CounterMod \in Nat /\ CounterMod > 2 /\ job.iterations \in 0 .. CounterMod - 1
BY Sha256Assumption, JobsAssumption

LEMMA NextKdfInv == KdfInv /\ [HashNext]_hashVars => KdfInv'
<1> SUFFICES ASSUME KdfInv, [HashNext]_hashVars PROVE KdfInv'
    OBVIOUS
<1>1. CASE Absorb \/ Pad
    BY <1>1 DEF Absorb, Pad, KdfInv, PhaseOK, Deriving, HmacIsRfc2104, Pbkdf2IsRfc8018
<1>2. CASE PadLength
    BY <1>2 DEF PadLength, KdfInv, PhaseOK, Deriving, HmacIsRfc2104, Pbkdf2IsRfc8018
<1>3. CASE Hmac
  <2>1. /\ phase = "hmac" /\ phase' = "done" /\ job' = job /\ job \in Jobs /\ job.f = "hmac"
        /\ result' = hmac_sha256(Message(job.keyLen), Message(job.len))
      BY <1>3 DEF Hmac, KdfInv, PhaseOK
  <2>2. job.keyLen \in Nat /\ job.len \in Nat
      BY <2>1, JobsAssumption
  <2>3. HmacIsRfc2104'
    <3> DEFINE key == Message(job.keyLen)
               k0 == IF Len(key) <= BlockBytes THEN key ELSE DigestOf(key)
    <3>1. Len(key) = job.keyLen
        BY <2>2 DEF Message
    <3>2. k0 = IF Len(key) > BlockBytes THEN DigestOf(key) ELSE key
        BY <3>1, <2>2, Sha256Assumption
    <3>3. result' = DigestOf(PaddedKey(k0, 92) \o
                       DigestOf(PaddedKey(k0, 54) \o Message(job.len)))
      <4> HIDE DEF k0
      <4> QED BY <2>1, <2>2, <3>2, HmacIsReference
    <3> QED BY <2>1, <3>3 DEF HmacIsRfc2104
  <2> QED BY <2>1, <2>3 DEF KdfInv, PhaseOK, Deriving, Pbkdf2IsRfc8018
<1>4. CASE U1
  <2>1. /\ phase = "u1" /\ phase' = "iterate" /\ job' = job /\ block_idx' = block_idx
        /\ result' = result /\ u' = FirstU(block_idx) /\ t_block' = {u'} /\ i' = 2
      BY <1>4 DEF U1
  <2>2. job \in Jobs /\ job.f = "pbkdf2" /\ PhaseOK'
      BY <2>1 DEF KdfInv, PhaseOK
  <2>3. /\ CounterMod \in Nat /\ CounterMod > 2 /\ job.iterations \in 0 .. CounterMod - 1
      BY <2>2, IterationsFit
  <2>4. t_block' = Us(block_idx, 1)
      BY <2>1 DEF Us, FirstU
  <2>5. Max({1, job.iterations}) >= 1 /\ Max({1, job.iterations}) \in Nat
      BY <2>3, MaxOfOne
  <2>6. Half(1)' = Half(1)
      BY <2>1 DEF Half, Us, Big4
  <2>7. Deriving'
      BY <2>1, <2>3, <2>4, <2>5, <2>6 DEF KdfInv, Deriving, FirstU
  <2> QED BY <2>1, <2>2, <2>7 DEF KdfInv, HmacIsRfc2104, Pbkdf2IsRfc8018
<1>5. CASE Iterate
  <2>1. /\ phase = "iterate" /\ phase' = phase /\ job' = job /\ block_idx' = block_idx
        /\ result' = result /\ u' = Prf(u) /\ i <= job.iterations
        /\ t_block' = SymDiff(t_block, {u'}) /\ i' = Increment(i)
      BY <1>5 DEF Iterate
  <2>2. job \in Jobs /\ job.f = "pbkdf2" /\ PhaseOK'
      BY <2>1 DEF KdfInv, PhaseOK
  <2>3. /\ CounterMod \in Nat /\ CounterMod > 2 /\ job.iterations \in 0 .. CounterMod - 1
        /\ i \in 0 .. CounterMod - 1
      BY <2>1, <2>2, IterationsFit DEF KdfInv, Deriving
  <2>4. i' \in 0 .. CounterMod - 1
      BY <2>1, <2>3 DEF Increment
  <2>5. ASSUME job.iterations < CounterMod - 1
        PROVE  /\ i' >= 2 /\ i' <= Max({1, job.iterations}) + 1
               /\ u' = [salted |-> Big4(block_idx), n |-> i' - 1]
               /\ t_block' = Us(block_idx, i' - 1)
    <3>1. /\ i >= 2 /\ u = [salted |-> Big4(block_idx), n |-> i - 1]
          /\ t_block = Us(block_idx, i - 1)
        BY <2>1, <2>5 DEF KdfInv, Deriving
    <3>2. i' = i + 1
        BY <2>1, <2>3, <2>5 DEF Increment
    <3>3. Max({1, job.iterations}) = job.iterations
        BY <2>1, <2>3, <3>1, MaxOfOne
    <3>4. Min({(i - 1) + 1, ChainCap}) = i
        BY <2>3, <3>1, MinOfTwo DEF ChainCap
    <3>5. u' = [salted |-> Big4(block_idx), n |-> i]
        BY <2>1, <3>1, <3>4 DEF Prf
    <3>6. u' \notin t_block
      <4>1. ASSUME NEW k \in 1 .. i - 1,
                   u' = [salted |-> Big4(block_idx), n |-> k]
            PROVE  FALSE
        <5>1. u'.n = k /\ u'.n = i
            BY <3>5, <4>1
        <5> QED BY <5>1, <2>3, <3>1
      <4> QED BY <4>1, <3>1 DEF Us
    <3>7. t_block' = t_block \cup {u'}
        BY <2>1, <3>6 DEF SymDiff
    <3>8. 1 .. i = (1 .. i - 1) \cup {i}
        BY <2>3, <3>1
    <3>9. Us(block_idx, i) = Us(block_idx, i - 1) \cup {u'}
        BY <3>5, <3>8 DEF Us
    <3>10. i' - 1 = i
        BY <2>3, <3>2
    <3>11. i' >= 2 /\ i' <= Max({1, job.iterations}) + 1
        BY <2>1, <2>3, <3>1, <3>2, <3>3
    <3> QED BY <3>1, <3>5, <3>7, <3>9, <3>10, <3>11
  <2>6. Half(1)' = Half(1)
      BY <2>1 DEF Half, Us, Big4
  <2>7. Deriving'
      BY <2>1, <2>3, <2>4, <2>5, <2>6 DEF KdfInv, Deriving
  <2> QED BY <2>1, <2>2, <2>7 DEF KdfInv, HmacIsRfc2104, Pbkdf2IsRfc8018
<1>6. CASE CopyBlock
  <2>1. /\ phase = "iterate" /\ phase' = (IF block_idx = 2 THEN "done" ELSE "u1") /\ job' = job
        /\ block_idx' = block_idx + 1 /\ result' = Append(result, t_block)
        /\ i > job.iterations
      BY <1>6 DEF CopyBlock
  <2>2. job \in Jobs /\ job.f = "pbkdf2" /\ PhaseOK'
      BY <2>1 DEF KdfInv, PhaseOK
  <2>3. /\ CounterMod \in Nat /\ CounterMod > 2 /\ job.iterations \in 0 .. CounterMod - 1
        /\ i \in 0 .. CounterMod - 1
      BY <2>1, <2>2, IterationsFit DEF KdfInv, Deriving
  <2>4. i - 1 = Max({1, job.iterations}) /\ t_block = Us(block_idx, i - 1)
    <3>1. /\ i >= 2 /\ i <= Max({1, job.iterations}) + 1
          /\ t_block = Us(block_idx, i - 1)
        BY <2>1, <2>3 DEF KdfInv, Deriving
    <3>2. Max({1, job.iterations}) = IF job.iterations > 1 THEN job.iterations ELSE 1
        BY <2>3, MaxOfOne
    <3> QED BY <2>1, <2>3, <3>1, <3>2
  <2>5. t_block = Half(block_idx)
      BY <2>4 DEF Half
  <2>6. Half(1)' = Half(1)
      BY <2>1 DEF Half, Us, Big4
  <2>7. \/ block_idx = 1 /\ result' = <<Half(1)>>
        \/ block_idx = 2 /\ result' = <<Half(1), Half(2)>>
    <3>1. \/ block_idx = 1 /\ result = <<>>
          \/ block_idx = 2 /\ result = <<Half(1)>>
        BY <2>1 DEF KdfInv, Deriving
    <3>2. CASE block_idx = 1 /\ result = <<>>
        BY <2>1, <2>5, <3>2
    <3>3. CASE block_idx = 2 /\ result = <<Half(1)>>
        BY <2>1, <2>5, <3>3, AppendSecond
    <3> QED BY <3>1, <3>2, <3>3
  <2>8. block_idx = 2 => result' = [b \in 1 .. 2 |-> Half(b)]
      BY <2>7
  <2>9. Pbkdf2IsRfc8018'
      BY <2>1, <2>8 DEF Pbkdf2IsRfc8018, Half, Us
  <2> QED BY <2>1, <2>2, <2>6, <2>7, <2>9 DEF KdfInv, Deriving, HmacIsRfc2104
<1>7. CASE UNCHANGED hashVars
    BY <1>7 DEF hashVars, KdfInv, PhaseOK, Deriving, Half, Us, HmacIsRfc2104, Pbkdf2IsRfc8018
<1> QED BY <1>1, <1>2, <1>3, <1>4, <1>5, <1>6, <1>7 DEF HashNext

(* For every counter width t_block holds exactly the U's below the counter *)
(* and the first half of the derived key is complete before the second.    *)
THEOREM KdfInvariance == HashSpec => []KdfInv
BY InitKdfInv, NextKdfInv, PTL DEF HashSpec

(* For every block size, size of the fixed buffer, key and data length     *)
(* hmac_sha256 computes HMAC of RFC 2104 over the whole key and data.      *)
THEOREM HmacMatchesRfc == HashSpec => []HmacIsRfc2104
<1>1. KdfInv => HmacIsRfc2104
    BY DEF KdfInv
<1> QED BY <1>1, KdfInvariance, PTL

(* For every counter width and iteration count pbkdf2_hmac_sha256 returns, *)
(* if it returns, the halves of RFC 8018, each of its own block index.     *)
THEOREM Pbkdf2MatchesRfc == HashSpec => []Pbkdf2IsRfc8018
<1>1. KdfInv => Pbkdf2IsRfc8018
    BY DEF KdfInv
<1> QED BY <1>1, KdfInvariance, PTL
-----------------------------------------------------------------------------
(* The padding of sha256.  A byte of a block is a byte of the message, one *)
(* that the padding wrote, or one that was never written.                  *)
BlockByte == {"m", "byte", "uninitialised"} \X Nat
Block == [1 .. BlockBytes -> BlockByte]

(* Where block b starts in what has been compressed.                       *)
Start0(b) == (b - 1) * BlockBytes

(* Before the length field, every compressed byte and every byte of the    *)
(* buffer below block_len is the byte of the padded message at its place;  *)
(* the message loop has reached it, or the 0x80 is the last or the first   *)
(* padding block is out.                                                   *)
Padding ==
    /\ hashed \in Seq(Block) /\ block \in Block
    /\ \A b \in 1 .. Len(hashed), k \in 1 .. BlockBytes :
         hashed[b][k] = Unfinished(job.len, Start0(b) + k)
    /\ \A k \in 1 .. block_len :
         block[k] = Unfinished(job.len, Len(hashed) * BlockBytes + k)
    /\ phase = "absorb" =>
         /\ block_len \in 0 .. BlockBytes - 1 /\ i \in Nat
         /\ i = Len(hashed) * BlockBytes + block_len /\ i <= job.len
    /\ phase = "length" =>
         /\ block_len \in 0 .. BlockBytes - LengthBytes
         /\ job.len + 1 <= Len(hashed) * BlockBytes + block_len
         /\ Len(hashed) * BlockBytes < job.len + 1 + LengthBytes

PaddingInv ==
    /\ PhaseOK
    /\ phase \in {"absorb", "length"} => Padding
    /\ PaddingIsFips

LEMMA SizesAreNatural ==
    /\ BlockBytes \in Nat /\ BlockBytes > 0 /\ LengthBytes \in Nat /\ LengthBytes > 0
    /\ LengthBytes < BlockBytes
BY Sha256Assumption

(* Blocks are adjacent, and each ends where the next one starts at most.   *)
LEMMA BlocksAdjacent ==
    ASSUME NEW n \in Nat
    PROVE  /\ n * BlockBytes \in Nat /\ (n + 1) * BlockBytes = n * BlockBytes + BlockBytes
           /\ Start0(n + 1) = n * BlockBytes
           /\ \A b \in 1 .. n, k \in 1 .. BlockBytes :
                Start0(b) + k \in Nat /\ Start0(b) + k <= n * BlockBytes
<1>1. BlockBytes \in Nat
    BY SizesAreNatural
<1>2. n * BlockBytes \in Nat /\ (n + 1) * BlockBytes = n * BlockBytes + BlockBytes
    BY <1>1
<1>3. Start0(n + 1) = n * BlockBytes
    BY <1>1 DEF Start0
<1>4. ASSUME NEW b \in 1 .. n, NEW k \in 1 .. BlockBytes
      PROVE  Start0(b) + k \in Nat /\ Start0(b) + k <= n * BlockBytes
  <2>1. (b - 1) * BlockBytes \in Nat /\ b * BlockBytes = (b - 1) * BlockBytes + BlockBytes
      BY <1>1
  <2>2. b * BlockBytes <= n * BlockBytes
    <3> DEFINE d == n - b
    <3>1. d \in Nat /\ n = b + d
        OBVIOUS
    <3>2. d * BlockBytes \in Nat /\ (b + d) * BlockBytes = b * BlockBytes + d * BlockBytes
      <4> HIDE DEF d
      <4> QED BY <1>1, <3>1
    <3> HIDE DEF d
    <3>3. b * BlockBytes \in Nat
        BY <1>1
    <3> QED BY <3>1, <3>2, <3>3
  <2> QED BY <1>1, <2>1, <2>2 DEF Start0
<1> QED BY <1>2, <1>3, <1>4

(* A complete block at its place extends what has been compressed.         *)
LEMMA AppendBlock ==
    ASSUME NEW s \in Seq(Block), NEW blk \in Block, NEW n \in Nat,
           \A b \in 1 .. Len(s), k \in 1 .. BlockBytes : s[b][k] = Unfinished(n, Start0(b) + k),
           \A k \in 1 .. BlockBytes : blk[k] = Unfinished(n, Len(s) * BlockBytes + k)
    PROVE  /\ Append(s, blk) \in Seq(Block) /\ Len(Append(s, blk)) = Len(s) + 1
           /\ \A b \in 1 .. Len(Append(s, blk)), k \in 1 .. BlockBytes :
                Append(s, blk)[b][k] = Unfinished(n, Start0(b) + k)
<1> DEFINE t == Append(s, blk)
<1>1. t \in Seq(Block) /\ Len(t) = Len(s) + 1
    BY AppendProperties
<1>2. \A b \in 1 .. Len(s) : t[b] = s[b]
    BY AppendProperties
<1>3. t[Len(s) + 1] = blk
    BY AppendProperties
<1>4. Start0(Len(s) + 1) = Len(s) * BlockBytes
    BY BlocksAdjacent
<1> HIDE DEF t
<1>5. ASSUME NEW b \in 1 .. Len(t), NEW k \in 1 .. BlockBytes
      PROVE  t[b][k] = Unfinished(n, Start0(b) + k)
  <2>1. CASE b = Len(s) + 1
      BY <1>3, <1>4, <2>1
  <2>2. CASE b \in 1 .. Len(s)
      BY <1>2, <2>2
  <2> QED BY <1>1, <2>1, <2>2
<1> QED BY <1>1, <1>5 DEF t

LEMMA BytesOfBlocks ==
    /\ Uninit \in BlockByte /\ Zero \in BlockByte /\ OneBit \in BlockByte
    /\ \A n \in Nat : \A k \in 1 .. n : Message(n)[k] \in BlockByte
BY DEF BlockByte, Uninit, Zero, OneBit, Message

LEMMA InitPaddingInv == HashInit => PaddingInv
<1> SUFFICES ASSUME HashInit PROVE PaddingInv
    OBVIOUS
<1>1. PhaseOK /\ phase # "length" /\ phase # "done"
  <2>1. KdfInv
      BY InitKdfInv
  <2>2. job.f \in {"sha256", "hmac", "pbkdf2"}
      BY JobsAssumption DEF HashInit
  <2> QED BY <2>1, <2>2 DEF KdfInv, HashInit
<1>2. ASSUME phase = "absorb" PROVE Padding
  <2>1. job.f = "sha256" /\ job.len \in Nat
      BY <1>1, <1>2, JobsAssumption DEF PhaseOK
  <2>2. hashed = <<>> /\ block_len = 0 /\ i = 0 /\ block = [k \in 1 .. BlockBytes |-> Uninit]
      BY DEF HashInit
  <2>3. hashed \in Seq(Block) /\ Len(hashed) = 0
      BY <2>2
  <2>4. block \in Block
      BY <2>2, BytesOfBlocks DEF Block
  <2>5. 0 * BlockBytes = 0
      BY SizesAreNatural
  <2> QED BY <1>1, <2>1, <2>2, <2>3, <2>4, <2>5, SizesAreNatural DEF Padding
<1> QED BY <1>1, <1>2 DEF PaddingInv, PaddingIsFips

LEMMA AbsorbPadding ==
    ASSUME Padding, PhaseOK, Absorb PROVE Padding'
<1> DEFINE n == job.len
           filled == [block EXCEPT ![block_len + 1] = Message(job.len)[i + 1]]
<1>1. /\ phase = "absorb" /\ phase' = "absorb" /\ job' = job /\ i' = i + 1 /\ i < job.len
      /\ block' = filled
      /\ IF block_len + 1 = BlockBytes
         THEN block_len' = 0 /\ hashed' = Append(hashed, filled)
         ELSE block_len' = block_len + 1 /\ hashed' = hashed
    BY DEF Absorb
<1>2. n \in Nat
    BY <1>1, JobsAssumption DEF PhaseOK
<1>3. /\ BlockBytes \in Nat /\ BlockBytes > 0
      /\ hashed \in Seq(Block) /\ block \in Block /\ Len(hashed) \in Nat
      /\ Len(hashed) * BlockBytes \in Nat
      /\ block_len \in 0 .. BlockBytes - 1 /\ i \in Nat
      /\ i = Len(hashed) * BlockBytes + block_len
  <2>1. BlockBytes \in Nat /\ BlockBytes > 0
      BY SizesAreNatural
  <2>2. /\ hashed \in Seq(Block) /\ block \in Block
        /\ block_len \in 0 .. BlockBytes - 1 /\ i \in Nat
        /\ i = Len(hashed) * BlockBytes + block_len
      BY <1>1 DEF Padding
  <2>3. Len(hashed) \in Nat
      BY <2>2
  <2>4. Len(hashed) * BlockBytes \in Nat
      BY <2>3, BlocksAdjacent
  <2> QED BY <2>1, <2>2, <2>3, <2>4
<1>4. filled \in Block
  <2>1. Message(n)[i + 1] \in BlockByte
      BY <1>1, <1>2, <1>3, BytesOfBlocks
  <2> QED BY <1>3, <2>1 DEF Block
<1>5. \A k \in 1 .. block_len + 1 : filled[k] = Unfinished(n, Len(hashed) * BlockBytes + k)
  <2> TAKE k \in 1 .. block_len + 1
  <2>1. CASE k = block_len + 1
    <3>1. filled[k] = Message(n)[i + 1]
        BY <1>3, <2>1 DEF Block
    <3>2. Len(hashed) * BlockBytes + k = i + 1
        BY <1>3, <2>1
    <3>3. i + 1 <= n
        BY <1>1, <1>2, <1>3
    <3> QED BY <3>1, <3>2, <3>3 DEF Unfinished
  <2>2. CASE k \in 1 .. block_len
    <3>1. filled[k] = block[k]
        BY <1>3, <2>2 DEF Block
    <3>2. block[k] = Unfinished(n, Len(hashed) * BlockBytes + k)
        BY <2>2 DEF Padding
    <3> QED BY <3>1, <3>2
  <2> QED BY <1>3, <2>1, <2>2
<1>6. \A b \in 1 .. Len(hashed), k \in 1 .. BlockBytes :
        hashed[b][k] = Unfinished(n, Start0(b) + k)
    BY DEF Padding
<1>7. i' \in Nat /\ i' <= n
    BY <1>1, <1>2, <1>3
<1> HIDE DEF filled, n
<1>8. CASE block_len + 1 = BlockBytes
  <2>1. hashed' = Append(hashed, filled) /\ block_len' = 0
      BY <1>1, <1>8
  <2>2. /\ hashed' \in Seq(Block) /\ Len(hashed') = Len(hashed) + 1
        /\ \A b \in 1 .. Len(hashed'), k \in 1 .. BlockBytes :
             hashed'[b][k] = Unfinished(n, Start0(b) + k)
    <3>1. hashed \in Seq(Block) /\ filled \in Block
        BY <1>3, <1>4
    <3>2. \A k \in 1 .. BlockBytes : filled[k] = Unfinished(n, Len(hashed) * BlockBytes + k)
        BY <1>5, <1>8
    <3>3. /\ Append(hashed, filled) \in Seq(Block)
          /\ Len(Append(hashed, filled)) = Len(hashed) + 1
          /\ \A b \in 1 .. Len(Append(hashed, filled)), k \in 1 .. BlockBytes :
               Append(hashed, filled)[b][k] = Unfinished(n, Start0(b) + k)
        BY <1>2, <1>6, <3>1, <3>2, AppendBlock, Zenon
    <3> QED BY <2>1, <3>3
  <2>3. Len(hashed') * BlockBytes = Len(hashed) * BlockBytes + BlockBytes
      BY <1>3, <2>2, BlocksAdjacent
  <2>4. i' = Len(hashed') * BlockBytes + block_len'
      BY <1>1, <1>3, <1>8, <2>1, <2>3
  <2> QED BY <1>1, <1>3, <1>4, <1>7, <2>1, <2>2, <2>4 DEF Padding, n, Start0
<1>9. CASE block_len + 1 # BlockBytes
  <2>1. hashed' = hashed /\ block_len' = block_len + 1
      BY <1>1, <1>9
  <2>2. i' = Len(hashed') * BlockBytes + block_len' /\ block_len' \in 0 .. BlockBytes - 1
      BY <1>1, <1>3, <1>9, <2>1
  <2> QED BY <1>1, <1>3, <1>4, <1>5, <1>6, <1>7, <2>1, <2>2 DEF Padding, n, Start0
<1> QED BY <1>8, <1>9

(* The 0x80 and the zeros of a padding block of its own.                   *)
LEMMA PadPadding ==
    ASSUME Padding, PhaseOK, Pad PROVE Padding'
<1> DEFINE n == job.len
           marked == [block EXCEPT ![block_len + 1] = OneBit]
           zeroed == ZeroFrom(marked, block_len + 1, BlockBytes)
<1>1. /\ phase = "absorb" /\ phase' = "length" /\ job' = job /\ i = job.len
      /\ IF NoRoomForLength(block_len + 1)
         THEN block' = zeroed /\ hashed' = Append(hashed, block') /\ block_len' = 0
         ELSE block' = marked /\ block_len' = block_len + 1 /\ hashed' = hashed
    BY DEF Pad
<1>2. n \in Nat
    BY <1>1, JobsAssumption DEF PhaseOK
<1>3. /\ BlockBytes \in Nat /\ LengthBytes \in Nat
      /\ BlockBytes > 0 /\ LengthBytes > 0 /\ LengthBytes < BlockBytes
      /\ hashed \in Seq(Block) /\ block \in Block /\ Len(hashed) \in Nat
      /\ Len(hashed) * BlockBytes \in Nat
      /\ block_len \in 0 .. BlockBytes - 1
      /\ n = Len(hashed) * BlockBytes + block_len
    BY <1>1, SizesAreNatural, BlocksAdjacent DEF Padding
<1>4. marked \in Block
    BY <1>3, BytesOfBlocks DEF Block
<1>5. \A k \in 1 .. block_len + 1 : marked[k] = Unfinished(n, Len(hashed) * BlockBytes + k)
  <2> TAKE k \in 1 .. block_len + 1
  <2>1. CASE k = block_len + 1
    <3>1. marked[k] = OneBit
        BY <1>3, <2>1 DEF Block
    <3>2. Len(hashed) * BlockBytes + k = n + 1
        BY <1>3, <2>1
    <3>3. ~(n + 1 <= n)
        BY <1>2
    <3> QED BY <3>1, <3>2, <3>3 DEF Unfinished
  <2>2. CASE k \in 1 .. block_len
    <3>1. marked[k] = block[k]
        BY <1>3, <2>2 DEF Block
    <3>2. block[k] = Unfinished(n, Len(hashed) * BlockBytes + k)
        BY <2>2 DEF Padding
    <3> QED BY <3>1, <3>2
  <2> QED BY <1>3, <2>1, <2>2
<1>6. \A b \in 1 .. Len(hashed), k \in 1 .. BlockBytes :
        hashed[b][k] = Unfinished(n, Start0(b) + k)
    BY DEF Padding
<1> HIDE DEF marked
<1>7. zeroed \in Block /\ \A k \in 1 .. BlockBytes :
                            zeroed[k] = IF k > block_len + 1 THEN Zero ELSE marked[k]
    BY <1>3, <1>4, BytesOfBlocks DEF ZeroFrom, Block
<1> HIDE DEF zeroed
<1>8. \A k \in 1 .. BlockBytes : zeroed[k] = Unfinished(n, Len(hashed) * BlockBytes + k)
  <2> TAKE k \in 1 .. BlockBytes
  <2>1. CASE k <= block_len + 1
    <3>1. k \in 1 .. block_len + 1 /\ ~(k > block_len + 1)
        BY <1>3, <2>1
    <3> QED BY <1>5, <1>7, <3>1
  <2>2. CASE k > block_len + 1
    <3>1. zeroed[k] = Zero
        BY <1>7, <2>2
    <3>2. /\ ~(Len(hashed) * BlockBytes + k <= n)
          /\ Len(hashed) * BlockBytes + k # n + 1
        BY <1>2, <1>3, <2>2
    <3> QED BY <3>1, <3>2 DEF Unfinished
  <2> QED BY <1>3, <2>1, <2>2
<1> HIDE DEF n
<1>9. CASE NoRoomForLength(block_len + 1)
  <2>1. block' = zeroed /\ hashed' = Append(hashed, zeroed) /\ block_len' = 0
      BY <1>1, <1>9
  <2>2. /\ hashed' \in Seq(Block) /\ Len(hashed') = Len(hashed) + 1
        /\ \A b \in 1 .. Len(hashed'), k \in 1 .. BlockBytes :
             hashed'[b][k] = Unfinished(n, Start0(b) + k)
    <3>1. hashed \in Seq(Block) /\ zeroed \in Block
        BY <1>3, <1>7
    <3>2. \A k \in 1 .. BlockBytes : zeroed[k] = Unfinished(n, Len(hashed) * BlockBytes + k)
        BY <1>8
    <3>3. /\ Append(hashed, zeroed) \in Seq(Block)
          /\ Len(Append(hashed, zeroed)) = Len(hashed) + 1
          /\ \A b \in 1 .. Len(Append(hashed, zeroed)), k \in 1 .. BlockBytes :
               Append(hashed, zeroed)[b][k] = Unfinished(n, Start0(b) + k)
        BY <1>2, <1>6, <3>1, <3>2, AppendBlock, Zenon
    <3> QED BY <2>1, <3>3
  <2>3. Len(hashed') * BlockBytes = Len(hashed) * BlockBytes + BlockBytes
      BY <1>3, <2>2, BlocksAdjacent
  <2>4. block_len + 1 > BlockBytes - LengthBytes
      BY <1>9 DEF NoRoomForLength
  <2>5. /\ n + 1 <= Len(hashed') * BlockBytes + block_len'
        /\ Len(hashed') * BlockBytes < n + 1 + LengthBytes
      BY <1>2, <1>3, <2>1, <2>3, <2>4
  <2> QED BY <1>1, <1>3, <1>7, <2>1, <2>2, <2>5 DEF Padding, n, Start0
<1>10. CASE ~NoRoomForLength(block_len + 1)
  <2>1. block' = marked /\ hashed' = hashed /\ block_len' = block_len + 1
      BY <1>1, <1>10
  <2>2. block_len' \in 0 .. BlockBytes - LengthBytes
      BY <1>3, <1>10, <2>1 DEF NoRoomForLength
  <2>3. /\ n + 1 <= Len(hashed') * BlockBytes + block_len'
        /\ Len(hashed') * BlockBytes < n + 1 + LengthBytes
      BY <1>2, <1>3, <2>1
  <2> QED BY <1>1, <1>3, <1>4, <1>5, <1>6, <2>1, <2>2, <2>3 DEF Padding, n, Start0
<1> QED BY <1>9, <1>10

(* The last block: what is left of the padding, and the length field.      *)
LEMMA LastBlock ==
    ASSUME NEW blk \in Block, NEW n \in Nat, NEW used \in 0 .. BlockBytes - LengthBytes
    PROVE  LET room == BlockBytes - LengthBytes
               last == SubSeq(ZeroFrom(blk, used, room), 1, room) \o u64_to_be(8 * n)
           IN  last = [k \in 1 .. BlockBytes |->
                         IF k <= used THEN blk[k] ELSE IF k <= room THEN Zero
                         ELSE u64_to_be(8 * n)[k - room]]
<1> DEFINE room == BlockBytes - LengthBytes
           z == ZeroFrom(blk, used, room)
           front == SubSeq(z, 1, room)
           field == u64_to_be(8 * n)
           last == front \o field
           S == {z[k] : k \in 1 .. BlockBytes} \cup {field[k] : k \in 1 .. LengthBytes}
<1>1. BlockBytes \in Nat /\ LengthBytes \in Nat /\ room \in Nat /\ room + LengthBytes = BlockBytes
    BY SizesAreNatural
<1>2. z = [k \in 1 .. BlockBytes |-> IF k > used /\ k <= room THEN Zero ELSE blk[k]]
    BY DEF ZeroFrom
<1>3. z \in Seq(S) /\ Len(z) = BlockBytes
  <2>1. z \in [1 .. BlockBytes -> S]
      BY <1>2
  <2> HIDE DEF z, S
  <2> QED BY <1>1, <2>1, SeqDef
<1>4. field \in Seq(S) /\ Len(field) = LengthBytes
  <2>1. field \in [1 .. LengthBytes -> S]
      BY DEF u64_to_be
  <2> HIDE DEF field, S
  <2> QED BY <1>1, <2>1, SeqDef
<1> HIDE DEF S, z, field, room
<1>5. front \in Seq(S) /\ Len(front) = room /\ \A k \in 1 .. room : front[k] = z[k]
  <2>1. 1 \in 1 .. Len(z) + 1 /\ room \in 0 .. Len(z)
      BY <1>1, <1>3
  <2> QED BY <1>1, <1>3, <2>1
<1> HIDE DEF front
<1>6. last \in Seq(S) /\ Len(last) = BlockBytes
    BY <1>1, <1>4, <1>5
<1>7. \A k \in 1 .. BlockBytes : last[k] = IF k <= room THEN front[k] ELSE field[k - room]
    BY <1>1, <1>4, <1>5
<1> HIDE DEF last
<1>8. \A k \in 1 .. BlockBytes :
        last[k] = IF k <= used THEN blk[k] ELSE IF k <= room THEN Zero ELSE field[k - room]
  <2> TAKE k \in 1 .. BlockBytes
  <2>1. used \in Nat /\ used <= room
      BY <1>1 DEF room
  <2>2. CASE k <= room
    <3>1. last[k] = z[k]
        BY <1>5, <1>7, <2>2
    <3> QED BY <1>2, <2>1, <2>2, <3>1
  <2>3. CASE ~(k <= room)
    <3>1. ~(k <= used)
        BY <1>1, <2>1, <2>3
    <3> QED BY <1>7, <2>3, <3>1
  <2> QED BY <2>2, <2>3
<1>9. last = [k \in 1 .. BlockBytes |-> last[k]]
  <2>1. last = [k \in 1 .. Len(last) |-> last[k]]
      BY <1>6
  <2> QED BY <1>6, <2>1
<1>10. last = [k \in 1 .. BlockBytes |->
                 IF k <= used THEN blk[k] ELSE IF k <= room THEN Zero ELSE field[k - room]]
    BY <1>8, <1>9
<1> QED BY <1>10 DEF last, front, z, field, room

LEMMA LengthPadding ==
    ASSUME Padding, PhaseOK, phase = "length", PadLength PROVE PaddingIsFips'
<1> DEFINE n == job.len
           room == BlockBytes - LengthBytes
           total == Len(hashed') * BlockBytes
           field == u64_to_be(8 * n)
<1>1. /\ job' = job /\ phase' = "done" /\ hashed' = Append(hashed, block')
      /\ block' = SubSeq(ZeroFrom(block, block_len, room), 1, room) \o field
    BY DEF PadLength
<1>2. n \in Nat
    BY JobsAssumption DEF PhaseOK
<1>3. /\ BlockBytes \in Nat /\ LengthBytes \in Nat
      /\ BlockBytes > 0 /\ LengthBytes > 0 /\ LengthBytes < BlockBytes
      /\ hashed \in Seq(Block) /\ block \in Block /\ Len(hashed) \in Nat
      /\ Len(hashed) * BlockBytes \in Nat
      /\ block_len \in 0 .. BlockBytes - LengthBytes
      /\ n + 1 <= Len(hashed) * BlockBytes + block_len
      /\ Len(hashed) * BlockBytes < n + 1 + LengthBytes
    BY SizesAreNatural, BlocksAdjacent DEF Padding
<1>4. block' = [k \in 1 .. BlockBytes |->
                  IF k <= block_len THEN block[k] ELSE IF k <= room THEN Zero
                  ELSE field[k - room]]
    BY <1>1, <1>2, <1>3, LastBlock
<1>5. /\ Len(hashed') = Len(hashed) + 1 /\ DOMAIN hashed' = 1 .. Len(hashed) + 1
      /\ \A b \in 1 .. Len(hashed) : hashed'[b] = hashed[b]
      /\ hashed'[Len(hashed) + 1] = block'
  <2> DEFINE T == Block \cup {block'}
  <2>1. hashed \in Seq(T) /\ block' \in T
      BY <1>3
  <2> HIDE DEF T
  <2>2. Append(hashed, block') \in Seq(T) /\ Len(Append(hashed, block')) = Len(hashed) + 1
      BY <2>1, AppendProperties
  <2>3. \A b \in 1 .. Len(hashed) : Append(hashed, block')[b] = hashed[b]
      BY <2>1, AppendProperties
  <2>4. Append(hashed, block')[Len(hashed) + 1] = block'
      BY <2>1, AppendProperties
  <2>5. DOMAIN Append(hashed, block') = 1 .. Len(hashed) + 1
      BY <1>3, <2>2
  <2> QED BY <1>1, <2>2, <2>3, <2>4, <2>5
<1>6. total = Len(hashed) * BlockBytes + BlockBytes
    BY <1>3, <1>5, BlocksAdjacent
<1>7. \A b \in 1 .. Len(hashed), k \in 1 .. BlockBytes :
        hashed[b][k] = Unfinished(n, Start0(b) + k)
    BY DEF Padding
<1>8. \A k \in 1 .. block_len :
        block[k] = Unfinished(n, Len(hashed) * BlockBytes + k)
    BY DEF Padding
<1>9. \A b \in 1 .. Len(hashed), k \in 1 .. BlockBytes :
        Start0(b) + k \in Nat /\ Start0(b) + k <= Len(hashed) * BlockBytes
    BY <1>3, BlocksAdjacent
<1>10. Start0(Len(hashed) + 1) = Len(hashed) * BlockBytes
    BY <1>3, BlocksAdjacent
<1>11. n + 1 + LengthBytes <= total /\ total < n + 1 + LengthBytes + BlockBytes
    BY <1>2, <1>3, <1>6
<1> HIDE DEF total, n, field
<1>12. ASSUME NEW b \in 1 .. Len(hashed)
       PROVE  hashed'[b] = [k \in 1 .. BlockBytes |-> FipsByte(n, total, Start0(b) + k)]
  <2>1. hashed[b] \in Block
      BY <1>3
  <2>2. ASSUME NEW k \in 1 .. BlockBytes
        PROVE  hashed[b][k] = FipsByte(n, total, Start0(b) + k)
    <3>1. Start0(b) + k <= total - LengthBytes
        BY <1>3, <1>6, <1>9
    <3> QED BY <1>7, <3>1 DEF FipsByte
  <2>3. hashed[b] = [k \in 1 .. BlockBytes |-> FipsByte(n, total, Start0(b) + k)]
      BY <2>1, <2>2 DEF Block
  <2> QED BY <1>5, <2>3
<1>13. block' = [k \in 1 .. BlockBytes |-> FipsByte(n, total, Len(hashed) * BlockBytes + k)]
  <2> DEFINE at(k) == Len(hashed) * BlockBytes + k
  <2>1. ASSUME NEW k \in 1 .. BlockBytes, k <= block_len
        PROVE  block[k] = FipsByte(n, total, at(k))
    <3>1. at(k) <= total - LengthBytes
        BY <1>3, <1>6, <2>1
    <3>2. k \in 1 .. block_len
        BY <1>3, <2>1
    <3> QED BY <1>8, <3>1, <3>2 DEF FipsByte
  <2>2. ASSUME NEW k \in 1 .. BlockBytes, ~(k <= block_len), k <= room
        PROVE  Zero = FipsByte(n, total, at(k))
    <3>1. at(k) <= total - LengthBytes
        BY <1>3, <1>6, <2>2
    <3>2. ~(at(k) <= n) /\ at(k) # n + 1
        BY <1>2, <1>3, <2>2
    <3> HIDE DEF at
    <3> QED BY <3>1, <3>2 DEF FipsByte, Unfinished
  <2>3. ASSUME NEW k \in 1 .. BlockBytes, ~(k <= room)
        PROVE  field[k - room] = FipsByte(n, total, at(k))
    <3>1. ~(at(k) <= total - LengthBytes)
        BY <1>3, <1>6, <2>3
    <3>2. at(k) - (total - LengthBytes) = k - room
        BY <1>3, <1>6
    <3> HIDE DEF at
    <3> QED BY <3>1, <3>2 DEF FipsByte, field
  <2> HIDE DEF at
  <2>4. \A k \in 1 .. BlockBytes :
          (IF k <= block_len THEN block[k] ELSE IF k <= room THEN Zero ELSE field[k - room])
            = FipsByte(n, total, at(k))
    <3> HIDE DEF room
    <3> TAKE k \in 1 .. BlockBytes
    <3>1. CASE k <= block_len
        BY <2>1, <3>1
    <3>2. CASE ~(k <= block_len) /\ k <= room
        BY <2>2, <3>2
    <3>3. CASE ~(k <= block_len) /\ ~(k <= room)
        BY <2>3, <3>3
    <3> QED BY <3>1, <3>2, <3>3
  <2>5. block' = [k \in 1 .. BlockBytes |-> FipsByte(n, total, at(k))]
      BY <1>4, <2>4
  <2> QED BY <2>5 DEF at
<1>14. ASSUME NEW b \in DOMAIN hashed'
       PROVE  hashed'[b] = [k \in 1 .. BlockBytes |-> FipsByte(n, total, Start0(b) + k)]
  <2>1. CASE b \in 1 .. Len(hashed)
      BY <1>12, <2>1
  <2>2. CASE b = Len(hashed) + 1
      BY <1>5, <1>10, <1>13, <2>2
  <2> QED BY <1>3, <1>5, <2>1, <2>2
<1>15. \A b \in DOMAIN hashed' :
         hashed'[b] = [k \in 1 .. BlockBytes |->
                         FipsByte(job.len, total, (b - 1) * BlockBytes + k)]
    BY <1>14 DEF n, Start0
<1> QED BY <1>1, <1>11, <1>15 DEF PaddingIsFips, n, total

LEMMA NextPaddingInv == PaddingInv /\ [HashNext]_hashVars => PaddingInv'
<1> SUFFICES ASSUME PaddingInv, [HashNext]_hashVars PROVE PaddingInv'
    OBVIOUS
<1>1. CASE Absorb
  <2>1. PhaseOK /\ Padding /\ phase = "absorb" /\ phase' = "absorb" /\ job' = job
      BY <1>1 DEF Absorb, PaddingInv
  <2>2. Padding'
      BY <1>1, <2>1, AbsorbPadding
  <2>3. PhaseOK'
      BY <2>1 DEF PhaseOK
  <2> QED BY <2>1, <2>2, <2>3 DEF PaddingInv, PaddingIsFips
<1>2. CASE Pad
  <2>1. PhaseOK /\ Padding /\ phase = "absorb" /\ phase' = "length" /\ job' = job
      BY <1>2 DEF Pad, PaddingInv
  <2>2. Padding'
      BY <1>2, <2>1, PadPadding
  <2>3. PhaseOK'
      BY <2>1 DEF PhaseOK
  <2> QED BY <2>1, <2>2, <2>3 DEF PaddingInv, PaddingIsFips
<1>3. CASE PadLength
  <2>1. PhaseOK /\ Padding /\ phase = "length" /\ phase' = "done" /\ job' = job
      BY <1>3 DEF PadLength, PaddingInv
  <2>2. PaddingIsFips'
      BY <1>3, <2>1, LengthPadding
  <2>3. PhaseOK'
      BY <2>1 DEF PhaseOK
  <2> QED BY <2>1, <2>2, <2>3 DEF PaddingInv
<1>4. CASE Hmac
  <2>1. /\ phase = "hmac" /\ phase' = "done" /\ job' = job /\ job.f = "hmac" /\ PhaseOK
      BY <1>4 DEF Hmac, PaddingInv, PhaseOK
  <2> QED BY <2>1 DEF PaddingInv, PhaseOK, PaddingIsFips
<1>5. CASE U1 \/ Iterate \/ CopyBlock
  <2>1. /\ phase' \in {"u1", "iterate", "done"} /\ job' = job /\ job.f = "pbkdf2" /\ job \in Jobs
      BY <1>5 DEF U1, Iterate, CopyBlock, PaddingInv, PhaseOK
  <2> QED BY <2>1 DEF PaddingInv, PhaseOK, PaddingIsFips
<1>6. CASE UNCHANGED hashVars
  <2>1. PhaseOK' /\ PaddingIsFips'
      BY <1>6 DEF hashVars, PaddingInv, PhaseOK, PaddingIsFips
  <2>2. Padding => Padding'
      BY <1>6 DEF hashVars, Padding, Unfinished, Message, OneBit, Zero, Start0, Block, BlockByte
  <2>3. phase' = phase
      BY <1>6 DEF hashVars
  <2> QED BY <2>1, <2>2, <2>3 DEF PaddingInv
<1> QED BY <1>1, <1>2, <1>3, <1>4, <1>5, <1>6 DEF HashNext

(* For every block size, size of the length field and message length, what *)
(* sha256 compresses is the padded message of FIPS 180-4: the branch of a  *)
(* second padding block is taken exactly where the length does not fit.    *)
THEOREM PaddingMatchesFips == HashSpec => []PaddingIsFips
<1>1. PaddingInv => PaddingIsFips
    BY DEF PaddingInv
<1> QED BY <1>1, InitPaddingInv, NextPaddingInv, PTL DEF HashSpec
-----------------------------------------------------------------------------
(* The blocks that ghash folds.  For part of n bytes it takes BlocksFor(n) *)
(* of them.                                                                *)
DataByte == SUBSET (0 .. 7)
DataBlock == [1 .. kBlockSizeBytes -> DataByte]
AadBlocks == BlocksFor(Len(input.aad))
TextBlocks == BlocksFor(Len(input.ciphertext))

(* What the block with number j must be.                                   *)
Expected(j) ==
    IF j <= AadBlocks THEN PaddedChunk(input.aad, (j - 1) * kBlockSizeBytes)
    ELSE IF j <= AadBlocks + TextBlocks
         THEN PaddedChunk(input.ciphertext, (j - AadBlocks - 1) * kBlockSizeBytes)
    ELSE LengthBlock

(* fold_into has gone over m blocks of n bytes and stands at offset at.    *)
Reached(m, at, n) ==
    /\ m \in 0 .. BlocksFor(n)
    /\ at = IF m * kBlockSizeBytes <= n THEN m * kBlockSizeBytes ELSE n

FoldInv ==
    /\ input \in Inputs /\ part \in {"aad", "ciphertext", "lengths", "done"}
    /\ Len(folded) \in Nat /\ folded = [j \in 1 .. Len(folded) |-> Expected(j)]
    /\ part = "aad" => Reached(Len(folded), offset, Len(input.aad))
    /\ part = "ciphertext" => Reached(Len(folded) - AadBlocks, offset, Len(input.ciphertext))
    /\ part = "lengths" => Len(folded) = AadBlocks + TextBlocks
    /\ part = "done" => Len(folded) = AadBlocks + TextBlocks + 1

LEMMA BlockSizeNatural ==
    /\ HalfBytes \in Nat \ {0} /\ kHalfBits = 8 * HalfBytes /\ kHalfBits \in Nat \ {0}
    /\ kBlockSizeBytes = 2 * HalfBytes /\ kBlockSizeBytes \in Nat \ {0}
BY HalfBytesAssumption DEF kHalfBits, kBlockSizeBytes

LEMMA InputsTyped ==
    ASSUME NEW in \in Inputs
    PROVE  /\ in.aad \in Seq(DataByte) /\ in.ciphertext \in Seq(DataByte)
           /\ Len(in.aad) \in Nat /\ Len(in.ciphertext) \in Nat
           /\ 8 * Len(in.aad) < Weight(2, kHalfBits)
           /\ 8 * Len(in.ciphertext) < Weight(2, kHalfBits)
<1>1. /\ in.aad \in Seq(DataByte) /\ in.ciphertext \in Seq(DataByte)
    BY InputsAssumption DEF DataByte
<1>2. Len(in.aad) \in Nat /\ Len(in.ciphertext) \in Nat
    BY <1>1
<1> QED BY <1>1, <1>2, InputsAssumption

(* n bytes end in their last block.                                        *)
LEMMA BlocksForBounds ==
    ASSUME NEW n \in Nat
    PROVE  /\ BlocksFor(n) \in Nat
           /\ n <= BlocksFor(n) * kBlockSizeBytes
           /\ BlocksFor(n) * kBlockSizeBytes < n + kBlockSizeBytes
<1> DEFINE B == kBlockSizeBytes
           q == (n + B - 1) \div B
           r == (n + B - 1) % B
           x == n + B - 1
<1>1. B \in Nat \ {0}
    BY BlockSizeNatural
<1> HIDE DEF B
<1>2. x \in Nat /\ q = x \div B /\ r = x % B
    BY <1>1
<1> HIDE DEF q, r
<1>3. q \in Nat /\ r \in 0 .. B - 1
  <2> HIDE DEF x
  <2> QED BY <1>1, <1>2
<1>4. x = q * B + r
  <2> HIDE DEF x
  <2> QED BY <1>1, <1>2, <1>3
<1>5. q * B \in Nat
    BY <1>1, <1>3
<1>6. n <= q * B /\ q * B < n + B
    BY <1>1, <1>3, <1>4, <1>5
<1> QED BY <1>3, <1>6 DEF BlocksFor, q, B

(* Multiples of the block size grow with the factor.                       *)
LEMMA MultiplesGrow ==
    ASSUME NEW m \in Nat, NEW n \in Nat, m < n
    PROVE  /\ m * kBlockSizeBytes \in Nat /\ n * kBlockSizeBytes \in Nat
           /\ m * kBlockSizeBytes + kBlockSizeBytes <= n * kBlockSizeBytes
<1> DEFINE B == kBlockSizeBytes
           e == n - m - 1
<1>1. B \in Nat \ {0}
    BY BlockSizeNatural
<1>2. e \in Nat /\ n = (m + 1) + e
    OBVIOUS
<1> HIDE DEF B, e
<1>3. ((m + 1) + e) * B = m * B + B + e * B
    BY <1>1, <1>2
<1>4. m * B \in Nat /\ e * B \in Nat
    BY <1>1, <1>2
<1>5. n * B = m * B + B + e * B
    BY <1>2, <1>3
<1> QED BY <1>1, <1>4, <1>5 DEF B

(* The loop of fold_into takes another block or has had all of them.       *)
LEMMA ReachedNext ==
    ASSUME NEW m \in Int, NEW at, NEW n \in Nat, Reached(m, at, n)
    PROVE  /\ at \in Nat
           /\ at >= n => m = BlocksFor(n)
           /\ at < n => /\ at = m * kBlockSizeBytes
                        /\ m + 1 <= BlocksFor(n)
                        /\ Reached(m + 1, at + Min({kBlockSizeBytes, n - at}), n)
<1> DEFINE B == kBlockSizeBytes
           q == BlocksFor(n)
<1>1. B \in Nat \ {0} /\ q \in Nat /\ n <= q * B /\ q * B < n + B /\ q * B \in Nat
  <2>1. B \in Nat \ {0} /\ q \in Nat
      BY BlockSizeNatural, BlocksForBounds
  <2>2. n <= q * B /\ q * B < n + B
      BY BlocksForBounds
  <2> HIDE DEF B, q
  <2>3. q * B \in Nat
      BY <2>1
  <2> QED BY <2>1, <2>2, <2>3
<1>2. m \in 0 .. q /\ at = IF m * B <= n THEN m * B ELSE n
    BY DEF Reached
<1>3. m < q => m * B + B <= q * B
    BY <1>1, <1>2, MultiplesGrow
<1>4. q < m + 1 \/ m + 1 <= q
    BY <1>1, <1>2
<1> HIDE DEF B, q
<1>5. m \in Nat /\ m * B \in Nat /\ (m + 1) * B = m * B + B
    BY <1>1, <1>2
<1>6. at \in Nat
    BY <1>2, <1>5
<1>7. at >= n => m = q
    BY <1>1, <1>2, <1>3, <1>5
<1>8. ASSUME at < n
      PROVE  at = m * B /\ m + 1 <= q /\ Reached(m + 1, at + Min({B, n - at}), n)
  <2>1. at = m * B /\ m * B < n
      BY <1>2, <1>5, <1>8
  <2>2. m # q
      BY <1>1, <2>1
  <2>3. m + 1 \in 0 .. q
      BY <1>1, <1>2, <2>2
  <2>4. Min({B, n - at}) = IF B <= n - at THEN B ELSE n - at
    <3>1. n - at \in Int /\ B \in Int
        BY <1>1, <1>6
    <3>2. CASE B <= n - at
        BY <3>1, <3>2, MinOfTwo
    <3>3. CASE ~(B <= n - at)
      <4>1. n - at <= B
          BY <3>1, <3>3
      <4>2. Min({n - at, B}) = n - at
          BY <3>1, <4>1, MinOfTwo
      <4>3. {B, n - at} = {n - at, B}
          OBVIOUS
      <4> QED BY <3>3, <4>2, <4>3
    <3> QED BY <3>2, <3>3
  <2>5. at + Min({B, n - at}) = IF (m + 1) * B <= n THEN (m + 1) * B ELSE n
      BY <1>1, <1>5, <1>6, <2>1, <2>4
  <2> QED BY <2>1, <2>3, <2>5 DEF Reached, B, q
<1> QED BY <1>6, <1>7, <1>8 DEF B, q

LEMMA AppendPointwise ==
    ASSUME NEW n \in Nat, NEW s, s = [j \in 1 .. n |-> s[j]], NEW c
    PROVE  /\ Len(Append(s, c)) = n + 1
           /\ Append(s, c) = [j \in 1 .. n + 1 |-> IF j = n + 1 THEN c ELSE s[j]]
<1> DEFINE T == {s[j] : j \in 1 .. n} \cup {c}
           t == Append(s, c)
<1>1. s \in Seq(T) /\ Len(s) = n /\ c \in T
  <2>1. s \in [1 .. n -> T]
      OBVIOUS
  <2> HIDE DEF T
  <2>2. s \in Seq(T) /\ Len(s) = n
      BY <2>1, SeqDef
  <2> QED BY <2>2 DEF T
<1> HIDE DEF T
<1>2. t \in Seq(T) /\ Len(t) = n + 1
    BY <1>1, AppendProperties
<1>3. \A j \in 1 .. n : t[j] = s[j]
    BY <1>1, AppendProperties
<1>4. t[n + 1] = c
    BY <1>1, AppendProperties
<1> HIDE DEF t
<1>5. t = [j \in 1 .. n + 1 |-> t[j]]
    BY <1>2
<1>6. \A j \in 1 .. n + 1 : t[j] = IF j = n + 1 THEN c ELSE s[j]
    BY <1>3, <1>4
<1>7. t = [j \in 1 .. n + 1 |-> IF j = n + 1 THEN c ELSE s[j]]
    BY <1>5, <1>6
<1> QED BY <1>2, <1>7 DEF t

LEMMA InitFoldInv == GhashInit => FoldInv
<1> SUFFICES ASSUME GhashInit PROVE FoldInv
    OBVIOUS
<1>1. input \in Inputs /\ part = "aad" /\ offset = 0 /\ folded = <<>>
    BY DEF GhashInit
<1>2. Len(folded) = 0 /\ folded = [j \in 1 .. Len(folded) |-> Expected(j)]
    BY <1>1
<1>3. Len(input.aad) \in Nat /\ BlocksFor(Len(input.aad)) \in Nat
    BY <1>1, InputsTyped, BlocksForBounds
<1>4. 0 * kBlockSizeBytes = 0
    BY BlockSizeNatural
<1>5. Reached(0, 0, Len(input.aad))
    BY <1>3, <1>4 DEF Reached
<1> QED BY <1>1, <1>2, <1>5 DEF FoldInv

(* A block more.                                                           *)
LEMMA FoldedGrows ==
    ASSUME FoldInv, NEW c, c = Expected(Len(folded) + 1), folded' = Append(folded, c), input' = input
    PROVE  /\ Len(folded') = Len(folded) + 1
           /\ Len(folded)' \in Nat /\ (folded = [j \in 1 .. Len(folded) |-> Expected(j)])'
<1> DEFINE n == Len(folded)
<1>1. n \in Nat /\ folded = [j \in 1 .. n |-> Expected(j)]
    BY DEF FoldInv
<1>d. n = Len(folded)
    OBVIOUS
<1> HIDE DEF n
<1>2. folded = [j \in 1 .. n |-> folded[j]]
    BY <1>1
<1>3. /\ Len(folded') = n + 1
      /\ folded' = [j \in 1 .. n + 1 |-> IF j = n + 1 THEN c ELSE folded[j]]
    BY <1>1, <1>2, AppendPointwise
<1>4. \A j \in 1 .. n + 1 : (IF j = n + 1 THEN c ELSE folded[j]) = Expected(j)
  <2> TAKE j \in 1 .. n + 1
  <2>1. CASE j = n + 1
      BY <1>d, <2>1
  <2>2. CASE j # n + 1
    <3>1. j \in 1 .. n
        BY <1>1, <2>2
    <3>2. folded[j] = Expected(j)
        BY <1>1, <3>1
    <3> QED BY <2>2, <3>2
  <2> QED BY <2>1, <2>2
<1>5. folded' = [j \in 1 .. n + 1 |-> Expected(j)]
    BY <1>3, <1>4
<1>6. \A j : Expected(j)' = Expected(j)
    BY DEF Expected, AadBlocks, TextBlocks, BlocksFor, PaddedChunk, LengthBlock
<1>7. n + 1 \in Nat
    BY <1>1
<1> QED BY <1>d, <1>3, <1>5, <1>6, <1>7

LEMMA FoldIntoFoldInv == ASSUME FoldInv, FoldInto PROVE FoldInv'
<1> DEFINE n == Len(folded)
           c == PaddedChunk(Data, offset)
<1>1. /\ part \in {"aad", "ciphertext"} /\ offset < Len(Data) /\ input' = input /\ part' = part
      /\ offset' = offset + Min({kBlockSizeBytes, Len(Data) - offset})
      /\ folded' = Append(folded, c)
    BY DEF FoldInto, BeginMul
<1>2. /\ input \in Inputs /\ n \in Nat /\ Len(input.aad) \in Nat /\ Len(input.ciphertext) \in Nat
      /\ AadBlocks \in Nat /\ TextBlocks \in Nat
    BY InputsTyped, BlocksForBounds DEF FoldInv, AadBlocks, TextBlocks
<1>3. CASE part = "aad"
  <2>1. Data = input.aad /\ Reached(n, offset, Len(input.aad))
      BY <1>3 DEF Data, FoldInv
  <2>2. /\ offset = n * kBlockSizeBytes /\ n + 1 <= AadBlocks
        /\ Reached(n + 1, offset', Len(input.aad))
      BY <1>1, <1>2, <2>1, ReachedNext DEF AadBlocks
  <2>3. c = Expected(n + 1)
    <3>1. (n + 1) - 1 = n
        BY <1>2
    <3> QED BY <2>1, <2>2, <3>1 DEF Expected
  <2> HIDE DEF c
  <2>4. /\ Len(folded') = n + 1
        /\ Len(folded)' \in Nat /\ (folded = [j \in 1 .. Len(folded) |-> Expected(j)])'
      BY <1>1, <2>3, FoldedGrows
  <2>5. Reached(Len(folded), offset, Len(input.aad))'
      BY <1>1, <2>2, <2>4 DEF Reached, BlocksFor
  <2> QED BY <1>1, <1>2, <1>3, <2>4, <2>5 DEF FoldInv
<1>4. CASE part = "ciphertext"
  <2> DEFINE m == n - AadBlocks
  <2>1. Data = input.ciphertext /\ Reached(m, offset, Len(input.ciphertext)) /\ m \in Int
      BY <1>2, <1>4 DEF Data, FoldInv
  <2>2. /\ offset = m * kBlockSizeBytes /\ m + 1 <= TextBlocks
        /\ Reached(m + 1, offset', Len(input.ciphertext))
    <3> HIDE DEF m
    <3> QED BY <1>1, <1>2, <2>1, ReachedNext DEF TextBlocks
  <2>3. m \in Nat
      BY <1>2, <2>1 DEF Reached, TextBlocks
  <2>4. c = Expected(n + 1)
    <3>1. /\ ~(n + 1 <= AadBlocks) /\ n + 1 <= AadBlocks + TextBlocks
          /\ (n + 1) - AadBlocks - 1 = m
        BY <1>2, <2>2, <2>3
    <3> HIDE DEF m
    <3> QED BY <2>1, <2>2, <3>1 DEF Expected
  <2> HIDE DEF c
  <2>5. /\ Len(folded') = n + 1
        /\ Len(folded)' \in Nat /\ (folded = [j \in 1 .. Len(folded) |-> Expected(j)])'
      BY <1>1, <2>4, FoldedGrows
  <2>6. AadBlocks' = AadBlocks
      BY <1>1 DEF AadBlocks, BlocksFor
  <2>7. Len(folded') - AadBlocks = m + 1
      BY <1>2, <2>5
  <2>8. Reached(Len(folded) - AadBlocks, offset, Len(input.ciphertext))'
    <3> HIDE DEF m
    <3> QED BY <1>1, <2>2, <2>6, <2>7 DEF Reached, BlocksFor
  <2> QED BY <1>1, <1>2, <1>4, <2>5, <2>8 DEF FoldInv
<1> QED BY <1>1, <1>3, <1>4

LEMMA NextFoldInv == FoldInv /\ [GhashNext]_ghashVars => FoldInv'
<1> SUFFICES ASSUME FoldInv, [GhashNext]_ghashVars PROVE FoldInv'
    OBVIOUS
<1>0. /\ input \in Inputs /\ Len(folded) \in Nat
      /\ Len(input.aad) \in Nat /\ Len(input.ciphertext) \in Nat
      /\ AadBlocks \in Nat /\ TextBlocks \in Nat
    BY InputsTyped, BlocksForBounds DEF FoldInv, AadBlocks, TextBlocks
<1>1. CASE FoldInto
    BY <1>1, FoldIntoFoldInv
<1>2. CASE FoldIntoEnds
  <2>1. /\ part \in {"aad", "ciphertext"} /\ offset >= Len(Data) /\ input' = input
        /\ part' = (IF part = "aad" THEN "ciphertext" ELSE "lengths")
        /\ offset' = 0 /\ folded' = folded
      BY <1>2 DEF FoldIntoEnds
  <2>2. /\ Len(folded)' \in Nat /\ (folded = [j \in 1 .. Len(folded) |-> Expected(j)])'
      BY <2>1 DEF FoldInv, Expected, AadBlocks, TextBlocks, BlocksFor, PaddedChunk, LengthBlock
  <2>3. AadBlocks' = AadBlocks /\ TextBlocks' = TextBlocks
      BY <2>1 DEF AadBlocks, TextBlocks, BlocksFor
  <2>4. CASE part = "aad"
    <3>1. Len(folded) = AadBlocks
      <4>1. Reached(Len(folded), offset, Len(input.aad)) /\ offset >= Len(input.aad)
          BY <2>1, <2>4 DEF Data, FoldInv
      <4>2. Len(folded) \in Int
          BY <1>0
      <4> QED BY <1>0, <4>1, <4>2, ReachedNext DEF AadBlocks
    <3>2. Reached(0, 0, Len(input.ciphertext))
      <4>1. 0 * kBlockSizeBytes = 0
          BY BlockSizeNatural
      <4> QED BY <1>0, <4>1 DEF Reached, TextBlocks
    <3>3. Len(folded)' - AadBlocks' = 0
        BY <1>0, <2>1, <2>3, <3>1
    <3>4. Reached(Len(folded) - AadBlocks, offset, Len(input.ciphertext))'
        BY <2>1, <3>2, <3>3 DEF Reached, BlocksFor
    <3> QED BY <1>0, <2>1, <2>2, <2>4, <3>4 DEF FoldInv
  <2>5. CASE part = "ciphertext"
    <3>1. Len(folded) - AadBlocks = TextBlocks
      <4>1. /\ Reached(Len(folded) - AadBlocks, offset, Len(input.ciphertext))
            /\ offset >= Len(input.ciphertext)
          BY <2>1, <2>5 DEF Data, FoldInv
      <4>2. Len(folded) - AadBlocks \in Int
          BY <1>0
      <4> QED BY <1>0, <4>1, <4>2, ReachedNext DEF TextBlocks
    <3>2. Len(folded)' = AadBlocks' + TextBlocks'
        BY <1>0, <2>1, <2>3, <3>1
    <3> QED BY <1>0, <2>1, <2>2, <2>5, <3>2 DEF FoldInv
  <2> QED BY <2>1, <2>4, <2>5
<1>3. CASE FoldLengths
  <2> DEFINE c == LengthBlock
  <2>1. /\ part = "lengths" /\ part' = "done" /\ input' = input /\ folded' = Append(folded, c)
      BY <1>3 DEF FoldLengths, BeginMul
  <2>2. Len(folded) = AadBlocks + TextBlocks
      BY <2>1 DEF FoldInv
  <2>3. c = Expected(Len(folded) + 1)
    <3>1. /\ ~(Len(folded) + 1 <= AadBlocks) /\ ~(Len(folded) + 1 <= AadBlocks + TextBlocks)
        BY <1>0, <2>2
    <3> QED BY <3>1 DEF Expected
  <2> HIDE DEF c
  <2>4. /\ Len(folded') = Len(folded) + 1
        /\ Len(folded)' \in Nat /\ (folded = [j \in 1 .. Len(folded) |-> Expected(j)])'
      BY <2>1, <2>3, FoldedGrows
  <2>5. AadBlocks' = AadBlocks /\ TextBlocks' = TextBlocks
      BY <2>1 DEF AadBlocks, TextBlocks, BlocksFor
  <2> QED BY <1>0, <2>1, <2>2, <2>4, <2>5 DEF FoldInv
<1>4. CASE MulIteration \/ MulReturns \/ UNCHANGED ghashVars
  <2>1. input' = input /\ part' = part /\ offset' = offset /\ folded' = folded
      BY <1>4 DEF MulIteration, MulReturns, ghashVars
  <2> QED BY <2>1 DEF FoldInv, Expected, AadBlocks, TextBlocks, BlocksFor, Reached, PaddedChunk, LengthBlock
<1> QED BY <1>1, <1>2, <1>3, <1>4 DEF GhashNext

(* load_be64 reads back what store_be64 wrote.                             *)
LEMMA StoreLoad ==
    ASSUME NEW v, v \subseteq 0 .. kHalfBits - 1, NEW p,
           \A j \in 1 .. HalfBytes : p[j] = store_be64(v)[j]
    PROVE  load_be64(p) = v
<1>1. HalfBytes \in Nat /\ kHalfBits = 8 * HalfBytes
    BY BlockSizeNatural
<1>2. \A j \in 1 .. HalfBytes : p[j] = {b \in 0 .. 7 : 8 * (HalfBytes - j) + b \in v}
    BY DEF store_be64
<1>3. ASSUME NEW x \in load_be64(p) PROVE x \in v
  <2>1. PICK j \in 1 .. HalfBytes : x \in {8 * (HalfBytes - j) + b : b \in p[j]}
      BY DEF load_be64
  <2>2. PICK b \in p[j] : x = 8 * (HalfBytes - j) + b
      BY <2>1
  <2> QED BY <1>2, <2>2
<1>4. ASSUME NEW x \in v PROVE x \in load_be64(p)
  <2> DEFINE j == HalfBytes - (x \div 8)
             b == x % 8
  <2>1. x \in Nat /\ x < 8 * HalfBytes
      BY <1>1
  <2>2. j \in 1 .. HalfBytes /\ b \in 0 .. 7 /\ x = 8 * (HalfBytes - j) + b
      BY <1>1, <2>1
  <2> HIDE DEF j, b
  <2>3. b \in p[j]
      BY <1>2, <2>2
  <2>4. x \in {8 * (HalfBytes - j) + k : k \in p[j]}
      BY <2>2, <2>3
  <2> QED BY <2>2, <2>4 DEF load_be64
<1> QED BY <1>3, <1>4

(* The words of two stored halves.                                         *)
LEMMA HalvesOfBlock ==
    ASSUME NEW v, v \subseteq 0 .. kHalfBits - 1, NEW w, w \subseteq 0 .. kHalfBits - 1
    PROVE  /\ Hi(store_be64(v) \o store_be64(w)) = v
           /\ Lo(store_be64(v) \o store_be64(w)) = w
<1> DEFINE H == HalfBytes
           f == store_be64(v)
           g == store_be64(w)
           s == f \o g
           T == SUBSET (0 .. 7)
           hi == SubSeq(s, 1, H)
           lo == SubSeq(s, H + 1, kBlockSizeBytes)
<1>1. H \in Nat /\ kBlockSizeBytes = 2 * H
    BY BlockSizeNatural
<1>2. f \in Seq(T) /\ Len(f) = H /\ g \in Seq(T) /\ Len(g) = H
  <2>1. f \in [1 .. H -> T] /\ g \in [1 .. H -> T]
      BY DEF store_be64
  <2> HIDE DEF f, g, T
  <2> QED BY <1>1, <2>1, SeqDef
<1> HIDE DEF f, g, H, T
<1>3. s \in Seq(T) /\ Len(s) = 2 * H
    BY <1>1, <1>2
<1>4. \A j \in 1 .. H : s[j] = f[j]
    BY <1>1, <1>2
<1>5. \A j \in 1 .. H : s[H + j] = g[j]
    BY <1>1, <1>2
<1> HIDE DEF s
<1>6. \A j \in 1 .. H : hi[j] = s[j]
    BY <1>1, <1>3
<1>7. \A j \in 1 .. H : lo[j] = s[H + j]
  <2>1. lo = [j \in 1 .. 2 * H - (H + 1) + 1 |-> s[j + (H + 1) - 1]]
      BY <1>1, <1>3
  <2> QED BY <1>1, <2>1
<1> HIDE DEF hi, lo
<1>8. \A j \in 1 .. HalfBytes : hi[j] = store_be64(v)[j]
    BY <1>4, <1>6 DEF f, H
<1>9. \A j \in 1 .. HalfBytes : lo[j] = store_be64(w)[j]
    BY <1>5, <1>7 DEF g, H
<1>10. load_be64(hi) = v /\ load_be64(lo) = w
    BY <1>8, <1>9, StoreLoad
<1> QED BY <1>10 DEF Hi, Lo, hi, lo, s, f, g, H

(* The bits of a number that fits a word give it back.                     *)
LEMMA NumberOfBits ==
    ASSUME NEW n \in Nat, n < Weight(2, kHalfBits)
    PROVE  BitsOf(n) \subseteq 0 .. kHalfBits - 1 /\ Number(BitsOf(n)) = n
<1> DEFINE d == [k \in 1 .. kHalfBits |-> Digit(n, 2, k - 1)]
           e == [k \in 1 .. kHalfBits |-> IF k - 1 \in BitsOf(n) THEN 1 ELSE 0]
<1>1. kHalfBits \in Nat /\ Weight(2, kHalfBits) \in Nat /\ 2 \in Nat \ {0}
    BY BlockSizeNatural, WeightLaws
<1>2. n \in 0 .. Weight(2, kHalfBits) - 1
    BY <1>1
<1>3. Value(d, 2, kHalfBits) = n
    BY <1>1, <1>2, ValueOfDigits
<1>4. ASSUME NEW k \in 1 .. kHalfBits PROVE Digit(n, 2, k - 1) \in {0, 1}
  <2> DEFINE w == Weight(2, k - 1)
             q == n \div w
  <2>1. w \in Nat \ {0}
    <3>1. k - 1 \in Nat
        BY <1>1
    <3>2. \A j \in Nat : Weight(2, j) \in Nat \ {0}
        BY <1>1, WeightLaws
    <3> QED BY <3>1, <3>2
  <2>2. q = n \div w
      OBVIOUS
  <2> HIDE DEF w, q
  <2>3. q \in Nat
      BY <2>1, <2>2
  <2>4. q % 2 \in {0, 1}
      BY <2>3
  <2> QED BY <2>4 DEF Digit, q, w
<1>5. ASSUME NEW k \in 1 .. kHalfBits
      PROVE  (IF k - 1 \in BitsOf(n) THEN 1 ELSE 0) = Digit(n, 2, k - 1)
  <2>1. k - 1 \in 0 .. kHalfBits - 1
      BY <1>1
  <2>2. k - 1 \in BitsOf(n) <=> Digit(n, 2, k - 1) = 1
      BY <2>1 DEF BitsOf
  <2> QED BY <1>4, <2>2
<1>6. e = d
    BY <1>5
<1>7. Number(BitsOf(n)) = Value(e, 2, kHalfBits)
    BY DEF Number
<1> HIDE DEF d, e
<1> QED BY <1>3, <1>6, <1>7 DEF BitsOf

(* The bytes of data are where the padded blocks have them.                *)
LEMMA BytesOfChunks ==
    ASSUME NEW blocks, NEW first \in Nat, NEW data \in Seq(DataByte),
           \A j \in 1 .. BlocksFor(Len(data)) :
             blocks[first + j] = PaddedChunk(data, (j - 1) * kBlockSizeBytes)
    PROVE  BytesFrom(blocks, first, Len(data)) = data
<1> DEFINE B == kBlockSizeBytes
           n == Len(data)
<1>1. B \in Nat \ {0} /\ n \in Nat
    BY BlockSizeNatural
<1>2. BlocksFor(n) \in Nat /\ n <= BlocksFor(n) * B
    BY <1>1, BlocksForBounds
<1>3. ASSUME NEW k \in 1 .. n
      PROVE  blocks[first + (k - 1) \div B + 1][((k - 1) % B) + 1] = data[k]
  <2> DEFINE x == k - 1
             q == x \div B
             r == x % B
  <2>1. x \in Nat
      BY <1>1
  <2>2. q = x \div B /\ r = x % B
      OBVIOUS
  <2> HIDE DEF x, q, r, B, n
  <2>3. q \in Nat /\ r \in 0 .. B - 1
      BY <1>1, <2>1, <2>2
  <2>4. x = q * B + r
      BY <1>1, <2>1, <2>2, <2>3
  <2>5. q * B \in Nat
      BY <1>1, <2>3
  <2>6. q * B + (r + 1) = k /\ k <= n
      BY <1>1, <2>3, <2>4, <2>5 DEF x, n
  <2>7. q < BlocksFor(n)
    <3>1. ASSUME BlocksFor(n) <= q PROVE FALSE
      <4>1. BlocksFor(n) * B <= q * B
        <5>1. CASE BlocksFor(n) = q
            BY <1>1, <1>2, <2>5, <5>1
        <5>2. CASE BlocksFor(n) < q
            BY <1>2, <1>1, <2>3, <5>2, MultiplesGrow DEF B
        <5> QED BY <1>2, <2>3, <3>1, <5>1, <5>2
      <4>2. BlocksFor(n) * B \in Nat
          BY <1>1, <1>2
      <4> QED BY <1>1, <1>2, <2>3, <2>5, <2>6, <4>1, <4>2
    <3> QED BY <1>2, <2>3, <3>1
  <2>8. q + 1 \in 1 .. BlocksFor(n) /\ (q + 1) - 1 = q /\ first + q + 1 = first + (q + 1)
      BY <1>2, <2>3, <2>7
  <2>9. blocks[first + q + 1] = PaddedChunk(data, q * B)
      BY <2>8 DEF B, n
  <2>10. r + 1 \in 1 .. B
      BY <1>1, <2>3
  <2>11. PaddedChunk(data, q * B)[r + 1] = data[k]
      BY <2>6, <2>10 DEF PaddedChunk, B, n
  <2> QED BY <2>9, <2>11 DEF q, r, x
<1>4. data = [k \in 1 .. n |-> data[k]]
    OBVIOUS
<1>5. BytesFrom(blocks, first, n) =
        [k \in 1 .. n |-> blocks[first + (k - 1) \div B + 1][((k - 1) % B) + 1]]
    BY DEF BytesFrom
<1> HIDE DEF B, n
<1>6. BytesFrom(blocks, first, n) = data
    BY <1>3, <1>4, <1>5
<1> QED BY <1>6 DEF n

LEMMA FoldInvDetermines == ASSUME FoldInv PROVE BlocksDetermineInput
<1> SUFFICES ASSUME Returned
             PROVE  Unpad(folded) = [aad |-> input.aad, ciphertext |-> input.ciphertext]
    BY DEF BlocksDetermineInput
<1> DEFINE A == Len(input.aad)
           C == Len(input.ciphertext)
           n == Len(folded)
           lengths == folded[n]
<1>1. /\ input.aad \in Seq(DataByte) /\ input.ciphertext \in Seq(DataByte)
      /\ A \in Nat /\ C \in Nat /\ 8 * A < Weight(2, kHalfBits) /\ 8 * C < Weight(2, kHalfBits)
    BY InputsTyped DEF FoldInv
<1>2. AadBlocks = BlocksFor(A) /\ TextBlocks = BlocksFor(C) /\ AadBlocks \in Nat /\ TextBlocks \in Nat
    BY <1>1, BlocksForBounds DEF AadBlocks, TextBlocks
<1>3. n = AadBlocks + TextBlocks + 1 /\ folded = [j \in 1 .. n |-> Expected(j)]
    BY DEF FoldInv, Returned
<1> HIDE DEF n
<1>4. \A j \in 1 .. n : folded[j] = Expected(j)
    BY <1>3
<1>5. lengths = LengthBlock
  <2>1. n \in 1 .. n /\ ~(n <= AadBlocks) /\ ~(n <= AadBlocks + TextBlocks)
    <3>1. n = AadBlocks + TextBlocks + 1
        BY <1>3
    <3> QED BY ONLY <1>2, <3>1
  <2> QED BY <1>4, <2>1 DEF Expected
<1>6. Number(Hi(lengths)) = 8 * A /\ Number(Lo(lengths)) = 8 * C
  <2> DEFINE a8 == 8 * A
             c8 == 8 * C
  <2>1. a8 \in Nat /\ c8 \in Nat /\ a8 < Weight(2, kHalfBits) /\ c8 < Weight(2, kHalfBits)
    <3> HIDE DEF A, C
    <3>1. a8 \in Nat /\ c8 \in Nat
        BY <1>1
    <3> QED BY <1>1, <3>1
  <2>2. lengths = store_be64(BitsOf(a8)) \o store_be64(BitsOf(c8))
      BY <1>5 DEF LengthBlock
  <2> HIDE DEF a8, c8, lengths
  <2>3. /\ BitsOf(a8) \subseteq 0 .. kHalfBits - 1 /\ Number(BitsOf(a8)) = a8
        /\ BitsOf(c8) \subseteq 0 .. kHalfBits - 1 /\ Number(BitsOf(c8)) = c8
      BY <2>1, NumberOfBits
  <2>4. Hi(lengths) = BitsOf(a8) /\ Lo(lengths) = BitsOf(c8)
      BY <2>2, <2>3, HalvesOfBlock
  <2>5. Number(Hi(lengths)) = a8 /\ Number(Lo(lengths)) = c8
      BY <2>3, <2>4
  <2> QED BY <2>5 DEF a8, c8
<1>7. Number(Hi(lengths)) \div 8 = A /\ Number(Lo(lengths)) \div 8 = C
  <2>1. \A x \in Nat : (8 * x) \div 8 = x
      OBVIOUS
  <2> HIDE DEF A, C
  <2>2. (8 * A) \div 8 = A /\ (8 * C) \div 8 = C
      BY <1>1, <2>1
  <2> QED BY <1>6, <2>2
<1>8. BytesFrom(folded, 0, A) = input.aad
  <2>1. ASSUME NEW j \in 1 .. BlocksFor(A)
        PROVE  folded[0 + j] = PaddedChunk(input.aad, (j - 1) * kBlockSizeBytes)
    <3>1. j \in 1 .. n /\ j <= AadBlocks /\ 0 + j = j
        BY <1>2, <1>3
    <3> QED BY <1>4, <3>1 DEF Expected
  <2> QED BY <1>1, <2>1, BytesOfChunks
<1>9. BytesFrom(folded, BlocksFor(A), C) = input.ciphertext
  <2>1. ASSUME NEW j \in 1 .. BlocksFor(C)
        PROVE  folded[BlocksFor(A) + j] = PaddedChunk(input.ciphertext, (j - 1) * kBlockSizeBytes)
    <3> DEFINE x == BlocksFor(A) + j
    <3>0. x = AadBlocks + j /\ j \in 1 .. TextBlocks
        BY <1>2
    <3> HIDE DEF x, A, C
    <3>1. /\ x \in 1 .. n /\ ~(x <= AadBlocks) /\ x <= AadBlocks + TextBlocks
          /\ x - AadBlocks - 1 = j - 1
      <4>1. n = AadBlocks + TextBlocks + 1 /\ AadBlocks \in Nat /\ TextBlocks \in Nat
          BY <1>2, <1>3
      <4>2. j \in Int /\ 1 <= j /\ j <= TextBlocks
          BY <3>0, <4>1
      <4> QED BY <3>0, <4>1, <4>2
    <3>2. folded[x] = PaddedChunk(input.ciphertext, (j - 1) * kBlockSizeBytes)
        BY <1>4, <3>1 DEF Expected
    <3> QED BY <3>2 DEF x
  <2> QED BY <1>1, <1>2, <2>1, BytesOfChunks
<1> HIDE DEF A, C, lengths
<1>10. Unpad(folded) = [aad |-> BytesFrom(folded, 0, A), ciphertext |-> BytesFrom(folded, BlocksFor(A), C)]
    BY <1>7 DEF Unpad, lengths, n
<1> QED BY <1>8, <1>9, <1>10

(* For every block size and all data whose lengths fit their words, the    *)
(* blocks that ghash folds determine the associated data and the           *)
(* ciphertext: padding and part boundaries are unambiguous.                *)
THEOREM FoldedBlocksUnambiguous == GhashSpec => []BlocksDetermineInput
<1>1. FoldInv => BlocksDetermineInput
    BY FoldInvDetermines
<1> QED BY <1>1, InitFoldInv, NextFoldInv, PTL DEF GhashSpec

-----------------------------------------------------------------------------
(* The field of GHASH, and a block as one of its elements.                 *)
FieldDegree == 2 * kHalfBits
FieldModulus == {0, 1, 2, 7, FieldDegree}
Field == Residues(FieldDegree)
FieldProduct(a, b) == ModMul(a, b, FieldModulus, FieldDegree)
HalfWord == SUBSET (0 .. kHalfBits - 1)

LEMMA FieldModulusOK ==
    /\ Modulus(FieldModulus, FieldDegree)
    /\ kHalfBits \in Nat /\ kHalfBits >= 8 /\ FieldDegree = 2 * kHalfBits /\ FieldDegree \in Nat
    /\ HalfBytes \in Nat \ {0} /\ kHalfBits = 8 * HalfBytes
<1>1. kHalfBits \in Nat /\ kHalfBits >= 8 /\ HalfBytes \in Nat \ {0} /\ kHalfBits = 8 * HalfBytes
    BY BlockSizeNatural
<1>2. FieldDegree \in Nat \ {0} /\ 7 <= FieldDegree
    BY <1>1 DEF FieldDegree
<1>3. FieldModulus \subseteq 0 .. FieldDegree /\ FieldDegree \in FieldModulus
    BY <1>2 DEF FieldModulus
<1> QED BY <1>1, <1>2, <1>3 DEF Modulus, FieldDegree

LEMMA ReduceIsMod ==
    \A a, b : Reduce(PolyMul(a, b)) = FieldProduct(a, b)
<1>1. 4 * kHalfBits - 1 = 2 * FieldDegree - 1 /\ {0, 1, 2, 7, 2 * kHalfBits} = FieldModulus
    BY FieldModulusOK DEF FieldModulus
<1> QED BY <1>1 DEF Reduce, FieldProduct, ModMul

LEMMA FieldProductTyped ==
    ASSUME NEW a \in Field, NEW b \in Field PROVE FieldProduct(a, b) \in Field
BY FieldModulusOK, ModMulTyped DEF Field, FieldProduct

LEMMA FieldXorTyped ==
    ASSUME NEW a \in Field, NEW b \in Field PROVE a ++ b \in Field
BY XorBounds DEF Field, Residues

LEMMA FieldDistributes ==
    ASSUME NEW a \in Field, NEW b \in Field, NEW c \in Field
    PROVE  FieldProduct(a ++ b, c) = FieldProduct(a, c) ++ FieldProduct(b, c)
BY FieldModulusOK, ModMulXorLeft DEF Field, FieldProduct

LEMMA FieldAssociative ==
    ASSUME NEW a \in Field, NEW b \in Field, NEW c \in Field
    PROVE  FieldProduct(FieldProduct(a, b), c) = FieldProduct(a, FieldProduct(b, c))
BY FieldModulusOK, ModMulAssociative DEF Field, FieldProduct

LEMMA FieldUnits ==
    /\ {} \in Field /\ {0} \in Field
    /\ \A a \in Field : FieldProduct({}, a) = {} /\ FieldProduct({0}, a) = a
<1>1. FieldDegree \in Nat /\ FieldDegree > 0
    BY FieldModulusOK
<1>2. {} \in Field /\ {0} \in Field
    BY <1>1 DEF Field, Residues
<1>3. \A a \in Field : FieldProduct({}, a) = {} /\ FieldProduct({0}, a) = a
    BY FieldModulusOK, ModMulTrivial DEF Field, FieldProduct
<1> QED BY <1>2, <1>3

(* Which power of x a bit of the two words is.                             *)
LEMMA CoefficientsIn ==
    ASSUME NEW hi \in HalfWord, NEW lo \in HalfWord, NEW k
    PROVE  k \in Coefficients(hi, lo) <=>
             \/ k \in 0 .. kHalfBits - 1 /\ kHalfBits - 1 - k \in hi
             \/ k \in kHalfBits .. 2 * kHalfBits - 1 /\ 2 * kHalfBits - 1 - k \in lo
<1> DEFINE K == kHalfBits
<1>1. K \in Nat /\ hi \subseteq 0 .. K - 1 /\ lo \subseteq 0 .. K - 1
    BY FieldModulusOK DEF HalfWord
<1>2. k \in Coefficients(hi, lo) <=> (\E b \in hi : k = K - 1 - b) \/ (\E b \in lo : k = 2 * K - 1 - b)
    BY DEF Coefficients
<1> HIDE DEF K
<1>3. (\E b \in hi : k = K - 1 - b) <=> k \in 0 .. K - 1 /\ K - 1 - k \in hi
  <2>1. ASSUME NEW b \in hi, k = K - 1 - b PROVE k \in 0 .. K - 1 /\ K - 1 - k \in hi
    <3>1. b \in 0 .. K - 1 /\ K - 1 - k = b
        BY <1>1, <2>1
    <3> QED BY <1>1, <2>1, <3>1
  <2>2. ASSUME k \in 0 .. K - 1, K - 1 - k \in hi PROVE \E b \in hi : k = K - 1 - b
    <3>1. k = K - 1 - (K - 1 - k)
        BY <1>1, <2>2
    <3> QED BY <2>2, <3>1
  <2> QED BY <2>1, <2>2
<1>4. (\E b \in lo : k = 2 * K - 1 - b) <=> k \in K .. 2 * K - 1 /\ 2 * K - 1 - k \in lo
  <2>1. ASSUME NEW b \in lo, k = 2 * K - 1 - b PROVE k \in K .. 2 * K - 1 /\ 2 * K - 1 - k \in lo
    <3>1. b \in 0 .. K - 1 /\ 2 * K - 1 - k = b
        BY <1>1, <2>1
    <3> QED BY <1>1, <2>1, <3>1
  <2>2. ASSUME k \in K .. 2 * K - 1, 2 * K - 1 - k \in lo PROVE \E b \in lo : k = 2 * K - 1 - b
    <3>1. k = 2 * K - 1 - (2 * K - 1 - k)
        BY <1>1, <2>2
    <3> QED BY <2>2, <3>1
  <2> QED BY <2>1, <2>2
<1> QED BY <1>2, <1>3, <1>4 DEF K

LEMMA CoefficientsTyped ==
    ASSUME NEW hi \in HalfWord, NEW lo \in HalfWord
    PROVE  Coefficients(hi, lo) \in Field
<1>1. kHalfBits \in Nat /\ FieldDegree = 2 * kHalfBits
    BY FieldModulusOK
<1>2. ASSUME NEW k \in Coefficients(hi, lo) PROVE k \in 0 .. FieldDegree - 1
  <2>1. k \in 0 .. kHalfBits - 1 \/ k \in kHalfBits .. 2 * kHalfBits - 1
      BY CoefficientsIn
  <2> QED BY <1>1, <2>1
<1> QED BY <1>2 DEF Field, Residues

LEMMA CoefficientsXor ==
    ASSUME NEW a \in HalfWord, NEW b \in HalfWord, NEW c \in HalfWord, NEW d \in HalfWord
    PROVE  /\ a ++ c \in HalfWord /\ b ++ d \in HalfWord
           /\ Coefficients(a ++ c, b ++ d) = Coefficients(a, b) ++ Coefficients(c, d)
<1>1. a ++ c \in HalfWord /\ b ++ d \in HalfWord
    BY XorBounds DEF HalfWord
<1>2. kHalfBits \in Nat
    BY FieldModulusOK
<1>3. ASSUME NEW k PROVE k \in Coefficients(a ++ c, b ++ d) <=> k \in Coefficients(a, b) ++ Coefficients(c, d)
  <2> DEFINE g == kHalfBits - 1 - k
             v == 2 * kHalfBits - 1 - k
             U == k \in 0 .. kHalfBits - 1
             V == k \in kHalfBits .. 2 * kHalfBits - 1
  <2>1. k \in Coefficients(a, b) <=> (U /\ g \in a) \/ (V /\ v \in b)
      BY CoefficientsIn
  <2>2. k \in Coefficients(c, d) <=> (U /\ g \in c) \/ (V /\ v \in d)
      BY CoefficientsIn
  <2>3. k \in Coefficients(a ++ c, b ++ d) <=> (U /\ g \in a ++ c) \/ (V /\ v \in b ++ d)
      BY <1>1, CoefficientsIn
  <2>4. ~(U /\ V)
      BY <1>2
  <2> HIDE DEF g, v, U, V
  <2>5. /\ g \in a ++ c <=> (g \in a <=> ~(g \in c))
        /\ v \in b ++ d <=> (v \in b <=> ~(v \in d))
      BY XorIn
  <2>6. k \in Coefficients(a, b) ++ Coefficients(c, d) <=>
          (k \in Coefficients(a, b) <=> ~(k \in Coefficients(c, d)))
      BY XorIn
  <2> QED BY <2>1, <2>2, <2>3, <2>4, <2>5, <2>6
<1>4. Coefficients(a ++ c, b ++ d) = Coefficients(a, b) ++ Coefficients(c, d)
    BY <1>3
<1> QED BY <1>1, <1>4

(* The shift over both words, with its carry and its reduction, is the     *)
(* multiplication by x.                                                    *)
LEMMA ShiftIsTimesX ==
    ASSUME NEW hi \in HalfWord, NEW lo \in HalfWord
    PROVE  /\ Shift(hi, lo)[1] \in HalfWord /\ Shift(hi, lo)[2] \in HalfWord
           /\ Coefficients(Shift(hi, lo)[1], Shift(hi, lo)[2]) =
                ModX(Coefficients(hi, lo), FieldModulus, FieldDegree)
<1> DEFINE K == kHalfBits
           C == Coefficients(hi, lo)
           M == FieldModulus
           d == FieldDegree
           fallen == 0 \in lo
           s == {b - 1 : b \in hi \ {0}}
           r == IF fallen THEN kRHi ELSE {}
           v == s ++ r
           w == {b - 1 : b \in lo \ {0}} \cup (IF 0 \in hi THEN {K - 1} ELSE {})
<1>1. /\ K \in Nat /\ K >= 8 /\ d = 2 * K /\ d \in Nat
      /\ hi \subseteq 0 .. K - 1 /\ lo \subseteq 0 .. K - 1
    BY FieldModulusOK DEF HalfWord
<1>2. Shift(hi, lo)[1] = v /\ Shift(hi, lo)[2] = w
    BY DEF Shift
<1>3. \A x : x \in kRHi <=> x \in {K - 1, K - 2, K - 3, K - 8}
  <2>1. kRHi = {K - 8 + 7, K - 8 + 6, K - 8 + 5, K - 8 + 0}
      BY DEF kRHi
  <2>2. K - 8 + 7 = K - 1 /\ K - 8 + 6 = K - 2 /\ K - 8 + 5 = K - 3 /\ K - 8 + 0 = K - 8
      BY <1>1
  <2> QED BY <2>1, <2>2
<1>4. \A x : x \in M <=> x \in {0, 1, 2, 7, d}
    BY DEF FieldModulus
<1> HIDE DEF K, M, d
<1>5. \A x \in Int : x \in s <=> x >= 0 /\ x + 1 \in hi
  <2> TAKE x \in Int
  <2>1. ASSUME x \in s PROVE x >= 0 /\ x + 1 \in hi
    <3>1. PICK b \in hi \ {0} : x = b - 1
        BY <2>1
    <3>2. b \in 0 .. K - 1 /\ b # 0
        BY <1>1
    <3>3. x + 1 = b
        BY <3>1, <3>2
    <3> QED BY <3>1, <3>2, <3>3
  <2>2. ASSUME x >= 0, x + 1 \in hi PROVE x \in s
    <3>1. x + 1 \in hi \ {0} /\ x = (x + 1) - 1
        BY <2>2
    <3> QED BY <3>1
  <2> QED BY <2>1, <2>2
<1>6. \A x \in Int : x \in w <=> (x >= 0 /\ x + 1 \in lo) \/ (0 \in hi /\ x = K - 1)
  <2> TAKE x \in Int
  <2>0. x \in w <=> x \in {b - 1 : b \in lo \ {0}} \/ (0 \in hi /\ x = K - 1)
      OBVIOUS
  <2>1. ASSUME x \in {b - 1 : b \in lo \ {0}} PROVE x >= 0 /\ x + 1 \in lo
    <3>1. PICK b \in lo \ {0} : x = b - 1
        BY <2>1
    <3>2. b \in 0 .. K - 1 /\ b # 0
        BY <1>1
    <3>3. x + 1 = b
        BY <3>1, <3>2
    <3> QED BY <3>1, <3>2, <3>3
  <2>2. ASSUME x >= 0, x + 1 \in lo PROVE x \in {b - 1 : b \in lo \ {0}}
    <3>1. x + 1 \in lo \ {0} /\ x = (x + 1) - 1
        BY <2>2
    <3> QED BY <3>1
  <2> QED BY <2>0, <2>1, <2>2
<1>7. s \subseteq 0 .. K - 1 /\ w \subseteq 0 .. K - 1 /\ r \subseteq 0 .. K - 1
  <2>1. ASSUME NEW x \in s PROVE x \in 0 .. K - 1
    <3>1. PICK b \in hi \ {0} : x = b - 1
        OBVIOUS
    <3> QED BY <1>1, <3>1
  <2>2. ASSUME NEW x \in w PROVE x \in 0 .. K - 1
    <3>1. CASE x \in {b - 1 : b \in lo \ {0}}
      <4>1. PICK b \in lo \ {0} : x = b - 1
          BY <3>1
      <4> QED BY <1>1, <4>1
    <3>2. CASE x = K - 1
        BY <1>1, <3>2
    <3>3. x \in {b - 1 : b \in lo \ {0}} \/ x = K - 1
        OBVIOUS
    <3> QED BY <3>1, <3>2, <3>3
  <2>3. ASSUME NEW x \in r PROVE x \in 0 .. K - 1
    <3>1. x \in {K - 1, K - 2, K - 3, K - 8}
        BY <1>3
    <3> QED BY <1>1, <3>1
  <2> QED BY <2>1, <2>2, <2>3
<1>8. v \subseteq 0 .. K - 1
  <2> HIDE DEF s, r
  <2> QED BY <1>7, XorBounds
<1>9. v \in HalfWord /\ w \in HalfWord
  <2> HIDE DEF v, w
  <2> QED BY <1>7, <1>8 DEF HalfWord, K
<1>10. \A x : x \in v <=> (x \in s <=> ~(fallen /\ x \in kRHi))
  <2>1. \A x : x \in r <=> fallen /\ x \in kRHi
      OBVIOUS
  <2>2. \A x : x \in v <=> (x \in s <=> ~(x \in r))
      BY XorIn
  <2> QED BY <2>1, <2>2
<1> HIDE DEF s, r, w, v
<1>11. \A k : k \in C <=> \/ k \in 0 .. K - 1 /\ K - 1 - k \in hi
                          \/ k \in K .. 2 * K - 1 /\ 2 * K - 1 - k \in lo
    BY CoefficientsIn DEF K
<1>12. \A k : k \in Coefficients(v, w) <=> \/ k \in 0 .. K - 1 /\ K - 1 - k \in v
                                           \/ k \in K .. 2 * K - 1 /\ 2 * K - 1 - k \in w
    BY <1>9, CoefficientsIn DEF K
<1>13. C \in SUBSET Int /\ C \subseteq 0 .. d - 1
  <2>1. C \in Residues(d) /\ d - 1 \in Int
      BY <1>1, CoefficientsTyped DEF Field, d
  <2> HIDE DEF C
  <2> QED BY <2>1 DEF Residues
<1>14. d - 1 \in C <=> fallen
  <2>1. d - 1 \in K .. 2 * K - 1 /\ ~(d - 1 \in 0 .. K - 1) /\ 2 * K - 1 - (d - 1) = 0
      BY <1>1
  <2> QED BY <1>11, <2>1
<1> HIDE DEF C, fallen
<1>15. \A k : k \in ModX(C, M, d) <=> ((k \in Int /\ k - 1 \in C) <=> ~(fallen /\ k \in M))
  <2> DEFINE xC == TimesX(C, 1)
  <2>1. \A k : k \in xC <=> k \in Int /\ k - 1 \in C
    <3>1. C \subseteq Int /\ 1 \in Int
        BY <1>13
    <3> QED BY ONLY <3>1, TimesXIn
  <2>2. d \in xC <=> fallen
      BY <1>1, <1>14, <2>1
  <2>3. TimesX(M, d - d) = M
    <3>1. M \in SUBSET Int /\ d - d = 0
        BY <1>1, <1>4
    <3> QED BY <3>1, TimesXTrivial
  <2>4. ModX(C, M, d) = IF fallen THEN xC ++ M ELSE xC
      BY <2>2, <2>3 DEF ModX, Cancel
  <2> HIDE DEF xC
  <2>5. \A k : k \in xC ++ M <=> (k \in xC <=> ~(k \in M))
      BY XorIn
  <2> QED BY <2>1, <2>4, <2>5
<1>16. ASSUME NEW k \in Int PROVE k \in Coefficients(v, w) <=> (k - 1 \in C <=> ~(fallen /\ k \in M))
  <2>1. CASE k < 0 \/ k >= 2 * K
    <3>1. k \notin Coefficients(v, w)
        BY <1>1, <1>12, <2>1
    <3>2. k = d \/ (k # d /\ k \notin M /\ k - 1 \notin C)
      <4>1. ASSUME k # d PROVE k \notin M
          BY <1>1, <1>4, <2>1, <4>1
      <4>2. ASSUME k # d PROVE ~(k - 1 \in 0 .. d - 1)
          BY <1>1, <2>1, <4>2
      <4> QED BY <1>13, <4>1, <4>2
    <3>3. k = d => (k \in M /\ (k - 1 \in C <=> fallen))
        BY <1>4, <1>14
    <3> QED BY <3>1, <3>2, <3>3
  <2>2. CASE k \in 0 .. K - 1
    <3> DEFINE x == K - 1 - k
    <3>1. /\ x \in Int /\ x >= 0 /\ x + 1 = K - k /\ ~(k \in K .. 2 * K - 1)
          /\ x \in {K - 1, K - 2, K - 3, K - 8} <=> k \in {0, 1, 2, 7, d}
        BY <1>1, <2>2
    <3>2. k \in Coefficients(v, w) <=> x \in v
        BY <1>12, <2>2, <3>1
    <3>3. k - 1 \in C <=> x + 1 \in hi
      <4>1. CASE k = 0
        <5>1. x + 1 \notin hi /\ k - 1 \notin 0 .. d - 1
            BY <1>1, <4>1
        <5> QED BY <1>13, <5>1
      <4>2. CASE k # 0
        <5>1. k - 1 \in 0 .. K - 1 /\ ~(k - 1 \in K .. 2 * K - 1) /\ K - 1 - (k - 1) = x + 1
            BY <1>1, <2>2, <4>2
        <5> QED BY <1>11, <5>1
      <4> QED BY <4>1, <4>2
    <3> HIDE DEF x
    <3>4. x \in s <=> x + 1 \in hi
        BY <1>5, <3>1
    <3>5. x \in kRHi <=> k \in M
        BY <1>3, <1>4, <3>1
    <3> QED BY <1>10, <3>2, <3>3, <3>4, <3>5
  <2>3. CASE k \in K .. 2 * K - 1
    <3> DEFINE x == 2 * K - 1 - k
    <3>1. x \in Int /\ x >= 0 /\ x + 1 = 2 * K - k /\ ~(k \in 0 .. K - 1) /\ k \notin {0, 1, 2, 7, d}
        BY <1>1, <2>3
    <3>2. k \in Coefficients(v, w) <=> x \in w
        BY <1>12, <2>3, <3>1
    <3>3. k - 1 \in C <=> x + 1 \in lo \/ (0 \in hi /\ x = K - 1)
      <4>1. CASE k = K
        <5>1. /\ k - 1 \in 0 .. K - 1 /\ ~(k - 1 \in K .. 2 * K - 1) /\ K - 1 - (k - 1) = 0
              /\ x = K - 1 /\ x + 1 \notin lo
            BY <1>1, <4>1
        <5> QED BY <1>11, <5>1
      <4>2. CASE k # K
        <5>1. /\ k - 1 \in K .. 2 * K - 1 /\ ~(k - 1 \in 0 .. K - 1) /\ 2 * K - 1 - (k - 1) = x + 1
              /\ x # K - 1
            BY <1>1, <2>3, <4>2
        <5> QED BY <1>11, <5>1
      <4> QED BY <4>1, <4>2
    <3> HIDE DEF x
    <3>4. k \notin M
        BY <1>4, <3>1
    <3> QED BY <1>6, <3>1, <3>2, <3>3, <3>4
  <2>4. k < 0 \/ k >= 2 * K \/ k \in 0 .. K - 1 \/ k \in K .. 2 * K - 1
      BY <1>1
  <2> QED BY <2>1, <2>2, <2>3, <2>4
<1>17. \A k : k \in Coefficients(v, w) => k \in Int
    BY <1>1, <1>12
<1>18. \A k : k \in M => k \in Int
    BY <1>1, <1>4
<1>19. \A k : k \in Coefficients(v, w) <=> k \in ModX(C, M, d)
    BY <1>15, <1>16, <1>17, <1>18
<1>20. Coefficients(v, w) = ModX(C, M, d)
    BY <1>19
<1> QED BY <1>2, <1>9, <1>20 DEF C, M, d

(* Which bit of which byte a bit of a loaded word is.                      *)
LEMMA LoadIn ==
    ASSUME NEW p, \A j \in 1 .. HalfBytes : p[j] \in DataByte, NEW x
    PROVE  x \in load_be64(p) <=> x \in 0 .. kHalfBits - 1 /\ x % 8 \in p[HalfBytes - x \div 8]
<1>1. HalfBytes \in Nat /\ kHalfBits = 8 * HalfBytes
    BY BlockSizeNatural
<1>2. ASSUME x \in load_be64(p) PROVE x \in 0 .. kHalfBits - 1 /\ x % 8 \in p[HalfBytes - x \div 8]
  <2>1. PICK j \in 1 .. HalfBytes : x \in {8 * (HalfBytes - j) + b : b \in p[j]}
      BY <1>2 DEF load_be64
  <2>2. PICK b \in p[j] : x = 8 * (HalfBytes - j) + b
      BY <2>1
  <2>3. b \in 0 .. 7
      BY DEF DataByte
  <2>4. x % 8 = b /\ x \div 8 = HalfBytes - j
      BY <1>1, <2>2, <2>3
  <2>5. HalfBytes - x \div 8 = j
      BY <1>1, <2>4
  <2>6. x \in 0 .. kHalfBits - 1
    <3>1. HalfBytes - j \in 0 .. HalfBytes - 1
        BY <1>1
    <3> DEFINE n == HalfBytes - j
    <3>2. n \in Int /\ 0 <= n /\ n <= HalfBytes - 1 /\ x = 8 * n + b
        BY <1>1, <2>2, <3>1
    <3> HIDE DEF n
    <3> QED BY <1>1, <2>3, <3>2
  <2> QED BY <2>4, <2>5, <2>6
<1>3. ASSUME x \in 0 .. kHalfBits - 1, x % 8 \in p[HalfBytes - x \div 8] PROVE x \in load_be64(p)
  <2> DEFINE j == HalfBytes - x \div 8
             b == x % 8
  <2>1. j \in 1 .. HalfBytes /\ x = 8 * (HalfBytes - j) + b
      BY <1>1, <1>3
  <2>2. b \in p[j]
      BY <1>3
  <2> HIDE DEF j, b
  <2>3. x \in {8 * (HalfBytes - j) + c : c \in p[j]}
      BY <2>1, <2>2
  <2> QED BY <2>1, <2>3 DEF load_be64
<1> QED BY <1>2, <1>3

(* The words of a block are made of the bytes of its halves.               *)
LEMMA WordsIn ==
    ASSUME NEW b \in DataBlock
    PROVE  /\ \A x : x \in Hi(b) <=> x \in 0 .. kHalfBits - 1 /\ x % 8 \in b[HalfBytes - x \div 8]
           /\ \A x : x \in Lo(b) <=> x \in 0 .. kHalfBits - 1 /\ x % 8 \in b[HalfBytes + (HalfBytes - x \div 8)]
<1> DEFINE H == HalfBytes
           B == kBlockSizeBytes
           hi == SubSeq(b, 1, H)
           lo == SubSeq(b, H + 1, B)
<1>1. H \in Nat \ {0} /\ kHalfBits = 8 * H /\ B = 2 * H /\ B \in Nat
    BY BlockSizeNatural
<1>2. b \in Seq(DataByte) /\ Len(b) = B
  <2> HIDE DEF B
  <2>1. b \in [1 .. B -> DataByte]
      BY DEF DataBlock, B
  <2> QED BY <1>1, <2>1, SeqDef
<1>3. \A j \in 1 .. B : b[j] \in DataByte
    BY DEF DataBlock
<1> HIDE DEF H, B
<1>4. \A j \in 1 .. H : hi[j] = b[j]
  <2>1. hi = [j \in 1 .. H - 1 + 1 |-> b[j + 1 - 1]]
      BY <1>1, <1>2
  <2> QED BY <1>1, <2>1
<1>5. \A j \in 1 .. H : lo[j] = b[H + j]
  <2>1. lo = [j \in 1 .. 2 * H - (H + 1) + 1 |-> b[j + (H + 1) - 1]]
      BY <1>1, <1>2
  <2> QED BY <1>1, <2>1
<1> HIDE DEF hi, lo
<1>6. \A j \in 1 .. H : hi[j] \in DataByte /\ lo[j] \in DataByte
  <2>1. \A j \in 1 .. H : j \in 1 .. B /\ H + j \in 1 .. B
      BY <1>1
  <2> QED BY <1>3, <1>4, <1>5, <2>1
<1>7. \A x \in 0 .. kHalfBits - 1 : H - x \div 8 \in 1 .. H
    BY <1>1
<1>8. \A x : x \in load_be64(hi) <=> x \in 0 .. kHalfBits - 1 /\ x % 8 \in hi[H - x \div 8]
    BY <1>6, LoadIn DEF H
<1>9. \A x : x \in load_be64(lo) <=> x \in 0 .. kHalfBits - 1 /\ x % 8 \in lo[H - x \div 8]
    BY <1>6, LoadIn DEF H
<1>10. \A x : x \in load_be64(hi) <=> x \in 0 .. kHalfBits - 1 /\ x % 8 \in b[H - x \div 8]
    BY <1>4, <1>7, <1>8
<1>11. \A x : x \in load_be64(lo) <=> x \in 0 .. kHalfBits - 1 /\ x % 8 \in b[H + (H - x \div 8)]
    BY <1>5, <1>7, <1>9
<1>12. Hi(b) = load_be64(hi) /\ Lo(b) = load_be64(lo)
    BY DEF Hi, Lo, hi, lo, H, B
<1> QED BY <1>10, <1>11, <1>12 DEF H

LEMMA PolyTyped ==
    ASSUME NEW b \in DataBlock
    PROVE  Hi(b) \in HalfWord /\ Lo(b) \in HalfWord /\ Poly(b) \in Field
<1>1. Hi(b) \in HalfWord /\ Lo(b) \in HalfWord
    BY WordsIn DEF HalfWord
<1> QED BY <1>1, CoefficientsTyped DEF Poly

LEMMA PolyXor ==
    ASSUME NEW a \in DataBlock, NEW b \in DataBlock
    PROVE  XorBlock(a, b) \in DataBlock /\ Poly(XorBlock(a, b)) = Poly(a) ++ Poly(b)
<1> DEFINE c == XorBlock(a, b)
           H == HalfBytes
           K == kHalfBits
<1>1. \A j \in 1 .. kBlockSizeBytes : c[j] = a[j] ++ b[j] /\ a[j] \in DataByte /\ b[j] \in DataByte
    BY DEF XorBlock, DataBlock, ++
<1>2. c \in DataBlock
  <2>1. \A j \in 1 .. kBlockSizeBytes : a[j] ++ b[j] \in DataByte
      BY <1>1, XorBounds DEF DataByte
  <2>2. c = [j \in 1 .. kBlockSizeBytes |-> a[j] ++ b[j]]
      BY DEF XorBlock, ++
  <2> HIDE DEF c
  <2> QED BY <2>1, <2>2 DEF DataBlock
<1>3. \A x \in 0 .. K - 1 : H - x \div 8 \in 1 .. kBlockSizeBytes /\ H + (H - x \div 8) \in 1 .. kBlockSizeBytes
    BY BlockSizeNatural
<1> HIDE DEF c, H, K
<1>4. Hi(c) = Hi(a) ++ Hi(b)
  <2>1. \A x \in 0 .. K - 1 : x % 8 \in c[H - x \div 8] <=>
                                (x % 8 \in a[H - x \div 8] <=> ~(x % 8 \in b[H - x \div 8]))
      BY <1>1, <1>3, XorIn
  <2>2. \A x : x \in Hi(a) ++ Hi(b) <=> (x \in Hi(a) <=> ~(x \in Hi(b)))
      BY XorIn
  <2>3. /\ \A x : x \in Hi(a) <=> x \in 0 .. K - 1 /\ x % 8 \in a[H - x \div 8]
        /\ \A x : x \in Hi(b) <=> x \in 0 .. K - 1 /\ x % 8 \in b[H - x \div 8]
        /\ \A x : x \in Hi(c) <=> x \in 0 .. K - 1 /\ x % 8 \in c[H - x \div 8]
      BY <1>2, WordsIn DEF H, K
  <2>4. \A x : x \in Hi(c) <=> x \in Hi(a) ++ Hi(b)
      BY <2>1, <2>2, <2>3
  <2> QED BY <2>4
<1>5. Lo(c) = Lo(a) ++ Lo(b)
  <2>1. \A x \in 0 .. K - 1 : x % 8 \in c[H + (H - x \div 8)] <=>
                                (x % 8 \in a[H + (H - x \div 8)] <=> ~(x % 8 \in b[H + (H - x \div 8)]))
      BY <1>1, <1>3, XorIn
  <2>2. \A x : x \in Lo(a) ++ Lo(b) <=> (x \in Lo(a) <=> ~(x \in Lo(b)))
      BY XorIn
  <2>3. /\ \A x : x \in Lo(a) <=> x \in 0 .. K - 1 /\ x % 8 \in a[H + (H - x \div 8)]
        /\ \A x : x \in Lo(b) <=> x \in 0 .. K - 1 /\ x % 8 \in b[H + (H - x \div 8)]
        /\ \A x : x \in Lo(c) <=> x \in 0 .. K - 1 /\ x % 8 \in c[H + (H - x \div 8)]
      BY <1>2, WordsIn DEF H, K
  <2>4. \A x : x \in Lo(c) <=> x \in Lo(a) ++ Lo(b)
      BY <2>1, <2>2, <2>3
  <2> QED BY <2>4
<1>6. Coefficients(Hi(a) ++ Hi(b), Lo(a) ++ Lo(b)) = Coefficients(Hi(a), Lo(a)) ++ Coefficients(Hi(b), Lo(b))
    BY PolyTyped, CoefficientsXor
<1> QED BY <1>2, <1>4, <1>5, <1>6 DEF Poly, c

LEMMA PolyZero == ZeroBlock \in DataBlock /\ Poly(ZeroBlock) = {}
<1>1. ZeroBlock \in DataBlock
    BY DEF ZeroBlock, DataBlock, DataByte
<1>2. \A x \in 0 .. kHalfBits - 1 : /\ HalfBytes - x \div 8 \in 1 .. kBlockSizeBytes
                                    /\ HalfBytes + (HalfBytes - x \div 8) \in 1 .. kBlockSizeBytes
    BY BlockSizeNatural
<1>3. \A j \in 1 .. kBlockSizeBytes : ZeroBlock[j] = {}
    BY DEF ZeroBlock
<1>4. Hi(ZeroBlock) = {} /\ Lo(ZeroBlock) = {}
    BY <1>1, <1>2, <1>3, WordsIn
<1> QED BY <1>1, <1>4 DEF Poly, Coefficients

LEMMA PolyStore ==
    ASSUME NEW hi, NEW lo
    PROVE  /\ store_be64(hi) \o store_be64(lo) \in DataBlock
           /\ hi \in HalfWord /\ lo \in HalfWord => Poly(store_be64(hi) \o store_be64(lo)) = Coefficients(hi, lo)
<1> DEFINE H == HalfBytes
           f == store_be64(hi)
           g == store_be64(lo)
<1>1. H \in Nat /\ kBlockSizeBytes = 2 * H
    BY BlockSizeNatural
<1>2. f \in Seq(DataByte) /\ Len(f) = H /\ g \in Seq(DataByte) /\ Len(g) = H
  <2>1. f \in [1 .. H -> DataByte] /\ g \in [1 .. H -> DataByte]
      BY DEF store_be64, DataByte
  <2> HIDE DEF f, g
  <2> QED BY <1>1, <2>1, SeqDef
<1>3. f \o g \in DataBlock
  <2> HIDE DEF f, g, H
  <2>1. f \o g \in Seq(DataByte) /\ Len(f \o g) = 2 * H
      BY <1>1, <1>2
  <2>2. f \o g \in [1 .. 2 * H -> DataByte]
    <3> DEFINE s == f \o g
               n == 2 * H
    <3>1. s \in Seq(DataByte) /\ Len(s) = n
        BY <2>1
    <3> HIDE DEF s, n
    <3>2. s \in [1 .. n -> DataByte]
        BY <3>1, LenProperties
    <3> QED BY <3>2 DEF s, n
  <2> QED BY <1>1, <2>2 DEF DataBlock
<1>4. ASSUME hi \in HalfWord, lo \in HalfWord PROVE Poly(f \o g) = Coefficients(hi, lo)
  <2>1. Hi(f \o g) = hi /\ Lo(f \o g) = lo
      BY <1>4, HalvesOfBlock DEF HalfWord
  <2> QED BY <2>1 DEF Poly
<1> QED BY <1>3, <1>4

(* gf128_mul goes through the coefficients of h in ascending order.        *)
LEMMA HBitIsCoefficient ==
    ASSUME input.h \in DataBlock, NEW j \in 0 .. FieldDegree - 1
    PROVE  HBit(j) <=> j \in Poly(input.h)
<1> DEFINE K == kHalfBits
           hi == Hi(input.h)
           lo == Lo(input.h)
<1>1. K \in Nat /\ FieldDegree = 2 * K
    BY FieldModulusOK
<1>2. hi \in HalfWord /\ lo \in HalfWord
    BY PolyTyped
<1>3. HBit(j) <=> IF j < K THEN K - 1 - j \in hi ELSE K - 1 - (j - K) \in lo
    BY DEF HBit
<1> HIDE DEF hi, lo
<1>4. j \in Coefficients(hi, lo) <=> \/ j \in 0 .. K - 1 /\ K - 1 - j \in hi
                                     \/ j \in K .. 2 * K - 1 /\ 2 * K - 1 - j \in lo
    BY <1>2, CoefficientsIn
<1> HIDE DEF K
<1>5. /\ j < K => j \in 0 .. K - 1 /\ ~(j \in K .. 2 * K - 1)
      /\ ~(j < K) => j \in K .. 2 * K - 1 /\ ~(j \in 0 .. K - 1) /\ K - 1 - (j - K) = 2 * K - 1 - j
    BY <1>1
<1>6. HBit(j) <=> j \in Coefficients(hi, lo)
    BY <1>3, <1>4, <1>5
<1> QED BY <1>6 DEF Poly, hi, lo
-----------------------------------------------------------------------------
(* The powers of h, and Horner's rule.                                     *)
PowerStep(h, n) == [x \in (1 .. n) \X Field |-> FieldProduct(x[2], Poly(h))]
Powers(h, n) ==
    CHOOSE pow : pow = [k \in 0 .. n |-> IF k = 0 THEN {0} ELSE Reduce(PolyMul(pow[k - 1], Poly(h)))]

LEMMA PowersSolve ==
    ASSUME NEW h \in DataBlock, NEW n \in Nat
    PROVE  /\ Powers(h, n) \in [0 .. n -> Field]
           /\ Powers(h, n)[0] = {0}
           /\ \A k \in 1 .. n : Powers(h, n)[k] = FieldProduct(Powers(h, n)[k - 1], Poly(h))
           /\ \A j \in Nat : n <= j => Solves(Powers(h, n), n, {0}, PowerStep(h, j))
           /\ Power(h, n) = Powers(h, n)[n]
<1> DEFINE q == Poly(h)
           P == Powers(h, n)
<1>1. q \in Field /\ {0} \in Field
    BY PolyTyped, FieldUnits
<1>2. ASSUME NEW w \in [0 .. n -> Field], NEW j \in Nat, n <= j, NEW k \in 0 .. n, k # 0
      PROVE  PowerStep(h, j)[<<k, w[k - 1]>>] = FieldProduct(w[k - 1], q)
  <2>1. k \in 1 .. j /\ k - 1 \in 0 .. n
      BY <1>2
  <2>2. w[k - 1] \in Field
      BY <2>1
  <2>3. <<k, w[k - 1]>> \in (1 .. j) \X Field
      BY <2>1, <2>2
  <2> QED BY <2>3 DEF PowerStep
<1>3. PowerStep(h, n) \in [(1 .. n) \X Field -> Field]
  <2>1. ASSUME NEW x \in (1 .. n) \X Field PROVE FieldProduct(x[2], q) \in Field
      BY <1>1, FieldProductTyped
  <2> QED BY <2>1 DEF PowerStep
<1>4. PICK w \in [0 .. n -> Field] : Solves(w, n, {0}, PowerStep(h, n))
    BY <1>1, <1>3, SolutionExists
<1>5. w = [k \in 0 .. n |-> IF k = 0 THEN {0} ELSE Reduce(PolyMul(w[k - 1], q))]
  <2>1. w = [k \in 0 .. n |-> IF k = 0 THEN {0} ELSE PowerStep(h, n)[<<k, w[k - 1]>>]]
      BY <1>4 DEF Solves
  <2>2. \A k \in 0 .. n : k # 0 => PowerStep(h, n)[<<k, w[k - 1]>>] = Reduce(PolyMul(w[k - 1], q))
      BY <1>2, ReduceIsMod
  <2> QED BY <2>1, <2>2
<1>6. P = [k \in 0 .. n |-> IF k = 0 THEN {0} ELSE Reduce(PolyMul(P[k - 1], q))]
    BY <1>5 DEF Powers
<1>7. Power(h, n) = P[n]
    BY DEF Power, Powers
<1> HIDE DEF P, q
<1>8. \A k \in 0 .. n : P[k] = IF k = 0 THEN {0} ELSE FieldProduct(P[k - 1], q)
    BY <1>6, ReduceIsMod
<1>9. P[0] = {0} /\ \A k \in 1 .. n : P[k] = FieldProduct(P[k - 1], q)
  <2>1. 0 \in 0 .. n /\ \A k \in 1 .. n : k \in 0 .. n /\ k # 0
      OBVIOUS
  <2> QED BY <1>8, <2>1
<1> DEFINE Good == {k \in 0 .. n : P[k] \in Field}
<1>10. 0 \in Good
  <2>1. 0 \in 0 .. n
      OBVIOUS
  <2>2. P[0] \in Field
      BY <1>1, <1>9
  <2> QED BY <2>1, <2>2
<1>11. ASSUME NEW k \in 0 .. n - 1, k \in Good PROVE k + 1 \in Good
  <2>1. k + 1 \in 1 .. n /\ k + 1 \in 0 .. n /\ (k + 1) - 1 = k
      OBVIOUS
  <2>2. P[k + 1] = FieldProduct(P[k], q)
      BY <1>9, <2>1
  <2>3. P[k] \in Field
      BY <1>11
  <2> QED BY <1>1, <2>1, <2>2, <2>3, FieldProductTyped
<1>12. \A k \in 0 .. n : k \in Good
  <2> HIDE DEF Good
  <2> QED BY <1>10, <1>11, IntervalInduction
<1>13. P \in [0 .. n -> Field]
  <2>1. P = [k \in 0 .. n |-> P[k]]
      BY <1>6
  <2> QED BY <1>12, <2>1
<1>14. ASSUME NEW j \in Nat, n <= j PROVE Solves(P, n, {0}, PowerStep(h, j))
  <2>1. \A k \in 0 .. n : k # 0 => PowerStep(h, j)[<<k, P[k - 1]>>] = FieldProduct(P[k - 1], q)
      BY <1>2, <1>13, <1>14
  <2>2. \A k \in 0 .. n : P[k] = IF k = 0 THEN {0} ELSE PowerStep(h, j)[<<k, P[k - 1]>>]
      BY <1>8, <2>1
  <2>3. P = [k \in 0 .. n |-> P[k]]
      BY <1>6
  <2> QED BY <2>2, <2>3 DEF Solves
<1> QED BY <1>7, <1>9, <1>13, <1>14 DEF P, q

LEMMA PowerLaws ==
    ASSUME NEW h \in DataBlock
    PROVE  /\ \A n \in Nat : Power(h, n) \in Field
           /\ \A n \in Nat : Power(h, n + 1) = FieldProduct(Power(h, n), Poly(h))
           /\ Power(h, 1) = Poly(h)
<1>1. ASSUME NEW n \in Nat PROVE Power(h, n) \in Field
  <2>1. n \in 0 .. n /\ Powers(h, n) \in [0 .. n -> Field] /\ Power(h, n) = Powers(h, n)[n]
      BY PowersSolve
  <2> QED BY <2>1
<1>2. ASSUME NEW n \in Nat PROVE Power(h, n + 1) = FieldProduct(Power(h, n), Poly(h))
  <2> DEFINE m == n + 1
             f == Powers(h, m)
             g == Powers(h, n)
  <2>1. m \in Nat /\ n <= m /\ m <= m /\ n \in 0 .. m /\ n \in 0 .. n /\ m \in 1 .. m /\ m - 1 = n
      OBVIOUS
  <2> HIDE DEF m
  <2>2. /\ Solves(f, m, {0}, PowerStep(h, m)) /\ Power(h, m) = f[m]
        /\ \A k \in 1 .. m : f[k] = FieldProduct(f[k - 1], Poly(h))
      BY <2>1, PowersSolve
  <2>3. Solves(g, n, {0}, PowerStep(h, m)) /\ Power(h, n) = g[n]
      BY <2>1, PowersSolve
  <2> HIDE DEF f, g
  <2>4. \A k \in 0 .. n : f[k] = g[k]
      BY <2>1, <2>2, <2>3, SolutionsAgree
  <2>5. Power(h, m) = FieldProduct(Power(h, n), Poly(h))
      BY <2>1, <2>2, <2>3, <2>4
  <2> QED BY <2>5 DEF m
<1>3. Power(h, 1) = Poly(h)
  <2>1. 0 \in Nat /\ 0 + 1 = 1
      OBVIOUS
  <2>2. Power(h, 0) = {0}
      BY <2>1, PowersSolve
  <2>3. Power(h, 1) = FieldProduct({0}, Poly(h))
      BY <1>2, <2>1, <2>2
  <2>4. Poly(h) \in Field
      BY PolyTyped
  <2> QED BY <2>3, <2>4, FieldUnits
<1> QED BY <1>1, <1>2, <1>3

(* The summands and the partial sums of the polynomial.                    *)
Term(s, h, j) == FieldProduct(Poly(s[j]), Power(h, Len(s) + 1 - j))
SumStep(s, h) == [x \in (1 .. Len(s)) \X Field |-> x[2] ++ Term(s, h, x[1])]
Sums(s, h) ==
    CHOOSE sum : sum = [j \in 0 .. Len(s) |->
        IF j = 0 THEN {} ELSE sum[j - 1] ++ Reduce(PolyMul(Poly(s[j]), Power(h, Len(s) + 1 - j)))]

LEMMA TermTyped ==
    ASSUME NEW h \in DataBlock, NEW s \in Seq(DataBlock), NEW j \in 1 .. Len(s)
    PROVE  /\ Poly(s[j]) \in Field /\ Power(h, Len(s) + 1 - j) \in Field
           /\ Term(s, h, j) \in Field
<1>1. Len(s) \in Nat /\ s[j] \in DataBlock
    BY ElementOfSeq, LenProperties
<1>2. Len(s) + 1 - j \in Nat
    BY <1>1
<1>3. Power(h, Len(s) + 1 - j) \in Field
    BY <1>2, PowerLaws
<1>4. Poly(s[j]) \in Field
    BY <1>1, PolyTyped
<1> QED BY <1>3, <1>4, FieldProductTyped DEF Term

LEMMA SumsSolve ==
    ASSUME NEW h \in DataBlock, NEW s \in Seq(DataBlock)
    PROVE  /\ \A j \in 0 .. Len(s) : Sums(s, h)[j] \in Field
           /\ Sums(s, h)[0] = {}
           /\ \A j \in 1 .. Len(s) : Sums(s, h)[j] = Sums(s, h)[j - 1] ++ Term(s, h, j)
           /\ PolynomialOf(s, h) = Sums(s, h)[Len(s)]
<1> DEFINE n == Len(s)
           S == Sums(s, h)
<1>1. n \in Nat
    BY LenProperties
<1>2. \A j \in 1 .. n : Term(s, h, j) \in Field
    BY TermTyped
<1>3. SumStep(s, h) \in [(1 .. n) \X Field -> Field]
  <2>1. ASSUME NEW x \in (1 .. n) \X Field PROVE x[2] ++ Term(s, h, x[1]) \in Field
    <3>1. x[1] \in 1 .. n /\ x[2] \in Field
        OBVIOUS
    <3>2. Term(s, h, x[1]) \in Field
        BY <1>2, <3>1
    <3> QED BY <3>1, <3>2, FieldXorTyped
  <2> QED BY <2>1 DEF SumStep
<1>4. n = Len(s)
    OBVIOUS
<1> HIDE DEF n
<1>5. PICK w \in [0 .. n -> Field] : Solves(w, n, {}, SumStep(s, h))
  <2>1. {} \in Field
      BY FieldUnits
  <2> QED BY <1>1, <1>3, <2>1, SolutionExists
<1>6. \A j : Reduce(PolyMul(Poly(s[j]), Power(h, n + 1 - j))) = Term(s, h, j)
    BY <1>4, ReduceIsMod DEF Term
<1>7. w = [j \in 0 .. n |-> IF j = 0 THEN {} ELSE w[j - 1] ++ Term(s, h, j)]
  <2>1. w = [j \in 0 .. n |-> IF j = 0 THEN {} ELSE SumStep(s, h)[<<j, w[j - 1]>>]]
      BY <1>5 DEF Solves
  <2>2. ASSUME NEW j \in 0 .. n, j # 0 PROVE SumStep(s, h)[<<j, w[j - 1]>>] = w[j - 1] ++ Term(s, h, j)
    <3>1. j \in 1 .. n /\ j - 1 \in 0 .. n
        BY <1>1, <2>2
    <3>2. w[j - 1] \in Field
        BY <1>5, <3>1
    <3>3. <<j, w[j - 1]>> \in (1 .. Len(s)) \X Field
        BY <1>4, <3>1, <3>2
    <3> QED BY <3>3 DEF SumStep
  <2> QED BY <2>1, <2>2
<1>8. w = [j \in 0 .. n |-> IF j = 0 THEN {} ELSE w[j - 1] ++ Reduce(PolyMul(Poly(s[j]), Power(h, n + 1 - j)))]
    BY <1>6, <1>7
<1>9. S = [j \in 0 .. n |-> IF j = 0 THEN {} ELSE S[j - 1] ++ Reduce(PolyMul(Poly(s[j]), Power(h, n + 1 - j)))]
    BY <1>4, <1>8 DEF Sums
<1>10. PolynomialOf(s, h) = S[n]
    BY <1>4 DEF PolynomialOf, Sums
<1> HIDE DEF S
<1>11. \A j \in 0 .. n : S[j] = IF j = 0 THEN {} ELSE S[j - 1] ++ Term(s, h, j)
    BY <1>6, <1>9
<1>12. S[0] = {} /\ \A j \in 1 .. n : S[j] = S[j - 1] ++ Term(s, h, j)
  <2>1. 0 \in 0 .. n /\ \A j \in 1 .. n : j \in 0 .. n /\ j # 0
      BY <1>1
  <2> QED BY <1>11, <2>1
<1> DEFINE Good == {j \in 0 .. n : S[j] \in Field}
<1>13. 0 \in Good
    BY <1>1, <1>12, FieldUnits
<1>14. ASSUME NEW j \in 0 .. n - 1, j \in Good PROVE j + 1 \in Good
  <2>1. j + 1 \in 1 .. n /\ j + 1 \in 0 .. n /\ (j + 1) - 1 = j
      BY <1>1
  <2>2. S[j + 1] = S[j] ++ Term(s, h, j + 1)
      BY <1>12, <2>1
  <2>3. S[j] \in Field /\ Term(s, h, j + 1) \in Field
      BY <1>2, <1>4, <1>14, <2>1
  <2> QED BY <2>1, <2>2, <2>3, FieldXorTyped
<1>15. \A j \in 0 .. n : j \in Good
  <2> HIDE DEF Good
  <2> QED BY <1>1, <1>13, <1>14, IntervalInduction
<1> QED BY <1>4, <1>10, <1>12, <1>15 DEF S

(* Horner's rule: one more block multiplies the sum, with the block added  *)
(* to it, by h.                                                            *)
LEMMA Horner ==
    ASSUME NEW h \in DataBlock, NEW s \in Seq(DataBlock), NEW b \in DataBlock
    PROVE  /\ PolynomialOf(s, h) \in Field
           /\ PolynomialOf(Append(s, b), h) = FieldProduct(PolynomialOf(s, h) ++ Poly(b), Poly(h))
<1> DEFINE n == Len(s)
           t == Append(s, b)
           q == Poly(h)
           S == Sums(s, h)
           T == Sums(t, h)
<1>1. n \in Nat /\ t \in Seq(DataBlock) /\ Len(t) = n + 1 /\ t[n + 1] = b
      /\ \A j \in 1 .. n : t[j] = s[j]
    BY AppendProperties, LenProperties
<1>2. q \in Field /\ Poly(b) \in Field /\ \A j \in 1 .. n : s[j] \in DataBlock /\ Poly(s[j]) \in Field
    BY PolyTyped, ElementOfSeq
<1>3. /\ \A j \in 0 .. n : S[j] \in Field
      /\ S[0] = {}
      /\ \A j \in 1 .. n : S[j] = S[j - 1] ++ Term(s, h, j)
      /\ PolynomialOf(s, h) = S[n]
    BY SumsSolve
<1>4. /\ \A j \in 0 .. Len(t) : T[j] \in Field
      /\ T[0] = {}
      /\ \A j \in 1 .. Len(t) : T[j] = T[j - 1] ++ Term(t, h, j)
      /\ PolynomialOf(t, h) = T[Len(t)]
  <2>1. t \in Seq(DataBlock)
      BY <1>1
  <2> HIDE DEF t
  <2> QED BY <2>1, SumsSolve
<1>5. ASSUME NEW j \in 1 .. n PROVE Term(s, h, j) \in Field
    BY TermTyped
<1>6. n = Len(s)
    OBVIOUS
<1> HIDE DEF n, t, S, T, q
<1>7. ASSUME NEW j \in 1 .. n PROVE Term(t, h, j) = FieldProduct(Term(s, h, j), q)
  <2> DEFINE k == n + 1 - j
  <2>1. k \in Nat /\ Len(t) + 1 - j = k + 1 /\ Len(s) + 1 - j = k
      BY <1>1, <1>6
  <2> HIDE DEF k
  <2>2. Power(h, k) \in Field /\ Power(h, k + 1) = FieldProduct(Power(h, k), q)
      BY <2>1, PowerLaws DEF q
  <2>3. Term(t, h, j) = FieldProduct(Poly(s[j]), FieldProduct(Power(h, k), q))
      BY <1>1, <2>1, <2>2 DEF Term
  <2>4. Term(s, h, j) = FieldProduct(Poly(s[j]), Power(h, k))
      BY <2>1 DEF Term
  <2> QED BY <1>2, <2>2, <2>3, <2>4, FieldAssociative
<1> DEFINE Good == {j \in 0 .. n : T[j] = FieldProduct(S[j], q)}
<1>8. 0 \in Good
  <2>1. 0 \in 0 .. n
      BY <1>1
  <2>2. T[0] = FieldProduct(S[0], q)
      BY <1>2, <1>3, <1>4, FieldUnits
  <2> QED BY <2>1, <2>2
<1>9. ASSUME NEW j \in 0 .. n - 1, j \in Good PROVE j + 1 \in Good
  <2>1. /\ j + 1 \in 1 .. n /\ j + 1 \in 0 .. n /\ j \in 0 .. n /\ (j + 1) - 1 = j
        /\ j + 1 \in 1 .. Len(t)
      BY <1>1
  <2>2. S[j + 1] = S[j] ++ Term(s, h, j + 1) /\ S[j] \in Field /\ Term(s, h, j + 1) \in Field
      BY <1>3, <1>5, <2>1
  <2>3. T[j + 1] = T[j] ++ Term(t, h, j + 1) /\ T[j] = FieldProduct(S[j], q)
      BY <1>4, <1>9, <2>1
  <2>4. Term(t, h, j + 1) = FieldProduct(Term(s, h, j + 1), q)
      BY <1>7, <2>1
  <2>5. T[j + 1] = FieldProduct(S[j + 1], q)
      BY <1>2, <2>2, <2>3, <2>4, FieldDistributes
  <2> QED BY <2>1, <2>5
<1>10. \A j \in 0 .. n : j \in Good
  <2> HIDE DEF Good
  <2> QED BY <1>1, <1>8, <1>9, IntervalInduction
<1>11. T[n] = FieldProduct(S[n], q)
  <2>1. n \in 0 .. n
      BY <1>1
  <2> QED BY <1>10, <2>1
<1>12. Term(t, h, n + 1) = FieldProduct(Poly(b), q)
  <2>1. Len(t) + 1 - (n + 1) = 1
      BY <1>1
  <2>2. Power(h, 1) = q
      BY PowerLaws DEF q
  <2> QED BY <1>1, <2>1, <2>2 DEF Term
<1>13. T[n + 1] = T[n] ++ Term(t, h, n + 1)
  <2>1. n + 1 \in 1 .. Len(t) /\ (n + 1) - 1 = n
      BY <1>1
  <2> QED BY <1>4, <2>1
<1>14. S[n] \in Field
  <2>1. n \in 0 .. n
      BY <1>1
  <2> QED BY <1>3, <2>1
<1>15. T[n + 1] = FieldProduct(S[n] ++ Poly(b), q)
    BY <1>2, <1>11, <1>12, <1>13, <1>14, FieldDistributes
<1> QED BY <1>1, <1>3, <1>4, <1>14, <1>15 DEF t, q

LEMMA PolynomialOfNone == \A h \in DataBlock : PolynomialOf(<<>>, h) = {}
<1>1. <<>> \in Seq(DataBlock) /\ Len(<<>>) = 0
    OBVIOUS
<1> QED BY <1>1, SumsSolve

-----------------------------------------------------------------------------
(* The locals of gf128_mul before its iteration i: v is y times x^i and z  *)
(* is y times the first i powers of h; y holds the last folded block added *)
(* to the polynomial of those before it.                                   *)
MulLocals(m, a, c) ==
    /\ m.i \in 0 .. FieldDegree
    /\ m.v_hi \in HalfWord /\ m.v_lo \in HalfWord /\ m.z_hi \in HalfWord /\ m.z_lo \in HalfWord
    /\ Coefficients(m.v_hi, m.v_lo) = ModPower(a, m.i, FieldModulus, FieldDegree)
    /\ Coefficients(m.z_hi, m.z_lo) = FieldProduct(a, Below(c, m.i))

BlockAdded(blocks, acc, h) ==
    \E bs \in Seq(DataBlock), b \in DataBlock :
        blocks = Append(bs, b) /\ acc = PolynomialOf(bs, h) ++ Poly(b)

PolyInv ==
    /\ input.h \in DataBlock /\ input.aad \in Seq(DataByte) /\ input.ciphertext \in Seq(DataByte)
    /\ folded \in Seq(DataBlock) /\ y \in DataBlock /\ offset \in Nat
    /\ mul = <<>> => Poly(y) = PolynomialOf(folded, input.h)
    /\ mul # <<>> => MulLocals(mul, Poly(y), Poly(input.h)) /\ BlockAdded(folded, Poly(y), input.h)

LEMMA PaddedChunkTyped ==
    ASSUME NEW s \in Seq(DataByte), NEW at \in Nat PROVE PaddedChunk(s, at) \in DataBlock
<1>1. Len(s) \in Nat /\ {} \in DataByte
    BY LenProperties DEF DataByte
<1>2. ASSUME NEW j \in 1 .. kBlockSizeBytes, at + j <= Len(s) PROVE s[at + j] \in DataByte
  <2>1. at + j \in 1 .. Len(s)
      BY <1>1, <1>2, BlockSizeNatural
  <2> QED BY <2>1, ElementOfSeq
<1> QED BY <1>1, <1>2 DEF PaddedChunk, DataBlock

(* Before its first iteration nothing is multiplied.                       *)
LEMMA MulStarts ==
    ASSUME PolyInv, mul = <<>>, UNCHANGED input, offset' \in Nat, NEW b \in DataBlock, BeginMul(b)
    PROVE  PolyInv'
<1>1. /\ input.h \in DataBlock /\ folded \in Seq(DataBlock) /\ y \in DataBlock
      /\ Poly(y) = PolynomialOf(folded, input.h)
    BY DEF PolyInv
<1>2. y' \in DataBlock /\ Poly(y') = Poly(y) ++ Poly(b)
    BY <1>1, PolyXor DEF BeginMul, Accumulated
<1>3. folded' = Append(folded, b) /\ folded' \in Seq(DataBlock)
    BY <1>1, AppendProperties DEF BeginMul
<1>4. BlockAdded(folded', Poly(y'), input.h)
    BY <1>1, <1>2, <1>3 DEF BlockAdded
<1>5. mul' = [i |-> 0, v_hi |-> Hi(y'), v_lo |-> Lo(y'), z_hi |-> {}, z_lo |-> {}]
    BY DEF BeginMul
<1>6. mul'.i = 0 /\ mul'.v_hi = Hi(y') /\ mul'.v_lo = Lo(y') /\ mul'.z_hi = {} /\ mul'.z_lo = {}
    BY <1>5
<1> DEFINE a == Poly(y')
           c == Poly(input.h)
<1>7. /\ Hi(y') \in HalfWord /\ Lo(y') \in HalfWord /\ {} \in HalfWord
      /\ a \in Field /\ a = Coefficients(Hi(y'), Lo(y'))
    BY <1>2, PolyTyped DEF Poly, HalfWord
<1> HIDE DEF a
<1>8. ModPower(a, 0, FieldModulus, FieldDegree) = a
    BY <1>7, FieldModulusOK, ModPowerNext DEF Field
<1>9. FieldProduct(a, Below(c, 0)) = {}
  <2>1. Below(c, 0) = {}
      BY DEF Below
  <2>2. FieldProduct(a, {}) = {}
      BY <1>7, FieldModulusOK, ModMulTrivial DEF Field, FieldProduct
  <2> QED BY <2>1, <2>2
<1>10. Coefficients({}, {}) = {}
    BY DEF Coefficients
<1>11. 0 \in 0 .. FieldDegree
    BY FieldModulusOK
<1>12. MulLocals(mul', a, c)
    BY <1>6, <1>7, <1>8, <1>9, <1>10, <1>11 DEF MulLocals
<1>13. mul' # <<>>
  <2>1. "i" \in DOMAIN mul'
      BY <1>5
  <2>2. "i" \notin DOMAIN <<>>
      OBVIOUS
  <2> QED BY <2>1, <2>2
<1> QED BY <1>1, <1>2, <1>3, <1>4, <1>12, <1>13 DEF PolyInv, a, c

LEMMA FieldProductNext ==
    ASSUME NEW a \in Field, NEW c \in Field, NEW k \in 0 .. FieldDegree - 1
    PROVE  FieldProduct(a, Below(c, k + 1)) =
             IF k \in c THEN FieldProduct(a, Below(c, k)) ++ ModPower(a, k, FieldModulus, FieldDegree)
             ELSE FieldProduct(a, Below(c, k))
BY FieldModulusOK, ModMulBelow DEF Field, FieldProduct

(* One iteration multiplies v by x and adds it to z if h has the power.    *)
LEMMA MulIterates ==
    ASSUME PolyInv, MulIteration PROVE PolyInv'
<1> DEFINE a == Poly(y)
           c == Poly(input.h)
           k == mul.i
           M == FieldModulus
           d == FieldDegree
           w == Shift(mul.v_hi, mul.v_lo)
           V == Coefficients(mul.v_hi, mul.v_lo)
           Z == Coefficients(mul.z_hi, mul.z_lo)
<1>1. /\ input.h \in DataBlock /\ y \in DataBlock
      /\ MulLocals(mul, a, c) /\ BlockAdded(folded, a, input.h)
    BY DEF PolyInv, MulIteration
<1>2. a \in Residues(d) /\ c \in Residues(d) /\ Modulus(M, d) /\ d \in Nat
    BY <1>1, PolyTyped, FieldModulusOK DEF Field
<1>3. /\ k \in 0 .. d /\ k < d
      /\ mul.v_hi \in HalfWord /\ mul.v_lo \in HalfWord /\ mul.z_hi \in HalfWord /\ mul.z_lo \in HalfWord
      /\ V = ModPower(a, k, M, d)
      /\ Z = FieldProduct(a, Below(c, k))
    BY <1>1 DEF MulLocals, MulIteration, FieldDegree
<1>4. k \in 0 .. d - 1 /\ k + 1 \in 0 .. d /\ (k + 1) - 1 = k
    BY <1>2, <1>3
<1>5. mul' = [i |-> k + 1, v_hi |-> w[1], v_lo |-> w[2],
              z_hi |-> IF HBit(k) THEN mul.z_hi ++ mul.v_hi ELSE mul.z_hi,
              z_lo |-> IF HBit(k) THEN mul.z_lo ++ mul.v_lo ELSE mul.z_lo]
    BY DEF MulIteration
<1>6. HBit(k) <=> k \in c
    BY <1>1, <1>4, HBitIsCoefficient
<1>7. w[1] \in HalfWord /\ w[2] \in HalfWord /\ Coefficients(w[1], w[2]) = ModX(V, M, d)
    BY <1>3, ShiftIsTimesX
<1> HIDE DEF a, c, M, d, w, V, Z, k
<1>8. Coefficients(w[1], w[2]) = ModPower(a, k + 1, M, d)
    BY <1>2, <1>3, <1>4, <1>7, ModPowerNext
<1>9. FieldProduct(a, Below(c, k + 1)) = IF k \in c THEN Z ++ V ELSE Z
  <2>1. a \in Field /\ c \in Field /\ k \in 0 .. FieldDegree - 1
      BY <1>2, <1>4 DEF Field, d
  <2>2. FieldProduct(a, Below(c, k + 1)) =
          IF k \in c THEN FieldProduct(a, Below(c, k)) ++ ModPower(a, k, FieldModulus, FieldDegree)
          ELSE FieldProduct(a, Below(c, k))
      BY ONLY <2>1, FieldProductNext
  <2> QED BY <1>3, <2>2 DEF M, d
<1>10. /\ mul.z_hi ++ mul.v_hi \in HalfWord /\ mul.z_lo ++ mul.v_lo \in HalfWord
       /\ Coefficients(mul.z_hi ++ mul.v_hi, mul.z_lo ++ mul.v_lo) = Z ++ V
  <2> DEFINE zh == mul.z_hi
             zl == mul.z_lo
             vh == mul.v_hi
             vl == mul.v_lo
  <2>1. zh \in HalfWord /\ zl \in HalfWord /\ vh \in HalfWord /\ vl \in HalfWord
      BY <1>3
  <2> HIDE DEF zh, zl, vh, vl
  <2>2. /\ zh ++ vh \in HalfWord /\ zl ++ vl \in HalfWord
        /\ Coefficients(zh ++ vh, zl ++ vl) = Coefficients(zh, zl) ++ Coefficients(vh, vl)
      BY ONLY <2>1, CoefficientsXor
  <2> QED BY <2>2 DEF zh, zl, vh, vl, Z, V
<1>11. /\ mul'.z_hi \in HalfWord /\ mul'.z_lo \in HalfWord
       /\ Coefficients(mul'.z_hi, mul'.z_lo) = IF k \in c THEN Z ++ V ELSE Z
  <2>1. CASE k \in c
    <3>1. mul'.z_hi = mul.z_hi ++ mul.v_hi /\ mul'.z_lo = mul.z_lo ++ mul.v_lo
        BY <1>5, <1>6, <2>1
    <3> QED BY <1>10, <2>1, <3>1
  <2>2. CASE k \notin c
    <3>1. mul'.z_hi = mul.z_hi /\ mul'.z_lo = mul.z_lo
        BY <1>5, <1>6, <2>2
    <3> QED BY <1>3, <2>2, <3>1 DEF Z
  <2> QED BY <2>1, <2>2
<1>12. mul'.i = k + 1 /\ mul'.v_hi = w[1] /\ mul'.v_lo = w[2]
    BY <1>5
<1>13. MulLocals(mul', a, c)
    BY <1>4, <1>7, <1>8, <1>9, <1>11, <1>12 DEF MulLocals, M, d
<1>14. mul' # <<>>
  <2>1. "i" \in DOMAIN mul'
      BY <1>5
  <2>2. "i" \notin DOMAIN <<>>
      OBVIOUS
  <2> QED BY <2>1, <2>2
<1>15. UNCHANGED <<input, part, offset, y, folded>>
    BY DEF MulIteration
<1> QED BY <1>1, <1>13, <1>14, <1>15 DEF PolyInv, a, c

(* After the last iteration z is the product, and y the next Horner sum.   *)
LEMMA MulEnds ==
    ASSUME PolyInv, MulReturns PROVE PolyInv'
<1> DEFINE a == Poly(y)
           c == Poly(input.h)
<1>1. /\ input.h \in DataBlock /\ y \in DataBlock
      /\ MulLocals(mul, a, c) /\ BlockAdded(folded, a, input.h)
    BY DEF PolyInv, MulReturns
<1>2. a \in Field /\ c \in Field /\ FieldDegree \in Nat
    BY <1>1, PolyTyped, FieldModulusOK
<1>3. mul.i = FieldDegree /\ mul' = <<>> /\ y' = store_be64(mul.z_hi) \o store_be64(mul.z_lo)
      /\ UNCHANGED <<input, part, offset, folded>>
    BY DEF MulReturns, FieldDegree
<1>4. mul.z_hi \in HalfWord /\ mul.z_lo \in HalfWord
      /\ Coefficients(mul.z_hi, mul.z_lo) = FieldProduct(a, Below(c, FieldDegree))
    BY <1>1, <1>3 DEF MulLocals
<1>5. Below(c, FieldDegree) = c
    BY <1>2 DEF Below, Field, Residues
<1>6. y' \in DataBlock /\ Poly(y') = FieldProduct(a, c)
    BY <1>3, <1>4, <1>5, PolyStore
<1>7. PICK bs \in Seq(DataBlock), b \in DataBlock :
        folded = Append(bs, b) /\ a = PolynomialOf(bs, input.h) ++ Poly(b)
    BY <1>1 DEF BlockAdded
<1>8. PolynomialOf(folded, input.h) = FieldProduct(a, c)
    BY <1>1, <1>7, Horner
<1> QED BY <1>3, <1>6, <1>8 DEF PolyInv

LEMMA PolyInvInit == GhashInit => PolyInv
<1> SUFFICES ASSUME GhashInit PROVE PolyInv
    OBVIOUS
<1>1. input \in Inputs /\ y = ZeroBlock /\ mul = <<>> /\ folded = <<>> /\ offset = 0
    BY DEF GhashInit
<1>2. input.h \in DataBlock
    BY <1>1, InputsAssumption DEF DataBlock, DataByte
<1>3. input.aad \in Seq(DataByte) /\ input.ciphertext \in Seq(DataByte)
    BY <1>1, InputsTyped
<1>4. PolynomialOf(<<>>, input.h) = {}
    BY <1>2, PolynomialOfNone
<1>5. <<>> \in Seq(DataBlock)
    OBVIOUS
<1> QED BY <1>1, <1>2, <1>3, <1>4, <1>5, PolyZero DEF PolyInv

LEMMA PolyInvNext == PolyInv /\ [GhashNext]_ghashVars => PolyInv'
<1> SUFFICES ASSUME PolyInv, [GhashNext]_ghashVars PROVE PolyInv'
    OBVIOUS
<1>1. CASE FoldInto
  <2>1. Data \in Seq(DataByte) /\ Len(Data) \in Nat /\ offset \in Nat /\ offset < Len(Data)
      BY <1>1, LenProperties DEF PolyInv, Data, FoldInto
  <2>2. offset' = offset + Min({kBlockSizeBytes, Len(Data) - offset})
      BY <1>1 DEF FoldInto
  <2>3. offset' \in Nat
    <3> DEFINE B == kBlockSizeBytes
               L == Len(Data) - offset
    <3>1. B \in Int /\ L \in Int /\ B >= 0 /\ L >= 0
        BY <2>1, BlockSizeNatural
    <3>2. offset' = offset + Min({B, L})
        BY <2>2
    <3> HIDE DEF B, L
    <3>3. CASE B <= L
        BY <2>1, <3>1, <3>2, <3>3, MinOfTwo
    <3>4. CASE L <= B
      <4>1. {B, L} = {L, B}
          OBVIOUS
      <4>2. Min({L, B}) = L
          BY <3>1, <3>4, MinOfTwo
      <4>3. offset' = offset + L
          BY <3>2, <4>1, <4>2, Zenon
      <4> QED BY <2>1, <3>1, <4>3
    <3> QED BY <3>1, <3>3, <3>4
  <2>4. PaddedChunk(Data, offset) \in DataBlock
      BY <2>1, PaddedChunkTyped
  <2> QED BY <1>1, <2>3, <2>4, MulStarts DEF FoldInto
<1>2. CASE FoldIntoEnds
    BY <1>2 DEF FoldIntoEnds, PolyInv
<1>3. CASE FoldLengths
  <2>1. LengthBlock \in DataBlock
      BY PolyStore DEF LengthBlock
  <2>2. offset' \in Nat
      BY <1>3 DEF FoldLengths, PolyInv
  <2> QED BY <1>3, <2>1, <2>2, MulStarts DEF FoldLengths
<1>4. CASE MulIteration
    BY <1>4, MulIterates
<1>5. CASE MulReturns
    BY <1>5, MulEnds
<1>6. CASE UNCHANGED ghashVars
    BY <1>6 DEF ghashVars, PolyInv
<1> QED BY <1>1, <1>2, <1>3, <1>4, <1>5, <1>6 DEF GhashNext

(***************************************************************************)
(* For every h, associated data and ciphertext, what ghash() of ghash.cpp  *)
(* returns is the GHASH polynomial of SP 800-38D: the sum of the folded    *)
(* blocks, each times its descending power of h in the field reduced by    *)
(* x^(2W) + x^7 + x^2 + x + 1.                                             *)
(***************************************************************************)
THEOREM GhashMatchesSp80038d == GhashSpec => []GhashIsPolynomial
<1>1. PolyInv => GhashIsPolynomial
    BY DEF PolyInv, GhashIsPolynomial, Returned
<1> QED BY <1>1, PolyInvInit, PolyInvNext, PTL DEF GhashSpec
=============================================================================
