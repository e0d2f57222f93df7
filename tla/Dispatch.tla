------------------------------ MODULE Dispatch -----------------------------
(***************************************************************************)
(* The choice between hardware and software AES: encrypt_block of both     *)
(* modes, active_backend and has_hw_aes with its function-local static and *)
(* the known-answer self-test (cpu_detect.cpp), under several threads.     *)
(*                                                                         *)
(* A host says whether it has AES instructions (bit) and computes wrongly  *)
(* on some inputs (wrong): the two known-answer vectors, or blocks of data *)
(* under keys of either size.  Where the bit is not set the instructions   *)
(* fault.  The environment variable is read at every block, and other code *)
(* may set it at any time; a setenv inside a running getenv, which C does  *)
(* not define, is left out.  The body of the static's initializer does not *)
(* throw.                                                                  *)
(***************************************************************************)
EXTENDS Integers

CONSTANTS
    Threads,
    MaxBlocks   \* bound: encrypt_block calls of one message

ASSUME MaxBlocksAssumption == MaxBlocks \in Nat
ASSUME ThreadsAssumption == "new" \notin Threads /\ "done" \notin Threads

VARIABLES
    host,       \* the machine; never changes
    env,        \* AESLIB_FORCE_SOFTWARE
    guard,      \* of the static: "new", the thread in its initializer, "done"
    supported,  \* the static, false until it is initialised
    pc,         \* where each thread is
    size,       \* key size of its message
    left,       \* its blocks still to encrypt; 0 in a plain active_backend()
    answers,    \* history: what has_hw_aes has returned
    faulted,    \* history: an AES instruction ran where there is none
    wrong       \* history: a data block was computed wrongly

vars == <<host, env, guard, supported, pc, size, left, answers, faulted, wrong>>

KeySizes == {16, 32}
Vectors == {"kat128", "kat256"}
DataUnder(sz) == IF sz = 16 THEN "data128" ELSE "data256"
Hosts == [bit : BOOLEAN, wrong : SUBSET (Vectors \cup {"data128", "data256"})]
EnvValues == {"unset", "", "0", "1"}

Init ==
    /\ host \in Hosts /\ env \in EnvValues
    /\ guard = "new" /\ supported = FALSE
    /\ pc = [t \in Threads |-> "idle"]
    /\ size = [t \in Threads |-> 32] /\ left = [t \in Threads |-> 0]
    /\ answers = {} /\ faulted = FALSE /\ wrong = FALSE

Goto(t, where) == pc' = [pc EXCEPT ![t] = where]

\* external: the caller starts a message of n blocks, or asks for the backend
Call(t, sz, n) ==
    /\ pc[t] = "idle" /\ Goto(t, "getenv")
    /\ size' = [size EXCEPT ![t] = sz] /\ left' = [left EXCEPT ![t] = n]
    /\ UNCHANGED <<host, env, guard, supported, answers, faulted, wrong>>

\* external
SetEnv ==
    /\ env' \in EnvValues \ {env}
    /\ UNCHANGED <<host, guard, supported, pc, size, left, answers, faulted, wrong>>

-----------------------------------------------------------------------------
Forced(v) == v \notin {"unset", "", "0"}

\* active_backend returns: encrypt_block takes the branch, a plain call ends.
Decide(t, backend) == Goto(t, IF left[t] = 0 THEN "idle" ELSE backend)

active_backend(t) ==
    /\ pc[t] = "getenv"
    /\ IF Forced(env) THEN Decide(t, "soft") ELSE Goto(t, "static")
    /\ UNCHANGED <<host, env, guard, supported, size, left, answers, faulted, wrong>>

\* mutant: a plain "was it started" flag instead of the guard
StartedIsEnough == guard # "new"
Initialised == guard = "done"

\* One thread runs the initializer of the static, the others wait for it.
has_hw_aes(t) ==
    /\ pc[t] = "static"
    /\ \/ /\ guard = "new"
          /\ guard' = t /\ Goto(t, "probe") /\ UNCHANGED answers
       \/ /\ Initialised
          /\ Decide(t, IF supported THEN "hw" ELSE "soft")
          /\ answers' = answers \cup {supported} /\ UNCHANGED guard
    /\ UNCHANGED <<host, env, supported, size, left, faulted, wrong>>

\* The end of the initializer.
Memoize(t, value) ==
    /\ supported' = value /\ guard' = "done"
    /\ Goto(t, "static")

\* mutants: the wrong feature bit; the self-test encrypts through the dispatch
BitIgnored == TRUE
SelfTestDispatches == "getenv"

\* CPUID, HWCAP or hwprobe, then the self-test, which calls the hardware
\* functions directly.
FeatureBit == host.bit
SelfTestStart == "kat128"

Probe(t) ==
    /\ pc[t] = "probe"
    /\ IF FeatureBit THEN Goto(t, SelfTestStart) /\ UNCHANGED <<guard, supported>>
       ELSE Memoize(t, FALSE)
    /\ UNCHANGED <<host, env, size, left, answers, faulted, wrong>>

kat_matches(v) == v \notin host.wrong

\* mutant: the AES-256 vector is not tried
FirstVectorOnly(v) == TRUE
LastVector(v) == v = "kat256"

\* hw_backend_passes_self_test: the AES-128 vector, then the AES-256 vector.
SelfTest(t) ==
    /\ pc[t] \in Vectors
    /\ faulted' = (faulted \/ ~host.bit)
    /\ IF kat_matches(pc[t]) /\ ~LastVector(pc[t])
       THEN Goto(t, "kat256") /\ UNCHANGED <<guard, supported>>
       ELSE Memoize(t, kat_matches(pc[t]))
    /\ UNCHANGED <<host, env, size, left, answers, wrong>>

\* The block is encrypted; the next one asks active_backend() again.
NextBlock(t) ==
    /\ left' = [left EXCEPT ![t] = @ - 1]
    /\ Goto(t, IF left[t] = 1 THEN "idle" ELSE "getenv")

encrypt_block_hw(t) ==
    /\ pc[t] = "hw" /\ NextBlock(t)
    /\ faulted' = (faulted \/ ~host.bit)
    /\ wrong' = (wrong \/ DataUnder(size[t]) \in host.wrong)
    /\ UNCHANGED <<host, env, guard, supported, size, answers>>

encrypt_block_soft(t) ==
    /\ pc[t] = "soft" /\ NextBlock(t)
    /\ UNCHANGED <<host, env, guard, supported, size, answers, faulted, wrong>>

Step(t) ==
    \/ active_backend(t) \/ has_hw_aes(t) \/ Probe(t) \/ SelfTest(t)
    \/ encrypt_block_hw(t) \/ encrypt_block_soft(t)

Next ==
    \/ \E t \in Threads, sz \in KeySizes, n \in 0 .. MaxBlocks : Call(t, sz, n)
    \/ SetEnv
    \/ \E t \in Threads : Step(t)

\* Threads are scheduled; nobody has to call, or to set the variable.
Spec == Init /\ [][Next]_vars /\ \A t \in Threads : WF_vars(Step(t))

-----------------------------------------------------------------------------
(***************************************************************************)
(* Types; the initializer of the static runs in the one thread that holds  *)
(* its guard, and the static keeps its initial value until then.           *)
(***************************************************************************)
TypeOK ==
    /\ host \in Hosts /\ env \in EnvValues
    /\ guard \in {"new", "done"} \cup Threads
    /\ supported \in BOOLEAN /\ answers \subseteq BOOLEAN
    /\ pc \in [Threads -> {"idle", "getenv", "static", "probe", "hw", "soft"} \cup Vectors]
    /\ size \in [Threads -> KeySizes] /\ left \in [Threads -> 0 .. MaxBlocks]
    /\ \A t \in Threads : pc[t] \in {"probe"} \cup Vectors <=> guard = t
    /\ guard # "done" => ~supported

(***************************************************************************)
(* No AES instruction runs on a CPU without it, in the self-test or for a  *)
(* block, however the override changes between blocks: it "can only        *)
(* downgrade Hardware -> Software" (cpu_detect.cpp).                       *)
(***************************************************************************)
NoFault == ~faulted

(***************************************************************************)
(* "silently producing wrong ciphertext" (cpu_detect.cpp) is left only     *)
(* for hardware that computes both known-answer vectors correctly: any     *)
(* other is never used for data, by any thread, also while the self-test   *)
(* of another thread is running.                                           *)
(***************************************************************************)
WrongOnlyBeyondSelfTest ==
    wrong => host.wrong \cap Vectors = {}

(***************************************************************************)
(* has_hw_aes "runs its hardware-capability check once and memoizes the    *)
(* result" (DESIGN.md): all threads at all times get the same answer, the  *)
(* ones that ask during the check included.                                *)
(***************************************************************************)
OneAnswer == \A x, y \in answers : x = y

(***************************************************************************)
(* Every message and every active_backend() call ends: the initializer of  *)
(* the static does not need the static itself, so the threads that wait    *)
(* for it go on.                                                           *)
(***************************************************************************)
CallsReturn == \A t \in Threads : pc[t] # "idle" ~> pc[t] = "idle"
=============================================================================
