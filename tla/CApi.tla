-------------------------------- MODULE CApi -------------------------------
(***************************************************************************)
(* The C ABI of capi.cpp as the Python binding aeslib_ffi.py uses it: key  *)
(* handles, output buffers, and the thread_local error message, under      *)
(* several Python threads.  ctypes releases the interpreter lock around    *)
(* every foreign call, so the steps of two threads interleave before and   *)
(* after each call, never between two Python statements without one.       *)
(*                                                                         *)
(* The functions are of three kinds: "create" (generate, load_from_file),  *)
(* "save" (save_to_file) and "crypt" (the four of CTR and GCM, which       *)
(* allocate an output).  What they compute is in the other modules; here   *)
(* they succeed or throw.  A call is identified by a number, which also    *)
(* names the key that it creates, the buffer it allocates and the message  *)
(* it leaves.  A handle is an address: delete gives it back and a later    *)
(* new may return it for another key, so a stale handle is either freed or *)
(* somebody else's.  Not modelled: MemoryError and asynchronous exceptions *)
(* in the Python code, and what following a freed handle does to the       *)
(* memory besides ending the lifetime of the key that is there.            *)
(***************************************************************************)
EXTENDS Integers

CONSTANTS
    Threads,
    PyKeys,         \* Python SecretKey objects
    Addresses,      \* bound: where operator new can put an aeslib_key
    MaxCalls        \* bound: calls in a behaviour

ASSUME MaxCallsAssumption == MaxCalls \in Nat
ASSUME PyKeysAssumption == PyKeys # {}

Null == 0
ASSUME AddressesAssumption == Null \notin Addresses

VARIABLES
    _handle,       \* the handle in each Python object; Null after close()
    born,          \* history: the call that created the object's key
    heap,          \* the call that created the aeslib_key at an address, or Null
    buffers,       \* output buffers not yet given to aeslib_buffer_free
    g_last_error,  \* thread_local: the call whose message it holds
    pc, fn, obj,   \* where each thread is, in which function, for which object
    key,           \* the handle that its foreign call was given, or allocated
    call,          \* number of its call
    ncalls,        \* calls begun
    raised,        \* history: [call, message] of its last AeslibError
    contended,     \* history: objects that were closed during another call on them
    dangling       \* history: objects whose key was not where a call followed it

vars == <<_handle, born, heap, buffers, g_last_error, pc, fn, obj, key, call, ncalls,
          raised, contended, dangling>>
callVars == <<fn, obj, call, ncalls>>

Fns == {"create", "save", "crypt", "close"}
Calls == 1 .. MaxCalls

Init ==
    /\ _handle = [s \in PyKeys |-> Null]
    /\ born = [s \in PyKeys |-> Null]
    /\ heap = [a \in Addresses |-> Null] /\ buffers = {}
    /\ g_last_error = [t \in Threads |-> Null]
    /\ pc = [t \in Threads |-> "idle"] /\ fn \in [Threads -> {"create"}]
    /\ obj \in [Threads -> {CHOOSE s \in PyKeys : TRUE}]
    /\ key = [t \in Threads |-> Null] /\ call = [t \in Threads |-> Null]
    /\ ncalls = 0
    /\ raised = [t \in Threads |-> [call |-> Null, message |-> Null]]
    /\ contended = {} /\ dangling = {}

Goto(t, where) == pc' = [pc EXCEPT ![t] = where]

\* Threads other than t that are in a call with the object s.
Others(t, s) == {u \in Threads \ {t} : pc[u] # "idle" /\ obj[u] = s}

\* A binding function starts: the object's handle is read and passed.  Nothing
\* in the binding keeps two calls on one object apart.
Begin(t, f, s) ==
    /\ pc[t] = "idle" /\ ncalls < MaxCalls
    /\ fn' = [fn EXCEPT ![t] = f] /\ obj' = [obj EXCEPT ![t] = s]
    /\ key' = [key EXCEPT ![t] = _handle[s]]
    /\ ncalls' = ncalls + 1 /\ call' = [call EXCEPT ![t] = ncalls + 1]
    /\ contended' = contended \cup
         {obj[u] : u \in {v \in Others(t, s) : "close" \in {f, fn[v]}}}
    /\ UNCHANGED <<_handle, born, heap, buffers, g_last_error, raised, dangling>>

-----------------------------------------------------------------------------
\* generate() and load_from_file() are class methods: s is a new object.
Create(t, s) ==
    /\ _handle[s] = Null /\ Others(t, s) = {}
    /\ Begin(t, "create", s) /\ Goto(t, "enter")

\* A method of the object, or a function that takes it: it has been created.
Use(t, f, s) ==
    /\ \A u \in Others(t, s) : fn[u] # "create"
    /\ Begin(t, f, s) /\ Goto(t, "enter")

\* close(), or __del__, which runs when no call holds the object.
Close(t, s) ==
    /\ _handle[s] # Null
    /\ Begin(t, "close", s) /\ Goto(t, "delete")

-----------------------------------------------------------------------------
\* mutant: a plain global
SetGlobalError(t) == g_last_error' = [u \in Threads |-> call[t]]
set_last_error(t) == g_last_error' = [g_last_error EXCEPT ![t] = call[t]]

KeyIsNull(t) == fn[t] # "create" /\ key[t] = Null

\* set_last_error throws std::bad_alloc, which nothing catches: before the try
\* block as in a catch clause it leaves the extern "C" function.
set_last_error_throws(t) ==
    /\ pc[t] = "catch" \/ (pc[t] = "enter" /\ (KeyIsNull(t) \/ fn[t] = "create"))
    /\ Goto(t, "escaped")
    /\ UNCHANGED <<_handle, born, heap, buffers, g_last_error, key, callVars, raised,
                   contended, dangling>>

\* The null and range checks before the try block.
ArgumentChecks(t) ==
    /\ pc[t] = "enter"
    /\ \/ /\ KeyIsNull(t)
          /\ set_last_error(t) /\ Goto(t, "error")
       \/ /\ fn[t] = "create"  \* key_size_bits neither 128 nor 256
          /\ set_last_error(t) /\ Goto(t, "error")
       \/ /\ ~KeyIsNull(t)
          /\ Goto(t, "try") /\ UNCHANGED g_last_error
    /\ UNCHANGED <<_handle, born, heap, buffers, key, callVars, raised, contended, dangling>>

\* The aeslib_key that thread t is given is no longer, or was never, that of
\* the object: freed, or the address now holds another object's key.
Astray(t) == heap[key[t]] # born[obj[t]]

Followed(t) == dangling' = IF Astray(t) THEN dangling \cup {obj[t]} ELSE dangling

\* make_unique<aeslib_key>: any address that is free.
make_unique(t, a) ==
    /\ heap[a] = Null
    /\ heap' = [heap EXCEPT ![a] = call[t]] /\ key' = [key EXCEPT ![t] = a]

\* A buffer for the result, also for an empty one (new uint8_t[1]).
allocate_output(t) ==
    buffers' = IF fn[t] = "crypt" THEN buffers \cup {call[t]} ELSE buffers

\* The try block: the C++ operation, then *out_key = handle.release(), resp.
\* allocate_output.  Whatever it throws, "catch (...)" is there; a throw comes
\* before the release and before the output is allocated.
TryBlock(t) ==
    /\ pc[t] = "try"
    /\ \/ /\ fn[t] = "create" /\ Goto(t, "ok")
          /\ \E a \in Addresses : make_unique(t, a)
          /\ UNCHANGED <<buffers, dangling>>
       \/ /\ fn[t] # "create" /\ Goto(t, "ok")
          /\ Followed(t) /\ allocate_output(t) /\ UNCHANGED <<heap, key>>
       \/ /\ Goto(t, "catch")
          /\ IF fn[t] = "create" THEN UNCHANGED dangling ELSE Followed(t)
          /\ UNCHANGED <<heap, key, buffers>>
    /\ UNCHANGED <<_handle, born, g_last_error, callVars, raised, contended>>

translate_exception(t) ==
    /\ pc[t] = "catch"
    /\ set_last_error(t) /\ Goto(t, "error")
    /\ UNCHANGED <<_handle, born, heap, buffers, key, callVars, raised, contended, dangling>>

\* aeslib_key_free: delete key, whichever key is there.
aeslib_key_free(t) ==
    /\ pc[t] = "delete"
    /\ heap' = [heap EXCEPT ![key[t]] = Null]
    /\ Followed(t) /\ Goto(t, "ok")
    /\ UNCHANGED <<_handle, born, buffers, g_last_error, key, callVars, raised, contended>>

-----------------------------------------------------------------------------
\* _check on a failure status: the message is fetched by another foreign call.
_check(t) ==
    /\ pc[t] = "error" /\ Goto(t, "idle")
    /\ raised' = [raised EXCEPT ![t] = [call |-> call[t], message |-> g_last_error[t]]]
    /\ UNCHANGED <<_handle, born, heap, buffers, g_last_error, key, callVars, contended, dangling>>

\* mutant: close() does not clear the handle
HandleKept(t) == IF fn[t] = "create" THEN key[t] ELSE _handle[obj[t]]

\* The handle that the object has after the call.
HandleAfter(t) ==
    CASE fn[t] = "create" -> key[t]
      [] fn[t] = "close"  -> Null
      [] OTHER            -> _handle[obj[t]]

EmptyNotFreed(t) == {buffers, buffers \ {call[t]}}

\* _take_buffer frees the buffer whether it is empty or not.
_take_buffer(t) == {buffers \ {call[t]}}

\* What the binding does with a successful call's results.
Finish(t) ==
    /\ pc[t] = "ok" /\ Goto(t, "idle")
    /\ _handle' = [_handle EXCEPT ![obj[t]] = HandleAfter(t)]
    /\ born' = IF fn[t] = "create" THEN [born EXCEPT ![obj[t]] = call[t]] ELSE born
    /\ buffers' \in _take_buffer(t)
    /\ UNCHANGED <<heap, g_last_error, key, callVars, raised, contended, dangling>>

\* An exception that meets the frames of the foreign caller ends the process.
Terminated == \E t \in Threads : pc[t] = "escaped"

Next ==
    /\ ~Terminated
    /\ \/ \E t \in Threads, s \in PyKeys :
            \/ Create(t, s)
            \/ Use(t, "save", s)
            \/ Use(t, "crypt", s)
            \/ Close(t, s)
       \/ \E t \in Threads :
            \/ ArgumentChecks(t)
            \/ TryBlock(t)
            \/ translate_exception(t)
            \/ set_last_error_throws(t)
            \/ aeslib_key_free(t)
            \/ _check(t)
            \/ Finish(t)

Spec == Init /\ [][Next]_vars

-----------------------------------------------------------------------------
(***************************************************************************)
(* Types; and the key that a try block or aeslib_key_free goes through is  *)
(* never NULL, because the null checks come first.                         *)
(***************************************************************************)
TypeOK ==
    /\ _handle \in [PyKeys -> {Null} \cup Addresses] /\ born \in [PyKeys -> {Null} \cup Calls]
    /\ heap \in [Addresses -> {Null} \cup Calls] /\ buffers \subseteq Calls
    /\ contended \subseteq PyKeys /\ dangling \subseteq PyKeys
    /\ g_last_error \in [Threads -> {Null} \cup Calls]
    /\ pc \in [Threads -> {"idle", "enter", "try", "catch", "delete", "error", "ok", "escaped"}]
    /\ fn \in [Threads -> Fns] /\ obj \in [Threads -> PyKeys]
    /\ key \in [Threads -> {Null} \cup Addresses] /\ call \in [Threads -> {Null} \cup Calls]
    /\ ncalls \in 0 .. MaxCalls
    /\ \A t \in Threads : pc[t] \in {"try", "delete"} => key[t] # Null \/ fn[t] = "create"

(***************************************************************************)
(* aeslib_last_error_message is the "detail for the most recent failing    *)
(* call made on the current thread" (capi.h): the AeslibError of a call    *)
(* carries that call's message, however many other threads fail between    *)
(* the return of the call and the fetch of the message.                    *)
(***************************************************************************)
ErrorIsOfItsCall == \A t \in Threads : raised[t].message = raised[t].call

(***************************************************************************)
(* "Handles ... must be released exactly once" (capi.h): a call on a       *)
(* closed Python object passes NULL, and no call follows a handle that was *)
(* freed, or whose address holds another object's key by now, unless a     *)
(* close() overlapped another call on one object: the first call that goes *)
(* astray is on such an object.  _handle is cleared only after             *)
(* aeslib_key_free has returned, so a second close() of that object may    *)
(* then free the key that a new object got at the same address, and a      *)
(* later call on the new object, which nothing overlapped, goes astray too.*)
(***************************************************************************)
NoDanglingHandle == dangling # {} => dangling \cap contended # {}

(***************************************************************************)
(* No key and no buffer is lost: a key on the heap is the one that the     *)
(* object which has its address was created with, or about to be returned  *)
(* by the call that creates it, also when a close() that overlapped        *)
(* another call has freed somebody else's key; and a buffer lives only     *)
(* between its allocation and _take_buffer.                                *)
(***************************************************************************)
NothingLeaks ==
    /\ \A a \in Addresses : heap[a] # Null =>
         \/ \E s \in PyKeys : _handle[s] = a /\ born[s] = heap[a]
         \/ \E t \in Threads : /\ pc[t] = "ok" /\ fn[t] = "create"
                               /\ key[t] = a /\ call[t] = heap[a]
    /\ \A b \in buffers : \E t \in Threads : pc[t] = "ok" /\ fn[t] = "crypt" /\ call[t] = b

(***************************************************************************)
(* "No function here throws or lets a C++ exception cross into the caller" *)
(* (capi.h:17), "every function body below is a try/catch that terminates  *)
(* locally" (capi.cpp:6).  set_last_error copies a std::string, in the     *)
(* checks before the try block and in the catch clauses, where its own     *)
(* bad_alloc meets no handler.                                             *)
(***************************************************************************)
NoExceptionEscapes == ~Terminated
=============================================================================
