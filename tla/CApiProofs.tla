----------------------------- MODULE CApiProofs -----------------------------
(* Proofs about CApi for any number of threads, Python objects, addresses  *)
(* and calls.                                                              *)
EXTENDS CApi, TLAPS

InCall(t) == pc[t] # "idle"

Places == {"idle", "enter", "try", "catch", "delete", "error", "ok", "escaped"}

(* A failing call has left its message in the slot of its own thread when  *)
(* it returns its status.                                                  *)
MessageInPlace ==
    /\ raised \in [Threads -> [call : {Null} \cup Calls, message : {Null} \cup Calls]]
    /\ \A t \in Threads : pc[t] = "error" => g_last_error[t] = call[t]

(* Call numbers, which tell the keys apart, are not used twice.            *)
Numbered ==
    /\ \A t \in Threads : call[t] <= ncalls
    /\ \A s \in PyKeys : born[s] <= ncalls
    /\ \A t \in Threads : InCall(t) => call[t] # Null
    /\ \A t, u \in Threads : InCall(t) /\ InCall(u) /\ call[t] = call[u] => t = u

(* While an object is created no other call knows it, and no object has    *)
(* the key that it will get.                                               *)
CreateAlone ==
    \A t \in Threads : InCall(t) /\ fn[t] = "create" =>
        /\ _handle[obj[t]] = Null
        /\ \A u \in Threads : InCall(u) /\ obj[u] = obj[t] => u = t
        /\ \A s \in PyKeys : born[s] # call[t]
        /\ pc[t] = "ok" => key[t] \in Addresses

(* A key belongs to one object.  (An address may be in several: a stale    *)
(* one and that of the object whose key was put there later.)              *)
OneObject ==
    /\ \A s, r \in PyKeys : born[s] = born[r] /\ born[s] # Null => s = r
    /\ \A s \in PyKeys : _handle[s] # Null => born[s] # Null
    /\ \A t \in Threads :
         InCall(t) /\ fn[t] # "create" /\ key[t] # Null => born[obj[t]] # Null

(* The object of a call keeps the handle that was passed until a close     *)
(* clears it, and a close that has freed the handle leaves no key of its   *)
(* object behind.                                                          *)
HandleStable ==
    /\ \A t \in Threads : fn[t] = "close" => pc[t] \in {"idle", "delete", "ok"}
    /\ \A t \in Threads : pc[t] = "delete" => fn[t] = "close"
    /\ \A t \in Threads : InCall(t) /\ fn[t] # "create" => _handle[obj[t]] \in {key[t], Null}
    /\ \A t \in Threads : pc[t] = "ok" /\ fn[t] = "close" =>
         key[t] # Null /\ heap[key[t]] # born[obj[t]]

(* A close that overlaps another call on its object is recorded.           *)
ContentionRecorded ==
    \A t, u \in Threads :
        InCall(t) /\ InCall(u) /\ t # u /\ obj[t] = obj[u] /\ fn[u] = "close"
          => obj[u] \in contended

(* As long as no call has gone astray: an object's key is at its handle    *)
(* until the close that freed it clears the handle, the key of a call that *)
(* is about to follow it is there unless a close overlapped, and a new key *)
(* stays where it is until its address is returned.                        *)
KeysInPlace ==
    dangling = {} =>
        /\ \A s \in PyKeys : _handle[s] # Null =>
             \/ heap[_handle[s]] = born[s]
             \/ \E u \in Threads : pc[u] = "ok" /\ fn[u] = "close" /\ obj[u] = s
        /\ \A t \in Threads :
             pc[t] \in {"enter", "try", "delete"} /\ fn[t] # "create" /\ key[t] # Null
               => heap[key[t]] = born[obj[t]] \/ obj[t] \in contended
        /\ \A t \in Threads : pc[t] = "ok" /\ fn[t] = "create" => heap[key[t]] = call[t]

(* Inductive invariant of the C functions and the binding.                 *)
IInv ==
    /\ TypeOK /\ MessageInPlace /\ Numbered /\ CreateAlone /\ OneObject
    /\ HandleStable /\ ContentionRecorded /\ KeysInPlace
    /\ ErrorIsOfItsCall /\ NoDanglingHandle /\ NothingLeaks

LEMMA InitIInv == Init => IInv
<1> SUFFICES ASSUME Init PROVE IInv
    OBVIOUS
<1>1. (CHOOSE s \in PyKeys : TRUE) \in PyKeys
    BY PyKeysAssumption
<1>2. TypeOK
  <2>1. /\ _handle \in [PyKeys -> {Null} \cup Addresses] /\ born \in [PyKeys -> {Null} \cup Calls]
        /\ heap \in [Addresses -> {Null} \cup Calls]
        /\ g_last_error \in [Threads -> {Null} \cup Calls]
        /\ key \in [Threads -> {Null} \cup Addresses] /\ call \in [Threads -> {Null} \cup Calls]
        /\ pc \in [Threads -> Places]
      BY DEF Init, Places
  <2>2. fn \in [Threads -> Fns] /\ obj \in [Threads -> PyKeys] /\ ncalls \in 0 .. MaxCalls
      BY <1>1, MaxCallsAssumption DEF Init, Fns
  <2>3. \A t \in Threads : pc[t] \notin {"try", "delete"}
      BY DEF Init
  <2> QED BY <2>1, <2>2, <2>3 DEF Init, TypeOK, Places
<1>3. MessageInPlace /\ ErrorIsOfItsCall
    BY DEF Init, MessageInPlace, ErrorIsOfItsCall
<1>4. Numbered /\ CreateAlone /\ OneObject
    BY DEF Init, Numbered, CreateAlone, OneObject, InCall, Null
<1>5. HandleStable /\ ContentionRecorded /\ KeysInPlace
    BY DEF Init, HandleStable, ContentionRecorded, KeysInPlace, InCall
<1>6. NoDanglingHandle /\ NothingLeaks
    BY DEF Init, NoDanglingHandle, NothingLeaks
<1> QED BY <1>2, <1>3, <1>4, <1>5, <1>6 DEF IInv

(* A call begins: its number is new, and its handle is that of its object. *)
LEMMA BeginIInv ==
    ASSUME IInv, NEW t \in Threads, NEW f \in Fns, NEW s \in PyKeys, Begin(t, f, s),
           NEW where \in {"enter", "delete"}, Goto(t, where),
           where = "delete" <=> f = "close",
           f = "close" => _handle[s] # Null,
           f = "create" => _handle[s] = Null /\ Others(t, s) = {},
           \A u \in Others(t, s) : fn[u] # "create"
    PROVE  IInv'
<1>1. /\ pc[t] = "idle" /\ ncalls \in Nat /\ ncalls + 1 \in Calls /\ ncalls' = ncalls + 1
      /\ _handle[s] \in {Null} \cup Addresses
    BY MaxCallsAssumption DEF IInv, TypeOK, Begin, Calls
<1>2. /\ pc'[t] = where /\ fn'[t] = f /\ obj'[t] = s /\ key'[t] = _handle[s]
      /\ call'[t] = ncalls + 1
      /\ \A u \in Threads \ {t} : /\ pc'[u] = pc[u] /\ fn'[u] = fn[u] /\ obj'[u] = obj[u]
                                  /\ key'[u] = key[u] /\ call'[u] = call[u]
    BY DEF IInv, TypeOK, Begin, Goto
<1>3. /\ UNCHANGED <<_handle, born, heap, buffers, g_last_error, raised, dangling>>
      /\ contended' = contended \cup
           {obj[u] : u \in {v \in Others(t, s) : "close" \in {f, fn[v]}}}
    BY DEF Begin
<1>4. TypeOK'
  <2>1. contended' \subseteq PyKeys
      BY <1>3 DEF IInv, TypeOK, Others
  <2>2. /\ fn' \in [Threads -> Fns] /\ obj' \in [Threads -> PyKeys]
        /\ key' \in [Threads -> {Null} \cup Addresses] /\ call' \in [Threads -> {Null} \cup Calls]
      BY <1>1 DEF IInv, TypeOK, Begin
  <2>3. pc' \in [Threads -> Places]
      BY DEF IInv, TypeOK, Goto, Places
  <2>4. ncalls' \in 0 .. MaxCalls
      BY <1>1 DEF Calls
  <2>5. \A u \in Threads : pc'[u] \in {"try", "delete"} => key'[u] # Null \/ fn'[u] = "create"
      BY <1>2 DEF IInv, TypeOK
  <2> QED BY <1>3, <2>1, <2>2, <2>3, <2>4, <2>5 DEF IInv, TypeOK, Places
<1>5. MessageInPlace' /\ ErrorIsOfItsCall'
    BY <1>1, <1>2, <1>3 DEF IInv, MessageInPlace, ErrorIsOfItsCall
<1>6. Numbered'
  <2>1. \A r \in PyKeys : born'[r] <= ncalls'
      BY <1>1, <1>3 DEF IInv, TypeOK, Numbered, Calls, Null
  <2>2. \A u \in Threads : call'[u] <= ncalls'
      BY <1>1, <1>2 DEF IInv, TypeOK, Numbered, Calls, Null
  <2>3. \A u \in Threads \ {t} : call'[u] # call'[t]
      BY <1>1, <1>2 DEF IInv, TypeOK, Numbered, Calls, Null
  <2>4. \A u, v \in Threads : InCall(u)' /\ InCall(v)' /\ call'[u] = call'[v] => u = v
      BY <1>2, <2>3 DEF IInv, Numbered, InCall
  <2>5. \A u \in Threads : InCall(u)' => call'[u] # Null
      BY <1>1, <1>2 DEF IInv, Numbered, InCall, Null
  <2> QED BY <2>1, <2>2, <2>4, <2>5 DEF Numbered
<1>7. \A u \in Threads \ {t} : InCall(u) /\ obj[u] = s => u \in Others(t, s)
    BY DEF Others, InCall
<1>8. CreateAlone'
  <2> SUFFICES ASSUME NEW v \in Threads, InCall(v)', fn'[v] = "create"
               PROVE  /\ _handle'[obj'[v]] = Null
                      /\ \A u \in Threads : InCall(u)' /\ obj'[u] = obj'[v] => u = v
                      /\ \A r \in PyKeys : born'[r] # call'[v]
                      /\ pc'[v] = "ok" => key'[v] \in Addresses
      BY DEF CreateAlone
  <2>1. CASE v = t
    <3>1. \A r \in PyKeys : born[r] # ncalls + 1
        BY <1>1 DEF IInv, TypeOK, Numbered, Calls, Null
    <3>2. \A u \in Threads : InCall(u)' /\ obj'[u] = s => u = t
        BY <1>2, <1>7, <2>1 DEF InCall
    <3> QED BY <1>1, <1>2, <1>3, <2>1, <3>1, <3>2
  <2>2. CASE v # t
    <3>1. /\ InCall(v) /\ fn[v] = "create" /\ v \notin Others(t, s)
        BY <1>2, <2>2 DEF InCall
    <3>2. obj[v] # s
        BY <1>7, <2>2, <3>1
    <3> QED BY <1>2, <1>3, <2>2, <3>1, <3>2 DEF IInv, CreateAlone, InCall
  <2> QED BY <2>1, <2>2
<1>9. OneObject'
    BY <1>2, <1>3 DEF IInv, OneObject, InCall
<1>10. HandleStable'
  <2>1. \A u \in Threads : fn'[u] = "close" => pc'[u] \in {"idle", "delete", "ok"}
      BY <1>2 DEF IInv, HandleStable
  <2>2. \A u \in Threads : pc'[u] = "delete" => fn'[u] = "close"
      BY <1>2 DEF IInv, HandleStable
  <2>3. \A u \in Threads : pc'[u] = "ok" /\ fn'[u] = "close" =>
          key'[u] # Null /\ heap'[key'[u]] # born'[obj'[u]]
      BY <1>2, <1>3 DEF IInv, HandleStable
  <2>4. \A u \in Threads : InCall(u)' /\ fn'[u] # "create" => _handle'[obj'[u]] \in {key'[u], Null}
      BY <1>2, <1>3 DEF IInv, HandleStable, InCall
  <2> QED BY <2>1, <2>2, <2>3, <2>4 DEF HandleStable
<1>11. \A u \in Threads \ {t} : InCall(u) /\ obj[u] = s /\ "close" \in {f, fn[u]} => s \in contended'
    BY <1>3, <1>7
<1>12. ContentionRecorded'
    BY <1>2, <1>3, <1>11 DEF IInv, ContentionRecorded, InCall
<1>13. KeysInPlace'
  <2> SUFFICES ASSUME dangling = {}
               PROVE  /\ \A r \in PyKeys : _handle'[r] # Null =>
                           \/ heap'[_handle'[r]] = born'[r]
                           \/ \E u \in Threads : pc'[u] = "ok" /\ fn'[u] = "close" /\ obj'[u] = r
                      /\ \A u \in Threads :
                           pc'[u] \in {"enter", "try", "delete"} /\ fn'[u] # "create"
                             /\ key'[u] # Null
                           => heap'[key'[u]] = born'[obj'[u]] \/ obj'[u] \in contended'
                      /\ \A u \in Threads :
                           pc'[u] = "ok" /\ fn'[u] = "create" => heap'[key'[u]] = call'[u]
      BY <1>3 DEF KeysInPlace
  <2>1. \A r \in PyKeys : _handle'[r] # Null =>
          \/ heap'[_handle'[r]] = born'[r]
          \/ \E u \in Threads : pc'[u] = "ok" /\ fn'[u] = "close" /\ obj'[u] = r
      BY <1>1, <1>2, <1>3 DEF IInv, KeysInPlace
  <2>2. _handle[s] # Null => heap[_handle[s]] = born[s] \/ s \in contended'
      BY <1>1, <1>11 DEF IInv, KeysInPlace, InCall
  <2>3. \A u \in Threads :
          pc'[u] \in {"enter", "try", "delete"} /\ fn'[u] # "create" /\ key'[u] # Null
            => heap'[key'[u]] = born'[obj'[u]] \/ obj'[u] \in contended'
      BY <1>2, <1>3, <2>2 DEF IInv, KeysInPlace
  <2>4. \A u \in Threads : pc'[u] = "ok" /\ fn'[u] = "create" => heap'[key'[u]] = call'[u]
      BY <1>2, <1>3 DEF IInv, KeysInPlace
  <2> QED BY <2>1, <2>3, <2>4
<1>14. NoDanglingHandle' /\ NothingLeaks'
    BY <1>1, <1>2, <1>3 DEF IInv, NoDanglingHandle, NothingLeaks
<1> QED BY <1>4, <1>5, <1>6, <1>8, <1>9, <1>10, <1>12, <1>13, <1>14 DEF IInv

(* A step inside a call that allocates and frees nothing: what relates the *)
(* keys to the objects and to the calls under way stays.                   *)
LEMMA QuietStep ==
    ASSUME IInv, NEW t \in Threads, pc[t] \in {"enter", "try", "catch", "error"},
           NEW where \in {"idle", "try", "catch", "error", "escaped"}, Goto(t, where),
           where = "try" => pc[t] = "enter" /\ ~KeyIsNull(t),
           UNCHANGED <<_handle, born, heap, buffers, key, callVars, contended>>,
           dangling \subseteq dangling'
    PROVE  /\ Numbered' /\ CreateAlone' /\ OneObject' /\ HandleStable'
           /\ ContentionRecorded' /\ KeysInPlace' /\ NothingLeaks'
           /\ pc' \in [Threads -> Places]
           /\ \A u \in Threads : pc'[u] \in {"try", "delete"} => key'[u] # Null \/ fn'[u] = "create"
<1>1. pc'[t] = where /\ \A u \in Threads \ {t} : pc'[u] = pc[u]
    BY DEF IInv, TypeOK, Goto
<1>2. UNCHANGED <<_handle, born, heap, buffers, fn, obj, key, call, ncalls, contended>>
    BY DEF callVars
<1>3. \A u \in Threads : InCall(u)' => InCall(u)
    BY <1>1 DEF InCall
<1>4. \A u \in Threads : pc'[u] = "ok" <=> pc[u] = "ok"
    BY <1>1
<1>5. Numbered' /\ CreateAlone' /\ OneObject'
    BY <1>2, <1>3, <1>4 DEF IInv, Numbered, CreateAlone, OneObject
<1>6. fn[t] # "close"
    BY DEF IInv, HandleStable
<1>7. HandleStable'
    BY <1>1, <1>2, <1>3, <1>4, <1>6 DEF IInv, HandleStable
<1>8. ContentionRecorded'
    BY <1>2, <1>3 DEF IInv, ContentionRecorded
<1>9. KeysInPlace'
  <2> SUFFICES ASSUME dangling' = {}
               PROVE  /\ \A r \in PyKeys : _handle'[r] # Null =>
                           \/ heap'[_handle'[r]] = born'[r]
                           \/ \E u \in Threads : pc'[u] = "ok" /\ fn'[u] = "close" /\ obj'[u] = r
                      /\ \A u \in Threads :
                           pc'[u] \in {"enter", "try", "delete"} /\ fn'[u] # "create"
                             /\ key'[u] # Null
                           => heap'[key'[u]] = born'[obj'[u]] \/ obj'[u] \in contended'
                      /\ \A u \in Threads :
                           pc'[u] = "ok" /\ fn'[u] = "create" => heap'[key'[u]] = call'[u]
      BY DEF KeysInPlace
  <2>1. dangling = {}
      OBVIOUS
  <2>2. \A u \in Threads : pc'[u] \in {"enter", "try", "delete"}
                             => pc[u] \in {"enter", "try", "delete"}
      BY <1>1
  <2> QED BY <1>2, <1>4, <2>1, <2>2 DEF IInv, KeysInPlace
<1>10. NothingLeaks'
    BY <1>2, <1>4 DEF IInv, NothingLeaks
<1>11. pc' \in [Threads -> Places]
    BY DEF IInv, TypeOK, Goto, Places
<1>12. \A u \in Threads : pc'[u] \in {"try", "delete"} => key'[u] # Null \/ fn'[u] = "create"
    BY <1>1, <1>2 DEF IInv, TypeOK, KeyIsNull
<1> QED BY <1>5, <1>7, <1>8, <1>9, <1>10, <1>11, <1>12

(* The null checks and the catch clauses leave the message of their call.  *)
LEMMA ErrorPathIInv ==
    ASSUME IInv, NEW t \in Threads, ArgumentChecks(t) \/ translate_exception(t)
    PROVE  IInv'
<1>1. UNCHANGED <<_handle, born, heap, buffers, key, callVars, raised, contended, dangling>>
    BY DEF ArgumentChecks, translate_exception
<1>2. PICK where \in {"error", "try"} :
        /\ pc[t] \in {"enter", "catch"} /\ Goto(t, where)
        /\ where = "error" => set_last_error(t)
        /\ where = "try" => pc[t] = "enter" /\ ~KeyIsNull(t) /\ UNCHANGED g_last_error
    BY DEF ArgumentChecks, translate_exception
<1>3. pc'[t] = where /\ \A u \in Threads \ {t} : pc'[u] = pc[u]
    BY <1>2 DEF IInv, TypeOK, Goto
<1>4. /\ g_last_error' \in [Threads -> {Null} \cup Calls]
      /\ \A u \in Threads \ {t} : g_last_error'[u] = g_last_error[u]
      /\ where = "error" => g_last_error'[t] = call[t]
    BY <1>2 DEF IInv, TypeOK, set_last_error
<1>5. /\ Numbered' /\ CreateAlone' /\ OneObject' /\ HandleStable'
      /\ ContentionRecorded' /\ KeysInPlace' /\ NothingLeaks'
      /\ pc' \in [Threads -> Places]
      /\ \A u \in Threads : pc'[u] \in {"try", "delete"} => key'[u] # Null \/ fn'[u] = "create"
    BY <1>1, <1>2, QuietStep
<1>6. TypeOK'
    BY <1>1, <1>4, <1>5 DEF IInv, TypeOK, callVars, Places
<1>7. MessageInPlace' /\ ErrorIsOfItsCall'
    BY <1>1, <1>3, <1>4 DEF IInv, MessageInPlace, ErrorIsOfItsCall, callVars
<1>8. NoDanglingHandle'
    BY <1>1 DEF IInv, NoDanglingHandle
<1> QED BY <1>5, <1>6, <1>7, <1>8 DEF IInv

LEMMA EscapeIInv ==
    ASSUME IInv, NEW t \in Threads, set_last_error_throws(t)
    PROVE  IInv'
<1>1. /\ UNCHANGED <<_handle, born, heap, buffers, g_last_error, key, callVars, raised,
                     contended, dangling>>
      /\ pc[t] \in {"enter", "catch"} /\ Goto(t, "escaped")
    BY DEF set_last_error_throws
<1>2. pc'[t] = "escaped" /\ \A u \in Threads \ {t} : pc'[u] = pc[u]
    BY <1>1 DEF IInv, TypeOK, Goto
<1>3. /\ Numbered' /\ CreateAlone' /\ OneObject' /\ HandleStable'
      /\ ContentionRecorded' /\ KeysInPlace' /\ NothingLeaks'
      /\ pc' \in [Threads -> Places]
      /\ \A u \in Threads : pc'[u] \in {"try", "delete"} => key'[u] # Null \/ fn'[u] = "create"
    BY <1>1, QuietStep
<1>4. TypeOK'
    BY <1>1, <1>3 DEF IInv, TypeOK, callVars, Places
<1>5. MessageInPlace' /\ ErrorIsOfItsCall'
    BY <1>1, <1>2 DEF IInv, MessageInPlace, ErrorIsOfItsCall, callVars
<1>6. NoDanglingHandle'
    BY <1>1 DEF IInv, NoDanglingHandle
<1> QED BY <1>3, <1>4, <1>5, <1>6 DEF IInv

(* _check raises the message of the call it is in.                         *)
LEMMA CheckIInv ==
    ASSUME IInv, NEW t \in Threads, _check(t)
    PROVE  IInv'
<1>1. /\ UNCHANGED <<_handle, born, heap, buffers, g_last_error, key, callVars, contended,
                     dangling>>
      /\ pc[t] = "error" /\ Goto(t, "idle")
      /\ raised' = [raised EXCEPT ![t] = [call |-> call[t], message |-> g_last_error[t]]]
    BY DEF _check
<1>2. pc'[t] = "idle" /\ \A u \in Threads \ {t} : pc'[u] = pc[u]
    BY <1>1 DEF IInv, TypeOK, Goto
<1>3. /\ Numbered' /\ CreateAlone' /\ OneObject' /\ HandleStable'
      /\ ContentionRecorded' /\ KeysInPlace' /\ NothingLeaks'
      /\ pc' \in [Threads -> Places]
      /\ \A u \in Threads : pc'[u] \in {"try", "delete"} => key'[u] # Null \/ fn'[u] = "create"
    BY <1>1, QuietStep
<1>4. TypeOK'
    BY <1>1, <1>3 DEF IInv, TypeOK, callVars, Places
<1>5. MessageInPlace' /\ ErrorIsOfItsCall'
  <2>1. call[t] \in {Null} \cup Calls /\ g_last_error[t] = call[t]
      BY <1>1 DEF IInv, TypeOK, MessageInPlace
  <2>2. raised' \in [Threads -> [call : {Null} \cup Calls, message : {Null} \cup Calls]]
      BY <1>1, <2>1 DEF IInv, MessageInPlace
  <2>3. \A u \in Threads : raised'[u].message = raised'[u].call
      BY <1>1, <2>1 DEF IInv, MessageInPlace, ErrorIsOfItsCall
  <2> QED BY <1>1, <1>2, <2>2, <2>3 DEF IInv, MessageInPlace, ErrorIsOfItsCall, callVars
<1>6. NoDanglingHandle'
    BY <1>1 DEF IInv, NoDanglingHandle
<1> QED BY <1>3, <1>4, <1>5, <1>6 DEF IInv

(* A call that follows its handle goes astray first on an object that a    *)
(* close overlapped.                                                       *)
LEMMA FollowedContended ==
    ASSUME IInv, NEW t \in Threads, pc[t] \in {"try", "delete"}, fn[t] # "create",
           Followed(t), UNCHANGED contended
    PROVE  /\ NoDanglingHandle' /\ dangling' \subseteq PyKeys /\ dangling \subseteq dangling'
           /\ dangling' = {} => heap[key[t]] = born[obj[t]]
<1>1. key[t] # Null /\ obj[t] \in PyKeys
    BY DEF IInv, TypeOK
<1>2. dangling = {} => heap[key[t]] = born[obj[t]] \/ obj[t] \in contended
    BY <1>1 DEF IInv, KeysInPlace
<1>3. CASE heap[key[t]] = born[obj[t]]
    BY <1>3 DEF Followed, Astray, IInv, TypeOK, NoDanglingHandle
<1>4. CASE heap[key[t]] # born[obj[t]]
  <2>1. dangling' = dangling \cup {obj[t]}
      BY <1>4 DEF Followed, Astray
  <2> QED BY <1>1, <1>2, <1>4, <2>1 DEF IInv, TypeOK, NoDanglingHandle
<1> QED BY <1>3, <1>4

(* The try block of a call on an object follows the handle it was given.   *)
LEMMA UseIInv ==
    ASSUME IInv, NEW t \in Threads, pc[t] = "try", fn[t] # "create", Goto(t, "ok"),
           Followed(t), allocate_output(t),
           UNCHANGED <<heap, key, _handle, born, g_last_error, callVars, raised, contended>>
    PROVE  IInv'
<1>1. pc'[t] = "ok" /\ \A u \in Threads \ {t} : pc'[u] = pc[u]
    BY DEF IInv, TypeOK, Goto
<1>2. UNCHANGED <<heap, key, _handle, born, g_last_error, fn, obj, call, ncalls, raised, contended>>
    BY DEF callVars
<1>3. fn[t] # "close" /\ InCall(t) /\ \A u \in Threads : InCall(u)' <=> InCall(u)
    BY <1>1 DEF IInv, HandleStable, InCall
<1>4. NoDanglingHandle' /\ dangling' \subseteq PyKeys /\ dangling \subseteq dangling'
    BY FollowedContended
<1>5. TypeOK'
  <2>1. buffers' \subseteq Calls
      BY <1>3 DEF allocate_output, IInv, TypeOK, Numbered
  <2>2. pc' \in [Threads -> Places]
      BY DEF IInv, TypeOK, Goto, Places
  <2> QED BY <1>1, <1>2, <1>4, <2>1, <2>2 DEF IInv, TypeOK, Places
<1>6. MessageInPlace' /\ ErrorIsOfItsCall'
    BY <1>1, <1>2 DEF IInv, MessageInPlace, ErrorIsOfItsCall
<1>7. Numbered' /\ OneObject' /\ ContentionRecorded'
    BY <1>2, <1>3 DEF IInv, Numbered, OneObject, ContentionRecorded
<1>8. CreateAlone'
    BY <1>1, <1>2, <1>3 DEF IInv, CreateAlone
<1>9. HandleStable'
    BY <1>1, <1>2, <1>3 DEF IInv, HandleStable
<1>10. KeysInPlace'
    BY <1>1, <1>2, <1>3, <1>4 DEF IInv, KeysInPlace
<1>11. NothingLeaks'
  <2>1. \A u \in Threads : pc[u] = "ok" => pc'[u] = "ok"
      BY <1>1
  <2>2. \A a \in Addresses : heap'[a] # Null =>
          \/ \E s \in PyKeys : _handle'[s] = a /\ born'[s] = heap'[a]
          \/ \E u \in Threads : /\ pc'[u] = "ok" /\ fn'[u] = "create"
                                /\ key'[u] = a /\ call'[u] = heap'[a]
      BY <1>2, <2>1 DEF IInv, NothingLeaks
  <2>3. \A b \in buffers' : \E u \in Threads : pc'[u] = "ok" /\ fn'[u] = "crypt" /\ call'[u] = b
      BY <1>1, <1>2, <2>1 DEF IInv, NothingLeaks, allocate_output
  <2> QED BY <2>2, <2>3 DEF NothingLeaks
<1> QED BY <1>4, <1>5, <1>6, <1>7, <1>8, <1>9, <1>10, <1>11 DEF IInv

(* make_unique: the new key has a number that no object and no other call  *)
(* knows, at an address where no key was.                                  *)
LEMMA NewKeyIInv ==
    ASSUME IInv, NEW t \in Threads, pc[t] = "try", fn[t] = "create", Goto(t, "ok"),
           NEW a \in Addresses, make_unique(t, a),
           UNCHANGED <<buffers, dangling, _handle, born, g_last_error, callVars, raised, contended>>
    PROVE  IInv'
<1>1. pc'[t] = "ok" /\ \A u \in Threads \ {t} : pc'[u] = pc[u]
    BY DEF IInv, TypeOK, Goto
<1>2. UNCHANGED <<buffers, dangling, _handle, born, g_last_error, fn, obj, call, ncalls, raised,
                  contended>>
    BY DEF callVars
<1>3. InCall(t) /\ \A u \in Threads : InCall(u)' <=> InCall(u)
    BY <1>1 DEF InCall
<1>4. /\ heap[a] = Null /\ heap'[a] = call[t] /\ call[t] \in Calls /\ call[t] # Null
      /\ \A b \in Addresses \ {a} : heap'[b] = heap[b]
      /\ key'[t] = a /\ \A u \in Threads \ {t} : key'[u] = key[u]
    BY <1>3 DEF IInv, TypeOK, Numbered, make_unique
<1>5. \A s \in PyKeys : born[s] # call[t]
    BY <1>3 DEF IInv, CreateAlone
<1>6. TypeOK'
  <2>1. /\ heap' \in [Addresses -> {Null} \cup Calls]
        /\ key' \in [Threads -> {Null} \cup Addresses]
      BY <1>4 DEF IInv, TypeOK, make_unique
  <2>2. pc' \in [Threads -> Places]
      BY DEF IInv, TypeOK, Goto, Places
  <2>3. \A u \in Threads : pc'[u] \in {"try", "delete"} => key'[u] # Null \/ fn'[u] = "create"
      BY <1>1, <1>2, <1>4 DEF IInv, TypeOK
  <2> QED BY <1>2, <2>1, <2>2, <2>3 DEF IInv, TypeOK, Places
<1>7. MessageInPlace' /\ ErrorIsOfItsCall' /\ NoDanglingHandle'
    BY <1>1, <1>2 DEF IInv, MessageInPlace, ErrorIsOfItsCall, NoDanglingHandle
<1>8. Numbered' /\ ContentionRecorded'
    BY <1>2, <1>3 DEF IInv, Numbered, ContentionRecorded
<1>9. OneObject'
    BY <1>2, <1>3, <1>4 DEF IInv, OneObject
<1>10. CreateAlone'
    BY <1>1, <1>2, <1>3, <1>4 DEF IInv, CreateAlone
<1>11. HandleStable'
  <2>1. /\ \A u \in Threads : fn'[u] = "close" => pc'[u] \in {"idle", "delete", "ok"}
        /\ \A u \in Threads : pc'[u] = "delete" => fn'[u] = "close"
      BY <1>1, <1>2 DEF IInv, HandleStable
  <2>2. \A u \in Threads : InCall(u)' /\ fn'[u] # "create" => _handle'[obj'[u]] \in {key'[u], Null}
      BY <1>2, <1>3, <1>4 DEF IInv, HandleStable
  <2>3. \A u \in Threads : pc'[u] = "ok" /\ fn'[u] = "close" =>
          key'[u] # Null /\ heap'[key'[u]] # born'[obj'[u]]
    <3> SUFFICES ASSUME NEW u \in Threads, pc'[u] = "ok", fn'[u] = "close"
                 PROVE  key'[u] # Null /\ heap'[key'[u]] # born'[obj'[u]]
        OBVIOUS
    <3>1. u # t /\ pc[u] = "ok" /\ fn[u] = "close" /\ key'[u] = key[u] /\ obj[u] \in PyKeys
        BY <1>1, <1>2, <1>4 DEF IInv, TypeOK
    <3>2. key[u] # Null /\ heap[key[u]] # born[obj[u]] /\ key[u] \in Addresses
        BY <3>1 DEF IInv, TypeOK, HandleStable
    <3> QED BY <1>2, <1>4, <1>5, <3>1, <3>2
  <2> QED BY <2>1, <2>2, <2>3 DEF HandleStable
<1>12. KeysInPlace'
  <2> SUFFICES ASSUME dangling = {}
               PROVE  /\ \A s \in PyKeys : _handle'[s] # Null =>
                           \/ heap'[_handle'[s]] = born'[s]
                           \/ \E u \in Threads : pc'[u] = "ok" /\ fn'[u] = "close" /\ obj'[u] = s
                      /\ \A u \in Threads :
                           pc'[u] \in {"enter", "try", "delete"} /\ fn'[u] # "create"
                             /\ key'[u] # Null
                           => heap'[key'[u]] = born'[obj'[u]] \/ obj'[u] \in contended'
                      /\ \A u \in Threads :
                           pc'[u] = "ok" /\ fn'[u] = "create" => heap'[key'[u]] = call'[u]
      BY <1>2 DEF KeysInPlace
  <2>1. ASSUME NEW s \in PyKeys, _handle'[s] # Null
        PROVE  \/ heap'[_handle'[s]] = born'[s]
               \/ \E u \in Threads : pc'[u] = "ok" /\ fn'[u] = "close" /\ obj'[u] = s
    <3>1. _handle[s] \in Addresses /\ born[s] # Null
        BY <1>2, <2>1 DEF IInv, TypeOK, OneObject
    <3>2. CASE heap[_handle[s]] = born[s]
        BY <1>2, <1>4, <3>1, <3>2
    <3>3. CASE \E u \in Threads : pc[u] = "ok" /\ fn[u] = "close" /\ obj[u] = s
        BY <1>1, <1>2, <3>3
    <3> QED BY <1>2, <2>1, <3>2, <3>3 DEF IInv, KeysInPlace
  <2>2. ASSUME NEW u \in Threads, pc'[u] \in {"enter", "try", "delete"}, fn'[u] # "create",
               key'[u] # Null
        PROVE  heap'[key'[u]] = born'[obj'[u]] \/ obj'[u] \in contended'
    <3>1. /\ u # t /\ pc[u] = pc'[u] /\ key'[u] = key[u] /\ key[u] \in Addresses
          /\ InCall(u) /\ fn[u] # "create"
        BY <1>1, <1>2, <1>4, <2>2 DEF IInv, TypeOK, InCall
    <3>2. born[obj[u]] # Null
        BY <2>2, <3>1 DEF IInv, OneObject
    <3>3. heap[key[u]] = born[obj[u]] \/ obj[u] \in contended
        BY <2>2, <3>1 DEF IInv, KeysInPlace
    <3> QED BY <1>2, <1>4, <3>1, <3>2, <3>3
  <2>3. ASSUME NEW u \in Threads, pc'[u] = "ok", fn'[u] = "create"
        PROVE  heap'[key'[u]] = call'[u]
    <3>1. CASE u = t
        BY <1>2, <1>4, <3>1
    <3>2. CASE u # t
      <4>1. pc[u] = "ok" /\ fn[u] = "create" /\ key'[u] = key[u] /\ InCall(u)
          BY <1>1, <1>2, <1>4, <2>3, <3>2 DEF InCall
      <4>2. heap[key[u]] = call[u] /\ call[u] # Null /\ key[u] \in Addresses
          BY <4>1 DEF IInv, KeysInPlace, Numbered, CreateAlone
      <4> QED BY <1>2, <1>4, <4>1, <4>2
    <3> QED BY <3>1, <3>2
  <2> QED BY <2>1, <2>2, <2>3
<1>13. NothingLeaks'
  <2>1. ASSUME NEW b \in Addresses, heap'[b] # Null
        PROVE  \/ \E s \in PyKeys : _handle'[s] = b /\ born'[s] = heap'[b]
               \/ \E u \in Threads : /\ pc'[u] = "ok" /\ fn'[u] = "create"
                                     /\ key'[u] = b /\ call'[u] = heap'[b]
    <3>1. CASE b = a
        BY <1>1, <1>2, <1>4, <3>1
    <3>2. CASE b # a
      <4>1. heap'[b] = heap[b] /\ heap[b] # Null
          BY <1>4, <2>1, <3>2
      <4>2. CASE \E s \in PyKeys : _handle[s] = b /\ born[s] = heap[b]
          BY <1>2, <4>1, <4>2
      <4>3. CASE \E u \in Threads : /\ pc[u] = "ok" /\ fn[u] = "create"
                                    /\ key[u] = b /\ call[u] = heap[b]
          BY <1>1, <1>2, <1>4, <4>1, <4>3
      <4> QED BY <4>1, <4>2, <4>3 DEF IInv, NothingLeaks
    <3> QED BY <3>1, <3>2
  <2>2. \A b \in buffers' : \E u \in Threads : pc'[u] = "ok" /\ fn'[u] = "crypt" /\ call'[u] = b
      BY <1>1, <1>2 DEF IInv, NothingLeaks
  <2> QED BY <2>1, <2>2 DEF NothingLeaks
<1> QED BY <1>6, <1>7, <1>8, <1>9, <1>10, <1>11, <1>12, <1>13 DEF IInv

LEMMA TryBlockIInv ==
    ASSUME IInv, NEW t \in Threads, TryBlock(t)
    PROVE  IInv'
<1>1. pc[t] = "try" /\ UNCHANGED <<_handle, born, g_last_error, callVars, raised, contended>>
    BY DEF TryBlock
<1>2. CASE /\ fn[t] = "create" /\ Goto(t, "ok")
           /\ \E a \in Addresses : make_unique(t, a)
           /\ UNCHANGED <<buffers, dangling>>
    BY <1>1, <1>2, NewKeyIInv
<1>3. CASE /\ fn[t] # "create" /\ Goto(t, "ok")
           /\ Followed(t) /\ allocate_output(t) /\ UNCHANGED <<heap, key>>
    BY <1>1, <1>3, UseIInv
<1>4. CASE /\ Goto(t, "catch")
           /\ IF fn[t] = "create" THEN UNCHANGED dangling ELSE Followed(t)
           /\ UNCHANGED <<heap, key, buffers>>
  <2>1. NoDanglingHandle' /\ dangling' \subseteq PyKeys /\ dangling \subseteq dangling'
    <3>1. CASE fn[t] = "create"
        BY <1>1, <1>4, <3>1 DEF IInv, TypeOK, NoDanglingHandle
    <3>2. CASE fn[t] # "create"
        BY <1>1, <1>4, <3>2, FollowedContended
    <3> QED BY <3>1, <3>2
  <2>2. pc'[t] = "catch" /\ \A u \in Threads \ {t} : pc'[u] = pc[u]
      BY <1>4 DEF IInv, TypeOK, Goto
  <2>3. /\ Numbered' /\ CreateAlone' /\ OneObject' /\ HandleStable'
        /\ ContentionRecorded' /\ KeysInPlace' /\ NothingLeaks'
        /\ pc' \in [Threads -> Places]
        /\ \A u \in Threads : pc'[u] \in {"try", "delete"} => key'[u] # Null \/ fn'[u] = "create"
      BY <1>1, <1>4, <2>1, QuietStep
  <2>4. TypeOK'
      BY <1>1, <1>4, <2>1, <2>3 DEF IInv, TypeOK, callVars, Places
  <2>5. MessageInPlace' /\ ErrorIsOfItsCall'
      BY <1>1, <2>2 DEF IInv, MessageInPlace, ErrorIsOfItsCall, callVars
  <2> QED BY <2>1, <2>3, <2>4, <2>5 DEF IInv
<1> QED BY <1>2, <1>3, <1>4 DEF TryBlock

(* aeslib_key_free ends the key at its handle.  As long as no call has     *)
(* gone astray that key is the object's own: the object is about to drop   *)
(* it, and every other call that counts on it is on the same object.       *)
LEMMA FreeIInv ==
    ASSUME IInv, NEW t \in Threads, aeslib_key_free(t)
    PROVE  IInv'
<1>1. /\ pc[t] = "delete" /\ Goto(t, "ok") /\ heap' = [heap EXCEPT ![key[t]] = Null]
      /\ Followed(t)
      /\ UNCHANGED <<_handle, born, buffers, g_last_error, key, fn, obj, call, ncalls, raised,
                     contended>>
    BY DEF aeslib_key_free, callVars
<1>2. pc'[t] = "ok" /\ \A u \in Threads \ {t} : pc'[u] = pc[u]
    BY <1>1 DEF IInv, TypeOK, Goto
<1>3. \A u \in Threads : InCall(u)' <=> InCall(u)
    BY <1>1, <1>2 DEF InCall
<1>4. /\ fn[t] = "close" /\ InCall(t) /\ key[t] # Null /\ key[t] \in Addresses
      /\ born[obj[t]] # Null /\ obj[t] \in PyKeys
    BY <1>1 DEF IInv, TypeOK, HandleStable, OneObject, InCall
<1>5. heap'[key[t]] = Null /\ \A b \in Addresses \ {key[t]} : heap'[b] = heap[b]
    BY <1>1, <1>4 DEF IInv, TypeOK
<1>6. /\ NoDanglingHandle' /\ dangling' \subseteq PyKeys /\ dangling \subseteq dangling'
      /\ dangling' = {} => heap[key[t]] = born[obj[t]]
    BY <1>1, <1>4, FollowedContended
<1>7. TypeOK'
  <2>1. pc' \in [Threads -> Places] /\ heap' \in [Addresses -> {Null} \cup Calls]
      BY <1>1 DEF IInv, TypeOK, Goto, Places
  <2> QED BY <1>1, <1>2, <1>6, <2>1 DEF IInv, TypeOK, Places
<1>8. MessageInPlace' /\ ErrorIsOfItsCall'
    BY <1>1, <1>2 DEF IInv, MessageInPlace, ErrorIsOfItsCall
<1>9. Numbered' /\ OneObject' /\ ContentionRecorded'
    BY <1>1, <1>3 DEF IInv, Numbered, OneObject, ContentionRecorded
<1>10. CreateAlone'
    BY <1>1, <1>2, <1>3, <1>4 DEF IInv, CreateAlone
<1>11. HandleStable'
  <2>1. /\ \A u \in Threads : fn'[u] = "close" => pc'[u] \in {"idle", "delete", "ok"}
        /\ \A u \in Threads : pc'[u] = "delete" => fn'[u] = "close"
      BY <1>1, <1>2 DEF IInv, HandleStable
  <2>2. \A u \in Threads : InCall(u)' /\ fn'[u] # "create" => _handle'[obj'[u]] \in {key'[u], Null}
      BY <1>1, <1>3 DEF IInv, HandleStable
  <2>3. ASSUME NEW u \in Threads, pc'[u] = "ok", fn'[u] = "close"
        PROVE  key'[u] # Null /\ heap'[key'[u]] # born'[obj'[u]]
    <3>1. CASE u = t
        BY <1>1, <1>4, <1>5, <3>1
    <3>2. CASE u # t
      <4>1. pc[u] = "ok" /\ fn[u] = "close" /\ InCall(u)
          BY <1>1, <1>2, <2>3, <3>2 DEF InCall
      <4>2. key[u] # Null /\ heap[key[u]] # born[obj[u]] /\ key[u] \in Addresses
            /\ born[obj[u]] # Null
          BY <4>1 DEF IInv, TypeOK, HandleStable, OneObject
      <4> QED BY <1>1, <1>5, <4>2
    <3> QED BY <3>1, <3>2
  <2> QED BY <2>1, <2>2, <2>3 DEF HandleStable
<1>12. KeysInPlace'
  <2> SUFFICES ASSUME dangling' = {}
               PROVE  /\ \A s \in PyKeys : _handle'[s] # Null =>
                           \/ heap'[_handle'[s]] = born'[s]
                           \/ \E u \in Threads : pc'[u] = "ok" /\ fn'[u] = "close" /\ obj'[u] = s
                      /\ \A u \in Threads :
                           pc'[u] \in {"enter", "try", "delete"} /\ fn'[u] # "create"
                             /\ key'[u] # Null
                           => heap'[key'[u]] = born'[obj'[u]] \/ obj'[u] \in contended'
                      /\ \A u \in Threads :
                           pc'[u] = "ok" /\ fn'[u] = "create" => heap'[key'[u]] = call'[u]
      BY DEF KeysInPlace
  <2>1. dangling = {} /\ heap[key[t]] = born[obj[t]]
      BY <1>6
  <2>2. \A s \in PyKeys : born[s] = heap[key[t]] => s = obj[t]
      BY <1>4, <2>1 DEF IInv, OneObject
  <2>3. ASSUME NEW s \in PyKeys, _handle'[s] # Null
        PROVE  \/ heap'[_handle'[s]] = born'[s]
               \/ \E u \in Threads : pc'[u] = "ok" /\ fn'[u] = "close" /\ obj'[u] = s
    <3>1. _handle[s] \in Addresses /\ _handle[s] # Null
        BY <1>1, <2>3 DEF IInv, TypeOK
    <3>2. CASE heap[_handle[s]] = born[s]
        BY <1>1, <1>2, <1>4, <1>5, <2>2, <3>1, <3>2
    <3>3. CASE \E u \in Threads : pc[u] = "ok" /\ fn[u] = "close" /\ obj[u] = s
        BY <1>1, <1>2, <3>3
    <3> QED BY <2>1, <3>1, <3>2, <3>3 DEF IInv, KeysInPlace
  <2>4. ASSUME NEW u \in Threads, pc'[u] \in {"enter", "try", "delete"}, fn'[u] # "create",
               key'[u] # Null
        PROVE  heap'[key'[u]] = born'[obj'[u]] \/ obj'[u] \in contended'
    <3>1. /\ u # t /\ pc[u] = pc'[u] /\ key[u] \in Addresses /\ InCall(u) /\ obj[u] \in PyKeys
        BY <1>1, <1>2, <2>4 DEF IInv, TypeOK, InCall
    <3>2. heap[key[u]] = born[obj[u]] \/ obj[u] \in contended
        BY <1>1, <2>1, <2>4, <3>1 DEF IInv, KeysInPlace
    <3>3. heap[key[u]] = born[obj[u]] /\ key[u] = key[t] => obj[u] \in contended
        BY <1>4, <2>2, <3>1 DEF IInv, ContentionRecorded
    <3> QED BY <1>1, <1>5, <3>1, <3>2, <3>3
  <2>5. ASSUME NEW u \in Threads, pc'[u] = "ok", fn'[u] = "create"
        PROVE  heap'[key'[u]] = call'[u]
    <3>1. u # t /\ pc[u] = "ok" /\ fn[u] = "create" /\ InCall(u)
        BY <1>1, <1>2, <1>4, <2>5 DEF InCall
    <3>2. heap[key[u]] = call[u] /\ key[u] \in Addresses /\ born[obj[t]] # call[u]
        BY <1>4, <2>1, <3>1 DEF IInv, KeysInPlace, CreateAlone
    <3> QED BY <1>1, <1>5, <2>1, <3>2
  <2> QED BY <2>3, <2>4, <2>5
<1>13. NothingLeaks'
  <2>1. ASSUME NEW b \in Addresses, heap'[b] # Null
        PROVE  \/ \E s \in PyKeys : _handle'[s] = b /\ born'[s] = heap'[b]
               \/ \E u \in Threads : /\ pc'[u] = "ok" /\ fn'[u] = "create"
                                     /\ key'[u] = b /\ call'[u] = heap'[b]
    <3>1. heap'[b] = heap[b]
        BY <1>5, <2>1
    <3>2. CASE \E s \in PyKeys : _handle[s] = b /\ born[s] = heap[b]
        BY <1>1, <3>1, <3>2
    <3>3. CASE \E u \in Threads : /\ pc[u] = "ok" /\ fn[u] = "create"
                                  /\ key[u] = b /\ call[u] = heap[b]
        BY <1>1, <1>2, <3>1, <3>3
    <3> QED BY <2>1, <3>1, <3>2, <3>3 DEF IInv, NothingLeaks
  <2>2. \A b \in buffers' : \E u \in Threads : pc'[u] = "ok" /\ fn'[u] = "crypt" /\ call'[u] = b
      BY <1>1, <1>2 DEF IInv, NothingLeaks
  <2> QED BY <2>1, <2>2 DEF NothingLeaks
<1> QED BY <1>6, <1>7, <1>8, <1>9, <1>10, <1>11, <1>12, <1>13 DEF IInv

(* The binding takes the result over: a new key goes into its object, a    *)
(* freed handle out of it, a buffer is freed.                              *)
LEMMA FinishIInv ==
    ASSUME IInv, NEW t \in Threads, Finish(t)
    PROVE  IInv'
<1>1. /\ pc[t] = "ok" /\ Goto(t, "idle") /\ buffers' = buffers \ {call[t]}
      /\ _handle' = [_handle EXCEPT ![obj[t]] = HandleAfter(t)]
      /\ born' = IF fn[t] = "create" THEN [born EXCEPT ![obj[t]] = call[t]] ELSE born
      /\ UNCHANGED <<heap, g_last_error, key, fn, obj, call, ncalls, raised, contended, dangling>>
    BY DEF Finish, _take_buffer, callVars
<1>2. pc'[t] = "idle" /\ \A u \in Threads \ {t} : pc'[u] = pc[u]
    BY <1>1 DEF IInv, TypeOK, Goto
<1>3. InCall(t) /\ ~InCall(t)' /\ \A u \in Threads \ {t} : InCall(u)' <=> InCall(u)
    BY <1>1, <1>2 DEF InCall
<1>4. /\ obj[t] \in PyKeys /\ call[t] \in Calls /\ call[t] # Null /\ call[t] <= ncalls
      /\ _handle[obj[t]] \in {Null} \cup Addresses
      /\ fn[t] = "create" => key[t] \in Addresses
    BY <1>1, <1>3 DEF IInv, TypeOK, Numbered, CreateAlone
<1>5. HandleAfter(t) = IF fn[t] = "create" THEN key[t]
                       ELSE IF fn[t] = "close" THEN Null ELSE _handle[obj[t]]
    BY DEF HandleAfter
<1>6. /\ _handle'[obj[t]] = HandleAfter(t)
      /\ \A s \in PyKeys \ {obj[t]} : _handle'[s] = _handle[s] /\ born'[s] = born[s]
      /\ born'[obj[t]] = IF fn[t] = "create" THEN call[t] ELSE born[obj[t]]
    BY <1>1, <1>4 DEF IInv, TypeOK
<1>7. fn[t] = "create" => /\ _handle[obj[t]] = Null /\ \A s \in PyKeys : born[s] # call[t]
                          /\ \A u \in Threads \ {t} : InCall(u) => obj[u] # obj[t]
    BY <1>3 DEF IInv, CreateAlone
<1>8. TypeOK'
  <2>1. _handle' \in [PyKeys -> {Null} \cup Addresses] /\ born' \in [PyKeys -> {Null} \cup Calls]
      BY <1>1, <1>4, <1>5 DEF IInv, TypeOK
  <2>2. pc' \in [Threads -> Places]
      BY <1>1 DEF IInv, TypeOK, Goto, Places
  <2> QED BY <1>1, <1>2, <2>1, <2>2 DEF IInv, TypeOK, Places
<1>9. MessageInPlace' /\ ErrorIsOfItsCall' /\ NoDanglingHandle'
    BY <1>1, <1>2 DEF IInv, MessageInPlace, ErrorIsOfItsCall, NoDanglingHandle
<1>10. Numbered'
  <2>1. \A s \in PyKeys : born'[s] <= ncalls'
      BY <1>1, <1>4, <1>6 DEF IInv, Numbered
  <2> QED BY <1>1, <1>3, <2>1 DEF IInv, Numbered
<1>11. CreateAlone'
  <2> SUFFICES ASSUME NEW v \in Threads, InCall(v)', fn'[v] = "create"
               PROVE  /\ _handle'[obj'[v]] = Null
                      /\ \A u \in Threads : InCall(u)' /\ obj'[u] = obj'[v] => u = v
                      /\ \A r \in PyKeys : born'[r] # call'[v]
                      /\ pc'[v] = "ok" => key'[v] \in Addresses
      BY DEF CreateAlone
  <2>1. v # t /\ InCall(v) /\ fn[v] = "create" /\ pc'[v] = pc[v]
      BY <1>1, <1>2, <1>3
  <2>2. obj[v] # obj[t] /\ obj[v] \in PyKeys
      BY <1>3, <2>1 DEF IInv, TypeOK, CreateAlone
  <2>3. call[v] # call[t]
      BY <1>3, <2>1 DEF IInv, Numbered
  <2>4. \A r \in PyKeys : born'[r] # call[v]
      BY <1>6, <2>1, <2>3 DEF IInv, CreateAlone
  <2>5. \A u \in Threads : InCall(u)' => InCall(u)
      BY <1>3
  <2> QED BY <1>1, <1>6, <2>1, <2>2, <2>4, <2>5 DEF IInv, CreateAlone
<1>12. OneObject'
  <2>1. \A s, r \in PyKeys : born'[s] = born'[r] /\ born'[s] # Null => s = r
      BY <1>4, <1>6, <1>7 DEF IInv, OneObject
  <2>2. \A s \in PyKeys : _handle'[s] # Null => born'[s] # Null
      BY <1>4, <1>5, <1>6 DEF IInv, OneObject
  <2>3. \A u \in Threads :
          InCall(u)' /\ fn'[u] # "create" /\ key'[u] # Null => born'[obj'[u]] # Null
      BY <1>1, <1>3, <1>4, <1>6 DEF IInv, TypeOK, OneObject
  <2> QED BY <2>1, <2>2, <2>3 DEF OneObject
<1>13. \A u \in Threads \ {t} : InCall(u) => born'[obj[u]] = born[obj[u]]
    BY <1>6, <1>7 DEF IInv, TypeOK
<1>14. HandleStable'
  <2>1. /\ \A u \in Threads : fn'[u] = "close" => pc'[u] \in {"idle", "delete", "ok"}
        /\ \A u \in Threads : pc'[u] = "delete" => fn'[u] = "close"
      BY <1>1, <1>2 DEF IInv, HandleStable
  <2>2. ASSUME NEW u \in Threads, InCall(u)', fn'[u] # "create"
        PROVE  _handle'[obj'[u]] \in {key'[u], Null}
    <3>1. u # t /\ InCall(u) /\ fn[u] # "create" /\ obj[u] \in PyKeys
        BY <1>1, <1>3, <2>2 DEF IInv, TypeOK
    <3>2. _handle[obj[u]] \in {key[u], Null}
        BY <3>1 DEF IInv, HandleStable
    <3> QED BY <1>1, <1>5, <1>6, <1>7, <3>1, <3>2
  <2>3. ASSUME NEW u \in Threads, pc'[u] = "ok", fn'[u] = "close"
        PROVE  key'[u] # Null /\ heap'[key'[u]] # born'[obj'[u]]
    <3>1. u # t /\ pc[u] = "ok" /\ fn[u] = "close" /\ InCall(u)
        BY <1>1, <1>2, <2>3 DEF InCall
    <3> QED BY <1>1, <1>13, <3>1 DEF IInv, HandleStable
  <2> QED BY <2>1, <2>2, <2>3 DEF HandleStable
<1>15. ContentionRecorded'
    BY <1>1, <1>2, <1>3 DEF IInv, ContentionRecorded
<1>16. KeysInPlace'
  <2> SUFFICES ASSUME dangling = {}
               PROVE  /\ \A s \in PyKeys : _handle'[s] # Null =>
                           \/ heap'[_handle'[s]] = born'[s]
                           \/ \E u \in Threads : pc'[u] = "ok" /\ fn'[u] = "close" /\ obj'[u] = s
                      /\ \A u \in Threads :
                           pc'[u] \in {"enter", "try", "delete"} /\ fn'[u] # "create"
                             /\ key'[u] # Null
                           => heap'[key'[u]] = born'[obj'[u]] \/ obj'[u] \in contended'
                      /\ \A u \in Threads :
                           pc'[u] = "ok" /\ fn'[u] = "create" => heap'[key'[u]] = call'[u]
      BY <1>1 DEF KeysInPlace
  <2>1. ASSUME NEW s \in PyKeys, _handle'[s] # Null, heap'[_handle'[s]] # born'[s]
        PROVE  \E u \in Threads : pc'[u] = "ok" /\ fn'[u] = "close" /\ obj'[u] = s
    <3>1. fn[t] = "create" => heap[key[t]] = call[t]
        BY <1>1 DEF IInv, KeysInPlace
    <3>2. /\ _handle'[s] = _handle[s] /\ born'[s] = born[s]
          /\ s = obj[t] => fn[t] # "close"
        BY <1>1, <1>5, <1>6, <2>1, <3>1
    <3>3. PICK u \in Threads : pc[u] = "ok" /\ fn[u] = "close" /\ obj[u] = s
        BY <1>1, <2>1, <3>2 DEF IInv, KeysInPlace
    <3> QED BY <1>1, <1>2, <3>2, <3>3
  <2>2. \A u \in Threads :
          pc'[u] \in {"enter", "try", "delete"} /\ fn'[u] # "create" /\ key'[u] # Null
            => heap'[key'[u]] = born'[obj'[u]] \/ obj'[u] \in contended'
      BY <1>1, <1>2, <1>13 DEF IInv, KeysInPlace, InCall
  <2>3. \A u \in Threads : pc'[u] = "ok" /\ fn'[u] = "create" => heap'[key'[u]] = call'[u]
      BY <1>1, <1>2 DEF IInv, KeysInPlace
  <2> QED BY <2>1, <2>2, <2>3
<1>17. NothingLeaks'
  <2>1. ASSUME NEW b \in Addresses, heap'[b] # Null
        PROVE  \/ \E s \in PyKeys : _handle'[s] = b /\ born'[s] = heap'[b]
               \/ \E u \in Threads : /\ pc'[u] = "ok" /\ fn'[u] = "create"
                                     /\ key'[u] = b /\ call'[u] = heap'[b]
    <3>1. heap'[b] = heap[b] /\ heap[b] # Null /\ b # Null
        BY <1>1, <2>1, AddressesAssumption
    <3>2. CASE \E s \in PyKeys : _handle[s] = b /\ born[s] = heap[b]
      <4>1. PICK s \in PyKeys : _handle[s] = b /\ born[s] = heap[b]
          BY <3>2
      <4>2. s = obj[t] => fn[t] \notin {"create", "close"}
        <5>1. s = obj[t] => fn[t] # "create"
            BY <1>7, <3>1, <4>1
        <5>2. ASSUME s = obj[t], fn[t] = "close" PROVE FALSE
          <6>1. _handle[obj[t]] \in {key[t], Null} /\ heap[key[t]] # born[obj[t]]
              BY <1>1, <1>3, <5>2 DEF IInv, HandleStable
          <6> QED BY <3>1, <4>1, <5>2, <6>1
        <5> QED BY <5>1, <5>2
      <4>3. _handle'[s] = b /\ born'[s] = heap[b]
          BY <1>5, <1>6, <4>1, <4>2
      <4> QED BY <3>1, <4>3
    <3>3. CASE \E u \in Threads : /\ pc[u] = "ok" /\ fn[u] = "create"
                                  /\ key[u] = b /\ call[u] = heap[b]
      <4>1. PICK u \in Threads : /\ pc[u] = "ok" /\ fn[u] = "create"
                                 /\ key[u] = b /\ call[u] = heap[b]
          BY <3>3
      <4>2. CASE u = t
          BY <1>4, <1>5, <1>6, <3>1, <4>1, <4>2
      <4>3. CASE u # t
          BY <1>1, <1>2, <3>1, <4>1, <4>3
      <4> QED BY <4>2, <4>3
    <3> QED BY <3>1, <3>2, <3>3 DEF IInv, NothingLeaks
  <2>2. \A b \in buffers' : \E u \in Threads : pc'[u] = "ok" /\ fn'[u] = "crypt" /\ call'[u] = b
      BY <1>1, <1>2 DEF IInv, NothingLeaks
  <2> QED BY <2>1, <2>2 DEF NothingLeaks
<1> QED BY <1>8, <1>9, <1>10, <1>11, <1>12, <1>14, <1>15, <1>16, <1>17 DEF IInv

LEMMA NextIInv == IInv /\ [Next]_vars => IInv'
<1> SUFFICES ASSUME IInv, [Next]_vars PROVE IInv'
    OBVIOUS
<1>1. ASSUME NEW t \in Threads, NEW s \in PyKeys, Create(t, s)
      PROVE  IInv'
    BY <1>1, BeginIInv DEF Create, Fns
<1>2. ASSUME NEW t \in Threads, NEW s \in PyKeys, NEW f \in {"save", "crypt"}, Use(t, f, s)
      PROVE  IInv'
    BY <1>2, BeginIInv DEF Use, Fns
<1>3. ASSUME NEW t \in Threads, NEW s \in PyKeys, Close(t, s)
      PROVE  IInv'
  <2>1. \A u \in Others(t, s) : fn[u] # "create"
      BY <1>3 DEF Close, Others, IInv, CreateAlone, InCall
  <2> QED BY <1>3, <2>1, BeginIInv DEF Close, Fns
<1>4. CASE UNCHANGED vars
  <2>1. TypeOK' /\ MessageInPlace' /\ ErrorIsOfItsCall'
      BY <1>4 DEF vars, IInv, TypeOK, MessageInPlace, ErrorIsOfItsCall
  <2>2. Numbered' /\ CreateAlone' /\ OneObject'
      BY <1>4 DEF vars, IInv, Numbered, CreateAlone, OneObject, InCall
  <2>3. HandleStable' /\ ContentionRecorded' /\ KeysInPlace'
      BY <1>4 DEF vars, IInv, HandleStable, ContentionRecorded, KeysInPlace, InCall
  <2>4. NoDanglingHandle' /\ NothingLeaks'
      BY <1>4 DEF vars, IInv, NoDanglingHandle, NothingLeaks
  <2> QED BY <2>1, <2>2, <2>3, <2>4 DEF IInv
<1> QED
    BY <1>1, <1>2, <1>3, <1>4, ErrorPathIInv, EscapeIInv, CheckIInv, TryBlockIInv, FreeIInv,
       FinishIInv DEF Next

(* For any number of threads, objects and addresses: a key belongs to one  *)
(* object although its address may be handed out again, and until a call   *)
(* has gone astray every handle that is about to be followed leads to the  *)
(* key of its object, or a close overlapped a call on that object.         *)
THEOREM Invariance == Spec => []IInv
BY InitIInv, NextIInv, PTL DEF Spec

(* The AeslibError of a call carries the message of that call, whatever    *)
(* the other threads do before aeslib_last_error_message is called.        *)
THEOREM ErrorsNeverMixed == Spec => []ErrorIsOfItsCall
<1>1. IInv => ErrorIsOfItsCall
    BY DEF IInv
<1> QED BY <1>1, Invariance, PTL

(* If any call followed a handle that was freed or leads to another        *)
(* object's key, then one did so on an object of which a close()           *)
(* overlapped another call: without such an overlap no call ever does,     *)
(* although the allocator reuses addresses.                                *)
THEOREM HandlesFollowedLive == Spec => []NoDanglingHandle
<1>1. IInv => NoDanglingHandle
    BY DEF IInv
<1> QED BY <1>1, Invariance, PTL

(* Every key on the heap is reachable from the object it was made for or   *)
(* from the call that makes it, and every output buffer from the call that *)
(* will free it.                                                           *)
THEOREM NoHandleLost == Spec => []NothingLeaks
<1>1. IInv => NothingLeaks
    BY DEF IInv
<1> QED BY <1>1, Invariance, PTL
=============================================================================
