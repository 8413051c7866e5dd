------------------------------ MODULE Runtime -------------------------------
(***************************************************************************)
(* FreeDLL in the life of a process (freedll/src/dllmain.c): attach and    *)
(* detach, the functions that are called at exit, the TLS callbacks, and   *)
(* the slots of fiber-local storage, over the heaps of HeapList.           *)
(*                                                                         *)
(* The loader calls DllMain, one call at a time, and a function that       *)
(* DllMain calls may register others; so may any thread between the steps  *)
(* of a call.  Registering is one step: its two accesses are not atomic in *)
(* the code, and callers are taken to come one at a time.                  *)
(*                                                                         *)
(* Left out: g_freedll_terminating, which nothing reads, __cxa_atexit,     *)
(* which registers nothing, and the functions that keep no state.          *)
(***************************************************************************)
EXTENDS HeapList

CONSTANTS Callbacks,     \* the functions that may be registered
          Clients,       \* who uses fiber-local storage
          MaxTls,        \* 64
          MaxAtexit,     \* MAX_ATEXIT_FUNCS, 64
          MaxFls         \* FLS_MAX_INDEX, 128

ASSUME RuntimeAssumption ==
    MaxTls \in Nat /\ MaxAtexit \in Nat /\ MaxFls \in Nat /\ NULL \notin Clients \cup 0 .. MaxFls

VARIABLES initialized,   \* g_freedll_initialized
          tls,           \* g_tls_callbacks
          atexits,       \* g_atexit_funcs
          slots, index,  \* g_fls_slots, g_fls_index_counter
          holds,         \* the slot that a client was given last
          loop,          \* what DllMain is at: [call, i]
          called,        \* history: what the loop has called
          promised       \* history: what was registered since the attach

flsVars == <<slots, index, holds>>
dllVars == <<initialized, tls, atexits, loop, called, promised>>
vars == <<heapVars, flsVars, dllVars>>

Idle == [call |-> "none", i |-> 0]
Slots == 0 .. MaxFls - 1
ReverseOf(s) == [k \in 1 .. Len(s) |-> s[Len(s) + 1 - k]]

Init ==
    /\ HeapInit
    /\ slots = [s \in Slots |-> NULL] /\ index = 0 /\ holds = [c \in Clients |-> NULL]
    /\ initialized = FALSE /\ tls = <<>> /\ atexits = <<>>
    /\ loop = Idle /\ called = <<>> /\ promised = [tls |-> <<>>, exit |-> <<>>]

(* DLL_PROCESS_ATTACH: without the process heap too, if there is none.     *)
ProcessAttach ==
    /\ loop = Idle /\ ~initialized /\ initialized' = TRUE
    /\ InitializeProcessHeap
    /\ tls' = <<>> /\ atexits' = <<>>
    /\ promised' = [tls |-> <<>>, exit |-> <<>>]
    /\ UNCHANGED <<loop, called, flsVars>>

\* An exit loop that is over one too early.
ProcessDetachOffByOne ==
    /\ loop = Idle /\ initialized
    /\ loop' = [call |-> "exit", i |-> IF Len(atexits) > 1 THEN Len(atexits) - 1 ELSE 0]
    /\ UNCHANGED <<initialized, called, tls, atexits, promised, heapVars, flsVars>>

(* DLL_PROCESS_DETACH, as far as the count that CleanupCrt begins with.    *)
ProcessDetach ==
    /\ loop = Idle /\ initialized
    /\ loop' = [call |-> "exit", i |-> Len(atexits)]
    /\ UNCHANGED <<initialized, called, tls, atexits, promised, heapVars, flsVars>>

(* CleanupCrt: down from the count; then the table is empty, with what was *)
(* registered since, and the TLS callbacks are told.                       *)
CallAtexit ==
    /\ loop.call = "exit"
    /\ IF loop.i > 0
       THEN /\ called' = Append(called, atexits[loop.i])
            /\ loop' = [call |-> "exit", i |-> loop.i - 1]
            /\ UNCHANGED <<atexits, promised>>
       ELSE /\ atexits' = <<>> /\ called' = <<>>
            /\ loop' = [call |-> "detach", i |-> 1]
            /\ promised' = [promised EXCEPT !.exit = <<>>]
    /\ UNCHANGED <<initialized, tls, heapVars, flsVars>>

(* DLL_THREAD_ATTACH and DLL_THREAD_DETACH: without an attach too.         *)
ThreadCall ==
    /\ loop = Idle /\ loop' = [call |-> "thread", i |-> 1]
    /\ UNCHANGED <<initialized, called, tls, atexits, promised, heapVars, flsVars>>

\* A loop that looks again at what it has called after each call.
CallTlsAgain ==
    /\ loop.call \in {"detach", "thread"}
    /\ IF loop.i <= Len(tls)
       THEN /\ called' = SubSeq(tls, 1, loop.i)
            /\ loop' = [loop EXCEPT !.i = IF Len(tls) = MaxTls THEN 1 ELSE @ + 1]
            /\ UNCHANGED initialized
       ELSE /\ loop' = Idle /\ called' = <<>>
            /\ initialized' = (initialized /\ loop.call # "detach")
    /\ UNCHANGED <<tls, atexits, promised, heapVars, flsVars>>

(* CallTlsCallbacks: up to a count that is read anew each time.            *)
CallTls ==
    /\ loop.call \in {"detach", "thread"}
    /\ IF loop.i <= Len(tls)
       THEN /\ called' = Append(called, tls[loop.i])
            /\ loop' = [loop EXCEPT !.i = @ + 1]
            /\ UNCHANGED initialized
       ELSE /\ loop' = Idle /\ called' = <<>>
            /\ initialized' = (initialized /\ loop.call # "detach")
    /\ UNCHANGED <<tls, atexits, promised, heapVars, flsVars>>

RegisterTlsCallback ==
    /\ Len(tls) < MaxTls
    /\ \E f \in Callbacks :
          tls' = Append(tls, f) /\ promised' = [promised EXCEPT !.tls = Append(@, f)]
    /\ UNCHANGED <<initialized, atexits, loop, called, heapVars, flsVars>>

(* atexit; what is registered once the loop runs is not called.            *)
Atexit ==
    /\ Len(atexits) < MaxAtexit
    /\ \E f \in Callbacks :
          /\ atexits' = Append(atexits, f)
          /\ promised' = IF loop.call \in {"exit", "detach"} THEN promised
                         ELSE [promised EXCEPT !.exit = Append(@, f)]
    /\ UNCHANGED <<initialized, tls, loop, called, heapVars, flsVars>>

FlsAlloc ==
    /\ index < MaxFls /\ index' = index + 1
    /\ slots' = [slots EXCEPT ![index] = NULL]
    /\ \E c \in Clients : holds' = [holds EXCEPT ![c] = index]
    /\ UNCHANGED <<dllVars, heapVars>>

FlsSetValue ==
    /\ \E c \in Clients : holds[c] # NULL /\ slots' = [slots EXCEPT ![holds[c]] = c]
    /\ UNCHANGED <<index, holds, dllVars, heapVars>>

\* A slot that is given out again when it was the last.
FlsFreeReusing ==
    /\ \E c \in Clients :
          /\ holds[c] # NULL /\ slots' = [slots EXCEPT ![holds[c]] = NULL]
          /\ index' = IF holds[c] = index - 1 THEN index - 1 ELSE index
    /\ UNCHANGED <<holds, dllVars, heapVars>>

(* FlsFree: the slot is not given out again, so a client that goes on with *)
(* it is alone.                                                            *)
FlsFree ==
    /\ \E c \in Clients : holds[c] # NULL /\ slots' = [slots EXCEPT ![holds[c]] = NULL]
    /\ UNCHANGED <<index, holds, dllVars, heapVars>>

Heaps == HeapNext /\ UNCHANGED <<flsVars, dllVars>>

DllMain == ProcessAttach \/ ProcessDetach \/ ThreadCall
Loop == CallAtexit \/ CallTls
Next ==
    \/ DllMain \/ Loop \/ RegisterTlsCallback \/ Atexit
    \/ FlsAlloc \/ FlsSetValue \/ FlsFree \/ Heaps

(* DllMain goes on with its loops; nothing has to be registered.           *)
Spec == Init /\ [][Next]_vars /\ WF_vars(Loop)
(***************************************************************************)
(* Properties.                                                             *)
(***************************************************************************)
TypeOK ==
    /\ HeapTypeOK /\ initialized \in BOOLEAN
    /\ tls \in Seq(Callbacks) /\ Len(tls) <= MaxTls
    /\ atexits \in Seq(Callbacks) /\ Len(atexits) <= MaxAtexit
    /\ slots \in [Slots -> Clients \cup {NULL}] /\ index \in 0 .. MaxFls
    /\ holds \in [Clients -> Slots \cup {NULL}]
    /\ loop \in [call : {"none", "exit", "detach", "thread"}, i : Nat]
    /\ called \in Seq(Callbacks)
    /\ promised \in [tls : Seq(Callbacks), exit : Seq(Callbacks)]

(* Who was answered 0 or TRUE since the attach is called: the functions of *)
(* atexit in reverse order, once each, though others come while they run,  *)
(* which are not called; the TLS callbacks in order, those included that   *)
(* come while the loop runs.  Nothing of an earlier attach is called.      *)
CallsKept ==
    /\ loop.call = "exit" =>
          /\ Len(called) + loop.i = Len(promised.exit)
          /\ called = SubSeq(ReverseOf(promised.exit), 1, Len(called))
    /\ loop.call \in {"detach", "thread"} =>
          /\ called = SubSeq(promised.tls, 1, Len(called))
          /\ loop.i > Len(tls) => called = promised.tls

(* A slot has what its client stored, or nothing: also a client that uses  *)
(* one after it freed it meets nobody in it, over every attach and detach. *)
FlsPrivate ==
    \A c \in Clients : holds[c] # NULL =>
        /\ slots[holds[c]] \in {NULL, c}
        /\ \A d \in Clients \ {c} : holds[d] # holds[c]

(* A detach, or the news of a thread, comes to an end, though callbacks    *)
(* register callbacks while it runs: the tables are finite.                *)
CallsEnd == loop # Idle ~> loop = Idle
=============================================================================
