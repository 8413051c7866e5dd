---------------------------- MODULE RuntimeProofs ----------------------------
(***************************************************************************)
(* FreeDLL in the life of a process, for tables of every size and any      *)
(* clients: who is owed a call at detach gets it, in order, and a slot of  *)
(* fiber-local storage has one owner.                                      *)
(***************************************************************************)
EXTENDS Runtime, SequenceTheorems, WellFoundedInduction, TLAPS

(***************************************************************************)
(* Types.                                                                  *)
(***************************************************************************)
FlsTypes ==
    /\ slots \in [Slots -> Clients \cup {NULL}] /\ index \in 0 .. MaxFls
    /\ holds \in [Clients -> Slots \cup {NULL}]

DllTypes ==
    /\ initialized \in BOOLEAN
    /\ tls \in Seq(Callbacks) /\ Len(tls) <= MaxTls
    /\ atexits \in Seq(Callbacks) /\ Len(atexits) <= MaxAtexit
    /\ loop \in [call : {"none", "exit", "detach", "thread"}, i : Nat]
    /\ called \in Seq(Callbacks)
    /\ promised \in [tls : Seq(Callbacks), exit : Seq(Callbacks)]

(* Where the loops stand.  Both tables are what was promised, but for what *)
(* atexit is told once its loop runs.                                      *)
Owed ==
    /\ promised.tls = tls
    /\ loop.call \in {"exit", "detach"} => initialized
    /\ initialized /\ loop.call \notin {"exit", "detach"} => promised.exit = atexits
    /\ loop.call = "none" => called = <<>>
    /\ loop.call = "exit" =>
          /\ Len(promised.exit) <= Len(atexits)
          /\ \A k \in 1 .. Len(promised.exit) : atexits[k] = promised.exit[k]
          /\ Len(called) + loop.i = Len(promised.exit)
          /\ \A k \in 1 .. Len(called) : called[k] = promised.exit[Len(promised.exit) + 1 - k]
    /\ loop.call \in {"detach", "thread"} =>
          /\ loop.i = Len(called) + 1 /\ Len(called) <= Len(tls)
          /\ \A k \in 1 .. Len(called) : called[k] = tls[k]

DllInv == DllTypes /\ Owed

(* A slot was given out when its client has it, and to it alone.           *)
FlsInv ==
    /\ FlsTypes
    /\ \A c \in Clients : holds[c] # NULL =>
          /\ holds[c] < index
          /\ slots[holds[c]] \in {NULL, c}
          /\ \A d \in Clients \ {c} : holds[d] # holds[c]

(***************************************************************************)
(* Fiber-local storage.                                                    *)
(***************************************************************************)
LEMMA NullIsNoSlot == NULL \notin Slots /\ NULL \notin Clients
  BY RuntimeAssumption DEF Slots

LEMMA FlsInit == Init => FlsInv
  BY RuntimeAssumption DEF Init, FlsInv, FlsTypes, Slots

LEMMA FlsAllocStep == FlsInv /\ FlsAlloc => FlsInv'
<1> SUFFICES ASSUME FlsInv, FlsAlloc PROVE FlsInv'
  OBVIOUS
<1>1. PICK c \in Clients : holds' = [holds EXCEPT ![c] = index]
  BY DEF FlsAlloc
<1>2. index \in Slots /\ index' = index + 1 /\ index' \in 0 .. MaxFls
  BY RuntimeAssumption DEF FlsAlloc, FlsInv, FlsTypes, Slots
<1>3. slots' = [slots EXCEPT ![index] = NULL]
  BY DEF FlsAlloc
<1>4. FlsTypes'
  BY <1>1, <1>2, <1>3 DEF FlsInv, FlsTypes
<1>5. \A d \in Clients \ {c} : holds'[d] = holds[d]
  BY <1>1 DEF FlsInv, FlsTypes
<1>6. holds'[c] = index /\ slots'[index] = NULL
  BY <1>1, <1>2, <1>3 DEF FlsInv, FlsTypes
<1>7. ASSUME NEW d \in Clients, holds'[d] # NULL
      PROVE  /\ holds'[d] < index'
             /\ slots'[holds'[d]] \in {NULL, d}
             /\ \A e \in Clients \ {d} : holds'[e] # holds'[d]
  <2>1. CASE d = c
    BY <1>2, <1>5, <1>6, <2>1, NullIsNoSlot DEF FlsInv, FlsTypes, Slots
  <2>2. CASE d # c
    <3>1. holds'[d] = holds[d] /\ holds[d] \in Slots /\ holds[d] < index
      BY <1>5, <1>7, <2>2 DEF FlsInv, FlsTypes
    <3>2. slots'[holds[d]] = slots[holds[d]]
      BY <1>3, <3>1 DEF FlsInv, FlsTypes, Slots
    <3>3. \A e \in Clients \ {d} : holds'[e] # holds'[d]
      BY <1>2, <1>5, <1>6, <2>2, <3>1, <1>7 DEF FlsInv, Slots
    <3> QED
      BY <1>2, <1>7, <3>1, <3>2, <3>3 DEF FlsInv, Slots
  <2> QED
    BY <2>1, <2>2
<1> QED
  BY <1>4, <1>7 DEF FlsInv

LEMMA FlsWriteStep ==
  ASSUME FlsInv, NEW c \in Clients, holds[c] # NULL, NEW v \in {NULL, c},
         slots' = [slots EXCEPT ![holds[c]] = v], UNCHANGED <<index, holds>>
  PROVE  FlsInv'
<1>1. holds[c] \in Slots
  BY DEF FlsInv, FlsTypes
<1>2. FlsTypes'
  BY <1>1 DEF FlsInv, FlsTypes
<1>3. \A d \in Clients : holds[d] # NULL => slots'[holds[d]] \in {NULL, d}
  BY <1>1 DEF FlsInv, FlsTypes
<1> QED
  BY <1>2, <1>3 DEF FlsInv

LEMMA FlsStep == FlsInv /\ [Next]_vars => FlsInv'
<1> SUFFICES ASSUME FlsInv, [Next]_vars PROVE FlsInv'
  OBVIOUS
<1>1. ASSUME UNCHANGED flsVars PROVE FlsInv'
  BY <1>1 DEF flsVars, FlsInv, FlsTypes
<1>2. CASE FlsSetValue
  BY <1>2, FlsWriteStep DEF FlsSetValue
<1>3. CASE FlsFree
  BY <1>3, FlsWriteStep DEF FlsFree
<1>4. CASE DllMain \/ Loop
  BY <1>1, <1>4 DEF DllMain, Loop, ProcessAttach, ProcessDetach, ThreadCall, CallAtexit, CallTls
<1>5. CASE RegisterTlsCallback \/ Atexit \/ Heaps \/ UNCHANGED vars
  BY <1>1, <1>5 DEF RegisterTlsCallback, Atexit, Heaps, vars
<1> QED
  BY <1>2, <1>3, <1>4, <1>5, FlsAllocStep DEF Next

LEMMA FlsInvariant == Spec => []FlsInv
  BY FlsInit, FlsStep, PTL DEF Spec

(* FlsPrivate: FlsAlloc never gives a slot out again, so that a client     *)
(* meets nobody in its own, whatever was freed and however long ago.       *)
THEOREM FlsSlotsPrivate == Spec => []FlsPrivate
<1>1. FlsInv => FlsPrivate
  BY DEF FlsInv, FlsPrivate
<1> QED
  BY <1>1, FlsInvariant, PTL

(***************************************************************************)
(* Attach and detach.                                                      *)
(***************************************************************************)
LEMMA Longer ==
  ASSUME NEW s \in Seq(Callbacks), NEW f \in Callbacks
  PROVE  /\ Append(s, f) \in Seq(Callbacks) /\ Len(Append(s, f)) = Len(s) + 1
         /\ \A k \in 1 .. Len(s) : Append(s, f)[k] = s[k]
         /\ Append(s, f)[Len(s) + 1] = f
  OBVIOUS

\* One call more from the front of a table.
LEMMA CallNext ==
  ASSUME NEW s \in Seq(Callbacks), NEW t \in Seq(Callbacks), NEW i \in Nat,
         i = Len(t) + 1, i <= Len(s), \A k \in 1 .. Len(t) : t[k] = s[k]
  PROVE  /\ Append(t, s[i]) \in Seq(Callbacks) /\ Len(Append(t, s[i])) = i
         /\ \A k \in 1 .. i : Append(t, s[i])[k] = s[k]
  OBVIOUS

\* One call more from its end.
LEMMA CallPrevious ==
  ASSUME NEW s \in Seq(Callbacks), NEW t \in Seq(Callbacks), NEW i \in Nat, i > 0,
         Len(t) + i = Len(s), \A k \in 1 .. Len(t) : t[k] = s[Len(s) + 1 - k]
  PROVE  /\ s[i] \in Callbacks
         /\ Append(t, s[i]) \in Seq(Callbacks)
         /\ Len(Append(t, s[i])) + (i - 1) = Len(s)
         /\ \A k \in 1 .. Len(Append(t, s[i])) : Append(t, s[i])[k] = s[Len(s) + 1 - k]
<1>1. Len(s) \in Nat /\ Len(t) \in Nat
  OBVIOUS
<1>2. i \in 1 .. Len(s) /\ Len(s) + 1 - (Len(t) + 1) = i
  BY <1>1
<1>3. s[i] \in Callbacks
  BY <1>2
<1> DEFINE u == Append(t, s[i])
<1>4. u \in Seq(Callbacks) /\ Len(u) = Len(t) + 1 /\ u[Len(t) + 1] = s[i]
      /\ \A k \in 1 .. Len(t) : u[k] = t[k]
  BY <1>3, Longer
<1> HIDE DEF u
<1>5. \A k \in 1 .. Len(u) : k \in 1 .. Len(t) \/ k = Len(t) + 1
  BY <1>1, <1>4
<1>6. \A k \in 1 .. Len(u) : u[k] = s[Len(s) + 1 - k]
  BY <1>2, <1>4, <1>5
<1>7. Len(u) + (i - 1) = Len(s)
  BY <1>1, <1>4
<1> QED
  BY <1>3, <1>4, <1>6, <1>7 DEF u

\* The loop at position i.
LEMMA AtCall ==
  ASSUME NEW c \in {"none", "exit", "detach", "thread"}, NEW i \in Nat
  PROVE  [call |-> c, i |-> i] \in [call : {"none", "exit", "detach", "thread"}, i : Nat]
  OBVIOUS

LEMMA NoCalls == <<>> \in Seq(Callbacks) /\ Len(<<>>) = 0
  OBVIOUS

LEMMA DllInit == Init => DllInv
<1> SUFFICES ASSUME Init PROVE DllInv
  OBVIOUS
<1>1. initialized = FALSE /\ tls = <<>> /\ atexits = <<>> /\ called = <<>>
      /\ loop = [call |-> "none", i |-> 0] /\ promised = [tls |-> <<>>, exit |-> <<>>]
  BY DEF Init, Idle
<1>2. loop \in [call : {"none", "exit", "detach", "thread"}, i : Nat]
      /\ promised \in [tls : Seq(Callbacks), exit : Seq(Callbacks)]
  BY <1>1, NoCalls
<1>3. DllTypes
  <2>1. tls \in Seq(Callbacks) /\ atexits \in Seq(Callbacks) /\ called \in Seq(Callbacks)
        /\ initialized \in BOOLEAN
    BY <1>1, NoCalls
  <2>2. Len(tls) <= MaxTls /\ Len(atexits) <= MaxAtexit
    BY <1>1, RuntimeAssumption
  <2> QED
    BY <1>2, <2>1, <2>2 DEF DllTypes
<1>4. Owed
  BY <1>1 DEF Owed
<1> QED
  BY <1>3, <1>4 DEF DllInv

LEMMA AttachStep == DllInv /\ ProcessAttach => DllInv'
<1> SUFFICES ASSUME DllInv, ProcessAttach PROVE DllInv'
  OBVIOUS
<1>1. loop.call = "none" /\ UNCHANGED <<loop, called>> /\ initialized' = TRUE
      /\ tls' = <<>> /\ atexits' = <<>> /\ promised' = [tls |-> <<>>, exit |-> <<>>]
  BY DEF ProcessAttach, Idle
<1> QED
  BY <1>1, RuntimeAssumption DEF DllInv, DllTypes, Owed

LEMMA DetachStep == DllInv /\ ProcessDetach => DllInv'
<1> SUFFICES ASSUME DllInv, ProcessDetach PROVE DllInv'
  OBVIOUS
<1>1. loop.call = "none" /\ initialized /\ called = <<>> /\ promised.exit = atexits
      /\ atexits \in Seq(Callbacks)
  BY DEF ProcessDetach, Idle, DllInv, DllTypes, Owed
<1>2. loop' = [call |-> "exit", i |-> Len(atexits)]
      /\ UNCHANGED <<initialized, called, tls, atexits, promised>>
  BY DEF ProcessDetach
<1>3. DllTypes'
  BY <1>1, <1>2 DEF DllInv, DllTypes
<1>4. Owed'
  BY <1>1, <1>2 DEF DllInv, Owed
<1> QED
  BY <1>3, <1>4 DEF DllInv

LEMMA ThreadStep == DllInv /\ ThreadCall => DllInv'
<1> SUFFICES ASSUME DllInv, ThreadCall PROVE DllInv'
  OBVIOUS
<1>1. loop.call = "none" /\ called = <<>> /\ loop' = [call |-> "thread", i |-> 1]
      /\ UNCHANGED <<initialized, called, tls, atexits, promised>>
  BY DEF ThreadCall, Idle, DllInv, Owed
<1>2. DllTypes'
  BY <1>1 DEF DllInv, DllTypes
<1>3. Owed'
  BY <1>1 DEF DllInv, DllTypes, Owed
<1> QED
  BY <1>2, <1>3 DEF DllInv

LEMMA CallAtexitStep == DllInv /\ CallAtexit => DllInv'
<1> SUFFICES ASSUME DllInv, CallAtexit PROVE DllInv'
  OBVIOUS
<1> DEFINE owed == promised.exit
<1>1. owed \in Seq(Callbacks) /\ called \in Seq(Callbacks) /\ loop.i \in Nat
      /\ Len(called) + loop.i = Len(owed) /\ Len(owed) <= Len(atexits)
      /\ initialized /\ UNCHANGED <<initialized, tls>>
  BY DEF CallAtexit, DllInv, DllTypes, Owed
<1>2. CASE loop.i > 0
  <2>1. called' = Append(called, atexits[loop.i])
        /\ loop' = [call |-> "exit", i |-> loop.i - 1] /\ UNCHANGED <<atexits, promised>>
    BY <1>2 DEF CallAtexit
  <2>2. atexits[loop.i] = owed[loop.i]
    <3>1. Len(owed) \in Nat /\ Len(called) \in Nat
      BY <1>1
    <3>2. loop.i \in 1 .. Len(owed)
      BY <1>1, <1>2, <3>1
    <3> QED
      BY <3>2 DEF CallAtexit, DllInv, Owed
  <2>3. /\ called' \in Seq(Callbacks) /\ Len(called') + (loop.i - 1) = Len(owed)
        /\ \A k \in 1 .. Len(called') : called'[k] = owed[Len(owed) + 1 - k]
    <3>1. \A k \in 1 .. Len(called) : called[k] = owed[Len(owed) + 1 - k]
      BY DEF CallAtexit, DllInv, Owed
    <3>2. called' = Append(called, owed[loop.i])
      BY <2>1, <2>2
    <3> HIDE DEF owed
    <3> QED
      BY <1>1, <1>2, <3>1, <3>2, CallPrevious
  <2>4. loop'.call = "exit" /\ loop'.i = loop.i - 1 /\ loop.i - 1 \in Nat
    BY <1>1, <1>2, <2>1
  <2>5. loop' \in [call : {"none", "exit", "detach", "thread"}, i : Nat]
    BY <2>1, <2>4, AtCall
  <2>6. DllTypes'
    BY <1>1, <2>1, <2>3, <2>5 DEF DllInv, DllTypes
  <2>7. Owed'
    <3>1. promised'.tls = tls' /\ initialized'
          /\ Len(promised'.exit) <= Len(atexits')
          /\ \A k \in 1 .. Len(promised'.exit) : atexits'[k] = promised'.exit[k]
      BY <1>1, <2>1 DEF DllInv, Owed, CallAtexit
    <3>2. Len(called') + loop'.i = Len(promised'.exit)
          /\ \A k \in 1 .. Len(called') : called'[k] = promised'.exit[Len(promised'.exit) + 1 - k]
      BY <2>1, <2>3, <2>4
    <3> QED
      BY <2>4, <3>1, <3>2 DEF Owed
  <2> QED
    BY <2>6, <2>7 DEF DllInv
<1>3. CASE ~(loop.i > 0)
  <2>1. atexits' = <<>> /\ called' = <<>> /\ loop' = [call |-> "detach", i |-> 1]
        /\ promised' = [promised EXCEPT !.exit = <<>>]
    BY <1>3 DEF CallAtexit
  <2>2. promised'.tls = promised.tls
    BY <2>1 DEF DllInv, DllTypes
  <2>3. DllTypes'
    <3>1. promised' \in [tls : Seq(Callbacks), exit : Seq(Callbacks)]
      BY <2>1, NoCalls DEF DllInv, DllTypes
    <3>2. loop' \in [call : {"none", "exit", "detach", "thread"}, i : Nat]
      BY <2>1
    <3> QED
      BY <1>1, <2>1, <3>1, <3>2, NoCalls, RuntimeAssumption DEF DllInv, DllTypes
  <2>4. tls' \in Seq(Callbacks) /\ tls' = promised'.tls /\ initialized'
    BY <1>1, <2>2 DEF DllInv, DllTypes, Owed
  <2>5. Owed'
    BY <2>1, <2>4 DEF Owed
  <2> QED
    BY <2>3, <2>5 DEF DllInv
<1> QED
  BY <1>2, <1>3

LEMMA CallTlsStep == DllInv /\ CallTls => DllInv'
<1> SUFFICES ASSUME DllInv, CallTls PROVE DllInv'
  OBVIOUS
<1>1. tls \in Seq(Callbacks) /\ called \in Seq(Callbacks) /\ loop.call \in {"detach", "thread"}
      /\ loop.i = Len(called) + 1 /\ Len(called) <= Len(tls)
      /\ UNCHANGED <<tls, atexits, promised>>
  BY DEF CallTls, DllInv, DllTypes, Owed
<1>2. CASE loop.i <= Len(tls)
  <2>1. called' = Append(called, tls[loop.i]) /\ loop' = [loop EXCEPT !.i = loop.i + 1]
        /\ UNCHANGED initialized
    BY <1>2 DEF CallTls
  <2>2. \A k \in 1 .. Len(called) : called[k] = tls[k]
    BY <1>1 DEF DllInv, Owed
  <2>3. loop.i \in Nat
    BY DEF DllInv, DllTypes
  <2>4. called' \in Seq(Callbacks) /\ Len(called') = loop.i
        /\ \A k \in 1 .. loop.i : called'[k] = tls[k]
    BY <1>1, <1>2, <2>1, <2>2, <2>3, CallNext
  <2>5. loop'.call = loop.call /\ loop'.i = loop.i + 1 /\ loop' = [call |-> loop.call, i |-> loop.i + 1]
    BY <2>1 DEF DllInv, DllTypes
  <2>6. loop' \in [call : {"none", "exit", "detach", "thread"}, i : Nat]
    <3>1. loop.i + 1 \in Nat
      BY <2>3
    <3> QED
      BY <1>1, <2>5, <3>1, AtCall
  <2>7. DllTypes'
    BY <1>1, <2>1, <2>4, <2>6 DEF DllInv, DllTypes
  <2>8. Owed'
    <3>1. promised'.tls = tls' /\ (loop'.call = "detach" => initialized')
          /\ (initialized' /\ loop'.call \notin {"exit", "detach"} => promised'.exit = atexits')
      BY <1>1, <2>1, <2>5 DEF DllInv, Owed
    <3>2. loop'.i = Len(called') + 1 /\ Len(called') <= Len(tls')
      BY <1>1, <1>2, <2>4, <2>5
    <3>3. \A k \in 1 .. Len(called') : called'[k] = tls'[k]
      BY <1>1, <2>4
    <3> QED
      BY <1>1, <2>5, <3>1, <3>2, <3>3 DEF Owed
  <2> QED
    BY <2>7, <2>8 DEF DllInv
<1>3. CASE ~(loop.i <= Len(tls))
  <2>1. loop' = [call |-> "none", i |-> 0] /\ called' = <<>>
        /\ initialized' = (initialized /\ loop.call # "detach")
    BY <1>3 DEF CallTls, Idle
  <2>2. initialized' \in BOOLEAN
    BY <2>1 DEF DllInv, DllTypes
  <2>3. DllTypes'
    BY <1>1, <2>1, <2>2 DEF DllInv, DllTypes
  <2>4. initialized' => promised'.exit = atexits'
    BY <1>1, <2>1 DEF DllInv, Owed
  <2>5. Owed'
    BY <1>1, <2>1, <2>4 DEF DllInv, Owed
  <2> QED
    BY <2>3, <2>5 DEF DllInv
<1> QED
  BY <1>2, <1>3

LEMMA RegisterTlsStep == DllInv /\ RegisterTlsCallback => DllInv'
<1> SUFFICES ASSUME DllInv, RegisterTlsCallback PROVE DllInv'
  OBVIOUS
<1>1. PICK f \in Callbacks :
         tls' = Append(tls, f) /\ promised' = [promised EXCEPT !.tls = Append(promised.tls, f)]
  BY DEF RegisterTlsCallback
<1>2. tls' \in Seq(Callbacks) /\ Len(tls') = Len(tls) + 1
      /\ \A k \in 1 .. Len(tls) : tls'[k] = tls[k]
  BY <1>1, Longer DEF DllInv, DllTypes
<1>3. promised'.tls = tls' /\ promised'.exit = promised.exit
      /\ promised' \in [tls : Seq(Callbacks), exit : Seq(Callbacks)]
  BY <1>1, <1>2 DEF DllInv, DllTypes, Owed
<1>4. Len(tls) < MaxTls /\ UNCHANGED <<initialized, atexits, loop, called>>
  BY DEF RegisterTlsCallback
<1>5. Len(tls) \in Nat /\ Len(tls') <= MaxTls
  BY <1>2, <1>4, RuntimeAssumption DEF DllInv, DllTypes
<1>6. DllTypes'
  BY <1>2, <1>3, <1>4, <1>5 DEF DllInv, DllTypes
<1>7. Len(called) \in Nat
  BY DEF DllInv, DllTypes
<1>8. Owed'
  BY <1>2, <1>3, <1>4, <1>5, <1>7 DEF DllInv, Owed
<1> QED
  BY <1>6, <1>8 DEF DllInv

LEMMA AtexitStep == DllInv /\ Atexit => DllInv'
<1> SUFFICES ASSUME DllInv, Atexit PROVE DllInv'
  OBVIOUS
<1>1. PICK f \in Callbacks :
         /\ atexits' = Append(atexits, f)
         /\ promised' = IF loop.call \in {"exit", "detach"} THEN promised
                        ELSE [promised EXCEPT !.exit = Append(promised.exit, f)]
  BY DEF Atexit
<1>2. atexits' \in Seq(Callbacks) /\ Len(atexits') = Len(atexits) + 1
      /\ \A k \in 1 .. Len(atexits) : atexits'[k] = atexits[k]
  BY <1>1, Longer DEF DllInv, DllTypes
<1>3. Len(atexits) < MaxAtexit /\ UNCHANGED <<initialized, tls, loop, called>>
  BY DEF Atexit
<1>4. Len(atexits) \in Nat /\ Len(atexits') <= MaxAtexit
  BY <1>2, <1>3, RuntimeAssumption DEF DllInv, DllTypes
<1>5. promised' \in [tls : Seq(Callbacks), exit : Seq(Callbacks)] /\ promised'.tls = promised.tls
  <2>1. Append(promised.exit, f) \in Seq(Callbacks)
    BY Longer DEF DllInv, DllTypes
  <2> QED
    BY <1>1, <2>1 DEF DllInv, DllTypes
<1>6. DllTypes'
  BY <1>2, <1>3, <1>4, <1>5 DEF DllInv, DllTypes
<1>7. ASSUME loop.call \in {"exit", "detach"} PROVE Owed'
  <2>1. promised' = promised /\ promised.exit \in Seq(Callbacks)
    BY <1>1, <1>7 DEF DllInv, DllTypes
  <2>2. Len(promised.exit) \in Nat
    BY <2>1
  <2> QED
    BY <1>2, <1>3, <1>4, <1>7, <2>1, <2>2 DEF DllInv, Owed
<1>8. ASSUME loop.call \notin {"exit", "detach"} PROVE Owed'
  <2>1. promised'.exit = Append(promised.exit, f)
    BY <1>1, <1>8 DEF DllInv, DllTypes
  <2> QED
    BY <1>1, <1>3, <1>5, <1>8, <2>1 DEF DllInv, Owed
<1> QED
  BY <1>6, <1>7, <1>8 DEF DllInv

LEMMA DllStep == DllInv /\ [Next]_vars => DllInv'
<1> SUFFICES ASSUME DllInv, [Next]_vars PROVE DllInv'
  OBVIOUS
<1>1. ASSUME UNCHANGED dllVars PROVE DllInv'
  BY <1>1 DEF dllVars, DllInv, DllTypes, Owed
<1>2. CASE FlsAlloc \/ FlsSetValue \/ FlsFree \/ Heaps \/ UNCHANGED vars
  BY <1>1, <1>2 DEF FlsAlloc, FlsSetValue, FlsFree, Heaps, vars
<1> QED
  BY <1>2, AttachStep, DetachStep, ThreadStep, CallAtexitStep, CallTlsStep,
     RegisterTlsStep, AtexitStep DEF Next, DllMain, Loop

(* The inductive invariant of DllMain's loops and the tables they run over.*)
THEOREM DllInvariant == Spec => []DllInv
  BY DllInit, DllStep, PTL DEF Spec

(* CallsKept: CleanupCrt and CallTlsCallbacks call what was registered     *)
(* since the attach, once each and in their order, though the functions    *)
(* register others while they run.                                         *)
THEOREM RuntimeKeepsCalls == Spec => []CallsKept
<1>1. DllInv => CallsKept
  <2> SUFFICES ASSUME DllInv PROVE CallsKept
    OBVIOUS
  <2>1. ASSUME loop.call = "exit"
        PROVE  called = SubSeq(ReverseOf(promised.exit), 1, Len(called))
    <3> DEFINE owed == promised.exit
    <3>1. owed \in Seq(Callbacks) /\ called \in Seq(Callbacks) /\ Len(called) <= Len(owed)
      BY <2>1 DEF DllInv, DllTypes, Owed
    <3>2. \A k \in 1 .. Len(called) : called[k] = owed[Len(owed) + 1 - k]
      BY <2>1 DEF DllInv, Owed
    <3>3. ReverseOf(owed) \in Seq(Callbacks) /\ Len(ReverseOf(owed)) = Len(owed)
          /\ \A k \in 1 .. Len(owed) : ReverseOf(owed)[k] = owed[Len(owed) + 1 - k]
      BY <3>1 DEF ReverseOf
    <3> QED
      BY <3>1, <3>2, <3>3
  <2>2. ASSUME loop.call \in {"detach", "thread"}
        PROVE  /\ called = SubSeq(promised.tls, 1, Len(called))
               /\ loop.i > Len(tls) => called = promised.tls
    <3>1. tls \in Seq(Callbacks) /\ called \in Seq(Callbacks) /\ promised.tls = tls
          /\ Len(called) <= Len(tls) /\ loop.i = Len(called) + 1
      BY <2>2 DEF DllInv, DllTypes, Owed
    <3>2. \A k \in 1 .. Len(called) : called[k] = tls[k]
      BY <2>2 DEF DllInv, Owed
    <3>3. called = SubSeq(tls, 1, Len(called))
      BY <3>1, <3>2
    <3>4. ASSUME loop.i > Len(tls) PROVE called = tls
      <4>1. Len(called) = Len(tls)
        BY <3>1, <3>4
      <4> QED
        BY <3>1, <3>2, <4>1
    <3> QED
      BY <3>1, <3>3, <3>4
  <2> QED
    BY <2>1, <2>2 DEF CallsKept, DllInv, Owed
<1> QED
  BY <1>1, DllInvariant, PTL

(***************************************************************************)
(* The types of everything.                                                *)
(***************************************************************************)
LEMMA HeapTypeStep == HeapTypeOK /\ [HeapNext]_heapVars => HeapTypeOK'
<1> SUFFICES ASSUME HeapTypeOK, [HeapNext]_heapVars PROVE HeapTypeOK'
  OBVIOUS
<1>1. CASE UNCHANGED heapVars
  BY <1>1 DEF HeapTypeOK, heapVars, Mapped
<1>2. ASSUME NEW h \in Addresses, NEW n \in Addresses \cup {NULL}, NextHeap' = Linked(h, n)
      PROVE  Mapped' \subseteq Addresses /\ NextHeap' \in [Mapped' -> Addresses \cup {NULL}]
  BY <1>2 DEF HeapTypeOK, Linked, Mapped
<1>3. CASE CreateProcessHeap
  <2>1. PICK h \in Addresses \ Mapped :
           /\ g_ProcessHeap' = h /\ g_HeapList' = h
           /\ NextHeap' = Linked(h, NULL) /\ listed' = <<h>>
           /\ UNCHANGED broken
    BY <1>3 DEF CreateProcessHeap
  <2> QED
    BY <1>2, <2>1 DEF HeapTypeOK
<1>4. CASE CreateHeap
  <2>1. PICK h \in Addresses \ Mapped :
           /\ NextHeap' = Linked(h, g_HeapList) /\ g_HeapList' = h
           /\ listed' = <<h>> \o listed
           /\ UNCHANGED <<g_ProcessHeap, broken>>
    BY <1>4 DEF CreateHeap
  <2>2. listed' \in Seq(Addresses)
    BY <2>1 DEF HeapTypeOK
  <2> QED
    BY <1>2, <2>1, <2>2 DEF HeapTypeOK
<1>5. CASE DestroyHeap
  <2>1. PICK h \in Mapped :
           /\ Unlink(h) /\ listed' = Unlisted(h)
           /\ broken' = (broken \/ h = g_ProcessHeap)
           /\ UNCHANGED g_ProcessHeap
    BY <1>5 DEF DestroyHeap
  <2>2. NextHeap[h] \in Addresses \cup {NULL}
    BY DEF HeapTypeOK
  <2>3. g_HeapList' \in Addresses \cup {NULL}
    BY <2>1, <2>2 DEF HeapTypeOK, Unlink
  <2>4. Mapped' = Mapped \ {h} /\ NextHeap' \in [Mapped \ {h} -> Addresses \cup {NULL}]
    BY <2>1, <2>2 DEF HeapTypeOK, Unlink, Mapped
  <2>5. listed' \in Seq(Addresses)
    <3>1. CASE \E i \in 1 .. Len(listed) : listed[i] = h
      <4>1. Len(listed) - 1 \in Nat
        BY <3>1 DEF HeapTypeOK
      <4>2. \A i \in 1 .. Len(listed) - 1 :
               listed[i] \in Addresses /\ listed[i + 1] \in Addresses
        BY DEF HeapTypeOK
      <4> QED
        BY <2>1, <3>1, <4>1, <4>2 DEF Unlisted
    <3>2. CASE ~\E i \in 1 .. Len(listed) : listed[i] = h
      BY <2>1, <3>2 DEF Unlisted, HeapTypeOK
    <3> QED
      BY <3>1, <3>2
  <2> QED
    BY <2>1, <2>3, <2>4, <2>5 DEF HeapTypeOK
<1> QED
  BY <1>1, <1>3, <1>4, <1>5 DEF HeapNext, InitializeProcessHeap

LEMMA HeapTypeInit == Init => HeapTypeOK
<1> SUFFICES ASSUME Init PROVE HeapTypeOK
  OBVIOUS
<1>1. NextHeap = [h \in {} |-> NULL] /\ listed = <<>> /\ broken = FALSE
      /\ g_ProcessHeap = NULL /\ g_HeapList = NULL
  BY DEF Init, HeapInit
<1>2. Mapped = {}
  BY <1>1 DEF Mapped
<1>3. NextHeap \in [Mapped -> Addresses \cup {NULL}]
  BY <1>1, <1>2
<1>4. listed \in Seq(Addresses)
  BY <1>1
<1> QED
  BY <1>1, <1>2, <1>3, <1>4 DEF HeapTypeOK

LEMMA HeapStepOf == [Next]_vars => [HeapNext]_heapVars
  BY DEF Next, DllMain, Loop, ProcessAttach, ProcessDetach, ThreadCall, CallAtexit, CallTls,
         RegisterTlsCallback, Atexit, FlsAlloc, FlsSetValue, FlsFree, Heaps, HeapNext, vars

LEMMA HeapTypeInvariant == Spec => []HeapTypeOK
  BY HeapTypeInit, HeapStepOf, HeapTypeStep, PTL DEF Spec

(***************************************************************************)
(* The list of heaps.                                                      *)
(***************************************************************************)
LEMMA Least ==
  ASSUME NEW T \in SUBSET Nat, T # {}
  PROVE  \E m \in T : \A k \in T : m <= k
<1> DEFINE R == {x \in Nat \X Nat : x[1] < x[2]}
<1>1. IsWellFoundedOn(R, Nat)
  BY NatLessThanWellFounded, Zenon DEF OpToRel, R
<1>2. PICK x \in T : \A y \in T : <<y, x>> \notin R
  BY <1>1, WFMin
<1>3. ASSUME NEW k \in T PROVE x <= k
  <2>1. <<k, x>> \in Nat \X Nat /\ <<k, x>>[1] = k /\ <<k, x>>[2] = x
    OBVIOUS
  <2>2. ~(k < x)
    BY <1>2, <2>1
  <2> QED
    BY <2>2
<1> QED
  BY <1>3

(* The list is what history says, and has no heap twice.                   *)
ListInv ==
    /\ HeapTypeOK /\ HeapListSound
    /\ \A i, j \in 1 .. Len(listed) : listed[i] = listed[j] => i = j

Elems == {listed[i] : i \in 1 .. Len(listed)}

(* The walk from g_HeapList meets what is listed, and nothing else.        *)
LEMMA WalkIsListed == ListInv => Walk(g_HeapList, NextHeap) = Elems
<1> SUFFICES ASSUME ListInv PROVE Walk(g_HeapList, NextHeap) = Elems
  OBVIOUS
<1>1. NULL \notin Mapped /\ DOMAIN NextHeap = Mapped
  BY HeapListAssumption DEF ListInv, HeapTypeOK, Mapped
<1>2. Len(listed) \in Nat /\ Elems \in SUBSET Mapped
  BY DEF ListInv, HeapTypeOK, HeapListSound, Elems
<1>3. \A i \in 1 .. Len(listed) :
         NextHeap[listed[i]] = IF i = Len(listed) THEN NULL ELSE listed[i + 1]
  BY DEF ListInv, HeapListSound
<1>4. g_HeapList = IF listed = <<>> THEN NULL ELSE listed[1]
  BY DEF ListInv, HeapListSound
<1>5. Closed(Elems, g_HeapList, NextHeap)
  <2>1. g_HeapList \in Mapped => g_HeapList \in Elems
    <3>1. CASE listed = <<>>
      BY <1>1, <1>4, <3>1
    <3>2. CASE listed # <<>>
      <4>1. 1 \in 1 .. Len(listed)
        BY <3>2 DEF ListInv, HeapTypeOK
      <4> QED
        BY <1>4, <3>2, <4>1 DEF Elems
    <3> QED
      BY <3>1, <3>2
  <2>2. ASSUME NEW i \in 1 .. Len(listed), NextHeap[listed[i]] \in Mapped
        PROVE  NextHeap[listed[i]] \in Elems
    <3>1. i # Len(listed) /\ NextHeap[listed[i]] = listed[i + 1]
      BY <1>1, <1>3, <2>2
    <3>2. i + 1 \in 1 .. Len(listed)
      BY <1>2, <3>1
    <3> QED
      BY <3>1, <3>2 DEF Elems
  <2> QED
    BY <1>1, <2>1, <2>2 DEF Closed, Elems
<1>6. ASSUME NEW S \in SUBSET Mapped, Closed(S, g_HeapList, NextHeap), ~(Elems \subseteq S)
      PROVE  FALSE
  <2> DEFINE Outside == {i \in 1 .. Len(listed) : listed[i] \notin S}
  <2>1. Outside \in SUBSET Nat /\ Outside # {}
    BY <1>2, <1>6 DEF Elems
  <2>2. PICK m \in Outside : \A k \in Outside : m <= k
    BY <2>1, Least
  <2>3. m \in 1 .. Len(listed) /\ listed[m] \notin S /\ listed[m] \in Mapped
    BY <1>2 DEF Elems
  <2>4. CASE m = 1
    <3>1. g_HeapList = listed[1]
      BY <1>2, <1>4, <2>3
    <3> QED
      BY <1>1, <1>6, <2>3, <2>4, <3>1 DEF Closed
  <2>5. CASE m # 1
    <3>1. m - 1 \in 1 .. Len(listed) /\ m - 1 < m /\ m - 1 # Len(listed) /\ (m - 1) + 1 = m
      BY <1>2, <2>3, <2>5
    <3>2. listed[m - 1] \in S
      BY <2>2, <3>1
    <3>3. NextHeap[listed[m - 1]] = listed[m]
      BY <1>3, <3>1
    <3> QED
      BY <1>1, <1>6, <2>3, <3>2, <3>3 DEF Closed
  <2> QED
    BY <2>4, <2>5
<1> QED
  BY <1>1, <1>2, <1>5, <1>6 DEF Walk

LEMMA ListInit == Init => ListInv
<1> SUFFICES ASSUME Init PROVE ListInv
  OBVIOUS
<1>1. listed = <<>> /\ g_ProcessHeap = NULL /\ g_HeapList = NULL
  BY DEF Init, HeapInit
<1>2. HeapListSound
  BY <1>1 DEF HeapListSound
<1>3. HeapTypeOK
  BY HeapTypeInit
<1> QED
  BY <1>1, <1>2, <1>3 DEF ListInv

LEMMA CreateProcessHeapStep == ListInv /\ HeapTypeOK' /\ CreateProcessHeap => ListInv'
<1> SUFFICES ASSUME ListInv, HeapTypeOK', CreateProcessHeap PROVE ListInv'
  OBVIOUS
<1>1. PICK h \in Addresses \ Mapped :
         /\ g_ProcessHeap' = h /\ g_HeapList' = h
         /\ NextHeap' = Linked(h, NULL) /\ listed' = <<h>>
  BY DEF CreateProcessHeap
<1>2. Len(listed') = 1 /\ listed'[1] = h /\ listed' # <<>>
  BY <1>1
<1>3. Mapped' = Mapped \cup {h} /\ NextHeap'[h] = NULL
  BY <1>1 DEF Linked, Mapped
<1>4. HeapListSound'
  BY <1>1, <1>2, <1>3 DEF HeapListSound
<1> QED
  BY <1>2, <1>4 DEF ListInv

LEMMA CreateHeapStep == ListInv /\ HeapTypeOK' /\ CreateHeap => ListInv'
<1> SUFFICES ASSUME ListInv, HeapTypeOK', CreateHeap PROVE ListInv'
  OBVIOUS
<1>1. PICK h \in Addresses \ Mapped :
         /\ NextHeap' = Linked(h, g_HeapList) /\ g_HeapList' = h
         /\ listed' = <<h>> \o listed
         /\ UNCHANGED <<g_ProcessHeap, broken>>
  BY DEF CreateHeap
<1>2. /\ listed \in Seq(Addresses) /\ Len(listed) \in Nat
      /\ Len(listed') = Len(listed) + 1 /\ listed' # <<>> /\ listed'[1] = h
      /\ \A i \in 2 .. Len(listed) + 1 : listed'[i] = listed[i - 1]
  BY <1>1 DEF ListInv, HeapTypeOK
<1>3. /\ Mapped' = Mapped \cup {h} /\ NextHeap'[h] = g_HeapList
      /\ \A x \in Mapped : NextHeap'[x] = NextHeap[x]
  BY <1>1 DEF Linked, Mapped
<1>4. \A i \in 1 .. Len(listed) :
         /\ listed[i] \in Mapped
         /\ NextHeap[listed[i]] = IF i = Len(listed) THEN NULL ELSE listed[i + 1]
  BY DEF ListInv, HeapListSound
<1>5. ASSUME NEW i \in 1 .. Len(listed')
      PROVE  /\ listed'[i] \in Mapped'
             /\ NextHeap'[listed'[i]] = IF i = Len(listed') THEN NULL ELSE listed'[i + 1]
  <2>1. CASE i = 1
    <3>1. g_HeapList = IF Len(listed) = 0 THEN NULL ELSE listed[1]
      BY <1>2 DEF ListInv, HeapListSound
    <3> QED
      BY <1>2, <1>3, <2>1, <3>1
  <2>2. CASE i # 1
    <3>1. i - 1 \in 1 .. Len(listed) /\ listed'[i] = listed[i - 1]
          /\ (i # Len(listed') => listed'[i + 1] = listed[i])
      BY <1>2, <2>2
    <3> QED
      BY <1>2, <1>3, <1>4, <3>1
  <2> QED
    BY <2>1, <2>2
<1>6. g_ProcessHeap' # NULL /\ ~broken' => g_ProcessHeap' = listed'[Len(listed')]
  <2> SUFFICES ASSUME g_ProcessHeap # NULL, ~broken
               PROVE  g_ProcessHeap = listed'[Len(listed')]
    BY <1>1
  <2>1. listed # <<>> /\ g_ProcessHeap = listed[Len(listed)]
    BY DEF ListInv, HeapListSound
  <2> QED
    BY <1>2, <2>1
<1>7. \A i, j \in 1 .. Len(listed') : listed'[i] = listed'[j] => i = j
  <2>1. \A i \in 2 .. Len(listed) + 1 : listed'[i] # h
    BY <1>2, <1>4
  <2>2. \A i, j \in 1 .. Len(listed) : listed[i] = listed[j] => i = j
    BY DEF ListInv
  <2> QED
    BY <1>2, <2>1, <2>2
<1>8. HeapListSound'
  BY <1>1, <1>2, <1>5, <1>6 DEF HeapListSound
<1> QED
  BY <1>7, <1>8 DEF ListInv

(* What the removal of the k-th does to the heaps before and behind it.    *)
LEMMA UnlinkListed ==
  ASSUME ListInv, NEW h \in Mapped, Unlink(h), NEW k \in 1 .. Len(listed), listed[k] = h
  PROVE  /\ Mapped' = Mapped \ {h}
         /\ g_HeapList' = IF k = 1 THEN NextHeap[h] ELSE g_HeapList
         /\ \A i \in 1 .. Len(listed) : i # k =>
               NextHeap'[listed[i]] = IF i + 1 = k THEN NextHeap[h] ELSE NextHeap[listed[i]]
<1> DEFINE Prev == {x \in Walk(g_HeapList, NextHeap) : g_HeapList # h /\ NextHeap[x] = h}
<1>1. /\ Len(listed) \in Nat /\ NULL \notin Mapped
      /\ g_HeapList = listed[1]
      /\ \A i \in 1 .. Len(listed) :
            /\ listed[i] \in Mapped
            /\ NextHeap[listed[i]] = IF i = Len(listed) THEN NULL ELSE listed[i + 1]
      /\ \A i, j \in 1 .. Len(listed) : listed[i] = listed[j] => i = j
  BY HeapListAssumption DEF ListInv, HeapTypeOK, HeapListSound
<1>2. /\ g_HeapList' = IF g_HeapList = h THEN NextHeap[h] ELSE g_HeapList
      /\ NextHeap' = [x \in Mapped \ {h} |-> IF x \in Prev THEN NextHeap[h] ELSE NextHeap[x]]
  BY DEF Unlink
<1>3. Prev = {x \in Elems : g_HeapList # h /\ NextHeap[x] = h}
  BY WalkIsListed
<1>4. g_HeapList = h <=> k = 1
  BY <1>1
<1>5. ASSUME NEW i \in 1 .. Len(listed), i # k
      PROVE  NextHeap'[listed[i]] = IF i + 1 = k THEN NextHeap[h] ELSE NextHeap[listed[i]]
  <2>1. listed[i] \in Mapped \ {h} /\ listed[i] \in Elems
    BY <1>1, <1>5 DEF Elems
  <2>2. NextHeap[listed[i]] = h <=> i + 1 = k
    <3>1. CASE i = Len(listed)
      BY <1>1, <3>1
    <3>2. CASE i # Len(listed)
      <4>1. i + 1 \in 1 .. Len(listed) /\ NextHeap[listed[i]] = listed[i + 1]
        BY <1>1, <3>2
      <4> QED
        BY <1>1, <4>1
    <3> QED
      BY <3>1, <3>2
  <2>3. listed[i] \in Prev <=> i + 1 = k
    BY <1>1, <1>3, <1>4, <2>1, <2>2
  <2> QED
    BY <1>2, <2>1, <2>3
<1> QED
  BY <1>2, <1>4, <1>5 DEF Mapped

LEMMA UnlinkUnlisted ==
  ASSUME ListInv, NEW h \in Mapped, Unlink(h), h \notin Elems
  PROVE  /\ Mapped' = Mapped \ {h} /\ g_HeapList' = g_HeapList
         /\ \A i \in 1 .. Len(listed) : NextHeap'[listed[i]] = NextHeap[listed[i]]
<1>1. /\ Len(listed) \in Nat /\ NULL \notin Mapped
      /\ g_HeapList = IF listed = <<>> THEN NULL ELSE listed[1]
      /\ \A i \in 1 .. Len(listed) :
            /\ listed[i] \in Mapped
            /\ NextHeap[listed[i]] = IF i = Len(listed) THEN NULL ELSE listed[i + 1]
  BY HeapListAssumption DEF ListInv, HeapTypeOK, HeapListSound
<1>2. g_HeapList # h
  <2>1. CASE listed = <<>>
    BY <1>1, <2>1
  <2>2. CASE listed # <<>>
    <3>1. 1 \in 1 .. Len(listed)
      BY <2>2 DEF ListInv, HeapTypeOK
    <3> QED
      BY <1>1, <2>2, <3>1 DEF Elems
  <2> QED
    BY <2>1, <2>2
<1>3. ASSUME NEW x \in Elems PROVE NextHeap[x] # h
  <2>1. PICK i \in 1 .. Len(listed) : x = listed[i]
    BY DEF Elems
  <2>2. CASE i = Len(listed)
    BY <1>1, <2>1, <2>2
  <2>3. CASE i # Len(listed)
    <3>1. i + 1 \in 1 .. Len(listed) /\ NextHeap[x] = listed[i + 1]
      BY <1>1, <2>1, <2>3
    <3> QED
      BY <3>1 DEF Elems
  <2> QED
    BY <2>2, <2>3
<1>4. {x \in Walk(g_HeapList, NextHeap) : g_HeapList # h /\ NextHeap[x] = h} = {}
  BY <1>3, WalkIsListed
<1>5. NextHeap' = [x \in Mapped \ {h} |-> NextHeap[x]] /\ g_HeapList' = g_HeapList
  BY <1>2, <1>4 DEF Unlink
<1> QED
  BY <1>1, <1>5 DEF Elems, Mapped

LEMMA DestroyHeapStep == ListInv /\ HeapTypeOK' /\ DestroyHeap => ListInv'
<1> SUFFICES ASSUME ListInv, HeapTypeOK', DestroyHeap PROVE ListInv'
  OBVIOUS
<1>1. PICK h \in Mapped :
         /\ Unlink(h) /\ listed' = Unlisted(h)
         /\ broken' = (broken \/ h = g_ProcessHeap)
         /\ UNCHANGED g_ProcessHeap
  BY DEF DestroyHeap
<1>2. /\ listed \in Seq(Addresses) /\ Len(listed) \in Nat
      /\ g_HeapList = IF listed = <<>> THEN NULL ELSE listed[1]
      /\ \A i \in 1 .. Len(listed) :
            /\ listed[i] \in Mapped
            /\ NextHeap[listed[i]] = IF i = Len(listed) THEN NULL ELSE listed[i + 1]
      /\ \A i, j \in 1 .. Len(listed) : listed[i] = listed[j] => i = j
  BY DEF ListInv, HeapTypeOK, HeapListSound
<1>3. CASE h \notin Elems
  <2>1. listed' = listed
    BY <1>1, <1>3 DEF Unlisted, Elems
  <2>2. /\ Mapped' = Mapped \ {h} /\ g_HeapList' = g_HeapList
        /\ \A i \in 1 .. Len(listed) : NextHeap'[listed[i]] = NextHeap[listed[i]]
    BY <1>1, <1>3, UnlinkUnlisted
  <2>3. \A i \in 1 .. Len(listed) : listed[i] # h
    BY <1>3 DEF Elems
  <2>4. g_HeapList' = IF listed' = <<>> THEN NULL ELSE listed'[1]
    BY <1>2, <2>1, <2>2
  <2>5. \A i \in 1 .. Len(listed') :
           /\ listed'[i] \in Mapped'
           /\ NextHeap'[listed'[i]] = IF i = Len(listed') THEN NULL ELSE listed'[i + 1]
    BY <1>2, <2>1, <2>2, <2>3
  <2>6. (g_ProcessHeap # NULL /\ ~broken =>
            listed # <<>> /\ g_ProcessHeap = listed[Len(listed)])'
    BY <1>1, <2>1 DEF ListInv, HeapListSound
  <2>7. \A i, j \in 1 .. Len(listed') : listed'[i] = listed'[j] => i = j
    BY <1>2, <2>1
  <2> QED
    BY <2>4, <2>5, <2>6, <2>7 DEF ListInv, HeapListSound
<1>4. ASSUME NEW k \in 1 .. Len(listed), listed[k] = h PROVE ListInv'
  <2>1. PositionOf(h) = k
    BY <1>2, <1>4 DEF PositionOf
  <2>2. listed' = [i \in 1 .. Len(listed) - 1 |-> IF i < k THEN listed[i] ELSE listed[i + 1]]
    BY <1>1, <1>4, <2>1 DEF Unlisted
  <2>3. Len(listed') = Len(listed) - 1 /\ Len(listed) - 1 \in Nat /\ listed' \in Seq(Addresses)
    BY <1>2, <1>4, <2>2 DEF ListInv, HeapTypeOK
  <2>4. /\ Mapped' = Mapped \ {h}
        /\ g_HeapList' = IF k = 1 THEN NextHeap[h] ELSE g_HeapList
        /\ \A i \in 1 .. Len(listed) : i # k =>
              NextHeap'[listed[i]] = IF i + 1 = k THEN NextHeap[h] ELSE NextHeap[listed[i]]
    BY <1>1, <1>4, UnlinkListed
  <2>5. ASSUME NEW i \in 1 .. Len(listed')
        PROVE  /\ i \in 1 .. Len(listed) /\ i + 1 \in 1 .. Len(listed)
               /\ i < k => i # k /\ listed'[i] = listed[i]
               /\ i >= k => i + 1 # k /\ listed'[i] = listed[i + 1]
    <3>1. i \in 1 .. Len(listed) - 1 /\ i + 1 \in 1 .. Len(listed)
      BY <1>2, <2>3
    <3>2. listed'[i] = IF i < k THEN listed[i] ELSE listed[i + 1]
      BY <2>2, <3>1
    <3> QED
      BY <1>2, <3>1, <3>2
  <2>6. ASSUME NEW i \in 1 .. Len(listed'), NEW j \in 1 .. Len(listed'), listed'[i] = listed'[j]
        PROVE  i = j
    <3>1. CASE i < k
      BY <1>2, <2>5, <2>6, <3>1
    <3>2. CASE i >= k
      BY <1>2, <2>5, <2>6, <3>2
    <3> QED
      BY <3>1, <3>2, <1>2, <1>4, <2>3
  <2>9. ASSUME NEW i \in 1 .. Len(listed')
        PROVE  /\ listed'[i] \in Mapped'
               /\ NextHeap'[listed'[i]] = IF i = Len(listed') THEN NULL ELSE listed'[i + 1]
    <3>1. CASE i + 1 < k
      <4>1. i < k /\ i # Len(listed') /\ i + 1 \in 1 .. Len(listed')
            /\ listed'[i] = listed[i] /\ listed'[i + 1] = listed[i + 1]
        BY <1>2, <1>4, <2>3, <2>5, <3>1
      <4> QED
        BY <1>2, <1>4, <2>3, <2>4, <2>5, <3>1, <4>1
    <3>2. CASE i + 1 = k
      <4>1. i < k /\ listed'[i] = listed[i] /\ listed[i] # h
        BY <1>2, <1>4, <2>5, <3>2
      <4>2. NextHeap'[listed[i]] = NextHeap[h] /\ listed[i] \in Mapped'
        BY <1>2, <2>4, <2>5, <3>2, <4>1
      <4>3. NextHeap[h] = IF k = Len(listed) THEN NULL ELSE listed[k + 1]
        BY <1>2, <1>4
      <4>4. CASE k = Len(listed)
        BY <1>2, <2>3, <3>2, <4>1, <4>2, <4>3, <4>4
      <4>5. CASE k # Len(listed)
        <5>1. k \in 1 .. Len(listed') /\ listed'[i + 1] = listed[k + 1] /\ i # Len(listed')
          BY <1>2, <1>4, <2>3, <2>5, <3>2, <4>5
        <5> QED
          BY <4>1, <4>2, <4>3, <4>5, <5>1
      <4> QED
        BY <4>4, <4>5
    <3>3. CASE i >= k
      <4>1. listed'[i] = listed[i + 1] /\ i + 1 # k /\ i + 1 \in 1 .. Len(listed)
        BY <2>5, <3>3
      <4>2. NextHeap'[listed[i + 1]] = NextHeap[listed[i + 1]] /\ listed[i + 1] \in Mapped'
        BY <1>2, <1>4, <2>3, <2>4, <3>3, <4>1
      <4>3. NextHeap[listed[i + 1]] = IF i + 1 = Len(listed) THEN NULL ELSE listed[(i + 1) + 1]
        BY <1>2, <4>1
      <4>4. i + 1 = Len(listed) <=> i = Len(listed')
        BY <1>2, <2>3
      <4>5. ASSUME i # Len(listed') PROVE listed'[i + 1] = listed[(i + 1) + 1]
        <5>1. i + 1 \in 1 .. Len(listed') /\ i + 1 >= k
          BY <1>2, <1>4, <2>3, <3>3, <4>5
        <5> QED
          BY <2>5, <5>1
      <4> QED
        BY <4>1, <4>2, <4>3, <4>4, <4>5
    <3> QED
      BY <1>2, <1>4, <2>3, <3>1, <3>2, <3>3
  <2>7. g_HeapList' = IF listed' = <<>> THEN NULL ELSE listed'[1]
    <3>1. CASE Len(listed) = 1
      BY <1>2, <1>4, <2>2, <2>3, <2>4, <3>1
    <3>2. CASE Len(listed) # 1
      <4>1. listed' # <<>> /\ 1 \in 1 .. Len(listed')
        BY <2>3, <3>2, <1>2, <1>4
      <4> QED
        BY <1>2, <1>4, <2>2, <2>4, <3>2, <4>1
    <3> QED
      BY <3>1, <3>2
  <2>8. ASSUME g_ProcessHeap' # NULL, ~broken'
        PROVE  listed' # <<>> /\ g_ProcessHeap' = listed'[Len(listed')]
    <3>1. g_ProcessHeap = listed[Len(listed)] /\ g_ProcessHeap # h
      BY <1>1, <2>8 DEF ListInv, HeapListSound
    <3>2. k # Len(listed) /\ Len(listed') \in 1 .. Len(listed')
      BY <1>2, <1>4, <2>3, <3>1
    <3>3. Len(listed') >= k /\ Len(listed') + 1 = Len(listed)
      BY <1>2, <1>4, <2>3, <3>2
    <3> QED
      BY <1>1, <2>3, <2>5, <3>1, <3>2, <3>3
  <2> QED
    BY <2>6, <2>7, <2>8, <2>9 DEF ListInv, HeapListSound
<1> QED
  BY <1>3, <1>4 DEF Elems

LEMMA ListStep == ListInv /\ HeapTypeOK' /\ [Next]_vars => ListInv'
<1> SUFFICES ASSUME ListInv, HeapTypeOK', [Next]_vars PROVE ListInv'
  OBVIOUS
<1>1. ASSUME UNCHANGED heapVars PROVE ListInv'
  BY <1>1 DEF heapVars, ListInv, HeapListSound, Mapped
<1> QED
  BY <1>1, HeapStepOf, CreateProcessHeapStep, CreateHeapStep, DestroyHeapStep
     DEF HeapNext, InitializeProcessHeap

(* ListInv: types, links that follow the list of what was created, newest  *)
(* first, and no heap on it twice.                                         *)
THEOREM HeapListInvariant == Spec => []ListInv
  BY ListInit, ListStep, HeapTypeInvariant, PTL DEF Spec

(* HeapListSound: CreateHeap, DestroyHeap and InitializeProcessHeap keep   *)
(* the links from g_HeapList a list of the heaps created since it began,   *)
(* newest first, for any number of heaps and any addresses.                *)
THEOREM HeapsStayListed == Spec => []HeapListSound
<1>1. ListInv => HeapListSound
  BY DEF ListInv
<1> QED
  BY <1>1, HeapListInvariant, PTL

(* The tables of dllmain.c never pass their limits, and what the heaps'    *)
(* globals and links hold is a heap or NULL.                               *)
THEOREM RuntimeTypeCorrect == Spec => []TypeOK
<1>1. HeapTypeOK /\ FlsInv /\ DllInv => TypeOK
  BY DEF FlsInv, FlsTypes, DllInv, DllTypes, TypeOK
<1> QED
  BY <1>1, HeapTypeInvariant, FlsInvariant, DllInvariant, PTL
=============================================================================
