----------------------------- MODULE TtyProofs ------------------------------
(***************************************************************************)
(* NTTTY, for any threads, any memory and buffers of any sizes: the ids of *)
(* the devices and the list of them, where creations, closes, failures and *)
(* shutdowns overlap; and the line disciplines.  (The threads at one ring  *)
(* are in TtyRingProofs.)                                                  *)
(***************************************************************************)
EXTENDS TtyDevices, TtyLine, SequenceTheorems, TLAPS

Raising(t) == t \in Threads /\ pc[t] = "raising"

(* Who raises the count will write a number above every fresh id; if its   *)
(* own device is fresh, it is alone.  While the count is lowered, none is. *)
FreshInv ==
    /\ fresh \subseteq used
    /\ \A c \in fresh : device_count > id[c] \/ \E t \in Threads : Raising(t) /\ device[t] = c
    /\ \A c, d \in fresh : id[c] = id[d] => c = d
    /\ \A t \in Threads : Raising(t) =>
          /\ device[t] \in fresh => Updating = {t} /\ id[device[t]] = seen[t]
          /\ \A c \in fresh \ {device[t]} : id[c] < seen[t]
    /\ \A t \in Threads : pc[t] \in {"lowering", "sweeping on"} => fresh = {}

\* The places of a call that has a device.
Busy == {"raising", "building", "linking", "closing", "lowering", "sweeping on"}

HasDevice == \A t \in Threads : pc[t] \in Busy => device[t] \in Cells

LEMMA TypeInit == Init => TypeOK /\ HasDevice
<1> SUFFICES ASSUME Init PROVE TypeOK /\ HasDevice
  OBVIOUS
<1>1. HasDevice
  BY DEF Init, HasDevice, Busy
<1>2. initialized \in BOOLEAN /\ device_count \in Nat
      /\ device_list \in Cells \cup {NULL} /\ owner \in Threads \cup {NULL}
  BY DEF Init
<1>3. used \subseteq Cells /\ held \subseteq Cells /\ fresh \subseteq Cells /\ late \subseteq Cells
  BY DEF Init
<1>4. id \in [Cells -> Nat] /\ next \in [Cells -> Cells \cup {NULL}]
  BY DEF Init
<1>5. pc \in [Threads -> Places] /\ seen \in [Threads -> Nat]
      /\ device \in [Threads -> Cells \cup {NULL}]
  BY DEF Init, Places
<1> QED
  BY <1>1, <1>2, <1>3, <1>4, <1>5 DEF TypeOK

LEMMA DeviceStep == TypeOK /\ HasDevice /\ [Next]_vars => HasDevice'
<1> SUFFICES ASSUME TypeOK, HasDevice, [Next]_vars PROVE HasDevice'
  OBVIOUS
<1> USE DEF TypeOK, HasDevice, Busy, At
<1>1. CASE Initialize \/ UNCHANGED vars
  BY <1>1 DEF Initialize, vars
<1>2. ASSUME NEW t \in Threads, BeginShutdown(t) \/ Sweep(t) \/ SweepOn(t) \/ EndSweep(t)
      PROVE  HasDevice'
  BY <1>2 DEF BeginShutdown, Sweep, SweepOn, EndSweep
<1>3. ASSUME NEW t \in Threads, Stop(t) \/ FailCreate(t) \/ Link(t) \/ Close(t)
      PROVE  HasDevice'
  BY <1>3 DEF Stop, FailCreate, Link, Close, Return
<1>4. ASSUME NEW t \in Threads, WriteCount(t) \/ StartLink(t) \/ TakeOut(t)
      PROVE  HasDevice'
  BY <1>4 DEF WriteCount, StartLink, TakeOut
<1>5. ASSUME NEW t \in Threads, BeginCreate(t) PROVE HasDevice'
  <2>1. PICK c \in Cells : device' = [device EXCEPT ![t] = c]
    BY <1>5 DEF BeginCreate
  <2> QED
    BY <1>5, <2>1 DEF BeginCreate
<1>6. ASSUME NEW t \in Threads, BeginClose(t) PROVE HasDevice'
  <2>1. PICK c \in Cells : device' = [device EXCEPT ![t] = c]
    BY <1>6 DEF BeginClose
  <2> QED
    BY <1>6, <2>1 DEF BeginClose
<1> QED
  BY <1>1, <1>2, <1>3, <1>4, <1>5, <1>6 DEF Next

LEMMA ReturnTypes ==
  ASSUME TypeOK, NEW t \in Threads, NEW from, Return(t, from)
  PROVE  /\ pc' \in [Threads -> Places] /\ seen' \in [Threads -> Nat]
         /\ device' \in [Threads -> Cells \cup {NULL}]
  BY DEF TypeOK, Return, At, Places

LEMMA FreedTypes ==
  ASSUME TypeOK, NEW d, Freed(d)
  PROVE  /\ used' \subseteq Cells /\ id' \in [Cells -> Nat] /\ next' \in [Cells -> Cells \cup {NULL}]
  BY DEF TypeOK, Freed

LEMMA UnlinkTypes ==
  ASSUME TypeOK, NEW d \in Cells, Unlink(d)
  PROVE  device_list' \in Cells \cup {NULL} /\ next' \in [Cells -> Cells \cup {NULL}]
<1>1. next[d] \in Cells \cup {NULL}
  BY DEF TypeOK
<1> QED
  BY <1>1 DEF TypeOK, Unlink

LEMMA LoweredType == ASSUME TypeOK, NEW t \in Threads PROVE Lowered(t) \in Nat
  BY DEF TypeOK, Lowered

LEMMA TypeStep == TypeOK /\ HasDevice /\ [Next]_vars => TypeOK'
<1> SUFFICES ASSUME TypeOK, HasDevice, [Next]_vars PROVE TypeOK'
  OBVIOUS
<1>1. CASE Initialize
  BY <1>1 DEF Initialize, TypeOK
<1>2. ASSUME NEW t \in Threads, BeginShutdown(t) PROVE TypeOK'
  BY <1>2 DEF BeginShutdown, At, global, TypeOK, Places
<1>3. ASSUME NEW t \in Threads, Sweep(t) \/ TakeOut(t) PROVE TypeOK'
  <2>1. pc' \in [Threads -> Places] /\ seen' \in [Threads -> Nat]
    BY <1>3 DEF Sweep, TakeOut, At, TypeOK, Places
  <2>2. CASE Sweep(t)
    <3>1. device_list' \in Cells \cup {NULL} /\ next' \in [Cells -> Cells \cup {NULL}]
      BY <2>2, UnlinkTypes DEF Sweep, TypeOK
    <3> QED
      BY <2>1, <2>2, <3>1 DEF Sweep, TypeOK
  <2>3. CASE TakeOut(t)
    <3>1. device_list' \in Cells \cup {NULL} /\ next' \in [Cells -> Cells \cup {NULL}]
      BY <2>3, UnlinkTypes DEF TakeOut, At, HasDevice, Busy
    <3> QED
      BY <2>1, <2>3, <3>1 DEF TakeOut, TypeOK
  <2> QED
    BY <1>3, <2>2, <2>3
<1>4. ASSUME NEW t \in Threads, SweepOn(t) PROVE TypeOK'
  <2>1. pc' \in [Threads -> Places] /\ seen' \in [Threads -> Nat]
    BY <1>4 DEF SweepOn, At, TypeOK, Places
  <2>2. device' \in [Threads -> Cells \cup {NULL}]
    <3>1. next[device[t]] \in Cells \cup {NULL}
      BY <1>4 DEF SweepOn, At, HasDevice, Busy, TypeOK
    <3> QED
      BY <1>4, <3>1 DEF SweepOn, TypeOK
  <2> QED
    BY <1>4, <2>1, <2>2, FreedTypes, LoweredType DEF SweepOn, TypeOK
<1>5. ASSUME NEW t \in Threads, EndSweep(t) PROVE TypeOK'
  BY <1>5 DEF EndSweep, At, global, TypeOK, Places
<1>6. ASSUME NEW t \in Threads, Stop(t) PROVE TypeOK'
  BY <1>6, ReturnTypes DEF Stop, TypeOK
<1>7. ASSUME NEW t \in Threads, BeginCreate(t) PROVE TypeOK'
  <2>1. PICK c \in Cells \ used :
           /\ used' = used \cup {c}
           /\ id' = [id EXCEPT ![c] = device_count]
           /\ next' = [next EXCEPT ![c] = NULL]
           /\ device' = [device EXCEPT ![t] = c]
           /\ fresh' = IF Updating = {} THEN fresh \cup {c}
                                        ELSE fresh \ {device[u] : u \in Updating}
    BY <1>7 DEF BeginCreate
  <2>2. pc' \in [Threads -> Places] /\ seen' \in [Threads -> Nat]
    BY <1>7 DEF BeginCreate, At, TypeOK, Places
  <2>3. fresh' \subseteq Cells
    BY <2>1 DEF TypeOK
  <2> QED
    BY <1>7, <2>1, <2>2, <2>3 DEF BeginCreate, global, TypeOK
<1>8. ASSUME NEW t \in Threads, WriteCount(t) PROVE TypeOK'
  <2>1. seen[t] + 1 \in Nat
    BY DEF TypeOK
  <2>2. pc' \in [Threads -> Places] /\ seen' \in [Threads -> Nat]
    BY <1>8 DEF WriteCount, At, TypeOK, Places
  <2> QED
    BY <1>8, <2>1, <2>2 DEF WriteCount, TypeOK
<1>9. ASSUME NEW t \in Threads, FailCreate(t) PROVE TypeOK'
  BY <1>9, ReturnTypes, FreedTypes DEF FailCreate, global, TypeOK
<1>10. ASSUME NEW t \in Threads, StartLink(t) PROVE TypeOK'
  BY <1>10 DEF StartLink, At, global, TypeOK, Places
<1>11. ASSUME NEW t \in Threads, Close(t) PROVE TypeOK'
  BY <1>11, ReturnTypes, FreedTypes, LoweredType DEF Close, TypeOK
<1>12. ASSUME NEW t \in Threads, BeginClose(t) PROVE TypeOK'
  <2>1. PICK c \in held : held' = held \ {c} /\ device' = [device EXCEPT ![t] = c]
    BY <1>12 DEF BeginClose
  <2> QED
    BY <1>12, <2>1 DEF BeginClose, At, global, TypeOK, Places
<1>13. CASE UNCHANGED vars
  BY <1>13 DEF vars, global, TypeOK
<1>14. ASSUME NEW t \in Threads, Link(t) PROVE TypeOK'
  <2>1. device[t] \in Cells
    BY <1>14 DEF Link, Return, At, HasDevice, Busy
  <2> QED
    BY <1>14, <2>1, ReturnTypes DEF Link, TypeOK
<1> QED
  BY <1>1, <1>2, <1>3, <1>4, <1>5, <1>6, <1>7, <1>8, <1>9, <1>10, <1>11, <1>12, <1>13, <1>14 DEF Next

(* TypeOK: what the globals, the links and the locals of every call hold.  *)
THEOREM DevicesTypeCorrect == Spec => []TypeOK
<1>1. TypeOK /\ HasDevice /\ [Next]_vars => (TypeOK /\ HasDevice)'
  BY TypeStep, DeviceStep
<1> QED
  BY <1>1, TypeInit, PTL DEF Spec

(***************************************************************************)
(* Ids.                                                                    *)
(***************************************************************************)
LEMMA FreshInit == Init => FreshInv
  BY DEF Init, FreshInv, Raising

\* Nothing is fresh any more.
LEMMA NoneFresh == fresh' = {} => FreshInv'
  BY DEF FreshInv

\* A step that leaves the count, what raises it and the ids of fresh devices alone.
LEMMA FreshKept ==
  ASSUME FreshInv, UNCHANGED device_count, fresh' \subseteq fresh,
         fresh' \subseteq used', \A c \in fresh' : id'[c] = id[c],
         \A t \in Threads : pc'[t] # pc[t] => {pc[t], pc'[t]} \cap {"raising", "lowering", "sweeping on"} = {},
         \A t \in Threads : pc[t] = "raising" => device'[t] = device[t] /\ seen'[t] = seen[t]
  PROVE  FreshInv'
<1>1. Updating' = Updating
  BY DEF Updating
<1>2. \A t \in Threads : Raising(t)' => Raising(t) /\ device'[t] = device[t] /\ seen'[t] = seen[t]
  BY DEF Raising
<1>3. \A t \in Threads : Raising(t) => Raising(t)'
  BY DEF Raising
<1>4. \A c \in fresh' : device_count' > id'[c] \/ \E t \in Threads : Raising(t)' /\ device'[t] = c
  <2> SUFFICES ASSUME NEW c \in fresh', ~(device_count' > id'[c])
               PROVE  \E t \in Threads : Raising(t)' /\ device'[t] = c
    OBVIOUS
  <2>1. PICK t \in Threads : Raising(t) /\ device[t] = c
    BY DEF FreshInv
  <2> QED
    BY <2>1, <1>3 DEF Raising
<1>5. \A c, d \in fresh' : id'[c] = id'[d] => c = d
  BY DEF FreshInv
<1>6. ASSUME NEW t \in Threads, Raising(t)'
      PROVE  /\ device'[t] \in fresh' => Updating' = {t} /\ id'[device'[t]] = seen'[t]
             /\ \A c \in fresh' \ {device'[t]} : id'[c] < seen'[t]
  <2>1. Raising(t) /\ device'[t] = device[t] /\ seen'[t] = seen[t]
    BY <1>2, <1>6
  <2>2. /\ device[t] \in fresh => Updating = {t} /\ id[device[t]] = seen[t]
        /\ \A c \in fresh \ {device[t]} : id[c] < seen[t]
    BY <2>1 DEF FreshInv
  <2> QED
    BY <1>1, <2>1, <2>2
<1>7. \A t \in Threads : pc'[t] \in {"lowering", "sweeping on"} => fresh' = {}
  BY DEF FreshInv
<1> QED
  BY <1>4, <1>5, <1>6, <1>7 DEF FreshInv

\* The creation's number is the count, which every fresh id is below.
LEMMA FreshBegin ==
  ASSUME TypeOK, HasDevice, FreshInv, NEW t \in Threads, BeginCreate(t)
  PROVE  FreshInv'
<1>1. PICK x \in Cells \ used :
         /\ used' = used \cup {x}
         /\ id' = [id EXCEPT ![x] = device_count]
         /\ device' = [device EXCEPT ![t] = x]
         /\ fresh' = IF Updating = {} THEN fresh \cup {x}
                                      ELSE fresh \ {device[u] : u \in Updating}
  BY DEF BeginCreate
<1>2. /\ pc[t] = "idle" /\ pc' = [pc EXCEPT ![t] = "raising"]
      /\ seen' = [seen EXCEPT ![t] = device_count]
      /\ device_count' = device_count
  BY DEF BeginCreate, At, global
<1>3. x \notin fresh /\ \A c \in fresh : id'[c] = id[c]
  BY <1>1 DEF FreshInv, TypeOK
<1>4. id'[x] = device_count /\ device'[t] = x /\ seen'[t] = device_count
  BY <1>1, <1>2 DEF TypeOK
<1>5. Updating' = Updating \cup {t}
  BY <1>2 DEF Updating, TypeOK
<1>6. \A u \in Threads \ {t} : /\ Raising(u)' <=> Raising(u)
                               /\ device'[u] = device[u] /\ seen'[u] = seen[u]
  BY <1>1, <1>2 DEF Raising, TypeOK
<1>7. \A c \in fresh' \ {x} : c \in fresh /\ device_count > id[c]
  <2> SUFFICES ASSUME NEW c \in fresh', c # x PROVE c \in fresh /\ device_count > id[c]
    OBVIOUS
  <2>1. c \in fresh /\ c \notin {device[u] : u \in Updating}
    BY <1>1
  <2>2. ~\E u \in Threads : Raising(u) /\ device[u] = c
    BY <2>1 DEF Raising, Updating
  <2> QED
    BY <2>1, <2>2 DEF FreshInv
<1>8. x \in fresh' => Updating' = {t}
  BY <1>1, <1>3, <1>5
<1>9. fresh' \subseteq used'
  BY <1>1 DEF FreshInv
<1>10. \A c \in fresh' : device_count' > id'[c] \/ \E u \in Threads : Raising(u)' /\ device'[u] = c
  <2>1. Raising(t)'
    BY <1>2 DEF Raising, TypeOK
  <2> QED
    BY <2>1, <1>2, <1>3, <1>4, <1>7
<1>11. \A c, d \in fresh' : id'[c] = id'[d] => c = d
  <2>1. \A c \in fresh' \ {x} : id'[c] # id'[x]
    BY <1>3, <1>4, <1>7 DEF TypeOK
  <2>2. \A c, d \in fresh' \ {x} : id'[c] = id'[d] => c = d
    BY <1>3, <1>7 DEF FreshInv
  <2> QED
    BY <2>1, <2>2
<1>12. ASSUME NEW u \in Threads, Raising(u)'
       PROVE  /\ device'[u] \in fresh' => Updating' = {u} /\ id'[device'[u]] = seen'[u]
              /\ \A c \in fresh' \ {device'[u]} : id'[c] < seen'[u]
  <2>1. CASE u = t
    BY <2>1, <1>3, <1>4, <1>7, <1>8 DEF TypeOK
  <2>2. CASE u # t
    <3>1. Raising(u) /\ device'[u] = device[u] /\ seen'[u] = seen[u]
      BY <2>2, <1>6, <1>12
    <3>2. u \in Updating
      BY <3>1 DEF Raising, Updating
    <3>3. device[u] \notin fresh' /\ fresh' \subseteq fresh
      BY <1>1, <3>2
    <3>4. \A c \in fresh \ {device[u]} : id[c] < seen[u]
      BY <3>1 DEF FreshInv
    <3> QED
      BY <1>3, <3>1, <3>3, <3>4
  <2> QED
    BY <2>1, <2>2
<1>13. \A u \in Threads : pc'[u] \in {"lowering", "sweeping on"} => fresh' = {}
  BY <1>1, <1>2 DEF FreshInv, Updating, TypeOK
<1> QED
  BY <1>9, <1>10, <1>11, <1>12, <1>13 DEF FreshInv

\* The number written is above every fresh id, its own among them.
LEMMA FreshWrite ==
  ASSUME TypeOK, FreshInv, NEW t \in Threads, WriteCount(t)
  PROVE  FreshInv'
<1>1. /\ pc[t] = "raising" /\ pc' = [pc EXCEPT ![t] = "building"]
      /\ device_count' = seen[t] + 1 /\ seen' = [seen EXCEPT ![t] = 0]
      /\ fresh' = fresh /\ used' = used /\ id' = id /\ device' = device
  BY DEF WriteCount, At
<1>2. Raising(t) /\ t \in Updating
  BY <1>1 DEF Raising, Updating
<1>3. ASSUME NEW u \in Threads, Raising(u)'
      PROVE  u # t /\ Raising(u) /\ seen'[u] = seen[u]
  BY <1>1, <1>3 DEF Raising, TypeOK
<1>4. \A c \in fresh : device_count' > id[c]
  <2> SUFFICES ASSUME NEW c \in fresh PROVE device_count' > id[c]
    OBVIOUS
  <2>1. /\ device[t] \in fresh => id[device[t]] = seen[t]
        /\ \A d \in fresh \ {device[t]} : id[d] < seen[t]
    BY <1>2 DEF FreshInv
  <2>2. id[c] \in Nat /\ seen[t] \in Nat
    BY DEF TypeOK
  <2>3. id[c] <= seen[t]
    BY <2>1, <2>2
  <2> QED
    BY <1>1, <2>2, <2>3
<1>5. ASSUME NEW u \in Threads, Raising(u)'
      PROVE  /\ device'[u] \in fresh' => Updating' = {u} /\ id'[device'[u]] = seen'[u]
             /\ \A c \in fresh' \ {device'[u]} : id'[c] < seen'[u]
  <2>1. u # t /\ Raising(u) /\ seen'[u] = seen[u]
    BY <1>3, <1>5
  <2>2. /\ device[u] \in fresh => Updating = {u}
        /\ \A c \in fresh \ {device[u]} : id[c] < seen[u]
    BY <2>1 DEF FreshInv
  <2> QED
    BY <1>1, <1>2, <2>1, <2>2
<1>6. \A c \in fresh' : device_count' > id'[c] \/ \E u \in Threads : Raising(u)' /\ device'[u] = c
  BY <1>1, <1>4
<1>7. \A u \in Threads : pc'[u] \in {"lowering", "sweeping on"} => fresh' = {}
  BY <1>1 DEF FreshInv, TypeOK
<1>8. fresh' \subseteq used' /\ \A c, d \in fresh' : id'[c] = id'[d] => c = d
  BY <1>1 DEF FreshInv
<1> QED
  BY <1>5, <1>6, <1>7, <1>8 DEF FreshInv

\* A creation that fails takes its own device along, and no other's number.
LEMMA FreshFail ==
  ASSUME TypeOK, HasDevice, FreshInv, NEW t \in Threads, FailCreate(t)
  PROVE  FreshInv'
<1>1. /\ pc[t] = "building" /\ pc' = [pc EXCEPT ![t] = "idle"]
      /\ device' = [device EXCEPT ![t] = NULL] /\ seen' = [seen EXCEPT ![t] = 0]
      /\ used' = used \ {device[t]} /\ id' = [id EXCEPT ![device[t]] = 0]
      /\ fresh' = fresh \ {device[t]} /\ device_count' = device_count
  BY DEF FailCreate, Return, At, Freed, global
<1>2. fresh' \subseteq fresh /\ fresh' \subseteq used'
  BY <1>1 DEF FreshInv
<1>3. \A c \in fresh' : id'[c] = id[c]
  BY <1>1 DEF TypeOK
<1>4. \A u \in Threads : pc'[u] # pc[u] => {pc[u], pc'[u]} \cap {"raising", "lowering", "sweeping on"} = {}
  BY <1>1 DEF TypeOK
<1>5. \A u \in Threads : pc[u] = "raising" => device'[u] = device[u] /\ seen'[u] = seen[u]
  BY <1>1 DEF TypeOK
<1> QED
  BY <1>1, <1>2, <1>3, <1>4, <1>5, FreshKept

LEMMA FreshStep == TypeOK /\ HasDevice /\ FreshInv /\ [Next]_vars => FreshInv'
<1> SUFFICES ASSUME TypeOK, HasDevice, FreshInv, [Next]_vars PROVE FreshInv'
  OBVIOUS
<1> DEFINE Same == /\ device_count' = device_count /\ fresh' = fresh /\ used' = used /\ id' = id
           Apart == /\ \A u \in Threads : pc'[u] # pc[u] =>
                         {pc[u], pc'[u]} \cap {"raising", "lowering", "sweeping on"} = {}
                    /\ \A u \in Threads : pc[u] = "raising" => device'[u] = device[u] /\ seen'[u] = seen[u]
<1>1. Same /\ Apart => FreshInv'
  BY FreshKept DEF FreshInv
<1>2. CASE Initialize
  BY <1>2, NoneFresh DEF Initialize
<1>3. ASSUME NEW t \in Threads, BeginShutdown(t) \/ EndSweep(t) \/ StartLink(t) \/ Stop(t) PROVE FreshInv'
  <2>1. Same
    BY <1>3 DEF BeginShutdown, EndSweep, StartLink, Stop, global
  <2>2. Apart
    BY <1>3 DEF BeginShutdown, EndSweep, StartLink, Stop, Return, At, TypeOK
  <2> QED
    BY <1>1, <2>1, <2>2
<1>4. ASSUME NEW t \in Threads, Sweep(t) \/ TakeOut(t) PROVE FreshInv'
  BY <1>4, NoneFresh DEF Sweep, TakeOut
<1>5. ASSUME NEW t \in Threads, SweepOn(t) \/ Close(t) PROVE FreshInv'
  BY <1>5, NoneFresh DEF SweepOn, Close, Return, At, FreshInv
<1>6. ASSUME NEW t \in Threads, Link(t) PROVE FreshInv'
  <2>1. Same
    BY <1>6 DEF Link
  <2>2. Apart
    BY <1>6 DEF Link, Return, At, TypeOK
  <2> QED
    BY <1>1, <2>1, <2>2
<1>7. ASSUME NEW t \in Threads, BeginClose(t) PROVE FreshInv'
  <2>1. Same
    BY <1>7 DEF BeginClose, global
  <2>2. PICK x \in Cells : device' = [device EXCEPT ![t] = x]
    BY <1>7 DEF BeginClose, TypeOK
  <2>3. Apart
    BY <1>7, <2>2 DEF BeginClose, At, TypeOK
  <2> QED
    BY <1>1, <2>1, <2>3
<1>8. CASE UNCHANGED vars
  <2>1. Same /\ Apart
    BY <1>8 DEF vars, global
  <2> QED
    BY <1>1, <2>1
<1> QED
  BY <1>2, <1>3, <1>4, <1>5, <1>6, <1>7, <1>8, FreshBegin, FreshWrite, FreshFail DEF Next

(* IdsTellApart: while no close lowers the count, the devices that took    *)
(* their ids alone have different ones, and the count is past them.        *)
THEOREM DeviceIdsTellApart == Spec => []IdsTellApart
<1>1. FreshInv => IdsTellApart
  BY DEF FreshInv, IdsTellApart, Raising, Updating
<1>2. TypeOK /\ HasDevice /\ FreshInv /\ [Next]_vars => (TypeOK /\ HasDevice /\ FreshInv)'
  BY TypeStep, DeviceStep, FreshStep
<1> QED
  BY <1>1, <1>2, TypeInit, FreshInit, PTL DEF Spec

(***************************************************************************)
(* What walks along links meet.                                            *)
(***************************************************************************)
LEMMA WalkLeast ==
  ASSUME NEW head, NEW link, NEW S \in SUBSET DOMAIN link, Closed(S, head, link)
  PROVE  Walk(head, link) \subseteq S
  BY DEF Walk

LEMMA WalkCloses ==
  ASSUME NEW head, NEW link
  PROVE  /\ Walk(head, link) \in SUBSET DOMAIN link
         /\ Closed(Walk(head, link), head, link)
<1>1. Walk(head, link) \in SUBSET DOMAIN link
  BY DEF Walk
<1>2. ASSUME NEW y \in ({head} \cup {link[x] : x \in Walk(head, link)}) \cap DOMAIN link,
             NEW S \in SUBSET DOMAIN link, Closed(S, head, link)
      PROVE  y \in S
  <2>1. Walk(head, link) \subseteq S
    BY <1>2, WalkLeast
  <2> QED
    BY <1>2, <2>1 DEF Closed
<1>3. ({head} \cup {link[x] : x \in Walk(head, link)}) \cap DOMAIN link \subseteq Walk(head, link)
  BY <1>2 DEF Walk
<1> QED
  BY <1>1, <1>3 DEF Closed

LEMMA WalkEmpty ==
  ASSUME NEW head, NEW link, head \notin DOMAIN link
  PROVE  Walk(head, link) = {}
<1>1. Closed({}, head, link)
  BY DEF Closed
<1> QED
  BY <1>1, WalkLeast

\* Links that are not on the list do not matter.
LEMMA WalkSame ==
  ASSUME NEW head, NEW link, NEW other, DOMAIN other = DOMAIN link,
         \A x \in Walk(head, link) : other[x] = link[x]
  PROVE  Walk(head, other) = Walk(head, link)
<1>1. Walk(head, other) \subseteq Walk(head, link)
  <2>1. Closed(Walk(head, link), head, other)
    BY WalkCloses DEF Closed
  <2> QED
    BY <2>1, WalkCloses, WalkLeast
<1>2. Walk(head, link) \subseteq Walk(head, other)
  <2>1. Closed(Walk(head, other), head, link)
    BY <1>1, WalkCloses DEF Closed
  <2> QED
    BY <2>1, WalkCloses, WalkLeast
<1> QED
  BY <1>1, <1>2

LEMMA WalkPush ==
  ASSUME NEW link, NEW d \in DOMAIN link
  PROVE  Walk(d, link) = Walk(link[d], link) \cup {d}
<1>1. Walk(d, link) \subseteq Walk(link[d], link) \cup {d}
  <2>1. Closed(Walk(link[d], link) \cup {d}, d, link)
    BY WalkCloses DEF Closed
  <2> QED
    BY <2>1, WalkCloses, WalkLeast
<1>2. d \in Walk(d, link) /\ Closed(Walk(d, link), link[d], link)
  BY WalkCloses DEF Closed
<1> QED
  BY <1>1, <1>2, WalkCloses, WalkLeast

(* Nobody on the list points to its head, and no two to one element: a     *)
(* walk never comes back.                                                  *)
IsList(head, link) ==
    /\ \A x \in Walk(head, link) : link[x] # head
    /\ \A x, y \in Walk(head, link) : link[x] = link[y] /\ link[x] \in DOMAIN link => x = y

LEMMA ListSame ==
  ASSUME NEW head, NEW link, NEW other, DOMAIN other = DOMAIN link,
         \A x \in Walk(head, link) : other[x] = link[x], IsList(head, link)
  PROVE  IsList(head, other)
  BY WalkSame DEF IsList

LEMMA ListPush ==
  ASSUME NEW link, NEW d \in DOMAIN link, IsList(link[d], link), d \notin Walk(link[d], link)
  PROVE  IsList(d, link)
<1>1. Walk(d, link) = Walk(link[d], link) \cup {d}
  BY WalkPush
<1>2. \A x \in Walk(link[d], link) : link[x] # d
  BY WalkCloses DEF Closed
<1>3. link[d] # d
  BY WalkCloses DEF Closed
<1> QED
  BY <1>1, <1>2, <1>3 DEF IsList

LEMMA ListPop ==
  ASSUME NEW head, NEW link, head \in DOMAIN link, IsList(head, link)
  PROVE  /\ Walk(link[head], link) = Walk(head, link) \ {head}
         /\ IsList(link[head], link)
<1> DEFINE W == Walk(head, link)
<1>1. W = Walk(link[head], link) \cup {head} /\ head \in W
  BY WalkPush
<1>2. W \ {head} \in SUBSET DOMAIN link /\ Closed(W \ {head}, link[head], link)
  BY <1>1, WalkCloses DEF Closed, IsList
<1>3. Walk(link[head], link) = W \ {head}
  BY <1>1, <1>2, WalkLeast
<1>4. CASE link[head] \in DOMAIN link
  BY <1>1, <1>3, <1>4 DEF IsList
<1>5. CASE link[head] \notin DOMAIN link
  BY <1>5, <1>3, WalkEmpty DEF IsList
<1> QED
  BY <1>3, <1>4, <1>5

(* The walk of NttyCloseDevice, and its store into the link before `d`.    *)
LEMMA ListCut ==
  ASSUME NEW head, NEW link, NEW d \in DOMAIN link, d # head, IsList(head, link), NEW other,
         other = [x \in DOMAIN link |->
                     IF x \in {y \in Walk(head, link) : link[y] = d} THEN link[d] ELSE link[x]]
  PROVE  /\ Walk(head, other) = Walk(head, link) \ {d}
         /\ IsList(head, other)
<1> DEFINE W == Walk(head, link)
<1>1. W \in SUBSET DOMAIN link /\ Closed(W, head, link) /\ DOMAIN other = DOMAIN link
  BY WalkCloses
<1>2. \A x \in W : other[x] = IF link[x] = d THEN link[d] ELSE link[x]
  BY <1>1
<1>3. ASSUME d \notin W PROVE Walk(head, other) = W \ {d} /\ IsList(head, other)
  <2>1. \A x \in W : other[x] = link[x]
    BY <1>1, <1>2, <1>3 DEF Closed
  <2> QED
    BY <1>1, <1>3, <2>1, WalkSame, ListSame
<1>4. ASSUME d \in W PROVE Walk(head, other) = W \ {d} /\ IsList(head, other)
  <2>1. link[d] # d
    <3>1. ASSUME link[d] = d PROVE Closed(W \ {d}, head, link)
      BY <1>1, <1>4, <3>1 DEF Closed, IsList
    <3> QED
      BY <1>1, <1>4, <3>1, WalkLeast
  <2>2. Closed(W \ {d}, head, other)
    <3>1. head \in DOMAIN link => head \in W \ {d}
      BY <1>1 DEF Closed
    <3>2. ASSUME NEW x \in W \ {d}, other[x] \in DOMAIN link PROVE other[x] \in W \ {d}
      <4>1. CASE link[x] = d
        BY <1>1, <1>2, <1>4, <2>1, <3>2, <4>1 DEF Closed
      <4>2. CASE link[x] # d
        BY <1>1, <1>2, <3>2, <4>2 DEF Closed
      <4> QED
        BY <4>1, <4>2
    <3> QED
      BY <1>1, <3>1, <3>2 DEF Closed
  <2>3. Walk(head, other) \subseteq W \ {d}
    BY <1>1, <2>2, WalkLeast
  <2>4. W \subseteq Walk(head, other) \cup {d}
    <3> DEFINE V == Walk(head, other)
               S == V \cup {y \in {d} : \E x \in V : link[x] = d}
    <3>1. V \in SUBSET DOMAIN link /\ Closed(V, head, other)
      BY <1>1, WalkCloses
    <3>2. S \in SUBSET DOMAIN link
      BY <3>1
    <3>3. ASSUME NEW x \in V, link[x] \in DOMAIN link PROVE link[x] \in S
      <4>1. CASE link[x] = d
        BY <4>1
      <4>2. CASE link[x] # d
        BY <1>1, <1>2, <2>3, <3>1, <3>3, <4>2 DEF Closed
      <4> QED
        BY <4>1, <4>2
    <3>4. ASSUME NEW x \in V, link[x] = d, link[d] \in DOMAIN link PROVE link[d] \in S
      <4>1. other[x] = link[d]
        BY <1>2, <2>3, <3>4
      <4> QED
        BY <1>1, <3>1, <3>4, <4>1 DEF Closed
    <3>5. head \in DOMAIN link => head \in S
      BY <1>1, <3>1 DEF Closed
    <3>6. Closed(S, head, link)
      BY <3>3, <3>4, <3>5 DEF Closed
    <3> QED
      BY <3>2, <3>6, WalkLeast
  <2>5. Walk(head, other) = W \ {d}
    BY <2>3, <2>4
  <2>6. \A x \in W \ {d} : other[x] # head
    BY <1>2, <1>4 DEF IsList
  <2>7. ASSUME NEW x \in W \ {d}, NEW y \in W \ {d}, other[x] = other[y], other[x] \in DOMAIN link
        PROVE  x = y
    BY <1>2, <1>4, <2>7 DEF IsList
  <2> QED
    BY <1>1, <2>5, <2>6, <2>7 DEF IsList
<1> QED
  BY <1>3, <1>4

(***************************************************************************)
(* Who is where.                                                           *)
(***************************************************************************)
Locked == {"linking", "lowering", "sweeping", "sweeping on"}
Down == {"sweeping", "sweeping on", "stopping"}

LockInv == \A t \in Threads : pc[t] \in Locked <=> owner = t

(* One shuts down at a time, and nobody closes a device meanwhile.         *)
DownInv ==
    \A t \in Threads : pc[t] \in Down =>
        /\ initialized
        /\ \A u \in Threads : pc[u] \notin {"closing", "lowering"} /\ (pc[u] \in Down => u = t)

Moves(t, from, to) ==
    t \in Threads /\ pc[t] = from /\ pc'[t] = to /\ \A u \in Threads \ {t} : pc'[u] = pc[u]

LEMMA AtMoves ==
  ASSUME TypeOK, NEW t \in Threads, NEW from, NEW to, At(t, from, to)
  PROVE  Moves(t, from, to)
  BY DEF TypeOK, At, Moves

LEMMA LockMove ==
  ASSUME LockInv, NEW t \in Threads, NEW from, NEW to, Moves(t, from, to),
         \/ (from \in Locked <=> to \in Locked) /\ owner' = owner
         \/ owner = NULL /\ to \in Locked /\ owner' = t
         \/ from \in Locked /\ to \notin Locked /\ owner' = NULL
  PROVE  LockInv'
  BY DevicesAssumption DEF LockInv, Moves

LEMMA DownMove ==
  ASSUME TypeOK, DownInv, NEW t \in Threads, NEW from, NEW to, Moves(t, from, to),
         initialized' = initialized \/ (from \in Down /\ to \notin Down),
         to \in Down => from \in Down,
         to \in {"closing", "lowering"} => \/ from \in {"closing", "lowering"}
                                           \/ \A u \in Threads : pc[u] \notin Down
  PROVE  DownInv'
<1>1. Down \cap {"closing", "lowering"} = {}
  BY DEF Down
<1> QED
  BY <1>1 DEF DownInv, Moves

LEMMA PlaceStep == TypeOK /\ LockInv /\ DownInv /\ [Next]_vars => LockInv' /\ DownInv'
<1> SUFFICES ASSUME TypeOK, LockInv, DownInv, [Next]_vars PROVE LockInv' /\ DownInv'
  OBVIOUS
<1>1. CASE Initialize
  BY <1>1 DEF Initialize, LockInv, DownInv
<1>2. CASE UNCHANGED vars
  BY <1>2 DEF vars, global, LockInv, DownInv
<1>3. ASSUME NEW t \in Threads, BeginShutdown(t) PROVE LockInv' /\ DownInv'
  <2>1. Moves(t, "idle", "sweeping") /\ owner = NULL /\ owner' = t
        /\ initialized' = initialized /\ initialized
        /\ \A u \in Threads : pc[u] \notin Down \cup {"closing", "lowering"}
    BY <1>3, AtMoves DEF BeginShutdown, global, ShuttingDown, Somewhere, Down
  <2>2. LockInv'
    BY <2>1, LockMove DEF Locked
  <2>3. DownInv'
    BY <2>1 DEF DownInv, Moves, Down
  <2> QED
    BY <2>2, <2>3
<1>4. ASSUME NEW t \in Threads, NEW from, NEW to, Moves(t, from, to), owner' = owner,
             initialized' = initialized,
             <<from, to>> \in {<<"sweeping", "sweeping on">>, <<"sweeping on", "sweeping">>,
                               <<"idle", "raising">>, <<"raising", "building">>,
                               <<"building", "idle">>}
      PROVE  LockInv' /\ DownInv'
  <2>1. (from \in Locked <=> to \in Locked) /\ (to \in Down => from \in Down)
        /\ to \notin {"closing", "lowering"}
    BY <1>4 DEF Locked, Down
  <2>2. LockInv'
    BY <1>4, <2>1, LockMove
  <2>3. DownInv'
    BY <1>4, <2>1 DEF DownInv, Moves
  <2> QED
    BY <2>2, <2>3
<1>5. ASSUME NEW t \in Threads, EndSweep(t) PROVE LockInv' /\ DownInv'
  <2>1. Moves(t, "sweeping", "stopping") /\ owner' = NULL /\ initialized' = initialized
    BY <1>5, AtMoves DEF EndSweep, global
  <2>2. LockInv'
    BY <2>1, LockMove DEF Locked
  <2>3. DownInv'
    BY <2>1 DEF DownInv, Moves, Down
  <2> QED
    BY <2>2, <2>3
<1>6. ASSUME NEW t \in Threads, Stop(t) PROVE LockInv' /\ DownInv'
  <2>1. Moves(t, "stopping", "idle") /\ owner' = owner
    BY <1>6, AtMoves DEF Stop, Return
  <2> QED
    BY <2>1, LockMove, DownMove DEF Locked, Down
<1>7. ASSUME NEW t \in Threads, StartLink(t) \/ TakeOut(t) PROVE LockInv' /\ DownInv'
  <2>1. PICK from \in {"building", "closing"}, to \in {"linking", "lowering"} :
           Moves(t, from, to) /\ (to = "lowering" => from = "closing")
    BY <1>7, AtMoves DEF StartLink, TakeOut
  <2>2. owner = NULL /\ owner' = t /\ initialized' = initialized
    BY <1>7 DEF StartLink, TakeOut, global
  <2> QED
    BY <2>1, <2>2, LockMove, DownMove DEF Locked, Down
<1>8. ASSUME NEW t \in Threads, Link(t) \/ Close(t) PROVE LockInv' /\ DownInv'
  <2>1. PICK from \in {"linking", "lowering"} : Moves(t, from, "idle")
    BY <1>8, AtMoves DEF Link, Close, Return
  <2>2. owner' = NULL /\ initialized' = initialized
    BY <1>8 DEF Link, Close
  <2> QED
    BY <2>1, <2>2, LockMove, DownMove DEF Locked, Down
<1>9. ASSUME NEW t \in Threads, BeginClose(t) PROVE LockInv' /\ DownInv'
  <2>1. Moves(t, "idle", "closing") /\ owner' = owner /\ initialized' = initialized
        /\ \A u \in Threads : pc[u] \notin Down
    BY <1>9, AtMoves DEF BeginClose, global, ShuttingDown, Somewhere, Down
  <2> QED
    BY <2>1, LockMove, DownMove DEF Locked, Down
<1>10. ASSUME NEW t \in Threads,
              Sweep(t) \/ SweepOn(t) \/ BeginCreate(t) \/ WriteCount(t) \/ FailCreate(t)
       PROVE  LockInv' /\ DownInv'
  <2>1. owner' = owner /\ initialized' = initialized
    BY <1>10 DEF Sweep, SweepOn, BeginCreate, WriteCount, FailCreate, global
  <2> QED
    BY <1>4, <1>10, <2>1, AtMoves DEF Sweep, SweepOn, BeginCreate, WriteCount, FailCreate, Return
<1> QED
  BY <1>1, <1>2, <1>3, <1>5, <1>6, <1>7, <1>8, <1>9, <1>10 DEF Next

(***************************************************************************)
(* Whose the devices are, and where the list leads.                        *)
(***************************************************************************)
(* A device that a call has is nobody else's, and until it is linked, or   *)
(* once it is taken out, it is not on the list.                            *)
OwnInv ==
    /\ held \subseteq used /\ OnList \subseteq used
    /\ \A t \in Threads : pc[t] \in Busy =>
          /\ device[t] \in used /\ device[t] \notin held
          /\ pc[t] # "closing" => device[t] \notin OnList
          /\ \A u \in Threads \ {t} : pc[u] \in Busy => device[u] # device[t]

Leads(t) ==
    /\ pc[t] \in {"linking", "sweeping on"} => next[device[t]] = device_list
    /\ pc[t] = "sweeping" => device[t] = device_list
    /\ pc[t] \in {"sweeping", "sweeping on"} => OnList \cap held = {}
    /\ pc[t] = "stopping" => OnList \subseteq held /\ OnList \subseteq late

WalkInv == IsList(device_list, next) /\ \A t \in Threads : Leads(t)

Closing == {device[t] : t \in {u \in Threads : pc[u] = "closing"}}

ListedInv ==
    /\ (held \cup Closing) \ OnList \subseteq late
    /\ OnList \subseteq held \cup Closing \/ ShuttingDown
    /\ ~initialized => OnList \subseteq late

ListInv == OwnInv /\ WalkInv /\ ListedInv
DevInv == TypeOK /\ HasDevice /\ LockInv /\ DownInv /\ ListInv

LEMMA ListInit == Init => LockInv /\ DownInv /\ ListInv
<1> SUFFICES ASSUME Init PROVE LockInv /\ DownInv /\ ListInv
  OBVIOUS
<1>1. LockInv /\ DownInv
  BY DevicesAssumption DEF Init, LockInv, DownInv, Locked, Down
<1>2. OnList = {}
  BY WalkEmpty, DevicesAssumption DEF Init, OnList
<1>3. IsList(device_list, next)
  BY <1>2 DEF IsList, OnList
<1>4. \A t \in Threads : pc[t] = "idle"
  BY DEF Init
<1>5. Closing = {}
  BY <1>4 DEF Closing
<1> QED
  BY <1>1, <1>2, <1>3, <1>4, <1>5 DEF Init, ListInv, OwnInv, WalkInv, Leads, ListedInv, Busy

(* Most steps leave the walk as it is.                                     *)
LEMMA WalkKept ==
  ASSUME TypeOK, WalkInv, device_list' = device_list, next' \in [Cells -> Cells \cup {NULL}],
         \A x \in OnList : next'[x] = next[x]
  PROVE  OnList' = OnList /\ IsList(device_list', next')
<1>1. DOMAIN next = Cells /\ DOMAIN next' = Cells
  BY DEF TypeOK
<1>2. IsList(device_list, next)
  BY DEF WalkInv
<1>3. Walk(device_list, next') = Walk(device_list, next)
  BY <1>1, WalkSame DEF OnList
<1>4. IsList(device_list, next')
  BY <1>1, <1>2, ListSame DEF OnList
<1> QED
  BY <1>3, <1>4 DEF OnList

(* Unlink takes one device out.                                            *)
LEMMA WalkUnlinked ==
  ASSUME TypeOK, WalkInv, NEW d \in Cells, Unlink(d)
  PROVE  /\ OnList' = OnList \ {d} /\ IsList(device_list', next')
         /\ d = device_list => device_list' = next[d] /\ next' = next
<1>1. DOMAIN next = Cells /\ IsList(device_list, next)
  BY DEF TypeOK, WalkInv
<1>2. CASE device_list = d
  <2>1. device_list' = next[d] /\ next' = next
    BY <1>2 DEF Unlink
  <2>2. Walk(next[d], next) = Walk(d, next) \ {d} /\ IsList(next[d], next)
    BY <1>1, <1>2, ListPop
  <2> QED
    BY <1>2, <2>1, <2>2 DEF OnList
<1>3. CASE device_list # d
  <2>1. device_list' = device_list
        /\ next' = [x \in Cells |-> IF x \in {y \in Walk(device_list, next) : next[y] = d}
                                    THEN next[d] ELSE next[x]]
    BY <1>3 DEF Unlink, OnList
  <2>2. Walk(device_list, next') = Walk(device_list, next) \ {d} /\ IsList(device_list, next')
    BY <1>1, <1>3, <2>1, ListCut
  <2> QED
    BY <1>3, <2>1, <2>2 DEF OnList
<1> QED
  BY <1>2, <1>3

(* What the others have stays theirs: the step is about `d`.               *)
LEMMA OwnMove ==
  ASSUME OwnInv, NEW t \in Threads, NEW from, NEW to, Moves(t, from, to), NEW d,
         \A u \in Threads \ {t} : device'[u] = device[u],
         \A u \in Threads \ {t} : pc[u] \in Busy => device[u] # d,
         used \ {d} \subseteq used',
         held' \subseteq used', held' \subseteq held \cup {d},
         OnList' \subseteq used', OnList' \subseteq OnList \cup {d},
         to \in Busy => /\ device'[t] = d /\ d \in used' /\ d \notin held'
                        /\ to # "closing" => d \notin OnList'
  PROVE  OwnInv'
<1>1. \A u \in Threads \ {t} : pc[u] \in Busy =>
         /\ device[u] \in used /\ device[u] \notin held
         /\ pc[u] # "closing" => device[u] \notin OnList
  BY DEF OwnInv
<1>2. ASSUME NEW u \in Threads, pc'[u] \in Busy
      PROVE  /\ device'[u] \in used' /\ device'[u] \notin held'
             /\ pc'[u] # "closing" => device'[u] \notin OnList'
  <2>1. CASE u = t
    BY <1>2, <2>1 DEF Moves
  <2>2. CASE u # t
    <3>1. pc'[u] = pc[u] /\ device'[u] = device[u] /\ device[u] # d
      BY <1>2, <2>2 DEF Moves
    <3> QED
      BY <1>1, <1>2, <2>2, <3>1
  <2> QED
    BY <2>1, <2>2
<1>3. ASSUME NEW u \in Threads, pc'[u] \in Busy, NEW v \in Threads \ {u}, pc'[v] \in Busy
      PROVE  device'[v] # device'[u]
  <2>1. CASE u = t
    BY <1>3, <2>1 DEF Moves
  <2>2. CASE v = t
    BY <1>3, <2>2 DEF Moves
  <2>3. CASE u # t /\ v # t
    BY <1>3, <2>3 DEF Moves, OwnInv
  <2> QED
    BY <2>1, <2>2, <2>3
<1> QED
  BY <1>2, <1>3 DEF OwnInv

(* The list and the links of the others' devices stay.                     *)
LEMMA WalkMove ==
  ASSUME TypeOK, HasDevice, WalkInv, NEW t \in Threads, NEW from, NEW to, Moves(t, from, to), NEW d,
         \A u \in Threads \ {t} : device'[u] = device[u],
         \A u \in Threads \ {t} : pc[u] \in Busy => device[u] # d,
         d \notin OnList, device_list' = device_list,
         next' \in [Cells -> Cells \cup {NULL}], \A c \in Cells \ {d} : next'[c] = next[c],
         (held' = held /\ late' = late) \/ \A u \in Threads \ {t} : pc[u] \notin Down,
         Leads(t)'
  PROVE  OnList' = OnList /\ IsList(device_list', next') /\ WalkInv'
<1>1. OnList' = OnList /\ IsList(device_list', next')
  <2>1. OnList \in SUBSET Cells
    BY WalkCloses DEF OnList, TypeOK
  <2>2. \A x \in OnList : next'[x] = next[x]
    BY <2>1
  <2> QED
    BY <2>2, WalkKept
<1>2. ASSUME NEW u \in Threads, u # t PROVE Leads(u)'
  <2>1. pc'[u] = pc[u] /\ device'[u] = device[u] /\ Leads(u)
    BY <1>2 DEF Moves, WalkInv
  <2>2. ASSUME pc[u] \in {"linking", "sweeping on"} PROVE next'[device[u]] = device_list'
    BY <1>2, <2>1, <2>2 DEF HasDevice, Busy, Leads
  <2>3. ASSUME pc[u] \in Down PROVE held' = held /\ late' = late
    BY <1>2, <2>3
  <2> QED
    BY <1>1, <2>1, <2>2, <2>3 DEF Leads, Down
<1> QED
  BY <1>1, <1>2 DEF WalkInv

(* The owner of the lock changes the list.                                 *)
LEMMA WalkOwner ==
  ASSUME WalkInv, LockInv, NEW t \in Threads, NEW from, NEW to, Moves(t, from, to),
         owner \in {NULL, t},
         IsList(device_list', next'), Leads(t)',
         \A u \in Threads \ {t} : pc[u] = "stopping" => OnList' \subseteq held' /\ OnList' \subseteq late'
  PROVE  WalkInv'
<1>1. ASSUME NEW u \in Threads, u # t PROVE Leads(u)'
  <2>1. pc'[u] = pc[u] /\ pc[u] \notin Locked
    BY <1>1, DevicesAssumption DEF LockInv, Moves
  <2> QED
    BY <1>1, <2>1 DEF Leads, Locked
<1> QED
  BY <1>1 DEF WalkInv

LEMMA InitializeStep == DevInv /\ Initialize => ListInv'
<1> SUFFICES ASSUME DevInv, Initialize PROVE ListInv'
  OBVIOUS
<1>1. /\ ~initialized /\ owner = NULL /\ device_list' = NULL
      /\ initialized' = TRUE /\ UNCHANGED <<used, next, pc, device, held, late>>
  BY DEF Initialize
<1>2. OnList' = {} /\ IsList(device_list', next')
  <2>1. NULL \notin DOMAIN next
    BY DevicesAssumption DEF DevInv, TypeOK
  <2>2. Walk(NULL, next) = {}
    BY <2>1, WalkEmpty
  <2> QED
    BY <1>1, <2>2 DEF OnList, IsList
<1>3. \A t \in Threads : pc[t] \notin Locked \cup Down \cup {"closing"}
  BY <1>1, DevicesAssumption DEF DevInv, LockInv, DownInv, Initialize, Somewhere
<1>4. Closing = {} /\ Closing' = {}
  BY <1>1, <1>3 DEF Closing
<1>5. held \subseteq late
  BY <1>1, <1>4 DEF DevInv, ListInv, ListedInv
<1>6. OwnInv'
  BY <1>1, <1>2 DEF DevInv, ListInv, OwnInv
<1>7. WalkInv'
  BY <1>1, <1>2, <1>3 DEF WalkInv, Leads, Locked, Down
<1>8. ListedInv'
  BY <1>1, <1>2, <1>4, <1>5 DEF ListedInv
<1> QED
  BY <1>6, <1>7, <1>8 DEF ListInv

LEMMA ClosingMove ==
  ASSUME NEW t \in Threads, NEW from, NEW to, Moves(t, from, to),
         \A u \in Threads \ {t} : device'[u] = device[u],
         from # "closing", to # "closing"
  PROVE  Closing' = Closing
<1>1. ASSUME NEW u \in Threads, pc[u] = "closing" PROVE device[u] \in Closing'
  <2>1. pc'[u] = "closing" /\ device'[u] = device[u]
    BY <1>1 DEF Moves
  <2> QED
    BY <2>1 DEF Closing
<1>2. ASSUME NEW u \in Threads, pc'[u] = "closing" PROVE device'[u] \in Closing
  <2>1. pc[u] = "closing" /\ device'[u] = device[u]
    BY <1>2 DEF Moves
  <2> QED
    BY <2>1 DEF Closing
<1>3. Closing \subseteq Closing'
  BY <1>1 DEF Closing
<1>4. Closing' \subseteq Closing
  BY <1>2 DEF Closing
<1> QED
  BY <1>3, <1>4

LEMMA BeginShutdownStep == ASSUME DevInv, NEW t \in Threads, BeginShutdown(t) PROVE ListInv'
<1>1. /\ Moves(t, "idle", "sweeping") /\ owner = NULL
      /\ initialized = TRUE /\ initialized' = initialized /\ device_list' = device_list
      /\ used' = used /\ next' = next /\ late' = late
      /\ held' = held \ OnList /\ device' = [device EXCEPT ![t] = device_list]
      /\ \A u \in Threads : pc[u] \notin Down \cup {"closing", "lowering"}
  BY AtMoves DEF DevInv, TypeOK, BeginShutdown, global, ShuttingDown, Somewhere, Down
<1>2. OnList' = OnList
  BY <1>1, WalkKept DEF DevInv, ListInv, TypeOK
<1>3. device'[t] = device_list /\ \A u \in Threads \ {t} : device'[u] = device[u]
  BY <1>1 DEF DevInv, TypeOK
<1>4. NULL \notin OnList /\ \A u \in Threads : pc[u] \in Busy => device[u] # NULL
  BY DevicesAssumption, WalkCloses DEF DevInv, HasDevice, OnList, TypeOK
<1>5. OwnInv'
  <2>1. used \ {NULL} \subseteq used' /\ held' \subseteq used' /\ held' \subseteq held
        /\ OnList' \subseteq used' /\ OnList' \subseteq OnList
    BY <1>1, <1>2 DEF DevInv, ListInv, OwnInv
  <2>2. "sweeping" \notin Busy
    BY DEF Busy
  <2> QED
    BY <1>1, <1>3, <1>4, <2>1, <2>2, OwnMove DEF DevInv, ListInv
<1>6. WalkInv'
  <2>1. Leads(t)'
    BY <1>1, <1>2, <1>3 DEF Leads, Moves
  <2> QED
    BY <1>1, <1>3, <1>4, <2>1, WalkMove DEF DevInv, ListInv, TypeOK
<1>7. ListedInv'
  <2>1. Closing' = Closing
    BY <1>1, <1>3, ClosingMove
  <2>2. ShuttingDown'
    BY <1>1 DEF ShuttingDown, Somewhere, Moves
  <2> QED
    BY <1>1, <1>2, <2>1, <2>2 DEF DevInv, ListInv, ListedInv
<1> QED
  BY <1>5, <1>6, <1>7 DEF ListInv

LEMMA SweepStep == ASSUME DevInv, NEW t \in Threads, Sweep(t) PROVE ListInv'
<1> DEFINE d == device[t]
<1>1. /\ Moves(t, "sweeping", "sweeping on") /\ d \in Cells /\ Unlink(d)
      /\ initialized' = initialized /\ used' = used /\ device' = device
      /\ held' = held /\ late' = late
  BY AtMoves DEF DevInv, TypeOK, Sweep
<1>2. d = device_list /\ OnList \cap held = {}
  BY <1>1 DEF DevInv, ListInv, WalkInv, Leads, Moves
<1>3. /\ OnList' = OnList \ {d} /\ IsList(device_list', next')
      /\ device_list' = next[d] /\ next' = next
  BY <1>1, <1>2, WalkUnlinked DEF DevInv, ListInv
<1>4. d \in OnList
  <2>1. DOMAIN next = Cells
    BY DEF DevInv, TypeOK
  <2> QED
    BY <1>1, <1>2, <2>1, WalkCloses DEF OnList, Closed
<1>5. \A u \in Threads \ {t} : pc[u] \notin {"closing", "lowering"} \cup Down
  BY <1>1 DEF DevInv, DownInv, Moves, Down
<1>6. d \in used /\ d \notin held /\ \A u \in Threads \ {t} : pc[u] \in Busy => device[u] # d
  BY <1>2, <1>4, <1>5 DEF DevInv, ListInv, OwnInv
<1>7. OwnInv'
  <2>1. held' \subseteq used' /\ OnList' \subseteq used'
    BY <1>1, <1>3 DEF DevInv, ListInv, OwnInv
  <2> QED
    BY <1>1, <1>3, <1>6, <2>1, OwnMove DEF DevInv, ListInv
<1>8. WalkInv'
  <2>1. owner \in {NULL, t}
    BY <1>1 DEF DevInv, LockInv, Moves, Locked
  <2>2. Leads(t)'
    BY <1>1, <1>2, <1>3 DEF Leads, Moves
  <2> QED
    BY <1>1, <1>3, <1>5, <2>1, <2>2, WalkOwner DEF DevInv, ListInv, Down
<1>9. ListedInv'
  <2>1. Closing' = Closing
    BY <1>1, ClosingMove
  <2>2. ShuttingDown'
    BY <1>1 DEF ShuttingDown, Somewhere, Moves
  <2>3. Closing = {}
    BY <1>1, <1>5 DEF Closing, Moves
  <2> QED
    BY <1>1, <1>3, <1>6, <2>1, <2>2, <2>3 DEF DevInv, ListInv, ListedInv
<1> QED
  BY <1>7, <1>8, <1>9 DEF ListInv

LEMMA SweepOnStep == ASSUME DevInv, NEW t \in Threads, SweepOn(t) PROVE ListInv'
<1> DEFINE d == device[t]
<1>1. /\ Moves(t, "sweeping on", "sweeping") /\ Freed(d)
      /\ initialized' = initialized /\ device_list' = device_list
      /\ device' = [device EXCEPT ![t] = next[d]] /\ held' = held /\ late' = late
  BY AtMoves DEF DevInv, SweepOn
<1>2. /\ d \in Cells /\ d \notin held /\ d \notin OnList
      /\ next[d] = device_list /\ OnList \cap held = {}
  BY <1>1 DEF DevInv, TypeOK, ListInv, OwnInv, WalkInv, Leads, Moves, Busy
<1>3. \A u \in Threads \ {t} : pc[u] \in Busy => device[u] # d
  BY <1>1 DEF DevInv, ListInv, OwnInv, Moves, Busy
<1>4. used' = used \ {d} /\ next' = [next EXCEPT ![d] = NULL]
  BY <1>1 DEF Freed
<1>5. device'[t] = device_list /\ \A u \in Threads \ {t} : device'[u] = device[u]
  BY <1>1, <1>2 DEF DevInv, TypeOK
<1>6. next' \in [Cells -> Cells \cup {NULL}] /\ \A c \in Cells \ {d} : next'[c] = next[c]
  BY <1>4 DEF DevInv, TypeOK
<1>7. OnList' = OnList
  <2>1. \A x \in OnList : next'[x] = next[x]
    BY <1>2, <1>6, WalkCloses DEF OnList, DevInv, TypeOK
  <2> QED
    BY <1>1, <1>6, <2>1, WalkKept DEF DevInv, ListInv
<1>8. OwnInv'
  <2>1. held' \subseteq used' /\ OnList' \subseteq used'
    BY <1>1, <1>2, <1>4, <1>7 DEF DevInv, ListInv, OwnInv
  <2>2. "sweeping" \notin Busy
    BY DEF Busy
  <2> QED
    BY <1>1, <1>3, <1>4, <1>5, <1>7, <2>1, <2>2, OwnMove DEF DevInv, ListInv
<1>9. WalkInv'
  <2>1. Leads(t)'
    BY <1>1, <1>2, <1>5, <1>7 DEF Leads, Moves
  <2> QED
    BY <1>1, <1>2, <1>3, <1>5, <1>6, <2>1, WalkMove DEF DevInv, ListInv
<1>10. ListedInv'
  <2>1. Closing' = Closing
    BY <1>1, <1>5, ClosingMove
  <2>2. ShuttingDown'
    BY <1>1 DEF ShuttingDown, Somewhere, Moves
  <2> QED
    BY <1>1, <1>7, <2>1, <2>2 DEF DevInv, ListInv, ListedInv
<1> QED
  BY <1>8, <1>9, <1>10 DEF ListInv

LEMMA EndSweepStep == ASSUME DevInv, NEW t \in Threads, EndSweep(t) PROVE ListInv'
<1>1. /\ Moves(t, "sweeping", "stopping") /\ device[t] = NULL
      /\ initialized' = initialized /\ device_list' = device_list
      /\ used' = used /\ next' = next /\ device' = device /\ held' = held /\ late' = late
  BY AtMoves DEF DevInv, EndSweep, global
<1>2. device_list = NULL
  BY <1>1 DEF DevInv, ListInv, WalkInv, Leads, Moves
<1>3. NULL \notin DOMAIN next
  BY DevicesAssumption DEF DevInv, TypeOK
<1>4. OnList = {}
  BY <1>2, <1>3, WalkEmpty DEF OnList
<1>5. OnList' = {}
  BY <1>1, <1>4 DEF OnList
<1>6. \A u \in Threads : pc[u] \in Busy => device[u] # NULL
  BY DevicesAssumption DEF DevInv, HasDevice
<1>7. OwnInv'
  <2>1. held' \subseteq used'
    BY <1>1 DEF DevInv, ListInv, OwnInv
  <2>2. "stopping" \notin Busy
    BY DEF Busy
  <2> QED
    BY <1>1, <1>5, <1>6, <2>1, <2>2, OwnMove DEF DevInv, ListInv
<1>8. WalkInv'
  <2>1. Leads(t)'
    BY <1>1, <1>5 DEF Leads, Moves
  <2> QED
    BY <1>1, <1>4, <1>6, <2>1, WalkMove DEF DevInv, ListInv, TypeOK
<1>9. ListedInv'
  <2>1. Closing' = Closing
    BY <1>1, ClosingMove
  <2> QED
    BY <1>1, <1>4, <1>5, <2>1 DEF DevInv, ListInv, ListedInv
<1> QED
  BY <1>7, <1>8, <1>9 DEF ListInv

LEMMA StopStep == ASSUME DevInv, NEW t \in Threads, Stop(t) PROVE ListInv'
<1>1. /\ Moves(t, "stopping", "idle") /\ device' = [device EXCEPT ![t] = NULL]
      /\ device_list' = device_list /\ used' = used /\ next' = next
      /\ held' = held /\ late' = late
  BY AtMoves DEF DevInv, Stop, Return
<1>2. OnList' = OnList
  BY <1>1 DEF OnList
<1>3. \A u \in Threads \ {t} : device'[u] = device[u]
  BY <1>1 DEF DevInv, TypeOK
<1>4. OnList \subseteq held /\ OnList \subseteq late
  BY <1>1 DEF DevInv, ListInv, WalkInv, Leads, Moves
<1>5. NULL \notin OnList /\ \A u \in Threads : pc[u] \in Busy => device[u] # NULL
  BY DevicesAssumption, WalkCloses DEF DevInv, HasDevice, OnList, TypeOK
<1>6. OwnInv'
  <2>1. held' \subseteq used' /\ OnList' \subseteq used'
    BY <1>1, <1>2 DEF DevInv, ListInv, OwnInv
  <2>2. "idle" \notin Busy
    BY DEF Busy
  <2> QED
    BY <1>1, <1>2, <1>3, <1>5, <2>1, <2>2, OwnMove DEF DevInv, ListInv
<1>7. WalkInv'
  <2>1. Leads(t)'
    BY <1>1 DEF Leads, Moves
  <2> QED
    BY <1>1, <1>3, <1>5, <2>1, WalkMove DEF DevInv, ListInv, TypeOK
<1>8. ListedInv'
  <2>1. Closing' = Closing
    BY <1>1, <1>3, ClosingMove
  <2> QED
    BY <1>1, <1>2, <1>4, <2>1 DEF DevInv, ListInv, ListedInv
<1> QED
  BY <1>6, <1>7, <1>8 DEF ListInv

LEMMA BeginCreateStep == ASSUME DevInv, NEW t \in Threads, BeginCreate(t) PROVE ListInv'
<1>1. PICK d \in Cells \ used :
         used' = used \cup {d} /\ next' = [next EXCEPT ![d] = NULL] /\ device' = [device EXCEPT ![t] = d]
  BY DEF BeginCreate
<1>2. /\ Moves(t, "idle", "raising") /\ initialized = TRUE /\ initialized' = initialized
      /\ device_list' = device_list /\ held' = held /\ late' = late
  BY AtMoves DEF DevInv, BeginCreate, global, TypeOK
<1>3. d \notin OnList /\ d \notin held /\ \A u \in Threads \ {t} : pc[u] \in Busy => device[u] # d
  BY <1>1 DEF DevInv, ListInv, OwnInv
<1>4. device'[t] = d /\ \A u \in Threads \ {t} : device'[u] = device[u]
  BY <1>1 DEF DevInv, TypeOK
<1>5. next' \in [Cells -> Cells \cup {NULL}] /\ \A c \in Cells \ {d} : next'[c] = next[c]
  BY <1>1 DEF DevInv, TypeOK
<1>6. WalkInv' /\ OnList' = OnList
  <2>1. Leads(t)'
    BY <1>2 DEF Leads, Moves
  <2> QED
    BY <1>2, <1>3, <1>4, <1>5, <2>1, WalkMove DEF DevInv, ListInv
<1>7. OwnInv'
  <2>1. /\ used \ {d} \subseteq used' /\ d \in used'
        /\ held' \subseteq used' /\ held' \subseteq held
        /\ OnList' \subseteq used' /\ OnList' \subseteq OnList
    BY <1>1, <1>2, <1>6 DEF DevInv, ListInv, OwnInv
  <2> QED
    BY <1>2, <1>3, <1>4, <2>1, OwnMove DEF DevInv, ListInv
<1>8. ListedInv'
  <2>1. Closing' = Closing
    BY <1>2, <1>4, ClosingMove
  <2>2. ShuttingDown => ShuttingDown'
    BY <1>2 DEF ShuttingDown, Somewhere, Moves
  <2> QED
    BY <1>2, <1>6, <2>1, <2>2 DEF DevInv, ListInv, ListedInv
<1> QED
  BY <1>6, <1>7, <1>8 DEF ListInv

LEMMA WriteCountStep == ASSUME DevInv, NEW t \in Threads, WriteCount(t) PROVE ListInv'
<1> DEFINE d == device[t]
<1>1. /\ Moves(t, "raising", "building") /\ initialized' = initialized
      /\ device_list' = device_list /\ held' = held /\ late' = late
      /\ used' = used /\ next' = next /\ device' = device
  BY AtMoves DEF DevInv, WriteCount
<1>2. d \in used /\ d \notin OnList /\ d \notin held
      /\ \A u \in Threads \ {t} : pc[u] \in Busy => device[u] # d
  BY <1>1 DEF DevInv, ListInv, OwnInv, Moves, Busy
<1>3. WalkInv' /\ OnList' = OnList
  <2>1. Leads(t)'
    BY <1>1 DEF Leads, Moves
  <2> QED
    BY <1>1, <1>2, <2>1, WalkMove DEF DevInv, ListInv, TypeOK
<1>4. OwnInv'
  <2>1. held' \subseteq used' /\ OnList' \subseteq used'
    BY <1>1, <1>3 DEF DevInv, ListInv, OwnInv
  <2> QED
    BY <1>1, <1>2, <1>3, <2>1, OwnMove DEF DevInv, ListInv
<1>5. ListedInv'
  <2>1. Closing' = Closing
    BY <1>1, ClosingMove
  <2>2. ShuttingDown => ShuttingDown'
    BY <1>1 DEF ShuttingDown, Somewhere, Moves
  <2> QED
    BY <1>1, <1>3, <2>1, <2>2 DEF DevInv, ListInv, ListedInv
<1> QED
  BY <1>3, <1>4, <1>5 DEF ListInv

LEMMA FailCreateStep == ASSUME DevInv, NEW t \in Threads, FailCreate(t) PROVE ListInv'
<1> DEFINE d == device[t]
<1>1. /\ Moves(t, "building", "idle") /\ initialized' = initialized
      /\ device_list' = device_list /\ held' = held /\ late' = late
      /\ used' = used \ {d} /\ next' = [next EXCEPT ![d] = NULL]
      /\ device' = [device EXCEPT ![t] = NULL]
  BY AtMoves DEF DevInv, FailCreate, Return, Freed, global
<1>2. d \notin OnList /\ d \notin held /\ \A u \in Threads \ {t} : pc[u] \in Busy => device[u] # d
  BY <1>1 DEF DevInv, ListInv, OwnInv, Moves, Busy
<1>3. \A u \in Threads \ {t} : device'[u] = device[u]
  BY <1>1 DEF DevInv, TypeOK
<1>4. next' \in [Cells -> Cells \cup {NULL}] /\ \A c \in Cells \ {d} : next'[c] = next[c]
  BY <1>1 DEF DevInv, TypeOK
<1>5. WalkInv' /\ OnList' = OnList
  <2>1. Leads(t)'
    BY <1>1 DEF Leads, Moves
  <2> QED
    BY <1>1, <1>2, <1>3, <1>4, <2>1, WalkMove DEF DevInv, ListInv
<1>6. OwnInv'
  <2>1. held' \subseteq used' /\ OnList' \subseteq used'
    BY <1>1, <1>2, <1>5 DEF DevInv, ListInv, OwnInv
  <2>2. "idle" \notin Busy
    BY DEF Busy
  <2> QED
    BY <1>1, <1>2, <1>3, <1>5, <2>1, <2>2, OwnMove DEF DevInv, ListInv
<1>7. ListedInv'
  <2>1. Closing' = Closing
    BY <1>1, <1>3, ClosingMove
  <2>2. ShuttingDown => ShuttingDown'
    BY <1>1 DEF ShuttingDown, Somewhere, Moves
  <2> QED
    BY <1>1, <1>5, <2>1, <2>2 DEF DevInv, ListInv, ListedInv
<1> QED
  BY <1>5, <1>6, <1>7 DEF ListInv

LEMMA StartLinkStep == ASSUME DevInv, NEW t \in Threads, StartLink(t) PROVE ListInv'
<1> DEFINE d == device[t]
<1>1. /\ Moves(t, "building", "linking") /\ initialized' = initialized
      /\ device_list' = device_list /\ held' = held /\ late' = late
      /\ used' = used /\ next' = [next EXCEPT ![d] = device_list] /\ device' = device
  BY AtMoves DEF DevInv, StartLink, global
<1>2. d \in Cells /\ d \in used /\ d \notin OnList /\ d \notin held
  BY <1>1 DEF DevInv, TypeOK, ListInv, OwnInv, Moves, Busy
<1>3. \A u \in Threads \ {t} : pc[u] \in Busy => device[u] # d
  BY <1>1 DEF DevInv, ListInv, OwnInv, Moves, Busy
<1>4. /\ next' \in [Cells -> Cells \cup {NULL}] /\ next'[d] = device_list
      /\ \A c \in Cells \ {d} : next'[c] = next[c]
  BY <1>1, <1>2 DEF DevInv, TypeOK
<1>5. WalkInv' /\ OnList' = OnList
  <2>1. Leads(t)'
    BY <1>1, <1>4 DEF Leads, Moves
  <2> QED
    BY <1>1, <1>2, <1>3, <1>4, <2>1, WalkMove DEF DevInv, ListInv
<1>6. OwnInv'
  <2>1. held' \subseteq used' /\ OnList' \subseteq used'
    BY <1>1, <1>5 DEF DevInv, ListInv, OwnInv
  <2> QED
    BY <1>1, <1>2, <1>3, <1>5, <2>1, OwnMove DEF DevInv, ListInv
<1>7. ListedInv'
  <2>1. Closing' = Closing
    BY <1>1, ClosingMove
  <2>2. ShuttingDown => ShuttingDown'
    BY <1>1 DEF ShuttingDown, Somewhere, Moves
  <2> QED
    BY <1>1, <1>5, <2>1, <2>2 DEF DevInv, ListInv, ListedInv
<1> QED
  BY <1>5, <1>6, <1>7 DEF ListInv

LEMMA LinkStep == ASSUME DevInv, NEW t \in Threads, Link(t) PROVE ListInv'
<1> DEFINE d == device[t]
<1>1. /\ Moves(t, "linking", "idle") /\ initialized' = initialized
      /\ device_list' = d /\ held' = held \cup {d}
      /\ used' = used /\ next' = next /\ device' = [device EXCEPT ![t] = NULL]
  BY AtMoves DEF DevInv, Link, Return
<1>2. /\ d \in Cells /\ d \in used /\ d \notin OnList
      /\ next[d] = device_list
  BY <1>1 DEF DevInv, TypeOK, ListInv, OwnInv, WalkInv, Leads, Moves, Busy
<1>3. \A u \in Threads \ {t} : pc[u] \in Busy => device[u] # d
  BY <1>1 DEF DevInv, ListInv, OwnInv, Moves, Busy
<1>4. \A u \in Threads \ {t} : device'[u] = device[u]
  BY <1>1 DEF DevInv, TypeOK
<1>5. OnList' = OnList \cup {d} /\ IsList(device_list', next')
  <2>1. d \in DOMAIN next
    BY <1>2 DEF DevInv, TypeOK
  <2>2. Walk(d, next) = OnList \cup {d}
    BY <1>2, <2>1, WalkPush DEF OnList
  <2>3. IsList(next[d], next) /\ d \notin Walk(next[d], next)
    BY <1>2 DEF DevInv, ListInv, WalkInv, OnList
  <2>4. IsList(d, next)
    BY <2>1, <2>3, ListPush
  <2> QED
    BY <1>1, <2>2, <2>4 DEF OnList
<1>6. late \subseteq late' /\ ((initialized = TRUE /\ ~Somewhere({"stopping"})) \/ d \in late')
  BY DEF Link, DevInv, TypeOK
<1>7. OwnInv'
  <2>1. held' \subseteq used' /\ OnList' \subseteq used'
    BY <1>1, <1>2, <1>5 DEF DevInv, ListInv, OwnInv
  <2>2. "idle" \notin Busy
    BY DEF Busy
  <2> QED
    BY <1>1, <1>3, <1>4, <1>5, <2>1, <2>2, OwnMove DEF DevInv, ListInv
<1>8. WalkInv'
  <2>1. owner \in {NULL, t}
    BY <1>1 DEF DevInv, LockInv, Moves, Locked
  <2>2. Leads(t)'
    BY <1>1 DEF Leads, Moves
  <2>3. ASSUME NEW u \in Threads \ {t}, pc[u] = "stopping"
        PROVE  OnList' \subseteq held' /\ OnList' \subseteq late'
    <3>1. OnList \subseteq held /\ OnList \subseteq late
      BY <2>3 DEF DevInv, ListInv, WalkInv, Leads
    <3>2. d \in late'
      BY <1>6, <2>3 DEF Somewhere
    <3> QED
      BY <1>1, <1>5, <1>6, <3>1, <3>2
  <2> QED
    BY <1>1, <1>5, <2>1, <2>2, <2>3, WalkOwner DEF DevInv, ListInv
<1>9. ListedInv'
  <2>1. Closing' = Closing
    BY <1>1, <1>4, ClosingMove
  <2>2. ShuttingDown => ShuttingDown'
    BY <1>1 DEF ShuttingDown, Somewhere, Moves
  <2>3. initialized' = TRUE \/ d \in late'
    BY <1>1, <1>6
  <2> QED
    BY <1>1, <1>5, <1>6, <2>1, <2>2, <2>3 DEF DevInv, ListInv, ListedInv
<1> QED
  BY <1>7, <1>8, <1>9 DEF ListInv

LEMMA BeginCloseStep == ASSUME DevInv, NEW t \in Threads, BeginClose(t) PROVE ListInv'
<1>1. PICK d \in held : held' = held \ {d} /\ device' = [device EXCEPT ![t] = d]
  BY DEF BeginClose
<1>2. /\ Moves(t, "idle", "closing") /\ initialized' = initialized
      /\ device_list' = device_list /\ late' = late /\ used' = used /\ next' = next
      /\ ~ShuttingDown /\ \A u \in Threads : pc[u] \notin Down
  BY AtMoves DEF DevInv, BeginClose, global, ShuttingDown, Somewhere, Down
<1>3. d \in used /\ \A u \in Threads \ {t} : pc[u] \in Busy => device[u] # d
  BY <1>1 DEF DevInv, ListInv, OwnInv
<1>4. device'[t] = d /\ \A u \in Threads \ {t} : device'[u] = device[u]
  BY <1>1 DEF DevInv, TypeOK
<1>5. OnList' = OnList
  BY <1>2 DEF OnList
<1>6. OwnInv'
  <2>1. /\ d \in used' /\ d \notin held'
        /\ held' \subseteq used' /\ held' \subseteq held /\ OnList' \subseteq used'
    BY <1>1, <1>2, <1>3, <1>5 DEF DevInv, ListInv, OwnInv
  <2> QED
    BY <1>2, <1>3, <1>4, <1>5, <2>1, OwnMove DEF DevInv, ListInv
<1>7. WalkInv'
  <2>1. ASSUME NEW u \in Threads PROVE Leads(u)'
    <3>1. CASE u = t
      BY <1>2, <3>1 DEF Leads, Moves
    <3>2. CASE u # t
      <4>1. pc'[u] = pc[u] /\ device'[u] = device[u] /\ pc[u] \notin Down /\ Leads(u)
        BY <1>2, <1>4, <3>2 DEF Moves, DevInv, ListInv, WalkInv
      <4> QED
        BY <1>2, <4>1 DEF Leads, Down
    <3> QED
      BY <3>1, <3>2
  <2> QED
    BY <1>2, <2>1 DEF DevInv, ListInv, WalkInv
<1>8. ListedInv'
  <2>1. Closing' = Closing \cup {d}
    <3>1. pc'[t] = "closing" /\ \A u \in Threads : pc[u] = "closing" => pc'[u] = "closing" /\ u # t
      BY <1>2 DEF Moves
    <3>2. Closing \cup {d} \subseteq Closing'
      BY <1>4, <3>1 DEF Closing
    <3>3. Closing' \subseteq Closing \cup {d}
      <4>1. ASSUME NEW u \in Threads, pc'[u] = "closing" PROVE device'[u] \in Closing \cup {d}
        BY <1>2, <1>4, <4>1 DEF Moves, Closing
      <4> QED
        BY <4>1 DEF Closing
    <3> QED
      BY <3>2, <3>3
  <2> QED
    BY <1>1, <1>2, <1>5, <2>1 DEF DevInv, ListInv, ListedInv
<1> QED
  BY <1>6, <1>7, <1>8 DEF ListInv

LEMMA TakeOutStep == ASSUME DevInv, NEW t \in Threads, TakeOut(t) PROVE ListInv'
<1> DEFINE d == device[t]
<1>1. /\ Moves(t, "closing", "lowering") /\ Unlink(d) /\ owner = NULL
      /\ initialized' = initialized /\ used' = used /\ device' = device
      /\ held' = held /\ late' = late
  BY AtMoves DEF DevInv, TakeOut
<1>2. d \in Cells /\ d \in used /\ d \notin held
  BY <1>1 DEF DevInv, TypeOK, ListInv, OwnInv, Moves, Busy
<1>3. \A u \in Threads \ {t} : pc[u] \in Busy => device[u] # d
  BY <1>1 DEF DevInv, ListInv, OwnInv, Moves, Busy
<1>4. OnList' = OnList \ {d} /\ IsList(device_list', next')
  BY <1>1, <1>2, WalkUnlinked DEF DevInv, ListInv
<1>5. \A u \in Threads : pc[u] \notin Down
  BY <1>1 DEF DevInv, DownInv, Moves
<1>6. OwnInv'
  <2>1. held' \subseteq used' /\ OnList' \subseteq used'
    BY <1>1, <1>4 DEF DevInv, ListInv, OwnInv
  <2> QED
    BY <1>1, <1>2, <1>3, <1>4, <2>1, OwnMove DEF DevInv, ListInv
<1>7. WalkInv'
  <2>1. Leads(t)'
    BY <1>1 DEF Leads, Moves
  <2> QED
    BY <1>1, <1>4, <1>5, <2>1, WalkOwner DEF DevInv, ListInv, Down
<1>8. ListedInv'
  <2>1. Closing \subseteq Closing' \cup {d}
    <3>1. ASSUME NEW u \in Threads, pc[u] = "closing" PROVE device[u] \in Closing' \cup {d}
      BY <1>1, <3>1 DEF Moves, Closing
    <3> QED
      BY <3>1 DEF Closing
  <2>2. Closing' \subseteq Closing \ {d}
    <3>1. ASSUME NEW u \in Threads, pc'[u] = "closing" PROVE device'[u] \in Closing \ {d}
      BY <1>1, <1>3, <3>1 DEF Moves, Closing, Busy
    <3> QED
      BY <3>1 DEF Closing
  <2>3. ~ShuttingDown
    BY <1>5 DEF ShuttingDown, Somewhere, Down
  <2> QED
    BY <1>1, <1>2, <1>4, <2>1, <2>2, <2>3 DEF DevInv, ListInv, ListedInv
<1> QED
  BY <1>6, <1>7, <1>8 DEF ListInv

LEMMA CloseStep == ASSUME DevInv, NEW t \in Threads, Close(t) PROVE ListInv'
<1> DEFINE d == device[t]
<1>1. /\ Moves(t, "lowering", "idle") /\ initialized' = initialized
      /\ device_list' = device_list /\ held' = held /\ late' = late \ {d}
      /\ used' = used \ {d} /\ next' = [next EXCEPT ![d] = NULL]
      /\ device' = [device EXCEPT ![t] = NULL]
  BY AtMoves DEF DevInv, Close, Return, Freed
<1>2. d \notin OnList /\ d \notin held /\ \A u \in Threads \ {t} : pc[u] \in Busy => device[u] # d
  BY <1>1 DEF DevInv, ListInv, OwnInv, Moves, Busy
<1>3. \A u \in Threads \ {t} : device'[u] = device[u]
  BY <1>1 DEF DevInv, TypeOK
<1>4. next' \in [Cells -> Cells \cup {NULL}] /\ \A c \in Cells \ {d} : next'[c] = next[c]
  BY <1>1 DEF DevInv, TypeOK
<1>5. \A u \in Threads : pc[u] \notin Down
  BY <1>1 DEF DevInv, DownInv, Moves
<1>6. WalkInv' /\ OnList' = OnList
  <2>1. Leads(t)'
    BY <1>1 DEF Leads, Moves
  <2> QED
    BY <1>1, <1>2, <1>3, <1>4, <1>5, <2>1, WalkMove DEF DevInv, ListInv
<1>7. OwnInv'
  <2>1. held' \subseteq used' /\ OnList' \subseteq used'
    BY <1>1, <1>2, <1>6 DEF DevInv, ListInv, OwnInv
  <2>2. "idle" \notin Busy
    BY DEF Busy
  <2> QED
    BY <1>1, <1>2, <1>3, <1>6, <2>1, <2>2, OwnMove DEF DevInv, ListInv
<1>8. ListedInv'
  <2>1. Closing' = Closing
    BY <1>1, <1>3, ClosingMove
  <2>2. d \notin Closing
    BY <1>2, <1>1 DEF Closing, Moves, Busy
  <2>3. ~ShuttingDown
    BY <1>5 DEF ShuttingDown, Somewhere, Down
  <2> QED
    BY <1>1, <1>2, <1>6, <2>1, <2>2, <2>3 DEF DevInv, ListInv, ListedInv
<1> QED
  BY <1>6, <1>7, <1>8 DEF ListInv

LEMMA ListStep == DevInv /\ [Next]_vars => ListInv'
<1> SUFFICES ASSUME DevInv, [Next]_vars PROVE ListInv'
  OBVIOUS
<1>1. CASE Initialize
  BY <1>1, InitializeStep
<1>2. CASE UNCHANGED vars
  <2>1. UNCHANGED <<global, used, next, pc, device, held, late>>
    BY <1>2 DEF vars
  <2>2. OnList' = OnList /\ Closing' = Closing /\ ShuttingDown' = ShuttingDown
    BY <2>1 DEF OnList, Closing, ShuttingDown, Somewhere, global
  <2>3. OwnInv'
    BY <2>1, <2>2 DEF DevInv, ListInv, OwnInv
  <2>4. IsList(device_list', next')
    BY <2>1 DEF DevInv, ListInv, WalkInv, global
  <2>5. WalkInv'
    BY <2>1, <2>2, <2>4 DEF DevInv, ListInv, WalkInv, Leads, global
  <2>6. ListedInv'
    BY <2>1, <2>2 DEF DevInv, ListInv, ListedInv, global
  <2> QED
    BY <2>3, <2>5, <2>6 DEF ListInv
<1>3. ASSUME NEW t \in Threads,
             BeginShutdown(t) \/ Sweep(t) \/ SweepOn(t) \/ EndSweep(t) \/ Stop(t)
      PROVE  ListInv'
  BY <1>3, BeginShutdownStep, SweepStep, SweepOnStep, EndSweepStep, StopStep
<1>4. ASSUME NEW t \in Threads,
             BeginCreate(t) \/ WriteCount(t) \/ FailCreate(t) \/ StartLink(t) \/ Link(t)
      PROVE  ListInv'
  BY <1>4, BeginCreateStep, WriteCountStep, FailCreateStep, StartLinkStep, LinkStep
<1>5. ASSUME NEW t \in Threads, BeginClose(t) \/ TakeOut(t) \/ Close(t)
      PROVE  ListInv'
  BY <1>5, BeginCloseStep, TakeOutStep, CloseStep
<1> QED
  BY <1>1, <1>2, <1>3, <1>4, <1>5 DEF Next

(* DevInv: one thread owns the list, a shutdown has it to itself, every    *)
(* device is one caller's or one call's, and the links lead through the    *)
(* listed devices once.                                                    *)
THEOREM DevicesInvariant == Spec => []DevInv
<1>1. Init => DevInv
  BY TypeInit, ListInit DEF DevInv
<1>2. DevInv /\ [Next]_vars => DevInv'
  BY TypeStep, DeviceStep, PlaceStep, ListStep DEF DevInv
<1> QED
  BY <1>1, <1>2, PTL DEF Spec

(* DevicesListed: whatever creations, closes and shutdowns overlap, the    *)
(* list has the devices that callers hold, and none that was freed; what   *)
(* it misses, or keeps after a shutdown, was linked while one ran.         *)
THEOREM DevicesStayListed == Spec => []DevicesListed
<1>1. DevInv => DevicesListed
  BY DEF DevInv, ListInv, OwnInv, ListedInv, DevicesListed, Closing
<1> QED
  BY <1>1, DevicesInvariant, PTL

(***************************************************************************)
(* The line disciplines, for rings of any sizes.                           *)
(***************************************************************************)
(* The distance that EraseDebris is about, without the remainder: there is *)
(* room in it for two turns around the ring.                               *)
Drift == in.tail - in.head - in.count - erased \in {0, -InSize, -2 * InSize}

LineInv == LineTypeOK /\ Drift

Values == Chars \cup {Nothing}
InputRing == [buf : [Slots -> Values], head : Slots, tail : Slots, count : 0 .. InSize]
Printable == Chars \cup Prints \cup {Rubout}

\* The slot i places behind slot h.
Behind(h, i) == IF h + i < InSize THEN h + i ELSE h + i - InSize

LEMMA SlotIsRemainder ==
  \A h \in Slots, i \in 0 .. InSize : (h + i) % InSize = Behind(h, i) /\ Behind(h, i) \in Slots
<1>1. \A x \in 0 .. 2 * InSize - 1 : x % InSize = IF x < InSize THEN x ELSE x - InSize
  BY SizesAssumption, SMTT(20)
<1> QED
  BY <1>1, SizesAssumption DEF Behind, Slots

(* What the calls do to the input ring, its reader and the count of        *)
(* erases: a character more, one erased, one read, or all gone.            *)
PushChar(c) == in' = Pushed(c) /\ got' = got /\ erased' = erased
EraseOne == /\ in.count > 0 /\ in' = [in EXCEPT !.count = @ - 1]
            /\ got' = got /\ erased' = (erased + 1) % InSize
PopChar == /\ in.count > 0 /\ got' = in.buf[in.head] /\ erased' = erased
           /\ in' = [in EXCEPT !.head = (in.head + 1) % InSize, !.count = @ - 1]
Reset == in' = Empty(in.buf) /\ got' = got /\ erased' = 0

LEMMA InputEffects ==
  ASSUME [LineNext]_lineVars
  PROVE  \/ UNCHANGED <<in, got, erased>>
         \/ \E c \in Chars : PushChar(c)
         \/ EraseOne \/ PopChar \/ Reset
<1>1. ASSUME NEW c \in Chars, Input(c)
      PROVE  UNCHANGED <<in, got, erased>> \/ (\E x \in Chars : PushChar(x)) \/ EraseOne \/ Reset
  <2>1. CASE Swallow(c)
    BY <2>1 DEF Swallow, lineVars
  <2>2. CASE EraseChar(c)
    BY <2>2 DEF EraseChar, EraseOne
  <2>3. CASE KillLine(c)
    BY <2>3 DEF KillLine, Reset
  <2>4. CASE Accept(c)
    <3>1. PICK x \in Chars : in' = Pushed(x)
      BY <2>4 DEF Accept, Translated, Chars
    <3> QED
      BY <2>4, <3>1 DEF Accept, PushChar
  <2> QED
    BY <1>1, <2>1, <2>2, <2>3, <2>4 DEF Input
<1>2. ASSUME NEW c \in Keys, Input(c)
      PROVE  UNCHANGED <<in, got, erased>> \/ (\E x \in Chars : PushChar(x)) \/ EraseOne \/ Reset
  BY <1>1, <1>2 DEF Chars
<1>3. ASSUME HandleBreak
      PROVE  UNCHANGED <<in, got, erased>> \/ (\E x \in Chars : PushChar(x)) \/ EraseOne \/ Reset
  BY <1>1, <1>3 DEF HandleBreak, Chars
<1>4. ASSUME NEW n \in 1 .. MaxRead, BeginRead(n) PROVE UNCHANGED <<in, got, erased>>
  BY <1>4 DEF BeginRead
<1>5. CASE Pop
  BY <1>5 DEF Pop, PopChar
<1>6. CASE EndRead \/ UNCHANGED lineVars
  BY <1>6 DEF EndRead, lineVars
<1>7. ASSUME NEW s, Write(s) PROVE UNCHANGED <<in, got, erased>>
  BY <1>7 DEF Write
<1>8. ASSUME NEW c, PutChar(c) PROVE UNCHANGED <<in, got, erased>>
  BY <1>8 DEF PutChar
<1>9. ASSUME NEW f, SetTermios(f) PROVE UNCHANGED <<in, got, erased>>
  BY <1>9 DEF SetTermios
<1>10. ASSUME NEW mode, SetLineDisc(mode) PROVE UNCHANGED <<in, got, erased>>
  BY <1>10 DEF SetLineDisc
<1>11. ASSUME NEW n, Flush(n) PROVE UNCHANGED <<in, got, erased>> \/ Reset
  BY <1>11 DEF Flush, Reset
<1> QED
  BY <1>2, <1>3, <1>4, <1>5, <1>6, <1>7, <1>8, <1>9, <1>10, <1>11 DEF LineNext

LEMMA PushedRing ==
  ASSUME LineTypeOK, NEW c \in Chars
  PROVE  /\ Pushed(c) \in InputRing
         /\ in.count = InSize => Pushed(c) = in
         /\ in.count < InSize => /\ Pushed(c).buf = [in.buf EXCEPT ![in.tail] = c]
                                 /\ Pushed(c).head = in.head
                                 /\ Pushed(c).tail = Behind(in.tail, 1)
                                 /\ Pushed(c).count = in.count + 1
<1>1. in \in InputRing /\ in.tail \in Slots /\ in.count \in 0 .. InSize
  BY DEF LineTypeOK, InputRing, Values
<1>2. (in.tail + 1) % InSize = Behind(in.tail, 1) /\ Behind(in.tail, 1) \in Slots
  BY <1>1, SlotIsRemainder, SizesAssumption
<1>3. CASE in.count < InSize
  <2>1. /\ in.count + 1 \in 0 .. InSize
        /\ [in.buf EXCEPT ![in.tail] = c] \in [Slots -> Values]
    BY <1>1, <1>3, SizesAssumption DEF InputRing, Values
  <2>2. Pushed(c) = [in EXCEPT !.buf = [in.buf EXCEPT ![in.tail] = c],
                               !.tail = Behind(in.tail, 1), !.count = in.count + 1]
    BY <1>1, <1>2, <1>3 DEF Pushed, InputRing
  <2>3. DOMAIN in = {"buf", "head", "tail", "count"}
    BY <1>1 DEF InputRing
  <2>4. /\ Pushed(c).buf = [in.buf EXCEPT ![in.tail] = c] /\ Pushed(c).head = in.head
        /\ Pushed(c).tail = Behind(in.tail, 1) /\ Pushed(c).count = in.count + 1
    BY <1>1, <2>2, <2>3 DEF InputRing
  <2>5. Pushed(c) \in InputRing
    BY <1>1, <1>2, <2>1, <2>2 DEF InputRing
  <2> QED
    BY <1>1, <1>3, <2>4, <2>5, SizesAssumption
<1>4. CASE in.count = InSize
  BY <1>1, <1>4, SizesAssumption DEF Pushed
<1> QED
  BY <1>1, <1>3, <1>4, SizesAssumption

LEMMA PoppedRing ==
  ASSUME LineTypeOK, PopChar
  PROVE  /\ in' \in InputRing /\ in'.buf = in.buf /\ in'.tail = in.tail
         /\ in'.head = Behind(in.head, 1) /\ in'.count = in.count - 1 /\ in.count \in 1 .. InSize
         /\ got' \in Values
<1>1. in \in InputRing /\ in.head \in Slots /\ in.count \in 1 .. InSize
  BY SizesAssumption DEF LineTypeOK, InputRing, Values, PopChar
<1>2. (in.head + 1) % InSize = Behind(in.head, 1) /\ Behind(in.head, 1) \in Slots
  BY <1>1, SlotIsRemainder, SizesAssumption
<1>3. in' = [in EXCEPT !.head = Behind(in.head, 1), !.count = in.count - 1]
  BY <1>1, <1>2 DEF PopChar, InputRing
<1>4. in.count - 1 \in 0 .. InSize
  BY <1>1, SizesAssumption
<1>5. got' \in Values
  BY <1>1 DEF PopChar, InputRing
<1> QED
  BY <1>1, <1>2, <1>3, <1>4, <1>5 DEF InputRing

LEMMA ErasedRing ==
  ASSUME LineTypeOK, EraseOne
  PROVE  /\ in' \in InputRing /\ in'.buf = in.buf /\ in'.tail = in.tail /\ in'.head = in.head
         /\ in'.count = in.count - 1 /\ in.count \in 1 .. InSize
         /\ erased' = Behind(erased, 1) /\ erased' \in Slots
<1>1. in \in InputRing /\ erased \in Slots /\ in.count \in 1 .. InSize
  BY SizesAssumption DEF LineTypeOK, InputRing, Values, EraseOne
<1>2. (erased + 1) % InSize = Behind(erased, 1) /\ Behind(erased, 1) \in Slots
  BY <1>1, SlotIsRemainder, SizesAssumption
<1>3. in' = [in EXCEPT !.count = in.count - 1] /\ in.count - 1 \in 0 .. InSize
  BY <1>1, SizesAssumption DEF EraseOne, InputRing
<1> QED
  BY <1>1, <1>2, <1>3 DEF EraseOne, InputRing

LEMMA EmptyRing ==
  ASSUME LineTypeOK
  PROVE  Empty(in.buf) \in InputRing
  BY SizesAssumption DEF LineTypeOK, Empty, InputRing, Values, Slots

LEMMA InputStep ==
  ASSUME LineInv, [LineNext]_lineVars
  PROVE  in' \in InputRing /\ got' \in Values /\ erased' \in Slots /\ Drift'
<1>1. /\ in \in InputRing /\ got \in Values /\ erased \in Slots
      /\ in.head \in Slots /\ in.tail \in Slots /\ in.count \in 0 .. InSize
  BY DEF LineInv, LineTypeOK, InputRing, Values
<1>2. CASE UNCHANGED <<in, got, erased>>
  BY <1>1, <1>2 DEF LineInv, Drift
<1>3. ASSUME NEW c \in Chars, PushChar(c) PROVE in' \in InputRing /\ Drift'
  <2>1. CASE in.count = InSize
    BY <1>1, <1>3, <2>1, PushedRing DEF PushChar, LineInv, Drift
  <2>2. CASE in.count < InSize
    <3>1. /\ in' \in InputRing /\ in'.head = in.head /\ in'.tail = Behind(in.tail, 1)
          /\ in'.count = in.count + 1 /\ erased' = erased
      BY <1>3, <2>2, PushedRing DEF PushChar, LineInv
    <3> QED
      BY <1>1, <2>2, <3>1, SizesAssumption DEF LineInv, Drift, Behind, Slots
  <2> QED
    BY <1>1, <2>1, <2>2, SizesAssumption
<1>4. CASE EraseOne
  <2>1. /\ in' \in InputRing /\ in'.tail = in.tail /\ in'.head = in.head
        /\ in'.count = in.count - 1 /\ in.count \in 1 .. InSize
        /\ erased' = Behind(erased, 1) /\ erased' \in Slots
    BY <1>4, ErasedRing DEF LineInv
  <2>2. Drift'
    BY <1>1, <2>1, SizesAssumption DEF LineInv, Drift, Behind, Slots
  <2> QED
    BY <1>1, <1>4, <2>1, <2>2 DEF EraseOne
<1>5. CASE PopChar
  <2>1. /\ in' \in InputRing /\ in'.tail = in.tail /\ in'.head = Behind(in.head, 1)
        /\ in'.count = in.count - 1 /\ in.count \in 1 .. InSize /\ got' \in Values
        /\ erased' = erased
    BY <1>5, PoppedRing DEF LineInv, PopChar
  <2>2. Drift'
    BY <1>1, <2>1, SizesAssumption DEF LineInv, Drift, Behind, Slots
  <2> QED
    BY <1>1, <2>1, <2>2
<1>6. CASE Reset
  <2>1. in' \in InputRing
    BY <1>6, EmptyRing DEF Reset, LineInv
  <2>2. in'.head = 0 /\ in'.tail = 0 /\ in'.count = 0 /\ erased' = 0 /\ got' = got
    BY <1>6 DEF Reset, Empty
  <2> QED
    BY <1>1, <2>1, <2>2, SizesAssumption DEF Drift, Slots
<1>7. ASSUME NEW c \in Chars, PushChar(c) PROVE got' \in Values /\ erased' \in Slots
  BY <1>1, <1>7 DEF PushChar
<1> QED
  BY <1>1, <1>2, <1>3, <1>4, <1>5, <1>6, <1>7, InputEffects DEF LineInv, Drift

(* What the calls do to the output: nothing, or print, or all is gone.     *)
LEMMA OutputEffects ==
  ASSUME LineTypeOK, [LineNext]_lineVars
  PROVE  out' = out \/ out' = <<>> \/ \E s \in Seq(Printable) : out' = Printed(s)
<1>1. ASSUME NEW c \in Chars, Input(c)
      PROVE  out' = out \/ \E s \in Seq(Printable) : out' = Printed(s)
  <2>1. CASE Swallow(c)
    BY <2>1 DEF Swallow, lineVars
  <2>2. CASE EraseChar(c)
    <3>1. <<Rubout, Rubout, Rubout>> \in Seq(Printable)
      BY DEF Printable
    <3> QED
      BY <2>2, <3>1 DEF EraseChar
  <2>3. CASE KillLine(c)
    <3>1. <<NL>> \in Seq(Printable)
      BY DEF Printable, Chars
    <3> QED
      BY <2>3, <3>1 DEF KillLine
  <2>4. CASE Accept(c)
    <3>1. PICK x \in Chars : out' = IF Cooked /\ "ECHO" \in flags THEN Printed(<<x>>) ELSE out
      BY <2>4 DEF Accept, Translated, Chars
    <3>2. <<x>> \in Seq(Printable)
      BY DEF Printable
    <3> QED
      BY <3>1, <3>2
  <2> QED
    BY <1>1, <2>1, <2>2, <2>3, <2>4 DEF Input
<1>2. ASSUME (\E c \in Keys : Input(c)) \/ HandleBreak
      PROVE  out' = out \/ \E s \in Seq(Printable) : out' = Printed(s)
  BY <1>1, <1>2 DEF HandleBreak, Chars
<1>3. ASSUME NEW n, BeginRead(n) PROVE out' = out
  BY <1>3 DEF BeginRead
<1>4. CASE Pop \/ EndRead \/ UNCHANGED lineVars
  BY <1>4 DEF Pop, EndRead, lineVars
<1>5. ASSUME NEW s \in Texts, Write(s) PROVE \E x \in Seq(Printable) : out' = Printed(x)
  <2>1. s \in Seq(Keys \cup Prints)
    BY CharsAssumption
  <2>2. s \in Seq(Printable)
    BY <2>1 DEF Printable, Chars
  <2> QED
    BY <1>5, <2>2 DEF Write
<1>6. ASSUME NEW c \in Prints, PutChar(c) PROVE \E x \in Seq(Printable) : out' = Printed(x)
  <2>1. <<CR, NL>> \in Seq(Printable) /\ <<c>> \in Seq(Printable)
    BY DEF Printable, Chars
  <2> QED
    BY <1>6, <2>1 DEF PutChar
<1>7. ASSUME NEW f, SetTermios(f) PROVE out' = out
  BY <1>7 DEF SetTermios
<1>8. ASSUME NEW mode, SetLineDisc(mode) PROVE out' = out
  BY <1>8 DEF SetLineDisc
<1>9. ASSUME NEW n, Flush(n) PROVE out' = out \/ out' = <<>>
  BY <1>9 DEF Flush
<1> QED
  BY <1>2, <1>3, <1>4, <1>5, <1>6, <1>7, <1>8, <1>9 DEF LineNext

LEMMA MinOfTwo ==
  ASSUME NEW m \in Int, NEW n \in Int
  PROVE  Min({m, n}) = IF m <= n THEN m ELSE n
  BY DEF Min

(* What is printed fits, as far as it is stored.                           *)
LEMMA PrintedKeeps ==
  ASSUME LineTypeOK, NEW s \in Seq(Printable)
  PROVE  /\ Printed(s) \in Seq(Printable) /\ Len(Printed(s)) <= OutSize
<1> DEFINE all == out \o s
           m == Min({Len(all), OutSize})
<1>1. out \in Seq(Printable) /\ Len(out) <= OutSize /\ OutSize \in Nat
  BY SizesAssumption DEF LineTypeOK, Printable
<1>2. /\ all \in Seq(Printable) /\ Len(all) = Len(out) + Len(s)
      /\ \A i \in 1 .. Len(out) : all[i] = out[i]
  BY <1>1, ConcatProperties
<1>3. Len(all) \in Nat /\ Len(out) \in Nat /\ Len(s) \in Nat
  BY <1>1, <1>2, LenProperties
<1>4. m \in Int /\ m <= Len(all) /\ m <= OutSize /\ Len(out) <= m
  <2>1. m = IF Len(all) <= OutSize THEN Len(all) ELSE OutSize
    BY <1>1, <1>3, MinOfTwo
  <2> QED
    BY <1>1, <1>2, <1>3, <2>1
<1> HIDE DEF m, all
<1>5. /\ SubSeq(all, 1, m) \in Seq(Printable)
      /\ Len(SubSeq(all, 1, m)) = m
      /\ \A i \in 1 .. m : SubSeq(all, 1, m)[i] = all[i]
  <2>1. \A i \in 1 .. m : all[i] \in Printable
    BY <1>2, <1>3, <1>4, ElementOfSeq
  <2>2. /\ SubSeq(all, 1, m) \in Seq(Printable)
        /\ Len(SubSeq(all, 1, m)) = IF 1 <= m THEN m - 1 + 1 ELSE 0
        /\ \A i \in 1 .. m - 1 + 1 : SubSeq(all, 1, m)[i] = all[1 + i - 1]
    BY <1>4, <2>1, SubSeqProperties
  <2>3. m - 1 + 1 = m /\ \A i \in Int : 1 + i - 1 = i
    BY <1>4
  <2> QED
    BY <1>3, <1>4, <2>2, <2>3
<1> DEFINE p == SubSeq(all, 1, m)
<1>6. Printed(s) = p
  BY DEF Printed, m, all
<1>7. p \in Seq(Printable) /\ Len(p) = m /\ \A i \in 1 .. m : p[i] = all[i]
  BY <1>5
<1> HIDE DEF p
<1> QED
  BY <1>4, <1>6, <1>7

LEMMA OutputStep ==
  ASSUME LineTypeOK, [LineNext]_lineVars
  PROVE  out' \in Seq(Printable) /\ Len(out') <= OutSize
<1>1. out \in Seq(Printable) /\ Len(out) <= OutSize
  BY DEF LineTypeOK, Printable
<1>2. CASE out' = out
  BY <1>1, <1>2
<1>3. CASE out' = <<>>
  BY <1>3, SizesAssumption, EmptySeq
<1>4. ASSUME NEW s \in Seq(Printable), out' = Printed(s)
      PROVE  out' \in Seq(Printable) /\ Len(out') <= OutSize
  BY <1>4, PrintedKeeps
<1> QED
  BY <1>2, <1>3, <1>4, OutputEffects

LEMMA SettingsStep ==
  ASSUME LineTypeOK, [LineNext]_lineVars
  PROVE  /\ flags' \in Termios \cup {DefaultFlags} /\ disc' \in {"cooked", "raw"}
         /\ reading' \in 0 .. MaxRead
<1> USE SizesAssumption DEF LineTypeOK
<1>1. ASSUME NEW c, Input(c) PROVE UNCHANGED <<flags, disc, reading>>
  BY <1>1 DEF Input, Swallow, EraseChar, KillLine, Accept, lineVars
<1>2. ASSUME NEW n \in 1 .. MaxRead, BeginRead(n)
      PROVE  UNCHANGED <<flags, disc>> /\ reading' \in 0 .. MaxRead
  BY <1>2 DEF BeginRead
<1>3. CASE Pop \/ EndRead \/ UNCHANGED lineVars
  BY <1>3 DEF Pop, EndRead, lineVars
<1>4. ASSUME NEW x, Write(x) \/ PutChar(x) \/ Flush(x) PROVE UNCHANGED <<flags, disc, reading>>
  BY <1>4 DEF Write, PutChar, Flush
<1>5. ASSUME NEW f \in Termios, SetTermios(f)
      PROVE  flags' \in Termios /\ UNCHANGED <<disc, reading>>
  BY <1>5 DEF SetTermios
<1>6. ASSUME NEW mode, SetLineDisc(mode)
      PROVE  disc' \in {"cooked", "raw"} /\ UNCHANGED <<flags, reading>>
  BY <1>6 DEF SetLineDisc
<1> QED
  BY <1>1, <1>2, <1>3, <1>4, <1>5, <1>6 DEF LineNext, HandleBreak

LEMMA LineInitInv == LineInit => LineInv
<1> SUFFICES ASSUME LineInit PROVE LineInv
  OBVIOUS
<1>1. in \in InputRing /\ in.head = 0 /\ in.tail = 0 /\ in.count = 0
  BY SizesAssumption DEF LineInit, Empty, InputRing, Values, Slots
<1>2. out \in Seq(Printable) /\ Len(out) <= OutSize
  BY SizesAssumption, EmptySeq DEF LineInit
<1> QED
  BY <1>1, <1>2, SizesAssumption
     DEF LineInit, LineInv, LineTypeOK, Drift, InputRing, Values, Printable, Slots

LEMMA LineStep == LineInv /\ [LineNext]_lineVars => LineInv'
<1> SUFFICES ASSUME LineInv, [LineNext]_lineVars PROVE LineInv'
  OBVIOUS
<1>1. in' \in InputRing /\ got' \in Values /\ erased' \in Slots /\ Drift'
  BY InputStep
<1>2. out' \in Seq(Printable) /\ Len(out') <= OutSize
  BY OutputStep DEF LineInv
<1>3. /\ flags' \in Termios \cup {DefaultFlags} /\ disc' \in {"cooked", "raw"}
      /\ reading' \in 0 .. MaxRead
  BY SettingsStep DEF LineInv
<1> QED
  BY <1>1, <1>2, <1>3 DEF LineInv, LineTypeOK, InputRing, Values, Printable

(* LineInv: the types, and the distance of the indices of the input ring.  *)
THEOREM LineInvariant == LineSpec => []LineInv
  BY LineInitInv, LineStep, PTL DEF LineSpec

(* LineTypeOK: no count below zero or above the size, no index outside the *)
(* ring, whatever is erased, killed, read or flushed in between.           *)
THEOREM LineTypeCorrect == LineSpec => []LineTypeOK
<1>1. LineInv => LineTypeOK
  BY DEF LineInv
<1> QED
  BY <1>1, LineInvariant, PTL

(* EraseDebris: erases, and nothing else, drive the indices of the input   *)
(* ring apart, and only a kill or a flush brings them together.            *)
THEOREM DebrisOfErasesOnly == LineSpec => []EraseDebris
<1>1. LineInv => EraseDebris
  <2>1. \A z \in {0, -InSize, -2 * InSize} : z % InSize = 0
    BY SizesAssumption, SMTT(30)
  <2> QED
    BY <2>1 DEF LineInv, Drift, EraseDebris
<1> QED
  BY <1>1, LineInvariant, PTL

(***************************************************************************)
(* What waits in the input ring is a queue until something is erased.      *)
(***************************************************************************)
(* The n characters from slot h on.                                        *)
Queued(b, h, n) == [i \in 1 .. n |-> b[(h + i - 1) % InSize]]

LEMMA QueuedSeq ==
  ASSUME NEW b \in [Slots -> Values], NEW h \in Slots, NEW n \in 0 .. InSize
  PROVE  /\ Queued(b, h, n) \in Seq(Values) /\ Len(Queued(b, h, n)) = n
         /\ \A i \in 1 .. n : Queued(b, h, n)[i] = b[Behind(h, i - 1)] /\ Behind(h, i - 1) \in Slots
<1>1. ASSUME NEW i \in 1 .. n
      PROVE  (h + i - 1) % InSize = Behind(h, i - 1) /\ Behind(h, i - 1) \in Slots
  <2>1. i - 1 \in 0 .. InSize /\ h + i - 1 = h + (i - 1)
    BY SizesAssumption DEF Slots
  <2> QED
    BY <2>1, SlotIsRemainder
<1>2. Queued(b, h, n) \in [1 .. n -> Values]
  BY <1>1 DEF Queued
<1>3. n \in Nat
  BY SizesAssumption
<1>4. Queued(b, h, n) \in Seq(Values)
  BY <1>2, <1>3, SeqDef
<1>5. Len(Queued(b, h, n)) = n
  BY <1>2, <1>3, <1>4, LenProperties
<1> QED
  BY <1>1, <1>4, <1>5 DEF Queued

LEMMA QueuedNone == ASSUME NEW b, NEW h PROVE Queued(b, h, 0) = <<>>
  BY DEF Queued

(* A character stored in the slot behind the last comes last.              *)
LEMMA QueuedAppend ==
  ASSUME NEW b \in [Slots -> Values], NEW h \in Slots, NEW n \in 0 .. InSize - 1, NEW c \in Values
  PROVE  Queued([b EXCEPT ![Behind(h, n)] = c], h, n + 1) = Append(Queued(b, h, n), c)
<1>1. n \in 0 .. InSize /\ n + 1 \in 0 .. InSize /\ Behind(h, n) \in Slots
  BY SizesAssumption, SlotIsRemainder
<1> DEFINE stored == [b EXCEPT ![Behind(h, n)] = c]
           old == Queued(b, h, n)
           new == Queued(stored, h, n + 1)
<1>2. /\ stored \in [Slots -> Values] /\ stored[Behind(h, n)] = c
      /\ \A s \in Slots \ {Behind(h, n)} : stored[s] = b[s]
  BY <1>1
<1> HIDE DEF stored
<1>3. old \in Seq(Values) /\ Len(old) = n /\ \A i \in 1 .. n : old[i] = b[Behind(h, i - 1)]
  BY <1>1, QueuedSeq
<1>4. /\ new \in Seq(Values) /\ Len(new) = n + 1
      /\ \A i \in 1 .. n + 1 : new[i] = stored[Behind(h, i - 1)]
  BY <1>1, <1>2, QueuedSeq
<1>5. \A i \in 1 .. n : Behind(h, i - 1) # Behind(h, n) /\ Behind(h, i - 1) \in Slots
  BY SizesAssumption DEF Behind, Slots
<1>6. \A i \in 1 .. n + 1 : new[i] = IF i = n + 1 THEN c ELSE old[i]
  <2> TAKE i \in 1 .. n + 1
  <2>1. CASE i = n + 1
    <3>1. i - 1 = n
      BY <2>1
    <3> HIDE DEF new, old
    <3> QED
      BY <1>1, <1>2, <1>4, <2>1, <3>1
  <2>2. CASE i # n + 1
    <3>1. i \in 1 .. n
      BY <2>2
    <3> HIDE DEF new, old
    <3> QED
      BY <1>2, <1>3, <1>4, <1>5, <2>2, <3>1
  <2> QED
    BY <2>1, <2>2
<1> HIDE DEF old, new
<1>7. /\ Append(old, c) \in Seq(Values) /\ Len(Append(old, c)) = n + 1
      /\ \A i \in 1 .. n + 1 : Append(old, c)[i] = IF i = n + 1 THEN c ELSE old[i]
  BY <1>1, <1>3
<1>8. \A i \in 1 .. n + 1 : new[i] = Append(old, c)[i]
  BY <1>6, <1>7
<1>9. new = Append(old, c)
  BY <1>4, <1>7, <1>8, SeqEqual
<1> QED
  BY <1>9 DEF old, new, stored

(* The head's slot comes first, and the rest starts one further on.        *)
LEMMA QueuedTail ==
  ASSUME NEW b \in [Slots -> Values], NEW h \in Slots, NEW n \in 1 .. InSize
  PROVE  /\ Queued(b, h, n) # <<>> /\ Head(Queued(b, h, n)) = b[h]
         /\ Queued(b, Behind(h, 1), n - 1) = Tail(Queued(b, h, n))
<1>1. n \in 0 .. InSize /\ n - 1 \in 0 .. InSize /\ Behind(h, 1) \in Slots /\ Behind(h, 0) = h
  BY SizesAssumption, SlotIsRemainder DEF Behind, Slots
<1> DEFINE old == Queued(b, h, n)
           new == Queued(b, Behind(h, 1), n - 1)
<1>2. old \in Seq(Values) /\ Len(old) = n /\ \A i \in 1 .. n : old[i] = b[Behind(h, i - 1)]
  BY <1>1, QueuedSeq
<1>3. /\ new \in Seq(Values) /\ Len(new) = n - 1
      /\ \A i \in 1 .. n - 1 : new[i] = b[Behind(Behind(h, 1), i - 1)]
  BY <1>1, QueuedSeq
<1> HIDE DEF old, new
<1>4. old # <<>>
  BY <1>2, EmptySeq
<1>5. Head(old) = old[1] /\ old[1] = b[h]
  BY <1>1, <1>2, <1>4
<1>6. /\ Tail(old) \in Seq(Values) /\ Len(Tail(old)) = n - 1
      /\ \A i \in 1 .. n - 1 : Tail(old)[i] = old[i + 1]
  BY <1>2, <1>4, HeadTailProperties
<1>7. \A i \in 1 .. n - 1 : Behind(Behind(h, 1), i - 1) = Behind(h, i)
  <2> TAKE i \in 1 .. n - 1
  <2> QED
    BY SizesAssumption DEF Behind, Slots
<1>8. \A i \in 1 .. n - 1 : new[i] = Tail(old)[i]
  <2> TAKE i \in 1 .. n - 1
  <2>1. i + 1 \in 1 .. n /\ (i + 1) - 1 = i
    BY SizesAssumption
  <2>2. old[i + 1] = b[Behind(h, i)]
    BY <1>2, <2>1
  <2>3. new[i] = b[Behind(h, i)]
    BY <1>3, <1>7
  <2> QED
    BY <1>6, <2>2, <2>3
<1>9. new = Tail(old)
  BY <1>3, <1>6, <1>8, SeqEqual
<1> QED
  BY <1>4, <1>5, <1>9 DEF old, new

(* Without erases `tail` is where the next character belongs.              *)
LEMMA TailBehindLast ==
  ASSUME LineInv, erased = 0, in.count < InSize
  PROVE  in.tail = Behind(in.head, in.count)
<1>1. in.head \in Slots /\ in.tail \in Slots /\ in.count \in 0 .. InSize
  BY DEF LineInv, LineTypeOK
<1> QED
  BY <1>1, SizesAssumption DEF LineInv, Drift, Behind, Slots

LEMMA QueueStep ==
  ASSUME LineInv, [LineNext]_lineVars, erased = 0, erased' = 0
  PROVE  [Line!Next]_(Line!vars)
<1>1. /\ in \in InputRing /\ in.buf \in [Slots -> Values] /\ in.head \in Slots
      /\ in.count \in 0 .. InSize
  BY DEF LineInv, LineTypeOK, InputRing, Values
<1>2. Waiting = Queued(in.buf, in.head, in.count)
  BY DEF Waiting, Queued
<1>3. Waiting' = Queued(in'.buf, in'.head, in'.count)
  BY DEF Waiting, Queued
<1>4. Len(Waiting) = in.count
  BY <1>1, <1>2, QueuedSeq
<1>5. SUFFICES \/ UNCHANGED <<Waiting, got>>
               \/ got' = got /\ Waiting' = <<>>
               \/ got' = got /\ \E c \in Chars : Len(Waiting) < InSize /\ Waiting' = Append(Waiting, c)
               \/ Waiting # <<>> /\ got' = Head(Waiting) /\ Waiting' = Tail(Waiting)
  BY DEF Line!Next, Line!Put, Line!Get, Line!Clear, Line!vars
<1>6. CASE UNCHANGED <<in, got, erased>>
  BY <1>6 DEF Waiting
<1>7. ASSUME NEW c \in Chars, PushChar(c)
      PROVE  /\ got' = got
             /\ \/ Waiting' = Waiting
                \/ Len(Waiting) < InSize /\ Waiting' = Append(Waiting, c)
  <2>1. CASE in.count = InSize
    BY <1>7, <2>1, PushedRing DEF PushChar, LineInv, Waiting
  <2>2. CASE in.count < InSize
    <3>1. /\ in'.buf = [in.buf EXCEPT ![Behind(in.head, in.count)] = c]
          /\ in'.head = in.head /\ in'.count = in.count + 1
      BY <1>7, <2>2, PushedRing, TailBehindLast DEF PushChar, LineInv
    <3>2. in.count \in 0 .. InSize - 1 /\ c \in Values
      BY <1>1, <2>2, SizesAssumption DEF Values
    <3>3. Waiting' = Queued([in.buf EXCEPT ![Behind(in.head, in.count)] = c], in.head, in.count + 1)
      BY <1>3, <3>1
    <3>4. Waiting' = Append(Queued(in.buf, in.head, in.count), c)
      BY <1>1, <3>2, <3>3, QueuedAppend
    <3> QED
      BY <1>2, <1>4, <1>7, <2>2, <3>4 DEF PushChar
  <2> QED
    BY <1>1, <2>1, <2>2, SizesAssumption
<1>8. ASSUME EraseOne PROVE FALSE
  <2>1. erased' = Behind(erased, 1)
    BY <1>8, ErasedRing DEF LineInv
  <2> QED
    BY <2>1, SizesAssumption DEF Behind
<1>9. CASE PopChar
  <2>1. /\ in'.buf = in.buf /\ in'.head = Behind(in.head, 1) /\ in'.count = in.count - 1
        /\ in.count \in 1 .. InSize /\ got' = in.buf[in.head]
    BY <1>9, PoppedRing DEF LineInv, PopChar
  <2> QED
    BY <1>1, <1>2, <1>3, <2>1, QueuedTail
<1>10. CASE Reset
  <2>1. in'.count = 0 /\ got' = got
    BY <1>10 DEF Reset, Empty
  <2> QED
    BY <1>3, <2>1, QueuedNone
<1> QED
  BY <1>6, <1>7, <1>8, <1>9, <1>10, InputEffects

(* QueueUnlessErased: from a kill or a flush to the next erase, reads see  *)
(* what was typed, in order, whatever else is called in between.           *)
THEOREM LineIsQueueUnlessErased == LineSpec => QueueUnlessErased
<1>1. LineInv /\ [LineNext]_lineVars
        => [erased = 0 /\ erased' = 0 => [Line!Next]_(Line!vars)]_lineVars
  BY QueueStep
<1> QED
  BY <1>1, LineInvariant, PTL DEF LineSpec, QueueUnlessErased
=============================================================================
