----------------------------- MODULE TtyDevices -----------------------------
(***************************************************************************)
(* The terminals of NTTTY (nttty/tty.c, 552-721): the list of devices and  *)
(* the count that gives them their ids, while threads create and close     *)
(* devices and the subsystem is shut down and initialised again.           *)
(*                                                                         *)
(* The list is changed under list_lock; the count is raised without it, in *)
(* two steps, and lowered under it, in two steps.  What callers are taken  *)
(* to keep to: a device is closed once, by whoever holds it; nobody closes *)
(* devices while another shuts down, after which nobody holds one that was *)
(* on the list; NttyInitialize comes when nobody is at the lock, which it  *)
(* replaces.  A creation may be under way at any time.                     *)
(*                                                                         *)
(* Left out: a device's contents (TtyRing, TtyLine), its mutants and       *)
(* events, and its reference count, which starts at 1 and nothing raises.  *)
(***************************************************************************)
EXTENDS Naturals, LinkedList

CONSTANTS Threads,
          Cells,           \* where RtlAllocateHeap may put a device
          NULL,
          MaxCount         \* bound: no creation starts at this count

ASSUME DevicesAssumption == NULL \notin Threads \cup Cells /\ MaxCount \in Nat

VARIABLES initialized, device_count, device_list,
          owner,           \* the thread that has list_lock
          used,            \* cells that are allocated
          id, next,        \* fields of a device
          pc, device, seen,\* where the call of a thread is, and its locals
          held,            \* devices that callers have
          fresh,           \* history: devices that took their id alone and
                           \* since when the count was not lowered or reset
          late             \* history: devices that a shutdown missed

global == <<initialized, device_count, device_list>>
vars == <<global, owner, used, id, next, pc, device, seen, held, fresh, late>>

Init ==
    /\ initialized = FALSE /\ device_count = 0 /\ device_list = NULL
    /\ owner = NULL
    /\ used = {} /\ held = {} /\ fresh = {} /\ late = {}
    /\ id = [c \in Cells |-> 0]
    /\ next = [c \in Cells |-> NULL]
    /\ pc = [t \in Threads |-> "idle"]
    /\ device = [t \in Threads |-> NULL]
    /\ seen = [t \in Threads |-> 0]

At(t, from, to) == pc[t] = from /\ pc' = [pc EXCEPT ![t] = to]

Somewhere(places) == \E t \in Threads : pc[t] \in places

(* The call of `t` returns, and its locals are gone.                       *)
Return(t, from) ==
    /\ At(t, from, "idle")
    /\ device' = [device EXCEPT ![t] = NULL]
    /\ seen' = [seen EXCEPT ![t] = 0]

(* RtlFreeHeap: what the fields held is lost.                              *)
Freed(d) ==
    /\ used' = used \ {d}
    /\ id' = [id EXCEPT ![d] = 0]
    /\ next' = [next EXCEPT ![d] = NULL]

(* Between the read and the write of a `++` or a `--` of device_count.     *)
Updating == {t \in Threads : pc[t] \in {"raising", "lowering", "sweeping on"}}

ShuttingDown == Somewhere({"sweeping", "sweeping on", "stopping"})

OnList == Walk(device_list, next)

(* The walk over the links for `d`, and the one store that takes it out.   *)
Unlink(d) ==
    IF device_list = d
    THEN device_list' = next[d] /\ UNCHANGED next
    ELSE LET Prev == {c \in OnList : next[c] = d} IN
         /\ next' = [c \in Cells |-> IF c \in Prev THEN next[d] ELSE next[c]]
         /\ UNCHANGED device_list

(***************************************************************************)
(* NttyInitialize and NttyShutdown.                                        *)
(***************************************************************************)
Initialize ==
    /\ ~initialized
    /\ owner = NULL /\ ~Somewhere({"closing"})
    /\ initialized' = TRUE /\ device_count' = 0 /\ device_list' = NULL
    /\ fresh' = {}
    /\ UNCHANGED <<owner, used, id, next, pc, device, seen, held, late>>

BeginShutdown(t) ==
    /\ initialized /\ ~ShuttingDown /\ ~Somewhere({"closing", "lowering"})
    /\ owner = NULL
    /\ At(t, "idle", "sweeping")
    /\ owner' = t
    /\ device' = [device EXCEPT ![t] = device_list]
    /\ held' = held \ OnList
    /\ UNCHANGED <<global, used, id, next, seen, fresh, late>>

(* NttyCloseDevice of each device listed; list_lock is owned already.      *)
Sweep(t) ==
    /\ device[t] # NULL
    /\ At(t, "sweeping", "sweeping on")
    /\ Unlink(device[t])
    /\ seen' = [seen EXCEPT ![t] = device_count]
    /\ fresh' = {}
    /\ UNCHANGED <<initialized, device_count, owner, used, id, device, held, late>>

\* A count read before a creation and written after it may be lost.
Lowered(t) == IF seen[t] > 0 THEN seen[t] - 1 ELSE device_count

SweepOn(t) ==
    /\ At(t, "sweeping on", "sweeping")
    /\ device_count' = Lowered(t)
    /\ Freed(device[t])
    /\ device' = [device EXCEPT ![t] = next[device[t]]]
    /\ seen' = [seen EXCEPT ![t] = 0]
    /\ UNCHANGED <<initialized, device_list, owner, held, fresh, late>>

EndSweep(t) ==
    /\ device[t] = NULL
    /\ At(t, "sweeping", "stopping")
    /\ owner' = NULL
    /\ UNCHANGED <<global, used, id, next, device, seen, held, fresh, late>>

(* Devices linked since the sweep stay listed, until NttyInitialize sets   *)
(* the list anew.                                                          *)
Stop(t) ==
    /\ Return(t, "stopping")
    /\ initialized' = FALSE
    /\ UNCHANGED <<device_count, device_list, owner, used, id, next, held, fresh, late>>

(***************************************************************************)
(* NttyCreateDevice.                                                       *)
(***************************************************************************)
(* The memory, and id = device_count++, without the lock.                  *)
BeginCreate(t) ==
    /\ initialized
    /\ device_count < MaxCount
    /\ At(t, "idle", "raising")
    /\ \E c \in Cells \ used :
          /\ used' = used \cup {c}
          /\ id' = [id EXCEPT ![c] = device_count]
          /\ next' = [next EXCEPT ![c] = NULL]
          /\ device' = [device EXCEPT ![t] = c]
          /\ fresh' = IF Updating = {} THEN fresh \cup {c}
                                       ELSE fresh \ {device[u] : u \in Updating}
    /\ seen' = [seen EXCEPT ![t] = device_count]
    /\ UNCHANGED <<global, owner, held, late>>

WriteCount(t) ==
    /\ At(t, "raising", "building")
    /\ device_count' = seen[t] + 1
    /\ seen' = [seen EXCEPT ![t] = 0]
    /\ UNCHANGED <<initialized, device_list, owner, used, id, next, device, held, fresh, late>>

\* A failed creation that gives its number back.
FailCreateLowering(t) ==
    /\ Return(t, "building")
    /\ device_count > 0 /\ device_count' = device_count - 1
    /\ Freed(device[t])
    /\ fresh' = fresh \ {device[t]}
    /\ UNCHANGED <<initialized, device_list, owner, held, late>>

(* A buffer's mutant or an event cannot be made: the memory goes, the      *)
(* number is spent.                                                        *)
FailCreate(t) ==
    /\ Return(t, "building")
    /\ Freed(device[t])
    /\ fresh' = fresh \ {device[t]}
    /\ UNCHANGED <<global, owner, held, late>>

\* Without waiting for list_lock.
StartLinkUnlocked(t) ==
    /\ At(t, "building", "linking")
    /\ owner' = t
    /\ next' = [next EXCEPT ![device[t]] = device_list]
    /\ UNCHANGED <<global, used, id, device, seen, held, fresh, late>>

StartLink(t) ==
    /\ owner = NULL
    /\ At(t, "building", "linking")
    /\ owner' = t
    /\ next' = [next EXCEPT ![device[t]] = device_list]
    /\ UNCHANGED <<global, used, id, device, seen, held, fresh, late>>

Link(t) ==
    /\ Return(t, "linking")
    /\ device_list' = device[t]
    /\ owner' = NULL
    /\ held' = held \cup {device[t]}
    /\ late' = IF initialized /\ ~Somewhere({"stopping"}) THEN late ELSE late \cup {device[t]}
    /\ UNCHANGED <<initialized, device_count, used, id, next, fresh>>

(***************************************************************************)
(* NttyCloseDevice by a caller.                                            *)
(***************************************************************************)
BeginClose(t) ==
    /\ ~ShuttingDown
    /\ At(t, "idle", "closing")
    /\ \E c \in held :
          /\ held' = held \ {c}
          /\ device' = [device EXCEPT ![t] = c]
    /\ UNCHANGED <<global, owner, used, id, next, seen, fresh, late>>

TakeOut(t) ==
    /\ owner = NULL
    /\ At(t, "closing", "lowering")
    /\ owner' = t
    /\ Unlink(device[t])
    /\ seen' = [seen EXCEPT ![t] = device_count]
    /\ fresh' = {}
    /\ UNCHANGED <<initialized, device_count, used, id, device, held, late>>

Close(t) ==
    /\ Return(t, "lowering")
    /\ device_count' = Lowered(t)
    /\ owner' = NULL
    /\ Freed(device[t])
    /\ late' = late \ {device[t]}
    /\ UNCHANGED <<initialized, device_list, held, fresh>>

Next ==
    \/ Initialize
    \/ \E t \in Threads :
          \/ BeginShutdown(t) \/ Sweep(t) \/ SweepOn(t) \/ EndSweep(t) \/ Stop(t)
          \/ BeginCreate(t) \/ WriteCount(t) \/ FailCreate(t)
          \/ StartLink(t) \/ Link(t)
          \/ BeginClose(t) \/ TakeOut(t) \/ Close(t)

Spec == Init /\ [][Next]_vars

(***************************************************************************)
(* Properties.                                                             *)
(***************************************************************************)
Places == {"idle", "raising", "building", "linking", "closing",
           "lowering", "sweeping", "sweeping on", "stopping"}

(* Every variable has a value of its type.                                 *)
TypeOK ==
    /\ initialized \in BOOLEAN /\ device_count \in Nat
    /\ device_list \in Cells \cup {NULL} /\ owner \in Threads \cup {NULL}
    /\ used \subseteq Cells /\ held \subseteq Cells /\ fresh \subseteq Cells /\ late \subseteq Cells
    /\ id \in [Cells -> Nat] /\ next \in [Cells -> Cells \cup {NULL}]
    /\ pc \in [Threads -> Places] /\ seen \in [Threads -> Nat]
    /\ device \in [Threads -> Cells \cup {NULL}]

(* The count has passed the id of a device that took it alone, so that the *)
(* next one gets another, and no two such devices share one: until a close *)
(* lowers the count.                                                       *)
IdsTellApart ==
    \A c \in fresh :
        /\ device_count > id[c] \/ \E t \in Updating : device[t] = c
        /\ \A d \in fresh : id[c] = id[d] => c = d

(* The list has each device that callers hold, but for those a shutdown    *)
(* missed, no device that is gone, and after a shutdown only those that it *)
(* missed, which the next NttyInitialize forgets.                          *)
DevicesListed ==
    LET unlinking == {device[t] : t \in {u \in Threads : pc[u] = "closing"}}
    IN  /\ OnList \subseteq used /\ held \subseteq used
        /\ (held \cup unlinking) \ OnList \subseteq late
        /\ OnList \subseteq held \cup unlinking \/ ShuttingDown
        /\ ~initialized => OnList \subseteq late
=============================================================================
