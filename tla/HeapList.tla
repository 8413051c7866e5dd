------------------------------ MODULE HeapList ------------------------------
(***************************************************************************)
(* The heaps of a process (freedll/src/heap.c, 47-141): the process heap,  *)
(* created when first asked for, private heaps, and the list that links    *)
(* them all.  What happens inside one heap is in module Heap.              *)
(*                                                                         *)
(* A heap is the address of its header.  The system may give an address    *)
(* out again once it was freed, or give none.  Callers destroy heaps they  *)
(* know, each once; the process heap, which everybody knows, is one.       *)
(***************************************************************************)
EXTENDS Integers, Sequences, LinkedList

CONSTANTS Addresses,     \* where the system may put a heap
          NULL

ASSUME HeapListAssumption == NULL \notin Addresses

VARIABLES g_ProcessHeap,
          g_HeapList,
          NextHeap,      \* of every heap that is mapped
          listed,        \* history: the heaps since the list began, newest first
          broken         \* history: somebody destroyed the process heap

heapVars == <<g_ProcessHeap, g_HeapList, NextHeap, listed, broken>>

Mapped == DOMAIN NextHeap

HeapInit ==
    /\ g_ProcessHeap = NULL /\ g_HeapList = NULL
    /\ NextHeap = [h \in {} |-> NULL]
    /\ listed = <<>> /\ broken = FALSE

Linked(h, next) == [x \in Mapped \cup {h} |-> IF x = h THEN next ELSE NextHeap[x]]

(* The list begins with the process heap: heaps made before are off it.    *)
CreateProcessHeap ==
    \E h \in Addresses \ Mapped :
        /\ g_ProcessHeap' = h /\ g_HeapList' = h
        /\ NextHeap' = Linked(h, NULL)
        /\ listed' = <<h>>
        /\ UNCHANGED broken

(* InitializeProcessHeap, which the attach, GetProcessHeap and the calls   *)
(* that are given no heap all begin with.  A failure is tried again by the *)
(* next of them.                                                           *)
InitializeProcessHeap ==
    \/ g_ProcessHeap # NULL /\ UNCHANGED heapVars
    \/ g_ProcessHeap = NULL /\ (CreateProcessHeap \/ UNCHANGED heapVars)

CreateHeap ==
    \E h \in Addresses \ Mapped :
        /\ NextHeap' = Linked(h, g_HeapList) /\ g_HeapList' = h
        /\ listed' = <<h>> \o listed
        /\ UNCHANGED <<g_ProcessHeap, broken>>

\* A removal that only knows the head of the list.
UnlinkHeadOnly(h) ==
    /\ g_HeapList' = IF g_HeapList = h THEN NextHeap[h] ELSE g_HeapList
    /\ NextHeap' = [x \in Mapped \ {h} |-> NextHeap[x]]

(* The head, or the link of the heap before h on the list; a heap that is  *)
(* on no list is freed all the same.                                       *)
Unlink(h) ==
    LET Prev == {x \in Walk(g_HeapList, NextHeap) : g_HeapList # h /\ NextHeap[x] = h} IN
    /\ g_HeapList' = IF g_HeapList = h THEN NextHeap[h] ELSE g_HeapList
    /\ NextHeap' = [x \in Mapped \ {h} |->
                       IF x \in Prev THEN NextHeap[h] ELSE NextHeap[x]]

PositionOf(h) == CHOOSE i \in 1 .. Len(listed) : listed[i] = h

(* What history makes of it.                                               *)
Unlisted(h) ==
    IF \E i \in 1 .. Len(listed) : listed[i] = h
    THEN [i \in 1 .. Len(listed) - 1 |->
             IF i < PositionOf(h) THEN listed[i] ELSE listed[i + 1]]
    ELSE listed

(* DestroyHeap: any heap, the process heap too, whose global stays.        *)
DestroyHeap ==
    \E h \in Mapped :
        /\ Unlink(h)
        /\ listed' = Unlisted(h)
        /\ broken' = (broken \/ h = g_ProcessHeap)
        /\ UNCHANGED g_ProcessHeap

HeapNext == InitializeProcessHeap \/ CreateHeap \/ DestroyHeap
(***************************************************************************)
(* Properties.                                                             *)
(***************************************************************************)
HeapTypeOK ==
    /\ g_ProcessHeap \in Addresses \cup {NULL} /\ g_HeapList \in Addresses \cup {NULL}
    /\ Mapped \subseteq Addresses /\ NextHeap \in [Mapped -> Addresses \cup {NULL}]
    /\ listed \in Seq(Addresses) /\ broken \in BOOLEAN

(* The list is a list whatever is created and destroyed in whatever order, *)
(* and an address given out again: from its head it leads through every    *)
(* heap that was created since it began, newest first, through none that   *)
(* was freed and none made before it, to NULL.  The process heap is its    *)
(* last as long as nobody destroys it; before, the list has no such end.   *)
HeapListSound ==
    /\ g_HeapList = IF listed = <<>> THEN NULL ELSE listed[1]
    /\ \A i \in 1 .. Len(listed) :
          /\ listed[i] \in Mapped
          /\ NextHeap[listed[i]] = IF i = Len(listed) THEN NULL ELSE listed[i + 1]
    /\ g_ProcessHeap # NULL /\ ~broken =>
          listed # <<>> /\ g_ProcessHeap = listed[Len(listed)]
=============================================================================
