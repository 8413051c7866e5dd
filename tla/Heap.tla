-------------------------------- MODULE Heap --------------------------------
(***************************************************************************)
(* The chunk list of one FreeDLL heap (freedll/src/heap.c): first-fit      *)
(* allocation with splitting, freeing with coalescing of both neighbours,  *)
(* and reallocation.                                                       *)
(*                                                                         *)
(* Addresses are byte offsets from the HEAP_HEADER, so the first chunk's   *)
(* header stands at HeaderSize and 0 is no chunk: it plays NULL.  The      *)
(* value of `heap` holds the fields of every CHUNK_HEADER on the list,     *)
(* each as a function of the header's address; the INUSE/FREE flags are    *)
(* the set of free headers.  SIZE_T arithmetic is taken modulo Word.       *)
(***************************************************************************)
EXTENDS Integers

CONSTANTS ReserveSize,  \* the size CreateHeap reserves for the heap
          Word,         \* 2^w, the number of SIZE_T values
          Requests      \* the sizes callers ask for

HeaderSize == 32        \* sizeof(HEAP_HEADER) = sizeof(HEAP_CHUNK_HEADER), x64
Null == 0
First == HeaderSize
End == ReserveSize

ASSUME ReserveAssumption ==
    ReserveSize \in Nat /\ Word \in Nat /\ 2 * HeaderSize < ReserveSize /\ ReserveSize < Word
ASSUME RequestAssumption == Requests \subseteq 1 .. Word - 1

(* No sum that the allocator computes from a request wraps around.         *)
NoWrap == \A n \in Requests : n + 2 * HeaderSize + 7 < Word

VARIABLES heap,   \* the chunk headers
          held    \* the blocks callers hold: pointer -> size they asked for
vars == <<heap, held>>

Heads(h) == DOMAIN h.size

(***************************************************************************)
(* Operations on the chunk list.                                           *)
(***************************************************************************)
SizeT(x) == x % Word

\* ALIGN_UP without the rounding: what a build with a no-op macro would do.
AllocSizeUnaligned(n) == SizeT(n)

(* ALIGN_UP(size, sizeof(ULONG_PTR)) *)
AllocSize(n) == (SizeT(n + 7) \div 8) * 8

\* A search that looks at the flag only.
FitsAnyFree(h, c, a) == c \in h.free

(* A chunk serves a request only if another header would fit behind it.    *)
Fits(h, c, a) == c \in h.free /\ h.size[c] >= SizeT(a + HeaderSize)

(* The walk from FirstChunk along Next ends at the first chunk that fits;  *)
(* the list is in address order (Linked, below), so that one is the lowest.*)
IsFirstFit(h, c, a) ==
    /\ Fits(h, c, a)
    /\ \A d \in Heads(h) : Fits(h, d, a) => c <= d

(* The list with only the flags changed.                                   *)
Flagged(h, free) == [size |-> h.size, next |-> h.next, prev |-> h.prev, free |-> free]

(* The chunk c keeps a bytes and a new free chunk takes what is left.      *)
SplitAt(h, c, new, a, rest) ==
    [size |-> [d \in Heads(h) \cup {new} |->
                  IF d = c THEN a ELSE IF d = new THEN rest ELSE h.size[d]],
     next |-> [d \in Heads(h) \cup {new} |->
                  IF d = c THEN new ELSE IF d = new THEN h.next[c] ELSE h.next[d]],
     prev |-> [d \in Heads(h) \cup {new} |->
                  IF d = new THEN c ELSE IF d = h.next[c] THEN new ELSE h.prev[d]],
     free |-> (h.free \cup {new}) \ {c}]

\* The remainder keeps the room its own header takes.
SplitForgetsHeader(h, c, a) == SplitAt(h, c, c + HeaderSize + a, a, h.size[c] - a)

Split(h, c, a) ==
    SplitAt(h, c, SizeT(c + HeaderSize + a), a, SizeT(h.size[c] - a - HeaderSize))

(* What RtlAllocateHeap does to the chunk it found.                        *)
Carve(h, c, a) ==
    IF h.size[c] >= SizeT(a + HeaderSize + HeaderSize)
    THEN Split(h, c, a)
    ELSE Flagged(h, h.free \ {c})

(* The chunk c swallows its successor d, header included.                  *)
Absorb(h, c, d) ==
    [size |-> [e \in Heads(h) \ {d} |->
                  IF e = c THEN SizeT(h.size[c] + HeaderSize + h.size[d]) ELSE h.size[e]],
     next |-> [e \in Heads(h) \ {d} |-> IF e = c THEN h.next[d] ELSE h.next[e]],
     prev |-> [e \in Heads(h) \ {d} |-> IF e = h.next[d] THEN c ELSE h.prev[e]],
     free |-> h.free \ {d}]

Marked(h, c) == Flagged(h, h.free \cup {c})

AbsorbNext(h, c) == IF h.next[c] \in h.free THEN Absorb(h, c, h.next[c]) ELSE h

AbsorbedByPrev(h, c) == IF h.prev[c] \in h.free THEN Absorb(h, h.prev[c], c) ELSE h

\* Freeing that coalesces forwards only.
ReleaseForwardOnly(h, c) == AbsorbNext(Marked(h, c), c)

(* What RtlFreeHeap does to the chunk of the pointer.                      *)
Release(h, c) == AbsorbedByPrev(AbsorbNext(Marked(h, c), c), c)

(***************************************************************************)
(* The callers' view.                                                      *)
(***************************************************************************)
PointerOf(c) == c + HeaderSize
ChunkOf(p) == p - HeaderSize

Holding(p, n, others) == [q \in others \cup {p} |-> IF q = p THEN n ELSE held[q]]
Dropping(p) == [q \in DOMAIN held \ {p} |-> held[q]]

(* CreateHeap, or InitializeProcessHeap: one free chunk behind the two     *)
(* headers.  (A heap of exactly two headers would have no chunk at all.)   *)
Init ==
    /\ heap = [size |-> [c \in {First} |-> SizeT(ReserveSize - HeaderSize - HeaderSize)],
               next |-> [c \in {First} |-> Null],
               prev |-> [c \in {First} |-> Null],
               free |-> {First}]
    /\ held = [p \in {} |-> 0]

(* RtlAllocateHeap of a size other than 0 on a valid heap.  When nothing   *)
(* fits it answers NULL and changes nothing.                               *)
Allocate(n) ==
    \E c \in Heads(heap) :
        /\ IsFirstFit(heap, c, AllocSize(n))
        /\ heap' = Carve(heap, c, AllocSize(n))
        /\ held' = Holding(PointerOf(c), n, DOMAIN held)

(* RtlFreeHeap of a pointer the caller holds; a chunk that is not in use   *)
(* is refused.  Callers free what they hold: the pointer's chunk is the    *)
(* only check the code makes.                                              *)
Free(p) ==
    /\ ChunkOf(p) \notin heap.free
    /\ heap' = Release(heap, ChunkOf(p))
    /\ held' = Dropping(p)

(* RtlReAllocateHeap when the block already is long enough.                *)
ReallocateInPlace(p, n) ==
    /\ n <= heap.size[ChunkOf(p)]
    /\ held' = Holding(p, n, DOMAIN held)
    /\ UNCHANGED heap

\* A failed reallocation that frees the old block all the same.
MoveFreesOnFailure(p, n) ==
    /\ n > heap.size[ChunkOf(p)]
    /\ \A c \in Heads(heap) : ~ Fits(heap, c, AllocSize(n))
    /\ heap' = Release(heap, ChunkOf(p))
    /\ UNCHANGED held

(* RtlReAllocateHeap when it is not: allocate, copy, free the old block.   *)
(* When nothing fits it answers NULL and the caller keeps the old block.   *)
ReallocateByMoving(p, n) ==
    /\ n > heap.size[ChunkOf(p)]
    /\ \E c \in Heads(heap) :
           /\ IsFirstFit(heap, c, AllocSize(n))
           /\ heap' = Release(Carve(heap, c, AllocSize(n)), ChunkOf(p))
           /\ held' = Holding(PointerOf(c), n, DOMAIN held \ {p})

Next ==
    \/ \E n \in Requests : Allocate(n)
    \/ \E p \in DOMAIN held : Free(p)
    \/ \E p \in DOMAIN held, n \in Requests : ReallocateInPlace(p, n)
    \/ \E p \in DOMAIN held, n \in Requests : ReallocateByMoving(p, n)

Spec == Init /\ [][Next]_vars

(***************************************************************************)
(* Properties.                                                             *)
(***************************************************************************)
Typed(h) ==
    /\ Heads(h) \subseteq Nat \ {Null}
    /\ h.size \in [Heads(h) -> Nat]
    /\ h.next \in [Heads(h) -> Heads(h) \cup {Null}]
    /\ h.prev \in [Heads(h) -> Heads(h) \cup {Null}]
    /\ h.free \subseteq Heads(h)

(* Every chunk header's fields, and every held pointer, are well formed:   *)
(* the lists' links lead to headers that exist.                            *)
TypeOK ==
    /\ Typed(heap)
    /\ DOMAIN held \subseteq Nat
    /\ held \in [DOMAIN held -> Requests]

(* The list is in address order and tiles the heap: the successor stands   *)
(* where the chunk ends, points back, and the last chunk ends with the     *)
(* heap.  Whatever sequence of splits and merges, no byte is lost and no   *)
(* two chunks overlap.                                                     *)
Linked(h) ==
    /\ First \in Heads(h) /\ h.prev[First] = Null
    /\ \A c \in Heads(h) : First <= c /\ c + HeaderSize + h.size[c] <= End
    /\ \A c \in Heads(h) :
          IF h.next[c] = Null
          THEN c + HeaderSize + h.size[c] = End
          ELSE h.next[c] = c + HeaderSize + h.size[c] /\ h.prev[h.next[c]] = c
    /\ \A c \in Heads(h) : h.prev[c] # Null => h.next[h.prev[c]] = c
    /\ \A c, d \in Heads(h) : c < d => c + HeaderSize + h.size[c] <= d

ChunksTile == Linked(heap)

(* What a caller holds is its own: the bytes it asked for lie inside the   *)
(* heap, clear of every other caller's bytes and of every chunk header the *)
(* allocator writes.                                                       *)
BlocksDisjoint ==
    \A p \in DOMAIN held :
        /\ p + held[p] <= End
        /\ \A q \in DOMAIN held : p < q => p + held[p] <= q
        /\ \A c \in Heads(heap) : c + HeaderSize <= p \/ p + held[p] <= c

(* A chunk handed out is as long as what was asked for.                    *)
GrantFits == \A p \in DOMAIN held : held[p] <= heap.size[ChunkOf(p)]

(* RtlFreeHeap will accept every pointer a caller holds, its chunk is long *)
(* enough, and no chunk is in use that nobody holds: a failed reallocation *)
(* neither frees the old block nor leaks a new one.                        *)
HeldPointersValid ==
    /\ DOMAIN held = {PointerOf(c) : c \in Heads(heap) \ heap.free}
    /\ GrantFits

(* Two free chunks are never neighbours: RtlFreeHeap coalesces both ways,  *)
(* also when it frees the old block of a reallocation.                     *)
NoAdjacentFree(h) == \A c \in h.free : h.next[c] \notin h.free

Coalesced == NoAdjacentFree(heap)

(* When callers have given everything back the heap is again the one chunk *)
(* it was created with, whatever the order of the frees.                   *)
EmptyHeapIsWhole ==
    DOMAIN held = {} =>
        /\ Heads(heap) = {First}
        /\ heap.size[First] = ReserveSize - 2 * HeaderSize

(* The abstract allocator the heap implements: it grants only addresses    *)
(* aligned to sizeof(ULONG_PTR).                                           *)
Allocator == INSTANCE BlockAllocator
             WITH Addresses <- {p \in First .. End : p % 8 = 0}, Limit <- End

(* Every step of the heap is a step of the abstract allocator or none.     *)
ImplementsAllocator == Allocator!Spec
=============================================================================
