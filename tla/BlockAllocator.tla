--------------------------- MODULE BlockAllocator ---------------------------
(***************************************************************************)
(* What a heap promises its callers, without chunks, headers or lists:     *)
(* blocks of the requested length, at addresses of their own, that stay    *)
(* where they are until they are freed or reallocated.                     *)
(***************************************************************************)
EXTENDS Integers

CONSTANTS Addresses,   \* the addresses a block may start at
          Requests,    \* the lengths callers ask for
          Limit        \* the first address behind the heap

VARIABLE held          \* the blocks callers hold: address -> requested length

(* The bytes from p on, n of them, collide with no held block but those in  *)
(* `except`, and lie below the end of the heap.                             *)
Unclaimed(p, n, except) ==
    /\ p + n <= Limit
    /\ \A q \in DOMAIN held \ except : p + n <= q \/ q + held[q] <= p

Holding(p, n, others) == [q \in others \cup {p} |-> IF q = p THEN n ELSE held[q]]

Init == held = [p \in {} |-> 0]

Grant(n) ==
    \E p \in Addresses \ DOMAIN held :
        /\ Unclaimed(p, n, {})
        /\ held' = Holding(p, n, DOMAIN held)

Return(p) == held' = [q \in DOMAIN held \ {p} |-> held[q]]

(* The block keeps its address and changes its length.                     *)
Resize(p, n) ==
    /\ Unclaimed(p, n, {p})
    /\ held' = Holding(p, n, DOMAIN held)

(* The block moves to a place that the old one does not touch, so that the *)
(* contents can be copied, and the old place is given back.                *)
Move(p, n) ==
    \E q \in Addresses \ DOMAIN held :
        /\ Unclaimed(q, n, {})
        /\ held' = Holding(q, n, DOMAIN held \ {p})

Next ==
    \/ \E n \in Requests : Grant(n)
    \/ \E p \in DOMAIN held : Return(p)
    \/ \E p \in DOMAIN held, n \in Requests : Resize(p, n) \/ Move(p, n)

Spec == Init /\ [][Next]_held
=============================================================================
