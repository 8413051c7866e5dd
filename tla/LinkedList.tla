----------------------------- MODULE LinkedList -----------------------------
(***************************************************************************)
(* The lists of heaps and of devices: a head, and in each element the link *)
(* to the next.  What is not an element ends the walk.                     *)
(***************************************************************************)

(* A walk that is in S stays there.                                        *)
Closed(S, head, link) ==
    ({head} \cup {link[x] : x \in S}) \cap DOMAIN link \subseteq S

(* The elements that a walk from the head along the links meets: those of  *)
(* every set that no walk leaves.                                          *)
Walk(head, link) ==
    {x \in DOMAIN link : \A S \in SUBSET DOMAIN link : Closed(S, head, link) => x \in S}
=============================================================================
