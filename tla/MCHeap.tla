------------------------------- MODULE MCHeap -------------------------------
(* One heap of a few hundred bytes.  The requests include one that is       *)
(* aligned up, one whose chunk is reused unsplit and one that only a merged *)
(* chunk can serve.                                                         *)
EXTENDS Heap
=============================================================================
