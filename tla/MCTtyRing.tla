----------------------------- MODULE MCTtyRing ------------------------------
(* Rings of two or three cells, which a few calls fill and wrap around, and *)
(* a ULONG of a few values.                                                 *)
EXTENDS TtyRing
=============================================================================
