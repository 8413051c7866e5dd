---------------------------- MODULE Descriptors -----------------------------
(***************************************************************************)
(* What POSIX promises of file descriptors, without handles and slots: a   *)
(* descriptor names an open file description, two descriptors of the same  *)
(* description share its offset, a new descriptor is the lowest that is    *)
(* free, and a call that fails leaves the table alone.                     *)
(***************************************************************************)
EXTENDS Integers

CONSTANTS MaxFds,         \* how many descriptors there are
          Descriptions,   \* the open file descriptions
          Offsets         \* the places in a file

VARIABLES table,    \* the description of each descriptor in use
          offset    \* the offset of each description

vars == <<table, offset>>

InUse == {table[fd] : fd \in DOMAIN table}

IsLowest(fd) ==
    /\ fd \in 0 .. MaxFds - 1 /\ fd \notin DOMAIN table
    /\ \A i \in 0 .. fd - 1 : i \in DOMAIN table

(* A description that nobody names is at its beginning again.              *)
Named(t) == [d \in Descriptions |-> IF \E fd \in DOMAIN t : t[fd] = d THEN offset[d] ELSE 0]

WithEntry(fd, d) == [i \in DOMAIN table \cup {fd} |-> IF i = fd THEN d ELSE table[i]]

Init ==
    /\ table = [fd \in {} |-> 0]
    /\ offset = [d \in Descriptions |-> 0]

(* A description of its own, at the start of the file.                     *)
Open(fd, d) ==
    /\ IsLowest(fd) /\ d \notin InUse
    /\ table' = WithEntry(fd, d)
    /\ offset' = [offset EXCEPT ![d] = 0]

Dup(old, fd) ==
    /\ IsLowest(fd)
    /\ table' = WithEntry(fd, table[old])
    /\ UNCHANGED offset

(* Reads, writes and seeks move the offset of their own description only.  *)
Move(fd, k) ==
    /\ offset' = [offset EXCEPT ![table[fd]] = k]
    /\ UNCHANGED table

Close(fd) ==
    /\ table' = [i \in DOMAIN table \ {fd} |-> table[i]]
    /\ offset' = Named(table')

(* The end of the process closes everything.                               *)
Exit ==
    /\ table' = [fd \in {} |-> 0]
    /\ offset' = Named(table')

Next ==
    \/ \E fd \in 0 .. MaxFds - 1, d \in Descriptions : Open(fd, d)
    \/ \E old \in DOMAIN table, fd \in 0 .. MaxFds - 1 : Dup(old, fd)
    \/ \E fd \in DOMAIN table, k \in Offsets : Move(fd, k)
    \/ \E fd \in DOMAIN table : Close(fd)
    \/ Exit

Spec == Init /\ [][Next]_vars
=============================================================================
