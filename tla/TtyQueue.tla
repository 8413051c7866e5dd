------------------------------ MODULE TtyQueue ------------------------------
(***************************************************************************)
(* What a terminal buffer promises, without cells and indices: characters  *)
(* come out in the order in which they went in, at most Size of them wait, *)
(* and none is lost, repeated or made up.                                  *)
(***************************************************************************)
EXTENDS Naturals, Sequences

CONSTANTS Chars,     \* the characters
          Size,      \* how many can wait
          Readers,   \* who takes characters out
          Nothing    \* what a reader has before its first character

VARIABLES queue,     \* the waiting characters, oldest first
          got        \* the character each reader was given last

vars == <<queue, got>>

Init ==
    /\ queue = <<>>
    /\ got = [r \in Readers |-> Nothing]

Put(c) ==
    /\ Len(queue) < Size
    /\ queue' = Append(queue, c)
    /\ UNCHANGED got

Get(r) ==
    /\ queue # <<>>
    /\ got' = [got EXCEPT ![r] = Head(queue)]
    /\ queue' = Tail(queue)

Clear ==
    /\ queue' = <<>>
    /\ UNCHANGED got

Next ==
    \/ \E c \in Chars : Put(c)
    \/ \E r \in Readers : Get(r)
    \/ Clear

Spec == Init /\ [][Next]_vars
=============================================================================
