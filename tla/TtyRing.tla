------------------------------ MODULE TtyRing -------------------------------
(***************************************************************************)
(* A terminal's character ring, NTTY_IBUF or NTTY_OBUF (nttty/tty.c), and  *)
(* the threads that push to it, pop from it and flush it.                  *)
(*                                                                         *)
(* Push and pop look at `count` BEFORE they take the ring's mutant and do  *)
(* not look again, so each call is several steps: the check, the wait for  *)
(* the mutant, the move of an index, the update of `count`, the release.   *)
(* A call that its check refuses returns at once and changes nothing.      *)
(* `count` is a ULONG and wraps modulo Word.                               *)
(***************************************************************************)
EXTENDS Naturals, Sequences, FiniteSets

CONSTANTS Size,        \* NTTY_IBUF_SIZE, NTTY_OBUF_SIZE
          Word,        \* 2^w, the number of ULONG values
          Chars,
          Producers,   \* threads that push
          Consumers,   \* threads that pop
          Flushers,    \* threads that flush
          Nothing      \* no thread, no character

Threads == Producers \cup Consumers \cup Flushers

ASSUME SizeAssumption ==
    Size \in Nat \ {0} /\ Word \in Nat /\ Size < Word /\ Word % Size = 0
ASSUME ThreadAssumption == Nothing \notin Threads

VARIABLES buf, head, tail, count,   \* the ring
          owner,                    \* the thread that owns the mutant
          pc,                       \* where each thread's call stands
          arg,                      \* the character each producer pushes
          got                       \* the character each consumer popped last

ring == <<buf, head, tail, count>>
vars == <<ring, owner, pc, arg, got>>

Waits == {"push_wait", "pop_wait", "flush_wait"}
Moves == {"push_move", "pop_move", "flush_move"}
Counts == {"push_count", "pop_count", "flush_count"}
Calls == {"idle", "release"} \cup Waits \cup Moves \cup Counts

Index == 0 .. Size - 1
Following(i) == (i + 1) % Size

At(t, l) == pc[t] = l
GoTo(t, l) == pc' = [pc EXCEPT ![t] = l]

(* NttyInitInputBuffer, NttyInitOutputBuffer: the record is zeroed.        *)
Init ==
    /\ buf = [i \in Index |-> Nothing]
    /\ head = 0 /\ tail = 0 /\ count = 0
    /\ owner = Nothing
    /\ pc = [t \in Threads |-> "idle"]
    /\ arg = [t \in Producers |-> Nothing]
    /\ got = [t \in Consumers |-> Nothing]

\* A check that admits one character more than there are cells.
BeginPushOffByOne(t) ==
    /\ At(t, "idle") /\ t \in Producers /\ count <= Size
    /\ \E c \in Chars : arg' = [arg EXCEPT ![t] = c]
    /\ GoTo(t, "push_wait")
    /\ UNCHANGED <<ring, owner, got>>

(* The call of a push that finds room.                                     *)
BeginPush(t) ==
    /\ At(t, "idle") /\ t \in Producers /\ count < Size
    /\ \E c \in Chars : arg' = [arg EXCEPT ![t] = c]
    /\ GoTo(t, "push_wait")
    /\ UNCHANGED <<ring, owner, got>>

(* The call of a pop that finds a character.                               *)
BeginPop(t) ==
    /\ At(t, "idle") /\ t \in Consumers /\ count # 0
    /\ GoTo(t, "pop_wait")
    /\ UNCHANGED <<ring, owner, arg, got>>

BeginFlush(t) ==
    /\ At(t, "idle") /\ t \in Flushers
    /\ GoTo(t, "flush_wait")
    /\ UNCHANGED <<ring, owner, arg, got>>

Granted(l) == CASE l = "push_wait" -> "push_move"
                [] l = "pop_wait" -> "pop_move"
                [] l = "flush_wait" -> "flush_move"

(* NttyAcquireLock on the mutant that the initialisation created.          *)
Acquire(t) ==
    /\ pc[t] \in Waits
    /\ owner = Nothing
    /\ owner' = t
    /\ GoTo(t, Granted(pc[t]))
    /\ UNCHANGED <<ring, arg, got>>

\* A push that stores behind the place `tail` has moved to.
PushMovePastTail(t) ==
    /\ At(t, "push_move")
    /\ buf' = [buf EXCEPT ![Following(tail)] = arg[t]]
    /\ tail' = Following(tail)
    /\ GoTo(t, "push_count")
    /\ UNCHANGED <<head, count, owner, arg, got>>

(* A push stores at `tail`, moves it, and then counts.                     *)
PushMove(t) ==
    /\ At(t, "push_move")
    /\ buf' = [buf EXCEPT ![tail] = arg[t]]
    /\ tail' = Following(tail)
    /\ GoTo(t, "push_count")
    /\ UNCHANGED <<head, count, owner, arg, got>>

PushCount(t) ==
    /\ At(t, "push_count")
    /\ count' = (count + 1) % Word
    /\ GoTo(t, "release")
    /\ UNCHANGED <<buf, head, tail, owner, arg, got>>

(* A pop reads at `head`, moves it, and then counts.                       *)
PopMove(t) ==
    /\ At(t, "pop_move")
    /\ got' = [got EXCEPT ![t] = buf[head]]
    /\ head' = Following(head)
    /\ GoTo(t, "pop_count")
    /\ UNCHANGED <<buf, tail, count, owner, arg>>

PopCount(t) ==
    /\ At(t, "pop_count")
    /\ count' = (count + Word - 1) % Word
    /\ GoTo(t, "release")
    /\ UNCHANGED <<buf, head, tail, owner, arg, got>>

(* A flush clears the indices, and then the count.                         *)
FlushMove(t) ==
    /\ At(t, "flush_move")
    /\ head' = 0 /\ tail' = 0
    /\ GoTo(t, "flush_count")
    /\ UNCHANGED <<buf, count, owner, arg, got>>

\* A flush that leaves `count` to whoever pops next.
FlushKeepsCount(t) ==
    /\ At(t, "flush_count")
    /\ GoTo(t, "release")
    /\ UNCHANGED <<ring, owner, arg, got>>

FlushCount(t) ==
    /\ At(t, "flush_count")
    /\ count' = 0
    /\ GoTo(t, "release")
    /\ UNCHANGED <<buf, head, tail, owner, arg, got>>

\* A return that forgets the mutant.
ReleaseForgotten(t) ==
    /\ At(t, "release")
    /\ GoTo(t, "idle")
    /\ UNCHANGED <<ring, owner, arg, got>>

Release(t) ==
    /\ At(t, "release")
    /\ owner' = Nothing
    /\ GoTo(t, "idle")
    /\ UNCHANGED <<ring, arg, got>>

Begin(t) == BeginPush(t) \/ BeginPop(t) \/ BeginFlush(t)

Locked(t) ==
    \/ PushMove(t) \/ PushCount(t)
    \/ PopMove(t) \/ PopCount(t)
    \/ FlushMove(t) \/ FlushCount(t)
    \/ Release(t)

Next == \E t \in Threads : Begin(t) \/ Acquire(t) \/ Locked(t)

Spec == Init /\ [][Next]_vars

(* A running thread goes on running, and a mutant is handed to its waiters *)
(* in turn.  Nobody has to call anything: Begin is not fair.               *)
FairSpec ==
    /\ Spec
    /\ \A t \in Threads : WF_vars(Locked(t)) /\ SF_vars(Acquire(t))

(***************************************************************************)
(* Properties.                                                             *)
(***************************************************************************)
TypeOK ==
    /\ buf \in [Index -> Chars \cup {Nothing}]
    /\ head \in Index /\ tail \in Index /\ count \in 0 .. Word - 1
    /\ owner \in Threads \cup {Nothing}
    /\ pc \in [Threads -> Calls]
    /\ arg \in [Producers -> Chars \cup {Nothing}]
    /\ got \in [Consumers -> Chars \cup {Nothing}]

(* Whenever nobody is inside, the three indices agree, however many calls  *)
(* went through at once: no update of `count` is lost, and no thread is    *)
(* caught with the ring half moved.                                        *)
RingConsistent ==
    owner = Nothing => tail = (head + count) % Size

(* Each of the producers can pass the check for room before one of the     *)
(* others counts its character, so the ring overshoots its size: by at     *)
(* most one character for every producer but one.                          *)
OvershootBounded == count <= Size + Cardinality(Producers) - 1

(* Every call that waits for the mutant returns.                           *)
CallsReturn == \A t \in Threads : pc[t] \in Waits ~> pc[t] = "idle"

(***************************************************************************)
(* With one producer, and one consumer that alone may flush, the ring is a *)
(* queue.  A pop takes effect when it moves `head`, a push when it counts. *)
(***************************************************************************)
Owned(l) == \E t \in Threads : pc[t] = l

Waiting ==
    CASE Owned("flush_count") -> 0
      [] Owned("pop_count") -> count - 1
      [] OTHER -> count

Queue == INSTANCE TtyQueue
         WITH Readers <- Consumers,
              queue <- [i \in 1 .. Waiting |-> buf[(head + i - 1) % Size]]

(* Characters are popped in the order in which they were pushed, none is   *)
(* lost or repeated, and a full ring takes no more.                        *)
ImplementsQueue == Queue!Spec
=============================================================================
