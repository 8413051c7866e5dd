--------------------------- MODULE TtyRingProofs ----------------------------
(***************************************************************************)
(* A ring of any size with one producer, and one consumer that alone may   *)
(* flush, is a queue, although the checks of push and pop run unlocked:    *)
(* between a producer's check and its push only pops and flushes touch the *)
(* ring, between a consumer's check and its pop only pushes do.  At a ring *)
(* with any threads the indices still agree, and its overshoot is bounded. *)
(***************************************************************************)
EXTENDS TtyRing, Integers, SequenceTheorems, FiniteSetTheorems, TLAPS

(* The threads that NttyRead, NttyFlush and the line discipline's input    *)
(* run on.                                                                 *)
OneReader ==
    \E p, c : Producers = {p} /\ Consumers = {c} /\ Flushers \subseteq {c}

Critical == Moves \cup Counts \cup {"release"}
Pushing == {"push_wait", "push_move", "push_count"}
Popping == {"pop_wait", "pop_move", "pop_count"}

(* Only the owner of the mutant is between its acquisition and its release. *)
Mutex == \A t \in Threads : pc[t] \in Critical <=> owner = t

(* What a passed check is still worth while its call lasts.                *)
ChecksHold ==
    /\ \A t \in Threads : pc[t] \in Pushing =>
          t \in Producers /\ count < Size /\ arg[t] \in Chars
    /\ \A t \in Threads : pc[t] \in Popping => t \in Consumers /\ count > 0
    /\ \A t \in Threads : pc[t] \in {"flush_wait", "flush_move", "flush_count"} =>
          t \in Flushers

(* The cell i places behind the head.                                      *)
Cell(h, i) == IF h + i < Size THEN h + i ELSE h + i - Size

(* Where the call that owns the ring stands.                               *)
Mode == IF owner = Nothing THEN "free" ELSE pc[owner]

(* How `tail` relates to the other indices, also when the ring is half     *)
(* moved.                                                                  *)
Indices ==
    /\ Mode = "push_count" => tail = Cell(head, count + 1)
    /\ Mode = "pop_count" => tail = Cell(head, count - 1)
    /\ Mode = "flush_count" => head = 0 /\ tail = 0
    /\ Mode \notin Counts => tail = Cell(head, count)

(* The character a push has stored and not yet counted.                    *)
StoredNext ==
    Mode = "push_count" => buf[Cell(head, count)] = arg[owner]

RingInv == TypeOK /\ Mutex /\ ChecksHold /\ count <= Size /\ Indices /\ StoredNext

(***************************************************************************)
(* Arithmetic.                                                             *)
(***************************************************************************)
(* The remainder of a sum of two indices.                                  *)
LEMMA CellIsRemainder ==
    \A h \in Index, i \in 0 .. Size : (h + i) % Size = Cell(h, i)
<1>1. \A x \in 0 .. 2 * Size - 1 : x % Size = IF x < Size THEN x ELSE x - Size
  BY SizeAssumption, SMTT(20)
<1> QED
  BY <1>1, SizeAssumption DEF Cell, Index

(* An index steps to the next cell.                                        *)
LEMMA FollowingCell ==
    \A h \in Index : Following(h) = Cell(h, 1) /\ Following(h) \in Index
<1>1. 1 \in 0 .. Size
  BY SizeAssumption
<1> QED
  BY <1>1, CellIsRemainder, SizeAssumption DEF Cell, Following, Index

(* `count` does not wrap while it stays in the ring's size.                *)
LEMMA CountSmall ==
    \A n \in 0 .. Size : /\ n < Size => (n + 1) % Word = n + 1
                         /\ n > 0 => (n + Word - 1) % Word = n - 1
<1>1. \A x \in 0 .. Word - 1 : x % Word = x
  BY SizeAssumption, SMTT(20)
<1>2. \A x \in 0 .. Word - 1 : (x + Word) % Word = x
  BY SizeAssumption, SMTT(20)
<1> TAKE n \in 0 .. Size
<1>3. n < Size => n + 1 \in 0 .. Word - 1
  BY SizeAssumption
<1>4. n > 0 => n - 1 \in 0 .. Word - 1 /\ n + Word - 1 = (n - 1) + Word
  BY SizeAssumption
<1> QED
  BY <1>1, <1>2, <1>3, <1>4

(***************************************************************************)
(* The invariant.                                                          *)
(***************************************************************************)
(* A freshly zeroed ring satisfies it.                                     *)
LEMMA InitRingInv == Init => RingInv
<1> SUFFICES ASSUME Init PROVE RingInv
  OBVIOUS
<1>1. Mode = "free"
  BY DEF Init, Mode
<1>2. TypeOK
  BY SizeAssumption DEF Init, TypeOK, Index, Calls
<1>3. Mutex
  BY ThreadAssumption DEF Init, Mutex, Critical, Moves, Counts
<1>4. ChecksHold
  BY DEF Init, ChecksHold, Pushing, Popping
<1>5. Indices /\ StoredNext /\ count <= Size
  BY <1>1, SizeAssumption DEF Init, Indices, StoredNext, Cell, Counts
<1> QED
  BY <1>2, <1>3, <1>4, <1>5 DEF RingInv

(* Calls that begin touch neither the ring nor the mutant.                 *)
LEMMA BeginInv ==
    ASSUME RingInv, NEW t \in Threads, Begin(t)
    PROVE  RingInv'
<1>1. /\ pc[t] = "idle" /\ pc' = [pc EXCEPT ![t] = pc'[t]]
      /\ pc'[t] \in Waits
      /\ UNCHANGED <<ring, owner>>
  BY DEF Begin, BeginPush, BeginPop, BeginFlush, At, GoTo, Waits, RingInv, TypeOK
<1>2. TypeOK'
  BY <1>1 DEF Begin, BeginPush, BeginPop, BeginFlush, RingInv, TypeOK, ring, Calls
<1>3. owner # t
  BY <1>1 DEF RingInv, Mutex, Critical, Moves, Counts
<1>4. Mutex'
  BY <1>1, <1>3 DEF RingInv, Mutex, TypeOK, Critical, Moves, Counts, Waits
<1>5. ChecksHold'
  BY <1>1, <1>2 DEF Begin, BeginPush, BeginPop, BeginFlush, At, GoTo, RingInv, ChecksHold,
     TypeOK, ring, Pushing, Popping
<1>6. Mode' = Mode /\ (Mode = "push_count" => arg'[owner] = arg[owner])
  <2>1. Mode' = Mode
    BY <1>1, <1>3 DEF Mode, RingInv, TypeOK
  <2>2. Mode = "push_count" => owner \in Producers /\ owner # t
    BY <1>3 DEF Mode, RingInv, TypeOK, ChecksHold, Pushing
  <2> QED
    BY <2>1, <2>2 DEF RingInv, TypeOK, Begin, BeginPush, BeginPop, BeginFlush
<1>7. Indices' /\ StoredNext' /\ count' <= Size
  BY <1>1, <1>6 DEF RingInv, Indices, StoredNext, ring
<1> QED
  BY <1>2, <1>4, <1>5, <1>7 DEF RingInv

(* A granted wait makes its thread the only one inside.                    *)
LEMMA AcquireInv ==
    ASSUME RingInv, NEW t \in Threads, Acquire(t)
    PROVE  RingInv'
<1>1. TypeOK'
  BY DEF Acquire, GoTo, Granted, Waits, RingInv, TypeOK, ring, Calls, Moves
<1>2. /\ owner = Nothing /\ owner' = t /\ t # Nothing
      /\ pc[t] \in Waits /\ pc' = [pc EXCEPT ![t] = Granted(pc[t])]
      /\ UNCHANGED <<ring, arg>>
  BY ThreadAssumption DEF Acquire, GoTo, RingInv, TypeOK
<1>3. Granted(pc[t]) \in Moves /\ pc'[t] = Granted(pc[t])
  BY <1>2 DEF Granted, Waits, Moves, RingInv, TypeOK
<1>4. Mutex'
  BY <1>2, <1>3, ThreadAssumption DEF RingInv, Mutex, TypeOK, Critical, Moves
<1>5. ChecksHold'
  BY <1>2, <1>3 DEF RingInv, ChecksHold, TypeOK, Granted, Waits, Pushing, Popping, ring
<1>6. Mode = "free" /\ Mode' \in Moves
  BY <1>2, <1>3 DEF Mode
<1>7. Indices' /\ StoredNext' /\ count' <= Size
  BY <1>2, <1>6 DEF RingInv, Indices, StoredNext, ring, Moves, Counts
<1> QED
  BY <1>1, <1>4, <1>5, <1>7 DEF RingInv

(* What the owner does next, and what nobody else does meanwhile.          *)
LEMMA OwnerAlone ==
    ASSUME RingInv, NEW t \in Threads, pc[t] \in Critical
    PROVE  /\ owner = t /\ t # Nothing /\ Mode = pc[t]
           /\ \A u \in Threads \ {t} : pc[u] \notin Critical
  BY ThreadAssumption DEF RingInv, Mutex, Mode

(* A step inside the mutant that ends where another one begins.            *)
LEMMA MutexStays ==
    ASSUME RingInv, NEW t \in Threads, NEW l \in Critical, pc[t] \in Critical,
           GoTo(t, l), UNCHANGED owner
    PROVE  Mutex' /\ Mode' = l /\ pc' \in [Threads -> Calls]
  BY OwnerAlone, ThreadAssumption
     DEF RingInv, TypeOK, Mutex, Mode, GoTo, Critical, Calls, Moves, Counts
(* Two different calls of one reader's ring cannot both be past a check    *)
(* that the other would undo.                                              *)
LEMMA OnePusherOnePopper ==
    ASSUME OneReader, RingInv
    PROVE  /\ \A t, u \in Threads : pc[t] \in Pushing /\ pc[u] \in Pushing => t = u
           /\ \A t, u \in Threads : pc[t] \in Popping /\ pc[u] \in Popping => t = u
           /\ \A t, u \in Threads : pc[t] \in Popping /\ u \in Flushers => t = u
  BY DEF OneReader, RingInv, ChecksHold

(* The first half of a push.                                               *)
LEMMA PushMoveInv ==
    ASSUME RingInv, NEW t \in Threads, PushMove(t)
    PROVE  RingInv'
<1>1. /\ pc[t] = "push_move" /\ pc' = [pc EXCEPT ![t] = "push_count"]
      /\ buf' = [buf EXCEPT ![tail] = arg[t]] /\ tail' = Following(tail)
      /\ UNCHANGED <<head, count, owner, arg, got>>
  BY DEF PushMove, At, GoTo
<1>2. /\ owner = t /\ Mode = "push_move" /\ t \in Producers /\ count < Size
      /\ arg[t] \in Chars
  BY <1>1, OwnerAlone DEF Critical, Moves, Counts, RingInv, ChecksHold, Pushing
<1>3. Mutex' /\ Mode' = "push_count" /\ pc' \in [Threads -> Calls]
  BY <1>1, MutexStays DEF GoTo, Critical, Moves, Counts
<1>4. tail = Cell(head, count)
  BY <1>2 DEF RingInv, Indices, Counts
<1>5. TypeOK'
  BY <1>1, <1>2, <1>3, FollowingCell DEF RingInv, TypeOK
<1>6. tail' = Cell(head, count + 1)
  BY <1>1, <1>2, <1>4, FollowingCell, SizeAssumption DEF Cell, RingInv, TypeOK, Index
<1>7. ChecksHold'
  BY <1>1, <1>2 DEF RingInv, ChecksHold, TypeOK, Pushing, Popping
<1>8. Indices' /\ StoredNext' /\ count' <= Size
  BY <1>1, <1>2, <1>3, <1>4, <1>6 DEF RingInv, TypeOK, Indices, StoredNext, Counts
<1> QED
  BY <1>3, <1>5, <1>7, <1>8 DEF RingInv

(* The second half of a push.  The consumer's passed check holds all the   *)
(* more; no other producer relies on there being room.                     *)
LEMMA PushCountInv ==
    ASSUME OneReader, RingInv, NEW t \in Threads, PushCount(t)
    PROVE  RingInv'
<1>1. /\ pc[t] = "push_count" /\ pc' = [pc EXCEPT ![t] = "release"]
      /\ count' = (count + 1) % Word
      /\ UNCHANGED <<buf, head, tail, owner, arg, got>>
  BY DEF PushCount, At, GoTo
<1>2. /\ owner = t /\ Mode = "push_count" /\ count < Size
  BY <1>1, OwnerAlone DEF Critical, Counts, RingInv, ChecksHold, Pushing
<1>3. Mutex' /\ Mode' = "release" /\ pc' \in [Threads -> Calls]
  BY <1>1, MutexStays DEF GoTo, Critical, Counts
<1>4. count \in Nat /\ count' = count + 1 /\ count' \in 0 .. Word - 1
  BY <1>1, <1>2, CountSmall, SizeAssumption DEF RingInv, TypeOK
<1>5. TypeOK'
  BY <1>1, <1>3, <1>4 DEF RingInv, TypeOK
<1>6. \A u \in Threads \ {t} : pc[u] \notin Pushing
  BY <1>1, OnePusherOnePopper DEF Pushing
<1>7. ChecksHold'
  BY <1>1, <1>2, <1>4, <1>6 DEF RingInv, ChecksHold, TypeOK, Pushing, Popping
<1>8. Indices' /\ StoredNext' /\ count' <= Size
  BY <1>1, <1>2, <1>3, <1>4, SizeAssumption DEF RingInv, Indices, StoredNext, Counts
<1> QED
  BY <1>3, <1>5, <1>7, <1>8 DEF RingInv

(* The first half of a pop.                                                *)
LEMMA PopMoveInv ==
    ASSUME RingInv, NEW t \in Threads, PopMove(t)
    PROVE  RingInv'
<1>1. /\ pc[t] = "pop_move" /\ pc' = [pc EXCEPT ![t] = "pop_count"]
      /\ got' = [got EXCEPT ![t] = buf[head]] /\ head' = Following(head)
      /\ UNCHANGED <<buf, tail, count, owner, arg>>
  BY DEF PopMove, At, GoTo
<1>2. owner = t /\ Mode = "pop_move" /\ t \in Consumers /\ count > 0
  BY <1>1, OwnerAlone DEF Critical, Moves, Counts, RingInv, ChecksHold, Popping
<1>3. Mutex' /\ Mode' = "pop_count" /\ pc' \in [Threads -> Calls]
  BY <1>1, MutexStays DEF GoTo, Critical, Moves, Counts
<1>4. TypeOK'
  BY <1>1, <1>2, <1>3, FollowingCell DEF RingInv, TypeOK
<1>5. tail' = Cell(head', count - 1)
  <2>1. /\ head \in 0 .. Size - 1 /\ count \in 1 .. Size
        /\ tail = Cell(head, count) /\ head' = Cell(head, 1) /\ tail' = tail
    BY <1>1, <1>2, FollowingCell, SizeAssumption DEF RingInv, TypeOK, Index, Indices, Counts
  <2> QED
    BY <2>1, SizeAssumption DEF Cell
<1>6. ChecksHold'
  BY <1>1, <1>2 DEF RingInv, ChecksHold, TypeOK, Pushing, Popping
<1>7. Indices' /\ StoredNext' /\ count' <= Size
  BY <1>1, <1>2, <1>3, <1>5 DEF RingInv, Indices, StoredNext, Counts
<1> QED
  BY <1>3, <1>4, <1>6, <1>7 DEF RingInv
(* The second half of a pop.  The producer's passed check holds all the    *)
(* more; no other consumer relies on there being a character.              *)
LEMMA PopCountInv ==
    ASSUME OneReader, RingInv, NEW t \in Threads, PopCount(t)
    PROVE  RingInv'
<1>1. /\ pc[t] = "pop_count" /\ pc' = [pc EXCEPT ![t] = "release"]
      /\ count' = (count + Word - 1) % Word
      /\ UNCHANGED <<buf, head, tail, owner, arg, got>>
  BY DEF PopCount, At, GoTo
<1>2. owner = t /\ Mode = "pop_count" /\ count > 0 /\ count <= Size
  BY <1>1, OwnerAlone DEF Critical, Counts, RingInv, ChecksHold, Popping
<1>3. Mutex' /\ Mode' = "release" /\ pc' \in [Threads -> Calls]
  BY <1>1, MutexStays DEF GoTo, Critical, Counts
<1>4. count \in Nat /\ count' = count - 1 /\ count' \in 0 .. Word - 1
  BY <1>1, <1>2, CountSmall, SizeAssumption DEF RingInv, TypeOK
<1>5. TypeOK'
  BY <1>1, <1>3, <1>4 DEF RingInv, TypeOK
<1>6. \A u \in Threads \ {t} : pc[u] \notin Popping
  BY <1>1, OnePusherOnePopper DEF Popping
<1>7. ChecksHold'
  BY <1>1, <1>2, <1>4, <1>6, SizeAssumption
     DEF RingInv, ChecksHold, TypeOK, Pushing, Popping
<1>8. Indices' /\ StoredNext' /\ count' <= Size
  BY <1>1, <1>2, <1>3, <1>4, SizeAssumption DEF RingInv, Indices, StoredNext, Counts
<1> QED
  BY <1>3, <1>5, <1>7, <1>8 DEF RingInv

(* The first half of a flush.                                              *)
LEMMA FlushMoveInv ==
    ASSUME RingInv, NEW t \in Threads, FlushMove(t)
    PROVE  RingInv'
<1>1. /\ pc[t] = "flush_move" /\ pc' = [pc EXCEPT ![t] = "flush_count"]
      /\ head' = 0 /\ tail' = 0
      /\ UNCHANGED <<buf, count, owner, arg, got>>
  BY DEF FlushMove, At, GoTo
<1>2. Mutex' /\ Mode' = "flush_count" /\ pc' \in [Threads -> Calls]
  BY <1>1, MutexStays DEF GoTo, Critical, Moves, Counts
<1>3. TypeOK'
  BY <1>1, <1>2, SizeAssumption DEF RingInv, TypeOK, Index
<1>4. ChecksHold'
  BY <1>1 DEF RingInv, ChecksHold, TypeOK, Pushing, Popping
<1>5. Indices' /\ StoredNext' /\ count' <= Size
  BY <1>1, <1>2 DEF RingInv, Indices, StoredNext, Counts
<1> QED
  BY <1>2, <1>3, <1>4, <1>5 DEF RingInv

(* The second half of a flush: the only consumer is busy flushing, so no   *)
(* pop is past its check.                                                  *)
LEMMA FlushCountInv ==
    ASSUME OneReader, RingInv, NEW t \in Threads, FlushCount(t)
    PROVE  RingInv'
<1>1. /\ pc[t] = "flush_count" /\ pc' = [pc EXCEPT ![t] = "release"]
      /\ count' = 0
      /\ UNCHANGED <<buf, head, tail, owner, arg, got>>
  BY DEF FlushCount, At, GoTo
<1>2. owner = t /\ Mode = "flush_count" /\ head = 0 /\ tail = 0
  BY <1>1, OwnerAlone DEF Critical, Counts, RingInv, Indices
<1>3. Mutex' /\ Mode' = "release" /\ pc' \in [Threads -> Calls]
  BY <1>1, MutexStays DEF GoTo, Critical, Counts
<1>4. TypeOK'
  BY <1>1, <1>3, SizeAssumption DEF RingInv, TypeOK
<1>5. \A u \in Threads : pc[u] \notin Popping
  <2>1. t \in Flushers
    BY <1>1 DEF RingInv, ChecksHold
  <2>2. pc[t] \notin Popping
    BY <1>1 DEF Popping
  <2> QED
    BY <2>1, <2>2, OnePusherOnePopper
<1>6. ChecksHold'
  BY <1>1, <1>5, SizeAssumption DEF RingInv, ChecksHold, TypeOK, Pushing, Popping
<1>7. Indices' /\ StoredNext' /\ count' <= Size
  BY <1>1, <1>2, <1>3, SizeAssumption DEF RingInv, Indices, StoredNext, Counts, Cell
<1> QED
  BY <1>3, <1>4, <1>6, <1>7 DEF RingInv

(* The end of a call.                                                      *)
LEMMA ReleaseInv ==
    ASSUME RingInv, NEW t \in Threads, Release(t)
    PROVE  RingInv'
<1>1. /\ pc[t] = "release" /\ pc' = [pc EXCEPT ![t] = "idle"]
      /\ owner' = Nothing
      /\ UNCHANGED <<buf, head, tail, count, arg, got>>
  BY DEF Release, At, GoTo, ring
<1>2. /\ Mode = "release" /\ Mode' = "free"
      /\ \A u \in Threads \ {t} : pc[u] \notin Critical
  BY <1>1, OwnerAlone DEF Critical, Mode
<1>3. TypeOK'
  BY <1>1 DEF RingInv, TypeOK, Calls
<1>4. Mutex'
  BY <1>1, <1>2, ThreadAssumption DEF RingInv, TypeOK, Mutex, Critical, Moves, Counts
<1>5. ChecksHold'
  BY <1>1 DEF RingInv, ChecksHold, TypeOK, Pushing, Popping
<1>6. Indices' /\ StoredNext' /\ count' <= Size
  BY <1>1, <1>2 DEF RingInv, Indices, StoredNext, Counts
<1> QED
  BY <1>3, <1>4, <1>5, <1>6 DEF RingInv

(* Every step keeps the invariant.                                         *)
LEMMA NextRingInv == ASSUME OneReader, RingInv, [Next]_vars PROVE RingInv'
<1>1. CASE Next
  <2>1. PICK t \in Threads : Begin(t) \/ Acquire(t) \/ Locked(t)
    BY <1>1 DEF Next
  <2>2. CASE Begin(t)
    BY <2>2, BeginInv
  <2>3. CASE Acquire(t)
    BY <2>3, AcquireInv
  <2>4. CASE Locked(t)
    BY <2>4, PushMoveInv, PushCountInv, PopMoveInv, PopCountInv, FlushMoveInv,
       FlushCountInv, ReleaseInv DEF Locked
  <2> QED
    BY <2>1, <2>2, <2>3, <2>4
<1>2. CASE UNCHANGED vars
  BY <1>2 DEF vars, ring, RingInv, TypeOK, Mutex, ChecksHold, Indices, StoredNext, Mode
<1> QED
  BY <1>1, <1>2

(***************************************************************************)
(* Theorems of the specification.                                          *)
(***************************************************************************)
(* The invariant holds in every reachable state.                           *)
THEOREM RingInvariant == ASSUME OneReader PROVE Spec => []RingInv
<1>1. RingInv /\ [Next]_vars => RingInv'
  BY NextRingInv
<1> QED
  BY <1>1, InitRingInv, PTL DEF Spec

(* With one producer and one consumer `count` never leaves 0 .. Size, and  *)
(* every index stays inside the buffer.                                    *)
THEOREM RingTypeCorrect == ASSUME OneReader PROVE Spec => [](TypeOK /\ count <= Size)
<1>1. RingInv => TypeOK /\ count <= Size
  BY DEF RingInv
<1> QED
  BY <1>1, RingInvariant, PTL

(***************************************************************************)
(* Refinement.                                                             *)
(***************************************************************************)
(* The n characters from index h on.                                       *)
Contents(b, h, n) == [i \in 1 .. n |-> b[(h + i - 1) % Size]]

Values == Chars \cup {Nothing}

(* The cells from the head on, as a sequence.                              *)
LEMMA ContentsSeq ==
    ASSUME NEW b \in [Index -> Values], NEW h \in Index, NEW n \in 0 .. Size
    PROVE  /\ Contents(b, h, n) \in Seq(Values)
           /\ Len(Contents(b, h, n)) = n
           /\ \A i \in 1 .. n : Contents(b, h, n)[i] = b[Cell(h, i - 1)]
<1>1. \A i \in 1 .. n : (h + i - 1) % Size = Cell(h, i - 1) /\ Cell(h, i - 1) \in Index
  <2> TAKE i \in 1 .. n
  <2>1. i - 1 \in 0 .. Size /\ h + i - 1 = h + (i - 1)
    BY SizeAssumption DEF Index
  <2>2. Cell(h, i - 1) \in Index
    BY SizeAssumption DEF Cell, Index
  <2> QED
    BY <2>1, <2>2, CellIsRemainder
<1>2. Contents(b, h, n) \in [1 .. n -> Values]
  BY <1>1 DEF Contents
<1>3. n \in Nat
  BY SizeAssumption
<1>4. Contents(b, h, n) \in Seq(Values)
  BY <1>2, <1>3, SeqDef
<1>5. Len(Contents(b, h, n)) = n
  BY <1>2, <1>3, <1>4, LenProperties
<1> QED
  BY <1>1, <1>4, <1>5 DEF Contents

(* The cell behind the last one comes last.                                *)
LEMMA ContentsAppend ==
    ASSUME NEW b \in [Index -> Values], NEW h \in Index, NEW n \in 0 .. Size - 1
    PROVE  Contents(b, h, n + 1) = Append(Contents(b, h, n), b[Cell(h, n)])
<1>1. n \in 0 .. Size /\ n + 1 \in 0 .. Size /\ Cell(h, n) \in Index
  BY SizeAssumption DEF Cell, Index
<1> DEFINE s == Contents(b, h, n)
           u == Contents(b, h, n + 1)
           v == b[Cell(h, n)]
<1>2. s \in Seq(Values) /\ Len(s) = n /\ \A i \in 1 .. n : s[i] = b[Cell(h, i - 1)]
  BY <1>1, ContentsSeq
<1>3. /\ u \in Seq(Values) /\ Len(u) = n + 1
      /\ \A i \in 1 .. n + 1 : u[i] = b[Cell(h, i - 1)]
  BY <1>1, ContentsSeq
<1>4. v \in Values
  BY <1>1
<1> HIDE DEF s, u, v
<1>5. /\ Append(s, v) \in Seq(Values) /\ Len(Append(s, v)) = n + 1
      /\ \A i \in 1 .. n + 1 : Append(s, v)[i] = IF i = n + 1 THEN v ELSE s[i]
  BY <1>1, <1>2, <1>4
<1>6. u[n + 1] = v
  BY <1>1, <1>3 DEF v
<1>7. \A i \in 1 .. n + 1 : u[i] = Append(s, v)[i]
  BY <1>1, <1>2, <1>3, <1>5, <1>6, SMTT(30)
<1>8. u = Append(s, v)
  BY <1>3, <1>5, <1>7, SeqEqual
<1> QED
  BY <1>8 DEF s, u, v

(* The head's cell comes first, and what follows starts one further on.    *)
LEMMA ContentsTail ==
    ASSUME NEW b \in [Index -> Values], NEW h \in Index, NEW n \in 1 .. Size
    PROVE  /\ Contents(b, h, n) # <<>>
           /\ Head(Contents(b, h, n)) = b[h]
           /\ Contents(b, Following(h), n - 1) = Tail(Contents(b, h, n))
<1>1. /\ n \in 0 .. Size /\ n - 1 \in 0 .. Size /\ Following(h) \in Index
      /\ Following(h) = Cell(h, 1) /\ Cell(h, 0) = h
  BY FollowingCell, SizeAssumption DEF Cell, Index
<1> DEFINE s == Contents(b, h, n)
           u == Contents(b, Following(h), n - 1)
<1>2. s \in Seq(Values) /\ Len(s) = n /\ \A i \in 1 .. n : s[i] = b[Cell(h, i - 1)]
  BY <1>1, ContentsSeq
<1>3. /\ u \in Seq(Values) /\ Len(u) = n - 1
      /\ \A i \in 1 .. n - 1 : u[i] = b[Cell(Following(h), i - 1)]
  BY <1>1, ContentsSeq
<1> HIDE DEF s, u
<1>4. s # <<>>
  BY <1>2, EmptySeq
<1>5. Head(s) = s[1] /\ s[1] = b[h]
  BY <1>1, <1>2, <1>4
<1>6. /\ Tail(s) \in Seq(Values) /\ Len(Tail(s)) = n - 1
      /\ \A i \in 1 .. n - 1 : Tail(s)[i] = s[i + 1]
  BY <1>2, <1>4, HeadTailProperties
<1>7. \A i \in 1 .. n - 1 : Cell(Following(h), i - 1) = Cell(h, i)
  <2> TAKE i \in 1 .. n - 1
  <2> QED
    BY <1>1, SizeAssumption DEF Cell, Index
<1>8. \A i \in 1 .. n - 1 : u[i] = Tail(s)[i]
  <2> TAKE i \in 1 .. n - 1
  <2>1. i + 1 \in 1 .. n /\ (i + 1) - 1 = i
    BY SizeAssumption
  <2>2. s[i + 1] = b[Cell(h, i)]
    BY <1>2, <2>1
  <2>3. u[i] = b[Cell(h, i)]
    BY <1>3, <1>7
  <2> QED
    BY <1>6, <2>2, <2>3
<1>9. u = Tail(s)
  BY <1>3, <1>6, <1>8, SeqEqual
<1> QED
  BY <1>4, <1>5, <1>9 DEF s, u
(* A cell outside the ones that wait may change.                           *)
LEMMA ContentsElsewhere ==
    ASSUME NEW b \in [Index -> Values], NEW h \in Index, NEW n \in 0 .. Size - 1,
           NEW v \in Values
    PROVE  Contents([b EXCEPT ![Cell(h, n)] = v], h, n) = Contents(b, h, n)
<1>1. \A i \in 1 .. n : /\ (h + i - 1) % Size = Cell(h, i - 1)
                        /\ Cell(h, i - 1) \in Index /\ Cell(h, i - 1) # Cell(h, n)
  <2> TAKE i \in 1 .. n
  <2>1. i - 1 \in 0 .. Size /\ h + i - 1 = h + (i - 1)
    BY SizeAssumption DEF Index
  <2>2. Cell(h, i - 1) \in Index /\ Cell(h, i - 1) # Cell(h, n)
    BY SizeAssumption DEF Cell, Index
  <2> QED
    BY <2>1, <2>2, CellIsRemainder
<1> QED
  BY <1>1 DEF Contents

(* How many characters wait, in terms of the call that owns the ring.      *)
WaitingNow ==
    /\ Waiting = IF Mode = "flush_count" THEN 0
                 ELSE IF Mode = "pop_count" THEN count - 1 ELSE count
    /\ Waiting \in 0 .. Size

(* Only the owner can be halfway through an update of `count`.             *)
LEMMA WaitingByMode == RingInv => WaitingNow
<1> SUFFICES ASSUME RingInv PROVE WaitingNow
  OBVIOUS
<1>1. \A l \in Counts : Owned(l) <=> Mode = l
  BY ThreadAssumption DEF Owned, Mode, Counts, RingInv, TypeOK, Mutex, Critical
<1>2. Owned("flush_count") <=> Mode = "flush_count"
  BY <1>1 DEF Counts
<1>3. Owned("pop_count") <=> Mode = "pop_count"
  BY <1>1 DEF Counts
<1>4. Waiting = IF Mode = "flush_count" THEN 0
                ELSE IF Mode = "pop_count" THEN count - 1 ELSE count
  BY <1>2, <1>3, Zenon DEF Waiting
<1>5. Mode = "pop_count" => count > 0
  BY DEF RingInv, TypeOK, ChecksHold, Popping, Mode
<1> QED
  BY <1>4, <1>5, SizeAssumption DEF RingInv, TypeOK, WaitingNow

(* The same of the next state.                                             *)
LEMMA WaitingByModeNext == RingInv' => WaitingNow'
  BY WaitingByMode, PTL

(* A step that moves neither the waiting cells nor the number of waiting   *)
(* characters is not seen in the queue.                                    *)
LEMMA StepRefines ==
    ASSUME OneReader, RingInv, RingInv', [Next]_vars
    PROVE  [Queue!Next]_(Queue!vars)
<1> DEFINE now == Contents(buf, head, Waiting)
           then == Contents(buf', head', Waiting')
<1>1. /\ buf \in [Index -> Values] /\ head \in Index
      /\ count \in Nat /\ count <= Size
  BY DEF RingInv, TypeOK, Values
<1>2. /\ Queue!vars = <<now, got>> /\ Queue!vars' = <<then, got'>>
  BY DEF Queue!vars, Contents
<1>3. SUFFICES \/ then = now /\ got' = got
               \/ \E c \in Chars : Len(now) < Size /\ then = Append(now, c) /\ got' = got
               \/ \E r \in Consumers : /\ now # <<>> /\ then = Tail(now)
                                       /\ got' = [got EXCEPT ![r] = Head(now)]
               \/ then = <<>> /\ got' = got
  BY <1>2 DEF Queue!Next, Queue!Put, Queue!Get, Queue!Clear, Queue!vars, Contents
<1>4. Waiting' = IF Mode' = "flush_count" THEN 0
                 ELSE IF Mode' = "pop_count" THEN count' - 1 ELSE count'
  BY WaitingByModeNext DEF WaitingNow
<1>5. CASE UNCHANGED vars
  BY <1>5 DEF vars, ring, Contents, Waiting, Owned
<1>6. ASSUME NEW t \in Threads, Begin(t) \/ Acquire(t) \/ Release(t)
      PROVE  then = now /\ got' = got
  <2>1. UNCHANGED <<buf, head, count, got>>
    BY <1>6 DEF Begin, BeginPush, BeginPop, BeginFlush, Acquire, Release, ring
  <2>2. ASSUME Begin(t) PROVE Mode' = Mode
    <3>1. pc[t] = "idle" /\ pc' = [pc EXCEPT ![t] = pc'[t]] /\ owner' = owner
      BY <2>2 DEF Begin, BeginPush, BeginPop, BeginFlush, At, GoTo, RingInv, TypeOK
    <3>2. owner # t
      BY <3>1 DEF RingInv, Mutex, Critical, Moves, Counts
    <3> QED
      BY <3>1, <3>2 DEF Mode, RingInv, TypeOK
  <2>3. ASSUME Acquire(t) PROVE Mode \notin Counts /\ Mode' \notin Counts
    <3>1. Mode = "free" /\ owner' = t /\ pc'[t] = Granted(pc[t]) /\ pc[t] \in Waits
      BY <2>3 DEF Mode, Acquire, GoTo, RingInv, TypeOK
    <3>2. pc'[t] \in Moves
      BY <3>1 DEF Granted, Waits, Moves
    <3> QED
      BY <3>1, <3>2, ThreadAssumption DEF Mode, Moves, Counts
  <2>4. ASSUME Release(t) PROVE Mode \notin Counts /\ Mode' \notin Counts
    <3>1. Mode = "release" /\ Mode' = "free"
      BY <2>4, OwnerAlone DEF Release, At, Critical, Mode
    <3> QED
      BY <3>1 DEF Counts
  <2>5. Mode' = Mode \/ (Mode \notin Counts /\ Mode' \notin Counts)
    BY <1>6, <2>2, <2>3, <2>4
  <2>6. Waiting' = Waiting
    BY <1>4, <2>1, <2>5, WaitingByMode DEF WaitingNow, Counts
  <2> QED
    BY <2>1, <2>6 DEF Contents
<1>7. ASSUME NEW t \in Threads, PushMove(t)
      PROVE  then = now /\ got' = got
  <2>1. /\ pc[t] = "push_move" /\ pc' = [pc EXCEPT ![t] = "push_count"]
        /\ buf' = [buf EXCEPT ![tail] = arg[t]]
        /\ UNCHANGED <<head, count, owner, got>>
    BY <1>7 DEF PushMove, At, GoTo
  <2>a. owner = t /\ t # Nothing /\ Mode = "push_move"
    BY <2>1, OwnerAlone DEF Critical, Moves
  <2>b. Mode' = "push_count"
    BY <2>1, <2>a DEF Mode, RingInv, TypeOK
  <2>2. count < Size /\ arg[t] \in Values
    BY <2>1 DEF RingInv, ChecksHold, Pushing, Values
  <2>3. Waiting = count /\ Waiting' = count /\ tail = Cell(head, count)
    BY <1>4, <2>1, <2>a, <2>b, WaitingByMode DEF WaitingNow, RingInv, Indices, Counts
  <2>4. count \in 0 .. Size - 1
    BY <1>1, <2>2, SizeAssumption
  <2>5. Contents(buf', head, count) = Contents(buf, head, count)
    BY <1>1, <2>1, <2>2, <2>3, <2>4, ContentsElsewhere
  <2> QED
    BY <2>1, <2>3, <2>5
<1>8. ASSUME NEW t \in Threads, PushCount(t)
      PROVE  \E c \in Chars : Len(now) < Size /\ then = Append(now, c) /\ got' = got
  <2>1. /\ pc[t] = "push_count" /\ pc' = [pc EXCEPT ![t] = "release"]
        /\ count' = (count + 1) % Word
        /\ UNCHANGED <<buf, head, owner, got>>
    BY <1>8 DEF PushCount, At, GoTo
  <2>a. owner = t /\ t # Nothing /\ Mode = "push_count"
    BY <2>1, OwnerAlone DEF Critical, Counts
  <2>b. Mode' = "release"
    BY <2>1, <2>a DEF Mode, RingInv, TypeOK
  <2>2. count < Size /\ arg[t] \in Chars /\ buf[Cell(head, count)] = arg[t]
    BY <2>1, <2>a DEF RingInv, ChecksHold, Pushing, StoredNext
  <2>3. count \in 0 .. Size /\ count \in 0 .. Size - 1
    BY <1>1, <2>2, SizeAssumption
  <2>4. Waiting = count /\ Waiting' = count + 1
    BY <1>4, <2>1, <2>2, <2>3, <2>a, <2>b, CountSmall, WaitingByMode DEF WaitingNow
  <2>5. then = Append(now, arg[t])
    BY <1>1, <2>1, <2>2, <2>3, <2>4, ContentsAppend
  <2>6. Len(now) < Size
    BY <1>1, <2>2, <2>3, <2>4, ContentsSeq
  <2> QED
    BY <2>1, <2>2, <2>5, <2>6
<1>9. ASSUME NEW t \in Threads, PopMove(t)
      PROVE  \E r \in Consumers : /\ now # <<>> /\ then = Tail(now)
                                  /\ got' = [got EXCEPT ![r] = Head(now)]
  <2>1. /\ pc[t] = "pop_move" /\ pc' = [pc EXCEPT ![t] = "pop_count"]
        /\ got' = [got EXCEPT ![t] = buf[head]] /\ head' = Following(head)
        /\ UNCHANGED <<buf, count, owner>>
    BY <1>9 DEF PopMove, At, GoTo
  <2>a. owner = t /\ t # Nothing /\ Mode = "pop_move"
    BY <2>1, OwnerAlone DEF Critical, Moves
  <2>b. Mode' = "pop_count"
    BY <2>1, <2>a DEF Mode, RingInv, TypeOK
  <2>2. t \in Consumers /\ count > 0
    BY <2>1 DEF RingInv, ChecksHold, Popping
  <2>3. Waiting = count /\ Waiting' = count - 1 /\ count \in 1 .. Size
    BY <1>1, <1>4, <2>1, <2>2, <2>a, <2>b, SizeAssumption, WaitingByMode DEF WaitingNow
  <2>4. now # <<>> /\ Head(now) = buf[head] /\ then = Tail(now)
    BY <1>1, <2>1, <2>3, ContentsTail
  <2> QED
    BY <2>1, <2>2, <2>4
<1>10. ASSUME NEW t \in Threads, PopCount(t)
       PROVE  then = now /\ got' = got
  <2>1. /\ pc[t] = "pop_count" /\ pc' = [pc EXCEPT ![t] = "release"]
        /\ count' = (count + Word - 1) % Word
        /\ UNCHANGED <<buf, head, owner, got>>
    BY <1>10 DEF PopCount, At, GoTo
  <2>a. owner = t /\ t # Nothing /\ Mode = "pop_count"
    BY <2>1, OwnerAlone DEF Critical, Counts
  <2>b. Mode' = "release"
    BY <2>1, <2>a DEF Mode, RingInv, TypeOK
  <2>2. count > 0
    BY <2>1 DEF RingInv, ChecksHold, Popping
  <2>3. count \in 0 .. Size
    BY <1>1, SizeAssumption
  <2>4. Waiting = count - 1 /\ Waiting' = count - 1
    BY <1>4, <2>1, <2>2, <2>3, <2>a, <2>b, CountSmall, WaitingByMode DEF WaitingNow
  <2> QED
    BY <2>1, <2>4
<1>11. ASSUME NEW t \in Threads, FlushMove(t) \/ FlushCount(t)
       PROVE  then = <<>> /\ got' = got
  <2>1. /\ pc[t] \in {"flush_move", "flush_count"}
        /\ UNCHANGED <<buf, owner, got>>
    BY <1>11 DEF FlushMove, FlushCount, At
  <2>2. owner = t /\ t # Nothing
    BY <2>1, OwnerAlone DEF Critical, Moves, Counts
  <2>3. \/ Mode' = "flush_count"
        \/ Mode' = "release" /\ count' = 0
    BY <1>11, <2>1, <2>2 DEF FlushMove, FlushCount, GoTo, Mode, RingInv, TypeOK
  <2>4. Waiting' = 0
    BY <1>4, <2>3
  <2>5. then \in Seq(Values) /\ Len(then) = 0
    <3>1. head' \in Index /\ buf' \in [Index -> Values] /\ 0 \in 0 .. Size
      BY SizeAssumption DEF RingInv, TypeOK, Values
    <3> QED
      BY <2>4, <3>1, ContentsSeq
  <2> QED
    BY <2>1, <2>5, EmptySeq
<1> QED
  BY <1>3, <1>5, <1>6, <1>7, <1>8, <1>9, <1>10, <1>11 DEF Next, Locked

(* The empty ring is the empty queue.                                      *)
LEMMA InitRefines == Init => Queue!Init
<1> SUFFICES ASSUME Init PROVE Queue!Init
  OBVIOUS
<1>1. RingInv /\ Mode = "free" /\ count = 0
  BY InitRingInv DEF Init, Mode
<1>2. Waiting = 0
  BY <1>1, WaitingByMode DEF WaitingNow
<1>3. [i \in 1 .. Waiting |-> buf[(head + i - 1) % Size]] = <<>>
  BY <1>2
<1> QED
  BY <1>3 DEF Queue!Init, Init

(* The ring is the queue it should be: what is popped is what was pushed,  *)
(* in order, although neither check runs under the mutant.                 *)
THEOREM RingIsQueue == ASSUME OneReader PROVE Spec => ImplementsQueue
<1>1. RingInv /\ RingInv' /\ [Next]_vars => [Queue!Next]_(Queue!vars)
  BY StepRefines
<1> QED
  BY <1>1, RingInvariant, InitRefines, PTL DEF Spec, ImplementsQueue, Queue!Spec

(***************************************************************************)
(* Any number of threads.  The call that owns the mutant determines what   *)
(* `count` is going to be, and with that value the three indices agree at  *)
(* every moment, also when a count wraps, as Word is a multiple of Size.   *)
(***************************************************************************)
(* A remainder is the one index that lies a multiple of Size away.         *)
LEMMA RemainderIs ==
    ASSUME NEW q \in Int, NEW r \in Index
    PROVE  (q * Size + r) % Size = r
<1>1. Size \in Nat \ {0} /\ r \in Int /\ 0 <= r /\ r < Size
  BY SizeAssumption DEF Index
<1>2. PICK a \in Int : a = q * Size + r
  BY <1>1
<1>3. PICK d \in Int : d = a \div Size
  BY <1>1, <1>2
<1>4. PICK m \in Int : m = a % Size
  BY <1>1, <1>2
<1>5. a = Size * d + m /\ 0 <= m /\ m < Size
  BY ONLY <1>1, <1>2, <1>3, <1>4, SMTT(30)
<1>6. Size * (q - d) = m - r
  BY ONLY <1>1, <1>2, <1>5, SMTT(30)
<1>7. PICK e \in Int : e = q - d
  OBVIOUS
<1>8. Size * e < Size /\ Size * e > -Size
  BY ONLY <1>1, <1>5, <1>6, <1>7, <1>4, SMTT(30)
<1>9. e = 0
  <2>1. CASE e >= 1
    BY ONLY <1>1, <1>8, <2>1, <1>7, SMTT(30)
  <2>2. CASE e <= -1
    BY ONLY <1>1, <1>8, <2>2, <1>7, SMTT(30)
  <2> QED
    BY <1>7, <2>1, <2>2
<1> QED
  BY <1>1, <1>2, <1>4, <1>5, <1>6, <1>7, <1>9

(* Every number is a multiple of Size and an index.                        *)
LEMMA RemainderOf ==
    ASSUME NEW x \in Nat
    PROVE  x % Size \in Index /\ \E q \in Int : x = q * Size + (x % Size)
<1>1. Size \in Nat \ {0}
  BY SizeAssumption
<1>2. PICK d \in Int : d = x \div Size
  BY <1>1
<1>3. PICK m \in Int : m = x % Size
  BY <1>1
<1>4. x \in Int /\ x = Size * d + m /\ 0 <= m /\ m < Size
  BY ONLY <1>1, <1>2, <1>3, x \in Nat, SMTT(30)
<1>5. m \in Index
  BY <1>1, <1>4 DEF Index
<1>6. Size * d = d * Size
  BY <1>1, SMTT(30)
<1> QED
  BY <1>2, <1>3, <1>4, <1>5, <1>6

(* A remainder may be taken before or after an addition.                   *)
LEMMA RemainderAdds ==
    ASSUME NEW x \in Nat, NEW y \in Nat
    PROVE  ((x % Size) + y) % Size = (x + y) % Size
<1>1. Size \in Nat \ {0}
  BY SizeAssumption
<1>2. PICK q \in Int : x % Size \in Index /\ x = q * Size + (x % Size)
  BY RemainderOf
<1>3. PICK r \in Nat : r = x % Size
  BY <1>1, <1>2 DEF Index
<1>4. PICK p \in Int : (r + y) % Size \in Index /\ r + y = p * Size + ((r + y) % Size)
  BY <1>3, RemainderOf
<1>5. PICK s \in Index : s = (r + y) % Size
  BY <1>4
<1>6. x + y = (q + p) * Size + s
  <2>1. (q + p) * Size = q * Size + p * Size
    BY ONLY <1>1, q \in Int, p \in Int, SMTT(30)
  <2>2. s \in Int /\ q * Size \in Int /\ p * Size \in Int
    BY <1>1, <1>5 DEF Index
  <2>3. x = q * Size + r /\ r + y = p * Size + s
    BY <1>2, <1>3, <1>4, <1>5
  <2>4. PICK a \in Int : a = q * Size
    BY <2>2
  <2>5. PICK b \in Int : b = p * Size
    BY <2>2
  <2>6. (q + p) * Size = a + b /\ x = a + r /\ r + y = b + s
    BY <2>1, <2>3, <2>4, <2>5
  <2>7. x + y = (a + b) + s
    BY ONLY <2>2, <2>6, a \in Int, b \in Int, r \in Nat, x \in Nat, y \in Nat
  <2> QED
    BY <2>6, <2>7
<1>7. ((q + p) * Size + s) % Size = s
  BY RemainderIs
<1> QED
  BY <1>3, <1>5, <1>6, <1>7

(* The number of ULONG values is a whole number of turns around the ring.  *)
LEMMA WordTurns ==
    ASSUME NEW h \in Index
    PROVE  (h + Word) % Size = h
<1>1. Size \in Nat \ {0} /\ Word \in Nat /\ Word % Size = 0
  BY SizeAssumption
<1>2. PICK q \in Int : Word = q * Size + 0
  BY <1>1, RemainderOf
<1>3. h + Word = q * Size + h
  BY <1>1, <1>2 DEF Index
<1> QED
  BY <1>3, RemainderIs

(* What `count` will be when the call that owns the ring has counted.      *)
Settled ==
    CASE Mode = "push_count" -> (count + 1) % Word
      [] Mode = "pop_count" -> (count + Word - 1) % Word
      [] Mode = "flush_count" -> 0
      [] OTHER -> count

Roles ==
    \A t \in Threads :
        /\ pc[t] \in Pushing => t \in Producers
        /\ pc[t] \in Popping => t \in Consumers
        /\ pc[t] \in {"flush_wait", "flush_move", "flush_count"} => t \in Flushers

Agree == tail = (head + Settled) % Size

(* The invariant of a ring at which any number of threads do anything.     *)
SharedInv == TypeOK /\ Mutex /\ Roles /\ Agree

(* The owner of the mutant is alone.                                       *)
LEMMA SharedOwner ==
    ASSUME SharedInv, NEW t \in Threads, pc[t] \in Critical
    PROVE  owner = t /\ t # Nothing /\ Mode = pc[t]
  BY ThreadAssumption DEF SharedInv, Mutex, Mode

(* A step inside the mutant.                                               *)
LEMMA SharedStays ==
    ASSUME SharedInv, NEW t \in Threads, NEW l \in Critical, pc[t] \in Critical,
           pc' = [pc EXCEPT ![t] = l], UNCHANGED owner
    PROVE  Mutex' /\ Mode' = l /\ pc' \in [Threads -> Calls]
<1>1. l \in Calls /\ pc \in [Threads -> Calls] /\ pc'[t] = l
  BY DEF SharedInv, TypeOK, Critical, Calls
<1>2. owner = t /\ owner' = t /\ t # Nothing
  BY SharedOwner
<1>3. Mutex'
  BY <1>1, <1>2 DEF SharedInv, Mutex
<1> QED
  BY <1>1, <1>2, <1>3 DEF Mode

(* A freshly zeroed ring.                                                  *)
LEMMA SharedInit == Init => SharedInv
<1> SUFFICES ASSUME Init PROVE SharedInv
  OBVIOUS
<1>1. TypeOK /\ Mutex
  BY InitRingInv DEF RingInv
<1>2. Roles
  BY DEF Init, Roles, Pushing, Popping
<1>3. Settled = 0
  BY DEF Init, Settled, Mode
<1>4. 0 \in Index /\ (0 * Size + 0) % Size = 0
  <2>1. 0 \in Index
    BY SizeAssumption DEF Index
  <2> QED
    BY <2>1, RemainderIs
<1>5. Agree
  BY <1>3, <1>4, SizeAssumption DEF Agree, Init
<1> QED
  BY <1>1, <1>2, <1>5 DEF SharedInv

(* A call that begins.                                                     *)
LEMMA SharedBegin ==
    ASSUME SharedInv, NEW t \in Threads, Begin(t)
    PROVE  SharedInv'
<1>1. /\ pc[t] = "idle" /\ pc' = [pc EXCEPT ![t] = pc'[t]]
      /\ pc'[t] \in Waits
      /\ UNCHANGED <<ring, owner>>
  BY DEF Begin, BeginPush, BeginPop, BeginFlush, At, GoTo, Waits, SharedInv, TypeOK
<1>2. TypeOK'
  BY <1>1 DEF Begin, BeginPush, BeginPop, BeginFlush, SharedInv, TypeOK, ring, Calls
<1>3. owner # t
  BY <1>1 DEF SharedInv, Mutex, Critical, Moves, Counts
<1>4. Mutex'
  BY <1>1, <1>3 DEF SharedInv, Mutex, TypeOK, Critical, Moves, Counts, Waits
<1>5. Roles'
  BY <1>1, <1>2 DEF Begin, BeginPush, BeginPop, BeginFlush, At, GoTo, SharedInv, Roles,
     TypeOK, Pushing, Popping
<1>6. Mode' = Mode
  BY <1>1, <1>3 DEF Mode, SharedInv, TypeOK
<1>7. Agree'
  BY <1>1, <1>6 DEF SharedInv, Agree, Settled, ring
<1> QED
  BY <1>2, <1>4, <1>5, <1>7 DEF SharedInv

(* A wait that ends.                                                       *)
LEMMA SharedAcquire ==
    ASSUME SharedInv, NEW t \in Threads, Acquire(t)
    PROVE  SharedInv'
<1>1. TypeOK'
  BY DEF Acquire, GoTo, Granted, Waits, SharedInv, TypeOK, ring, Calls, Moves
<1>2. /\ owner = Nothing /\ owner' = t /\ t # Nothing
      /\ pc[t] \in Waits /\ pc' = [pc EXCEPT ![t] = Granted(pc[t])]
      /\ UNCHANGED <<ring, arg>>
  BY ThreadAssumption DEF Acquire, GoTo, SharedInv, TypeOK
<1>3. Granted(pc[t]) \in Moves /\ pc'[t] = Granted(pc[t])
  BY <1>2 DEF Granted, Waits, Moves, SharedInv, TypeOK
<1>4. Mutex'
  BY <1>2, <1>3, ThreadAssumption DEF SharedInv, Mutex, TypeOK, Critical, Moves
<1>5. Roles'
  BY <1>2, <1>3 DEF SharedInv, Roles, TypeOK, Granted, Waits, Pushing, Popping
<1>6. Mode = "free" /\ Mode' \in Moves
  BY <1>2, <1>3 DEF Mode
<1>7. Settled' = count' /\ Settled = count
  BY <1>6 DEF Settled, Moves
<1>8. Agree'
  BY <1>2, <1>7 DEF SharedInv, Agree, ring
<1> QED
  BY <1>1, <1>4, <1>5, <1>8 DEF SharedInv

(* A push moves `tail` by one, and it will count one more.                 *)
LEMMA SharedPushMove ==
    ASSUME SharedInv, NEW t \in Threads, PushMove(t)
    PROVE  SharedInv'
<1>1. /\ pc[t] = "push_move" /\ pc' = [pc EXCEPT ![t] = "push_count"]
      /\ buf' = [buf EXCEPT ![tail] = arg[t]] /\ tail' = Following(tail)
      /\ UNCHANGED <<head, count, owner, arg, got>>
  BY DEF PushMove, At, GoTo
<1>2. owner = t /\ Mode = "push_move" /\ t \in Producers
  BY <1>1, SharedOwner DEF Critical, Moves, SharedInv, Roles, Pushing
<1>3. Mutex' /\ Mode' = "push_count" /\ pc' \in [Threads -> Calls]
  BY <1>1, SharedStays DEF Critical, Moves, Counts
<1>4. TypeOK'
  BY <1>1, <1>2, <1>3, FollowingCell DEF SharedInv, TypeOK
<1>5. Roles'
  BY <1>1, <1>2 DEF SharedInv, Roles, TypeOK, Pushing, Popping
<1>6. /\ head \in Index /\ head \in Nat /\ count \in 0 .. Word - 1 /\ count \in Nat
      /\ Size \in Nat \ {0} /\ Word \in Nat /\ 0 < Word
  BY SizeAssumption DEF SharedInv, TypeOK, Index
<1>7. tail = (head + count) % Size
  BY <1>2 DEF SharedInv, Agree, Settled
<1>8. tail' = (head + count + 1) % Size
  <2>1. PICK x \in Nat : x = head + count
    BY <1>6
  <2>2. ((x % Size) + 1) % Size = (x + 1) % Size
    BY RemainderAdds
  <2> QED
    BY <1>1, <1>7, <2>1, <2>2 DEF Following
<1>9. (head + count + 1) % Size = (head + ((count + 1) % Word)) % Size
  <2>1. CASE count + 1 < Word
    <3>1. \A x \in 0 .. Word - 1 : x % Word = x
      BY <1>6, SMTT(20)
    <3>2. (count + 1) % Word = count + 1
      BY <1>6, <2>1, <3>1
    <3> QED
      BY <1>6, <3>2
  <2>2. CASE count + 1 = Word
    <3>1. Word % Word = 0
      BY <1>6, SMTT(20)
    <3>2. head + count + 1 = head + Word /\ head + ((count + 1) % Word) = head
      BY <1>6, <2>2, <3>1
    <3>3. (head + Word) % Size = head
      BY <1>6, WordTurns
    <3>4. (0 * Size + head) % Size = head /\ 0 * Size + head = head
      BY <1>6, RemainderIs
    <3> QED
      BY <3>2, <3>3, <3>4
  <2> QED
    BY <1>6, <2>1, <2>2
<1>10. Agree'
  BY <1>1, <1>3, <1>8, <1>9 DEF Agree, Settled
<1> QED
  BY <1>3, <1>4, <1>5, <1>10 DEF SharedInv

(* A pop moves `head` by one, and it will count one less.                  *)
LEMMA SharedPopMove ==
    ASSUME SharedInv, NEW t \in Threads, PopMove(t)
    PROVE  SharedInv'
<1>1. /\ pc[t] = "pop_move" /\ pc' = [pc EXCEPT ![t] = "pop_count"]
      /\ got' = [got EXCEPT ![t] = buf[head]] /\ head' = Following(head)
      /\ UNCHANGED <<buf, tail, count, owner, arg>>
  BY DEF PopMove, At, GoTo
<1>2. owner = t /\ Mode = "pop_move" /\ t \in Consumers
  BY <1>1, SharedOwner DEF Critical, Moves, SharedInv, Roles, Popping
<1>3. Mutex' /\ Mode' = "pop_count" /\ pc' \in [Threads -> Calls]
  BY <1>1, SharedStays DEF Critical, Moves, Counts
<1>4. TypeOK'
  BY <1>1, <1>2, <1>3, FollowingCell DEF SharedInv, TypeOK
<1>5. Roles'
  BY <1>1, <1>2 DEF SharedInv, Roles, TypeOK, Pushing, Popping
<1>6. /\ head \in Index /\ head \in Nat /\ count \in 0 .. Word - 1 /\ count \in Nat
      /\ Size \in Nat \ {0} /\ Word \in Nat /\ 0 < Word
  BY SizeAssumption DEF SharedInv, TypeOK, Index
<1>7. tail' = (head + count) % Size
  BY <1>1, <1>2 DEF SharedInv, Agree, Settled
<1>8. head' = (head + 1) % Size
  BY <1>1 DEF Following
<1>9. PICK n \in Nat : n = (count + Word - 1) % Word /\ n = IF count = 0 THEN Word - 1 ELSE count - 1
  <2>1. \A x \in 0 .. Word - 1 : x % Word = x
    BY <1>6, SMTT(20)
  <2>2. \A x \in 0 .. Word - 1 : (x + Word) % Word = x
    BY <1>6, SMTT(20)
  <2>3. CASE count = 0
    <3>1. count + Word - 1 = Word - 1 /\ Word - 1 \in 0 .. Word - 1
      BY <1>6, <2>3
    <3> QED
      BY <1>6, <2>1, <2>3, <3>1
  <2>4. CASE count # 0
    <3>1. count + Word - 1 = (count - 1) + Word /\ count - 1 \in 0 .. Word - 1
      BY <1>6, <2>4
    <3> QED
      BY <1>6, <2>2, <2>4, <3>1
  <2> QED
    BY <2>3, <2>4
<1>10. (((head + 1) % Size) + n) % Size = (head + 1 + n) % Size
  <2>1. PICK x \in Nat : x = head + 1
    BY <1>6
  <2>2. ((x % Size) + n) % Size = (x + n) % Size
    BY RemainderAdds
  <2> QED
    BY <2>1, <2>2
<1>11. (head + 1 + n) % Size = (head + count) % Size
  <2>1. CASE count = 0
    <3>1. head + 1 + n = head + Word /\ head + count = head
      BY <1>6, <1>9, <2>1
    <3>2. (head + Word) % Size = head
      BY <1>6, WordTurns
    <3>3. (0 * Size + head) % Size = head /\ 0 * Size + head = head
      BY <1>6, RemainderIs
    <3> QED
      BY <3>1, <3>2, <3>3
  <2>2. CASE count # 0
    BY <1>6, <1>9, <2>2
  <2> QED
    BY <2>1, <2>2
<1>12. Agree'
  BY <1>1, <1>3, <1>7, <1>8, <1>9, <1>10, <1>11 DEF Agree, Settled
<1> QED
  BY <1>3, <1>4, <1>5, <1>12 DEF SharedInv

(* The steps that count, flush and release leave the indices where they    *)
(* are, and make `count` what it was going to be.                          *)
LEMMA SharedCounts ==
    ASSUME SharedInv, NEW t \in Threads, PushCount(t) \/ PopCount(t) \/ FlushCount(t)
    PROVE  SharedInv'
<1>1. /\ pc[t] \in Counts /\ pc' = [pc EXCEPT ![t] = "release"]
      /\ UNCHANGED <<buf, head, tail, owner, arg, got>>
  BY DEF PushCount, PopCount, FlushCount, At, GoTo, Counts
<1>2. Mode = pc[t]
  BY <1>1, SharedOwner DEF Critical
<1>3. Mutex' /\ Mode' = "release" /\ pc' \in [Threads -> Calls]
  BY <1>1, SharedStays DEF Critical
<1>4. count' = Settled /\ Settled' = count'
  BY <1>2, <1>3 DEF PushCount, PopCount, FlushCount, At, Settled
<1>5. \A x \in Nat : x % Word \in 0 .. Word - 1
  BY SizeAssumption, SMTT(20)
<1>6. count \in Nat /\ count + 1 \in Nat /\ count + Word - 1 \in Nat /\ 0 \in 0 .. Word - 1
  BY SizeAssumption DEF SharedInv, TypeOK
<1>7. count' \in 0 .. Word - 1
  BY <1>5, <1>6 DEF PushCount, PopCount, FlushCount
<1>8. TypeOK'
  BY <1>1, <1>3, <1>7 DEF SharedInv, TypeOK
<1>9. Roles'
  BY <1>1 DEF SharedInv, Roles, TypeOK, Pushing, Popping
<1>10. Agree'
  BY <1>1, <1>4 DEF SharedInv, Agree
<1> QED
  BY <1>3, <1>8, <1>9, <1>10 DEF SharedInv

(* The first half of a flush.                                              *)
LEMMA SharedFlushMove ==
    ASSUME SharedInv, NEW t \in Threads, FlushMove(t)
    PROVE  SharedInv'
<1>1. /\ pc[t] = "flush_move" /\ pc' = [pc EXCEPT ![t] = "flush_count"]
      /\ head' = 0 /\ tail' = 0
      /\ UNCHANGED <<buf, count, owner, arg, got>>
  BY DEF FlushMove, At, GoTo
<1>2. Mutex' /\ Mode' = "flush_count" /\ pc' \in [Threads -> Calls]
  BY <1>1, SharedStays DEF Critical, Moves, Counts
<1>3. TypeOK'
  BY <1>1, <1>2, SizeAssumption DEF SharedInv, TypeOK, Index
<1>4. Roles'
  BY <1>1 DEF SharedInv, Roles, TypeOK, Pushing, Popping
<1>5. 0 \in Index /\ (0 * Size + 0) % Size = 0
  <2>1. 0 \in Index
    BY SizeAssumption DEF Index
  <2> QED
    BY <2>1, RemainderIs
<1>6. Agree'
  BY <1>1, <1>2, <1>5, SizeAssumption DEF Agree, Settled
<1> QED
  BY <1>2, <1>3, <1>4, <1>6 DEF SharedInv

(* The end of a call.                                                      *)
LEMMA SharedRelease ==
    ASSUME SharedInv, NEW t \in Threads, Release(t)
    PROVE  SharedInv'
<1>1. /\ pc[t] = "release" /\ pc' = [pc EXCEPT ![t] = "idle"]
      /\ owner' = Nothing
      /\ UNCHANGED <<buf, head, tail, count, arg, got>>
  BY DEF Release, At, GoTo, ring
<1>2. Mode = "release" /\ Mode' = "free" /\ owner = t
  BY <1>1, SharedOwner DEF Critical, Mode
<1>3. TypeOK'
  BY <1>1 DEF SharedInv, TypeOK, Calls
<1>4. Mutex'
  BY <1>1, <1>2, ThreadAssumption DEF SharedInv, TypeOK, Mutex, Critical, Moves, Counts
<1>5. Roles'
  BY <1>1 DEF SharedInv, Roles, TypeOK, Pushing, Popping
<1>6. Agree'
  BY <1>1, <1>2 DEF SharedInv, Agree, Settled
<1> QED
  BY <1>3, <1>4, <1>5, <1>6 DEF SharedInv

(* Every step of any thread.                                               *)
LEMMA SharedNext == SharedInv /\ [Next]_vars => SharedInv'
<1> SUFFICES ASSUME SharedInv, [Next]_vars PROVE SharedInv'
  OBVIOUS
<1>1. CASE Next
  <2>1. PICK t \in Threads : Begin(t) \/ Acquire(t) \/ Locked(t)
    BY <1>1 DEF Next
  <2>2. CASE Begin(t)
    BY <2>2, SharedBegin
  <2>3. CASE Acquire(t)
    BY <2>3, SharedAcquire
  <2>4. CASE Locked(t)
    BY <2>4, SharedPushMove, SharedPopMove, SharedCounts, SharedFlushMove, SharedRelease DEF Locked
  <2> QED
    BY <2>1, <2>2, <2>3, <2>4
<1>2. CASE UNCHANGED vars
  BY <1>2 DEF vars, ring, SharedInv, TypeOK, Mutex, Roles, Agree, Settled, Mode
<1> QED
  BY <1>1, <1>2

(* Any threads: the invariant, and with it the types of TtyRing.           *)
THEOREM SharedInvariant == Spec => []SharedInv
  BY SharedInit, SharedNext, PTL DEF Spec

(* Any number of producers, consumers and flushers, checks unlocked and    *)
(* counts that wrap: whenever nobody is inside, tail, head and count agree. *)
THEOREM RingAgrees == Spec => []RingConsistent
<1>1. SharedInv => RingConsistent
  BY DEF SharedInv, Agree, Settled, Mode, RingConsistent
<1> QED
  BY <1>1, SharedInvariant, PTL

(***************************************************************************)
(* The overshoot, with one consumer that alone may flush.                  *)
(***************************************************************************)
SoleConsumer ==
    /\ \E c : Consumers = {c} /\ Flushers \subseteq {c}
    /\ IsFiniteSet(Producers) /\ Size + Cardinality(Producers) <= Word

(* The producers that have passed the check and not yet counted.           *)
Entered == {t \in Producers : pc[t] \in Pushing}

OvershootInv ==
    /\ count + Cardinality(Entered) <= Size + Cardinality(Producers) - 1
    /\ \A t \in Threads : pc[t] \in Popping => count > 0

(* No more producers have passed the check than there are.                 *)
LEMMA EnteredFinite ==
    ASSUME SoleConsumer
    PROVE  /\ IsFiniteSet(Entered) /\ Cardinality(Entered) \in Nat
           /\ Cardinality(Producers) \in Nat /\ Cardinality(Entered) <= Cardinality(Producers)
<1>1. Entered \subseteq Producers /\ IsFiniteSet(Producers)
  BY DEF Entered, SoleConsumer
<1> QED
  BY <1>1, FS_Subset, FS_CardinalityType

(* The same after a step.                                                  *)
LEMMA EnteredFiniteNext ==
    ASSUME SoleConsumer
    PROVE  /\ IsFiniteSet(Entered') /\ Cardinality(Entered') \in Nat
           /\ Cardinality(Entered') <= Cardinality(Producers)
<1>1. Entered' \subseteq Producers /\ IsFiniteSet(Producers)
  BY DEF Entered, SoleConsumer
<1> QED
  BY <1>1, FS_Subset, FS_CardinalityType

(* A freshly zeroed ring.                                                  *)
LEMMA OvershootInit ==
    ASSUME SoleConsumer, Init
    PROVE  OvershootInv
<1>1. Entered = {}
  BY DEF Entered, Init, Pushing, Threads
<1>2. Cardinality(Entered) = 0
  BY <1>1, FS_EmptySet
<1>3. Cardinality(Producers) \in Nat
  BY EnteredFinite
<1> QED
  BY <1>2, <1>3, SizeAssumption DEF OvershootInv, Init, Popping

(* A step that neither passes a check for room nor counts a character.     *)
LEMMA OvershootStays ==
    ASSUME SoleConsumer, OvershootInv, Entered' = Entered, count' \in Nat, count \in Nat,
           count' <= count,
           \A t \in Threads : pc'[t] \in Popping => count' > 0
    PROVE  OvershootInv'
<1>1. Cardinality(Entered) \in Nat /\ Cardinality(Producers) \in Nat
  BY EnteredFinite
<1>2. Cardinality(Entered') = Cardinality(Entered)
  OBVIOUS
<1> QED
  BY <1>1, <1>2, SizeAssumption DEF OvershootInv

(* A producer that passes the check may be the last to do so; one that     *)
(* counts its character makes room for no other.                           *)
LEMMA OvershootNext ==
    ASSUME SoleConsumer, SharedInv, OvershootInv, [Next]_vars
    PROVE  OvershootInv'
<1>0. /\ pc \in [Threads -> Calls] /\ count \in 0 .. Word - 1 /\ count \in Nat
      /\ Word \in Nat /\ Size \in Nat \ {0} /\ Producers \subseteq Threads
  BY SizeAssumption DEF SharedInv, TypeOK, Threads
<1>1. /\ Cardinality(Entered) \in Nat /\ Cardinality(Producers) \in Nat
      /\ Cardinality(Entered') \in Nat /\ Cardinality(Entered') <= Cardinality(Producers)
      /\ Size + Cardinality(Producers) <= Word
  BY EnteredFinite, EnteredFiniteNext DEF SoleConsumer
<1>2. ASSUME NEW t \in Threads, BeginPush(t) PROVE OvershootInv'
  <2>1. pc[t] = "idle" /\ pc' = [pc EXCEPT ![t] = "push_wait"] /\ count < Size /\ count' = count
    BY <1>2 DEF BeginPush, At, GoTo, ring
  <2>2. \A u \in Threads : pc'[u] \in Popping => count' > 0
    BY <1>0, <2>1 DEF OvershootInv, Popping
  <2>3. count' + Cardinality(Entered') <= Size + Cardinality(Producers) - 1
    BY <1>0, <1>1, <2>1
  <2> QED
    BY <2>2, <2>3 DEF OvershootInv
<1>3. ASSUME NEW t \in Threads, BeginPop(t) PROVE OvershootInv'
  <2>1. pc[t] = "idle" /\ pc' = [pc EXCEPT ![t] = "pop_wait"] /\ count # 0 /\ count' = count
    BY <1>3 DEF BeginPop, At, GoTo, ring
  <2>2. Entered' = Entered
    BY <1>0, <2>1 DEF Entered, Pushing
  <2>3. \A u \in Threads : pc'[u] \in Popping => count' > 0
    BY <1>0, <2>1
  <2> QED
    BY <1>0, <2>1, <2>2, <2>3, OvershootStays
<1>4. ASSUME NEW t \in Threads, NEW l \in Calls, NEW k \in Calls,
             pc[t] = k, pc' = [pc EXCEPT ![t] = l], count' = count,
             k \in Pushing <=> l \in Pushing, l \in Popping => k \in Popping
      PROVE  OvershootInv'
  <2>1. Entered' = Entered
    BY <1>0, <1>4 DEF Entered
  <2>2. \A u \in Threads : pc'[u] \in Popping => count' > 0
    BY <1>0, <1>4 DEF OvershootInv
  <2> QED
    BY <1>0, <1>4, <2>1, <2>2, OvershootStays
<1>5. ASSUME NEW t \in Threads, PushCount(t) PROVE OvershootInv'
  <2>1. pc[t] = "push_count" /\ pc' = [pc EXCEPT ![t] = "release"] /\ count' = (count + 1) % Word
    BY <1>5 DEF PushCount, At, GoTo
  <2>2. t \in Entered /\ Entered' = Entered \ {t}
    BY <1>0, <2>1 DEF Entered, SharedInv, Roles, Pushing
  <2>3. Cardinality(Entered') = Cardinality(Entered) - 1
    <3>1. IsFiniteSet(Entered)
      BY EnteredFinite
    <3> QED
      BY <2>2, <3>1, FS_RemoveElement
  <2>4. count + 1 \in 0 .. Word - 1
    BY <1>0, <1>1, <2>3 DEF OvershootInv
  <2>5. \A x \in 0 .. Word - 1 : x % Word = x
    BY <1>0, SMTT(20)
  <2>6. count' = count + 1
    BY <2>1, <2>4, <2>5
  <2>7. count' + Cardinality(Entered') <= Size + Cardinality(Producers) - 1
    BY <1>0, <1>1, <2>3, <2>6 DEF OvershootInv
  <2>8. \A u \in Threads : pc'[u] \in Popping => count' > 0
    BY <1>0, <2>6
  <2> QED
    BY <2>7, <2>8 DEF OvershootInv
<1>6. ASSUME NEW t \in Threads, PopCount(t) PROVE OvershootInv'
  <2>1. pc[t] = "pop_count" /\ pc' = [pc EXCEPT ![t] = "release"] /\ count' = (count + Word - 1) % Word
    BY <1>6 DEF PopCount, At, GoTo
  <2>2. count > 0 /\ t \in Consumers
    BY <2>1 DEF OvershootInv, SharedInv, Roles, Popping
  <2>3. \A x \in 0 .. Word - 1 : (x + Word) % Word = x
    BY <1>0, SMTT(20)
  <2>4. count' = count - 1
    <3>1. count - 1 \in 0 .. Word - 1 /\ count + Word - 1 = (count - 1) + Word
      BY <1>0, <2>2
    <3> QED
      BY <2>1, <2>3, <3>1
  <2>5. Entered' = Entered
    BY <1>0, <2>1 DEF Entered, Pushing
  <2>6. \A u \in Threads : pc[u] \in Popping => u = t
    BY <2>2 DEF SoleConsumer, SharedInv, Roles
  <2>7. \A u \in Threads : pc'[u] \notin Popping
    BY <1>0, <2>1, <2>6 DEF Popping
  <2> QED
    BY <1>0, <2>2, <2>4, <2>5, <2>7, OvershootStays
<1>7. ASSUME NEW t \in Threads, FlushCount(t) PROVE OvershootInv'
  <2>1. pc[t] = "flush_count" /\ pc' = [pc EXCEPT ![t] = "release"] /\ count' = 0
    BY <1>7 DEF FlushCount, At, GoTo
  <2>2. Entered' = Entered
    BY <1>0, <2>1 DEF Entered, Pushing
  <2>3. t \in Flushers
    BY <2>1 DEF SharedInv, Roles
  <2>4. \A u \in Threads : pc[u] \notin Popping
    BY <2>1, <2>3 DEF SoleConsumer, SharedInv, Roles, Popping
  <2>5. \A u \in Threads : pc'[u] \notin Popping
    BY <1>0, <2>1, <2>4 DEF Popping
  <2> QED
    BY <1>0, <2>1, <2>2, <2>5, OvershootStays
<1>8. ASSUME NEW t \in Threads, BeginFlush(t) \/ Acquire(t) \/ PushMove(t) \/ PopMove(t)
                                \/ FlushMove(t) \/ Release(t)
      PROVE  OvershootInv'
  <2>1. \E k, l \in Calls : /\ pc[t] = k /\ pc' = [pc EXCEPT ![t] = l] /\ count' = count
                            /\ k \in Pushing <=> l \in Pushing
                            /\ l \in Popping => k \in Popping
    BY <1>8 DEF BeginFlush, Acquire, PushMove, PopMove, FlushMove, Release, At, GoTo, ring,
       Granted, Waits, Calls, Moves, Counts, Pushing, Popping
  <2> QED
    BY <1>4, <2>1
<1>9. CASE UNCHANGED vars
  BY <1>9 DEF vars, ring, OvershootInv, Entered
<1> QED
  BY <1>2, <1>3, <1>5, <1>6, <1>7, <1>8, <1>9 DEF Next, Begin, Locked

(* With one consumer that alone may flush and any number of producers, the *)
(* ring overshoots by at most one character for every producer but one.    *)
THEOREM OvershootIsBounded == ASSUME SoleConsumer PROVE Spec => []OvershootBounded
<1>1. OvershootInv /\ SharedInv => OvershootBounded
  BY EnteredFinite, SizeAssumption DEF OvershootInv, OvershootBounded, SharedInv, TypeOK
<1>2. Init => OvershootInv
  BY OvershootInit
<1>3. SharedInv /\ OvershootInv /\ [Next]_vars => OvershootInv'
  BY OvershootNext
<1> QED
  BY <1>1, <1>2, <1>3, SharedInvariant, PTL DEF Spec
=============================================================================
