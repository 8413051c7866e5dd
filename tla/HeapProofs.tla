----------------------------- MODULE HeapProofs -----------------------------
(***************************************************************************)
(* The heap keeps its chunk list well formed, its callers' blocks apart    *)
(* and its free chunks merged, for every heap size and every set of        *)
(* requests that do not wrap SIZE_T.                                       *)
(***************************************************************************)
EXTENDS Heap, TLAPS

(* What is true of the chunk list alone.                                   *)
Aligned(h) == \A c \in Heads(h) : c % 8 = 0
WellFormed(h) == Typed(h) /\ Linked(h) /\ Aligned(h)
Used(h) == Heads(h) \ h.free

(***************************************************************************)
(* Arithmetic.                                                             *)
(***************************************************************************)
(* A sum below the word size is what SIZE_T arithmetic computes.           *)
LEMMA SizeTSmall ==
    ASSUME NEW x \in Nat, x < Word
    PROVE  SizeT(x) = x
  BY ReserveAssumption DEF SizeT

(* ALIGN_UP rounds up to a multiple of eight, by at most seven.            *)
LEMMA AllocSizeBounds ==
    ASSUME NoWrap, NEW n \in Requests
    PROVE  /\ AllocSize(n) \in Nat
           /\ n <= AllocSize(n) /\ AllocSize(n) <= n + 7
           /\ AllocSize(n) % 8 = 0
           /\ AllocSize(n) + 2 * HeaderSize < Word
           /\ n \in Nat \ {0}
<1>1. n \in Nat /\ n > 0 /\ n + 71 < Word /\ Word \in Nat
  BY RequestAssumption, ReserveAssumption DEF NoWrap, HeaderSize
<1>2. n + 7 \in Nat /\ n + 7 < Word
  BY <1>1
<1>3. SizeT(n + 7) = n + 7
  BY <1>2, SizeTSmall
<1>4. AllocSize(n) = ((n + 7) \div 8) * 8
  BY <1>3 DEF AllocSize
<1>5. ASSUME NEW m \in Nat
      PROVE  /\ (m \div 8) * 8 \in Nat /\ ((m \div 8) * 8) % 8 = 0
             /\ (m \div 8) * 8 <= m /\ m - 7 <= (m \div 8) * 8
  BY Z3
<1> QED
  BY <1>1, <1>2, <1>4, <1>5 DEF HeaderSize

(***************************************************************************)
(* Splitting a chunk.                                                      *)
(***************************************************************************)
(* With room for a bytes and two headers nothing wraps, and the remainder  *)
(* is as long as what is left of the chunk.                                *)
LEMMA SplitArithmetic ==
    ASSUME NEW h, WellFormed(h), NEW c \in h.free, NEW a \in Nat,
           a + 2 * HeaderSize <= h.size[c]
    PROVE  /\ Split(h, c, a) =
                 SplitAt(h, c, c + HeaderSize + a, a, h.size[c] - a - HeaderSize)
           /\ c \in Heads(h) /\ c \in Nat /\ h.size[c] \in Nat
           /\ c + HeaderSize + a \notin Heads(h)
<1>1. c \in Heads(h) /\ c \in Nat /\ h.size[c] \in Nat /\ c + 32 + h.size[c] <= ReserveSize
  BY DEF WellFormed, Typed, Linked, HeaderSize, End
<1>2. /\ c + 32 + a \in Nat /\ c + 32 + a < Word
      /\ h.size[c] - a - 32 \in Nat /\ h.size[c] - a - 32 < Word
  BY <1>1, ReserveAssumption DEF HeaderSize
<1>3. c + 32 + a \notin Heads(h)
  BY <1>1 DEF WellFormed, Linked, HeaderSize, Typed
<1> QED
  BY <1>1, <1>2, <1>3, SizeTSmall DEF Split, HeaderSize

(* Splitting keeps the list well formed.                                   *)
LEMMA SplitWellFormed ==
    ASSUME NEW h, WellFormed(h), NEW c \in h.free, NEW a \in Nat, a % 8 = 0,
           a + 2 * HeaderSize <= h.size[c]
    PROVE  /\ WellFormed(Split(h, c, a))
           /\ Used(Split(h, c, a)) = Used(h) \cup {c}
           /\ Split(h, c, a).size[c] = a
           /\ \A d \in Used(h) : Split(h, c, a).size[d] = h.size[d]
<1> DEFINE new == c + HeaderSize + a
           g == SplitAt(h, c, new, a, h.size[c] - a - HeaderSize)
<1>1. /\ Split(h, c, a) = g /\ c \in Heads(h) /\ c \in Nat /\ h.size[c] \in Nat
      /\ new \notin Heads(h) /\ new \in Nat /\ new # c /\ new > c /\ new # Null
  BY SplitArithmetic DEF HeaderSize, Null
<1>2. Heads(g) = Heads(h) \cup {new} /\ g.free = (h.free \cup {new}) \ {c}
  BY DEF Heads, SplitAt
<1>3. /\ g.size[c] = a /\ g.size[new] = h.size[c] - a - HeaderSize
      /\ g.next[c] = new /\ g.next[new] = h.next[c] /\ g.prev[new] = c
      /\ \A d \in Heads(h) \ {c} : g.size[d] = h.size[d] /\ g.next[d] = h.next[d]
      /\ \A d \in Heads(h) : g.prev[d] = IF d = h.next[c] THEN new ELSE h.prev[d]
  BY <1>1 DEF Heads, SplitAt
<1>4. Typed(g)
  BY <1>1, <1>2, <1>3 DEF WellFormed, Typed, SplitAt, Heads, HeaderSize
<1>5. Linked(g)
  <2> HIDE DEF g
  <2>1. /\ Heads(h) \subseteq Nat \ {0}
        /\ \A d \in Heads(h) : h.size[d] \in Nat /\ h.prev[d] \in Heads(h) \cup {0}
    BY DEF WellFormed, Typed, Null
  <2>2. /\ 32 \in Heads(h) /\ h.prev[32] = 0
        /\ \A d \in Heads(h) : 32 <= d /\ d + 32 + h.size[d] <= ReserveSize
        /\ \A d \in Heads(h) :
              IF h.next[d] = 0
              THEN d + 32 + h.size[d] = ReserveSize
              ELSE h.next[d] = d + 32 + h.size[d] /\ h.prev[h.next[d]] = d
        /\ \A d \in Heads(h) : h.prev[d] # 0 => h.next[h.prev[d]] = d
        /\ \A d, e \in Heads(h) : d < e => d + 32 + h.size[d] <= e
    BY DEF WellFormed, Linked, HeaderSize, First, Null, End
  <2>3. /\ new = c + 32 + a /\ g.size[new] = h.size[c] - a - 32
        /\ a + 64 <= h.size[c] /\ ReserveSize \in Nat
    BY <1>3, ReserveAssumption DEF HeaderSize
  <2> HIDE DEF new
  <2>4. g.prev[32] = 0
    BY <1>1, <1>3, <2>1, <2>2
  <2>5. ASSUME NEW d \in Heads(g)
        PROVE  32 <= d /\ d + 32 + g.size[d] <= ReserveSize
    <3>1. 32 <= c /\ c + 32 + h.size[c] <= ReserveSize
      BY <1>1, <2>2
    <3>2. CASE d \in Heads(h) \ {c}
      BY <1>3, <2>2, <3>2
    <3>3. CASE d = c
      BY <1>1, <1>3, <2>3, <3>1, <3>3
    <3>4. CASE d = new
      BY <1>1, <1>3, <2>3, <3>1, <3>4
    <3> QED
      BY <1>2, <3>2, <3>3, <3>4
  <2>6. ASSUME NEW d \in Heads(g)
        PROVE  IF g.next[d] = 0
               THEN d + 32 + g.size[d] = ReserveSize
               ELSE g.next[d] = d + 32 + g.size[d] /\ g.prev[g.next[d]] = d
    <3>1. CASE d = c
      BY <1>1, <1>3, <2>3, <3>1
    <3>2. CASE d = new
      <4>1. CASE h.next[c] = 0
        BY <1>1, <1>3, <2>2, <2>3, <3>2, <4>1
      <4>2. CASE h.next[c] # 0
        <5>1. h.next[c] = c + 32 + h.size[c] /\ h.next[c] \in Heads(h)
          BY <1>1, <2>2, <4>2 DEF WellFormed, Typed, Null
        <5> QED
          BY <1>1, <1>3, <2>3, <3>2, <4>2, <5>1
      <4> QED
        BY <4>1, <4>2
    <3>3. CASE d \in Heads(h) \ {c}
      <4>1. g.next[d] = h.next[d] /\ g.size[d] = h.size[d]
        BY <1>3, <3>3
      <4>2. CASE h.next[d] = 0
        BY <2>2, <3>3, <4>1, <4>2
      <4>3. CASE h.next[d] # 0
        <5>1. h.next[d] = d + 32 + h.size[d] /\ h.prev[h.next[d]] = d
          BY <2>2, <3>3, <4>3
        <5>2. h.next[d] \in Heads(h)
          BY <3>3, <4>3 DEF WellFormed, Typed, Null
        <5>3. h.next[c] # 0 => h.prev[h.next[c]] = c
          BY <1>1, <2>2
        <5>4. h.next[d] # h.next[c]
          BY <3>3, <4>3, <5>1, <5>3
        <5> QED
          BY <1>3, <4>1, <4>3, <5>1, <5>2, <5>4
      <4> QED
        BY <4>2, <4>3
    <3> QED
      BY <1>2, <3>1, <3>2, <3>3
  <2>7. ASSUME NEW d \in Heads(g), g.prev[d] # 0
        PROVE  g.next[g.prev[d]] = d
    <3>1. CASE d = new
      BY <1>3, <3>1
    <3>2. CASE d \in Heads(h) /\ d = h.next[c]
      BY <1>3, <3>2
    <3>3. CASE d \in Heads(h) /\ d # h.next[c]
      <4>1. g.prev[d] = h.prev[d] /\ h.prev[d] \in Heads(h) /\ h.next[h.prev[d]] = d
        BY <1>3, <2>1, <2>2, <2>7, <3>3
      <4> QED
        BY <1>3, <3>3, <4>1
    <3> QED
      BY <1>2, <3>1, <3>2, <3>3
  <2>8. ASSUME NEW d \in Heads(g), NEW e \in Heads(g), d < e
        PROVE  d + 32 + g.size[d] <= e
    <3>1. CASE d = new
      <4>1. c < e /\ e \in Heads(h)
        BY <1>1, <1>2, <2>1, <2>8, <3>1
      <4>2. c + 32 + h.size[c] <= e
        BY <1>1, <2>2, <4>1
      <4> QED
        BY <1>1, <2>1, <2>3, <3>1, <4>1, <4>2
    <3>2. CASE d = c
      <4>1. CASE e = new
        BY <1>1, <1>3, <2>3, <3>2, <4>1
      <4>2. CASE e \in Heads(h)
        <5>1. c + 32 + h.size[c] <= e
          BY <1>1, <2>2, <2>8, <3>2, <4>2
        <5> QED
          BY <1>1, <1>3, <2>1, <2>3, <3>2, <4>2, <5>1
      <4> QED
        BY <1>2, <4>1, <4>2
    <3>3. CASE d \in Heads(h) \ {c}
      <4>1. CASE e = new
        <5>1. d < c
          <6>1. d \in Nat /\ c \in Nat /\ h.size[c] \in Nat /\ d # c
            BY <1>1, <2>1, <3>3
          <6>2. c < d => c + 32 + h.size[c] <= d
            BY <1>1, <2>2, <3>3
          <6> QED
            BY <2>3, <2>8, <4>1, <6>1, <6>2
        <5>2. d + 32 + h.size[d] <= c
          BY <1>1, <2>2, <3>3, <5>1
        <5> QED
          BY <1>1, <1>3, <2>1, <2>3, <3>3, <4>1, <5>2
      <4>2. CASE e \in Heads(h)
        BY <1>3, <2>2, <2>8, <3>3, <4>2
      <4> QED
        BY <1>2, <4>1, <4>2
    <3> QED
      BY <1>2, <3>1, <3>2, <3>3
  <2> QED
    BY <1>2, <2>2, <2>4, <2>5, <2>6, <2>7, <2>8
    DEF Linked, HeaderSize, First, Null, End
<1>6. Aligned(g)
  BY <1>1, <1>2 DEF WellFormed, Aligned, HeaderSize
<1> QED
  BY <1>1, <1>2, <1>3, <1>4, <1>5, <1>6 DEF WellFormed, Used, Typed

(* RtlAllocateHeap's change to a chunk that fits: the chunk is in use, at   *)
(* least as long as asked for, and no other used chunk is touched.          *)
LEMMA CarveWellFormed ==
    ASSUME NEW h, WellFormed(h), NEW c, NEW a \in Nat, a % 8 = 0,
           a + 2 * HeaderSize < Word, Fits(h, c, a)
    PROVE  /\ WellFormed(Carve(h, c, a))
           /\ c \in Heads(h) /\ c \in h.free
           /\ Used(Carve(h, c, a)) = Used(h) \cup {c}
           /\ a <= Carve(h, c, a).size[c]
           /\ \A d \in Used(h) : Carve(h, c, a).size[d] = h.size[d]
<1>1. SizeT(a + HeaderSize) = a + HeaderSize
      /\ SizeT(a + HeaderSize + HeaderSize) = a + 2 * HeaderSize
  <2>1. a + 32 \in Nat /\ a + 64 \in Nat /\ a + 32 < Word /\ a + 64 < Word
    BY ReserveAssumption DEF HeaderSize
  <2>2. SizeT(a + 32) = a + 32 /\ SizeT(a + 64) = a + 64
    BY <2>1, SizeTSmall
  <2> QED
    BY <2>2 DEF HeaderSize
<1>2. c \in h.free /\ h.size[c] >= a + HeaderSize /\ c \in Heads(h) /\ h.size[c] \in Nat
  BY <1>1 DEF Fits, WellFormed, Typed
<1>3. CASE h.size[c] >= a + 2 * HeaderSize
  <2>1. Carve(h, c, a) = Split(h, c, a)
    BY <1>1, <1>3 DEF Carve
  <2> QED
    BY <1>2, <1>3, <2>1, SplitWellFormed DEF HeaderSize
<1>4. CASE ~ (h.size[c] >= a + 2 * HeaderSize)
  <2>1. Carve(h, c, a) = Flagged(h, h.free \ {c})
    BY <1>1, <1>4 DEF Carve
  <2>2. WellFormed(Flagged(h, h.free \ {c}))
    BY DEF WellFormed, Typed, Linked, Aligned, Heads, Flagged
  <2> QED
    BY <1>2, <2>1, <2>2 DEF Used, Heads, Flagged, HeaderSize
<1> QED
  BY <1>3, <1>4

(***************************************************************************)
(* Merging a chunk with its successor.                                     *)
(***************************************************************************)
(* Swallowing the successor keeps the list well formed, takes just that    *)
(* header off it and touches no other chunk.                               *)
LEMMA AbsorbWellFormed ==
    ASSUME NEW h, WellFormed(h), NEW c \in Heads(h), NEW d \in Heads(h), d = h.next[c]
    PROVE  /\ WellFormed(Absorb(h, c, d))
           /\ c < d
           /\ Heads(Absorb(h, c, d)) = Heads(h) \ {d}
           /\ Absorb(h, c, d).free = h.free \ {d}
           /\ Absorb(h, c, d).next[c] = h.next[d]
           /\ \A e \in Heads(h) \ {c, d} :
                 /\ Absorb(h, c, d).size[e] = h.size[e]
                 /\ Absorb(h, c, d).next[e] = h.next[e]
           /\ \A e \in Heads(h) \ {d} :
                 Absorb(h, c, d).prev[e] = IF e = h.next[d] THEN c ELSE h.prev[e]
<1> DEFINE g == Absorb(h, c, d)
<1>1. /\ Heads(h) \subseteq Nat \ {0}
      /\ \A e \in Heads(h) :
            /\ h.size[e] \in Nat
            /\ h.next[e] \in Heads(h) \cup {0} /\ h.prev[e] \in Heads(h) \cup {0}
            /\ e % 8 = 0
      /\ h.free \subseteq Heads(h)
  BY DEF WellFormed, Typed, Aligned, Null
<1>2. /\ 32 \in Heads(h) /\ h.prev[32] = 0
      /\ \A e \in Heads(h) : 32 <= e /\ e + 32 + h.size[e] <= ReserveSize
      /\ \A e \in Heads(h) :
            IF h.next[e] = 0
            THEN e + 32 + h.size[e] = ReserveSize
            ELSE h.next[e] = e + 32 + h.size[e] /\ h.prev[h.next[e]] = e
      /\ \A e \in Heads(h) : h.prev[e] # 0 => h.next[h.prev[e]] = e
      /\ \A e, f \in Heads(h) : e < f => e + 32 + h.size[e] <= f
  BY DEF WellFormed, Linked, HeaderSize, First, Null, End
<1>3. d = c + 32 + h.size[c] /\ h.prev[d] = c /\ d # 0 /\ c \in Nat /\ d \in Nat /\ c # 0
  BY <1>1, <1>2
<1>4. c < d /\ h.size[c] \in Nat /\ h.size[d] \in Nat /\ d + 32 + h.size[d] <= ReserveSize
  BY <1>1, <1>2, <1>3
<1>5. SizeT(h.size[c] + 32 + h.size[d]) = h.size[c] + 32 + h.size[d]
  BY <1>3, <1>4, SizeTSmall, ReserveAssumption
<1>6. /\ Heads(g) = Heads(h) \ {d} /\ g.free = h.free \ {d} /\ c \in Heads(g)
      /\ g.size[c] = h.size[c] + 32 + h.size[d] /\ g.next[c] = h.next[d]
      /\ \A e \in Heads(g) \ {c} : g.size[e] = h.size[e] /\ g.next[e] = h.next[e]
      /\ \A e \in Heads(g) : g.prev[e] = IF e = h.next[d] THEN c ELSE h.prev[e]
  <2>1. Heads(g) = Heads(h) \ {d} /\ g.free = h.free \ {d} /\ c \in Heads(h) \ {d}
    BY <1>3, <1>4 DEF Heads, Absorb
  <2>2. g.size[c] = h.size[c] + 32 + h.size[d] /\ g.next[c] = h.next[d]
    BY <1>5, <2>1 DEF Heads, Absorb, HeaderSize
  <2>3. \A e \in Heads(g) \ {c} : g.size[e] = h.size[e] /\ g.next[e] = h.next[e]
    BY <2>1 DEF Heads, Absorb
  <2>4. \A e \in Heads(g) : g.prev[e] = IF e = h.next[d] THEN c ELSE h.prev[e]
    BY <2>1 DEF Heads, Absorb
  <2> HIDE DEF g
  <2> QED
    BY <2>1, <2>2, <2>3, <2>4
<1>7. /\ \A e \in Heads(h) : h.next[e] = d => e = c
      /\ \A e \in Heads(h) : h.prev[e] = d => e = h.next[d]
      /\ h.next[d] # c /\ h.next[d] # d
  BY <1>1, <1>2, <1>3, <1>4
<1>8. Typed(g)
  <2>1. g.size \in [Heads(g) -> Nat]
    BY <1>1, <1>4, <1>5, <1>6 DEF Absorb, Heads, HeaderSize
  <2>2. g.next \in [Heads(g) -> Heads(g) \cup {0}]
    BY <1>1, <1>6, <1>7 DEF Absorb, Heads
  <2>3. g.prev \in [Heads(g) -> Heads(g) \cup {0}]
    BY <1>1, <1>6, <1>7 DEF Absorb, Heads
  <2> QED
    BY <1>1, <1>6, <2>1, <2>2, <2>3 DEF Typed, Null
<1>9. Linked(g)
  <2> HIDE DEF g
  <2>1. 32 \in Heads(g) /\ g.prev[32] = 0
    BY <1>1, <1>2, <1>3, <1>4, <1>6
  <2>2. ASSUME NEW e \in Heads(g)
        PROVE  32 <= e /\ e + 32 + g.size[e] <= ReserveSize
    BY <1>2, <1>3, <1>4, <1>6
  <2>3. ASSUME NEW e \in Heads(g)
        PROVE  IF g.next[e] = 0
               THEN e + 32 + g.size[e] = ReserveSize
               ELSE g.next[e] = e + 32 + g.size[e] /\ g.prev[g.next[e]] = e
    <3>1. CASE e = c
      <4>1. CASE h.next[d] = 0
        BY <1>2, <1>3, <1>4, <1>6, <3>1, <4>1
      <4>2. CASE h.next[d] # 0
        <5>1. h.next[d] \in Heads(g) /\ h.next[d] = d + 32 + h.size[d]
          BY <1>1, <1>2, <1>6, <1>7, <4>2
        <5> QED
          BY <1>3, <1>4, <1>6, <3>1, <4>2, <5>1
      <4> QED
        BY <4>1, <4>2
    <3>2. CASE e # c /\ h.next[e] = 0
      BY <1>2, <1>6, <3>2
    <3>3. CASE e # c /\ h.next[e] # 0
      <4>1. h.next[e] = e + 32 + h.size[e] /\ h.prev[h.next[e]] = e
        BY <1>2, <1>6, <3>3
      <4>2. h.next[e] \in Heads(g)
        BY <1>1, <1>6, <1>7, <3>3
      <4>3. h.next[e] # h.next[d]
        BY <1>2, <1>6, <3>3, <4>1
      <4> QED
        BY <1>6, <3>3, <4>1, <4>2, <4>3
    <3> QED
      BY <3>1, <3>2, <3>3
  <2>4. ASSUME NEW e \in Heads(g), g.prev[e] # 0
        PROVE  g.next[g.prev[e]] = e
    <3>1. CASE e = h.next[d]
      BY <1>6, <3>1
    <3>2. CASE e # h.next[d]
      <4>1. g.prev[e] = h.prev[e] /\ h.prev[e] \in Heads(g)
        BY <1>1, <1>6, <1>7, <2>4, <3>2
      <4>2. h.prev[e] # c
        BY <1>2, <1>6, <1>3
      <4> QED
        BY <1>2, <1>6, <2>4, <4>1, <4>2
    <3> QED
      BY <3>1, <3>2
  <2>5. ASSUME NEW e \in Heads(g), NEW f \in Heads(g), e < f
        PROVE  e + 32 + g.size[e] <= f
    <3>1. CASE e = c
      <4>1. d < f
        <5>1. f \in Heads(h) /\ f \in Nat /\ f # d /\ c < f
          BY <1>1, <1>6, <2>5, <3>1
        <5>2. c + 32 + h.size[c] <= f
          BY <1>2, <5>1
        <5> QED
          BY <1>3, <5>1, <5>2
      <4>2. d + 32 + h.size[d] <= f
        BY <1>2, <1>6, <4>1
      <4> QED
        BY <1>3, <1>4, <1>6, <3>1, <4>2
    <3>2. CASE e # c
      BY <1>2, <1>6, <2>5, <3>2
    <3> QED
      BY <3>1, <3>2
  <2> QED
    BY <2>1, <2>2, <2>3, <2>4, <2>5 DEF Linked, HeaderSize, First, Null, End
<1>10. Aligned(g)
  BY <1>1, <1>6 DEF Aligned
<1> QED
  BY <1>4, <1>6, <1>8, <1>9, <1>10 DEF WellFormed

(***************************************************************************)
(* Freeing: the two merges, one after the other.                           *)
(***************************************************************************)
(* After the merge with the successor, the only free neighbours left are   *)
(* the predecessor and the chunk itself.                                   *)
OnlyInto(h, c) == \A e \in h.free : h.next[e] \in h.free => h.next[e] = c

(* The forward merge of RtlFreeHeap keeps the list well formed and leaves  *)
(* the freed chunk as the only one that can stand behind a free one.       *)
LEMMA AbsorbNextFacts ==
    ASSUME NEW h, WellFormed(h), NoAdjacentFree(h), NEW c \in Used(h)
    PROVE  LET g == AbsorbNext(Marked(h, c), c)
           IN  /\ WellFormed(g) /\ OnlyInto(g, c)
               /\ c \in Heads(g) /\ c \in g.free
               /\ Used(g) = Used(h) \ {c}
               /\ \A e \in Used(g) : g.size[e] = h.size[e]
<1> DEFINE m == Marked(h, c)
           d == h.next[c]
           g == AbsorbNext(m, c)
<1>1. /\ Heads(m) = Heads(h) /\ m.free = h.free \cup {c} /\ m.next = h.next
      /\ m.size = h.size /\ m.prev = h.prev /\ c \in Heads(h) /\ c \notin h.free
  BY DEF Heads, Marked, Flagged, Used
<1>2. WellFormed(m) /\ h.free \subseteq Heads(h)
  BY <1>1 DEF WellFormed, Typed, Linked, Aligned
<1>3. CASE d \in m.free
  <2>1. g = Absorb(m, c, d) /\ d \in Heads(m) /\ c \in Heads(m) /\ d = m.next[c]
    BY <1>1, <1>2, <1>3 DEF AbsorbNext
  <2> HIDE DEF m, d, g
  <2>2. /\ WellFormed(g) /\ c < d /\ Heads(g) = Heads(m) \ {d} /\ g.free = m.free \ {d}
        /\ g.next[c] = m.next[d]
        /\ \A e \in Heads(m) \ {c, d} : g.size[e] = m.size[e] /\ g.next[e] = m.next[e]
    BY <1>2, <2>1, AbsorbWellFormed
  <2>3. c # d /\ d \in h.free /\ c \in Nat /\ d \in Nat
    BY <1>1, <1>2, <1>3, <2>1, <2>2 DEF WellFormed, Typed
  <2>4. h.next[d] # c
    <3>1. h.next[d] # 0 => h.next[d] = d + 32 + h.size[d] /\ h.size[d] \in Nat
      BY <1>1, <1>2, <2>3 DEF WellFormed, Typed, Linked, HeaderSize, Null
    <3>2. c # 0
      BY <1>1 DEF WellFormed, Typed, Null
    <3> QED
      BY <2>2, <2>3, <3>1, <3>2
  <2>5. h.next[d] \notin h.free /\ h.next[d] \notin m.free
    BY <1>1, <2>3, <2>4 DEF NoAdjacentFree
  <2>6. ASSUME NEW e \in g.free, g.next[e] \in g.free
        PROVE  g.next[e] = c
    <3>1. CASE e = c
      BY <1>1, <2>2, <2>5, <2>6, <3>1
    <3>2. CASE e # c
      <4>1. e \in h.free /\ g.next[e] = h.next[e]
        BY <1>1, <1>2, <2>2, <3>2
      <4> QED
        BY <1>1, <2>2, <2>6, <4>1 DEF NoAdjacentFree
    <3> QED
      BY <3>1, <3>2
  <2>7. Used(g) = Used(h) \ {c}
    BY <1>1, <2>2, <2>3 DEF Used
  <2>8. \A e \in Used(g) : g.size[e] = h.size[e]
    BY <1>1, <2>2, <2>3, <2>7 DEF Used
  <2>9. c \in Heads(g) /\ c \in g.free
    BY <1>1, <2>2, <2>3
  <2> QED
    BY <2>2, <2>6, <2>7, <2>8, <2>9 DEF OnlyInto, g, m
<1>4. CASE d \notin m.free
  <2>1. g = m
    BY <1>1, <1>4 DEF AbsorbNext
  <2>2. OnlyInto(m, c)
    BY <1>1, <1>4 DEF OnlyInto, NoAdjacentFree
  <2>3. Used(m) = Used(h) \ {c}
    BY <1>1 DEF Used
  <2> HIDE DEF m
  <2> QED
    BY <1>1, <1>2, <2>1, <2>2, <2>3 DEF m
<1> QED
  BY <1>3, <1>4

(* RtlFreeHeap keeps the list well formed, leaves no free neighbours,      *)
(* takes exactly the chunk out of use and touches no other used chunk.     *)
LEMMA ReleaseWellFormed ==
    ASSUME NEW h, WellFormed(h), NoAdjacentFree(h), NEW c \in Used(h)
    PROVE  /\ WellFormed(Release(h, c)) /\ NoAdjacentFree(Release(h, c))
           /\ Used(Release(h, c)) = Used(h) \ {c}
           /\ \A e \in Used(h) \ {c} : Release(h, c).size[e] = h.size[e]
<1> DEFINE g == AbsorbNext(Marked(h, c), c)
           p == g.prev[c]
           r == AbsorbedByPrev(g, c)
<1>1. Release(h, c) = r
  BY DEF Release
<1>2. /\ WellFormed(g) /\ OnlyInto(g, c) /\ c \in Heads(g) /\ c \in g.free
      /\ Used(g) = Used(h) \ {c}
      /\ \A e \in Used(g) : g.size[e] = h.size[e]
  BY AbsorbNextFacts
<1> HIDE DEF g
<1>3. g.free \subseteq Heads(g) /\ Heads(g) \subseteq Nat \ {0} /\ c \in Nat
  BY <1>2 DEF WellFormed, Typed, Null
<1>4. g.next[c] # c
  BY <1>2, <1>3 DEF WellFormed, Typed, Linked, HeaderSize, Null
<1>5. g.next[c] \notin g.free
  BY <1>2, <1>4 DEF OnlyInto
<1>6. CASE p \in g.free
  <2>1. r = Absorb(g, p, c) /\ p \in Heads(g) /\ g.next[p] = c
    BY <1>2, <1>3, <1>6 DEF AbsorbedByPrev, WellFormed, Linked, Null
  <2> HIDE DEF r, p
  <2>2. /\ WellFormed(r) /\ p < c /\ Heads(r) = Heads(g) \ {c} /\ r.free = g.free \ {c}
        /\ r.next[p] = g.next[c]
        /\ \A e \in Heads(g) \ {p, c} : r.size[e] = g.size[e] /\ r.next[e] = g.next[e]
    BY <1>2, <2>1, AbsorbWellFormed
  <2>3. ASSUME NEW e \in r.free PROVE r.next[e] \notin r.free
    <3>1. CASE e = p
      BY <1>5, <2>2, <3>1
    <3>2. CASE e # p
      BY <1>2, <1>3, <2>2, <3>2 DEF OnlyInto
    <3> QED
      BY <3>1, <3>2
  <2>4. Used(r) = Used(g)
    BY <1>2, <2>2 DEF Used
  <2>5. \A e \in Used(g) : r.size[e] = g.size[e]
    BY <1>2, <1>6, <2>2 DEF Used
  <2> QED
    BY <1>1, <1>2, <2>2, <2>3, <2>4, <2>5 DEF NoAdjacentFree
<1>7. CASE p \notin g.free
  <2>1. r = g
    BY <1>7 DEF AbsorbedByPrev
  <2>2. ASSUME NEW e \in g.free PROVE g.next[e] \notin g.free
    <3>1. SUFFICES ASSUME g.next[e] \in g.free PROVE FALSE
      OBVIOUS
    <3>2. g.next[e] = c /\ e \in Heads(g) /\ c # 0
      BY <1>2, <1>3, <3>1 DEF OnlyInto
    <3>3. g.prev[c] = e
      BY <1>2, <3>2 DEF WellFormed, Linked, Null
    <3> QED
      BY <1>7, <3>3
  <2> QED
    BY <1>1, <1>2, <2>1, <2>2 DEF NoAdjacentFree
<1> QED
  BY <1>6, <1>7

(* Carving leaves no free neighbours either: the remainder's neighbours    *)
(* are the chunk now in use and the free chunk's old successor.            *)
LEMMA CarveNoAdjacentFree ==
    ASSUME NEW h, WellFormed(h), NoAdjacentFree(h), NEW c, NEW a \in Nat, a % 8 = 0,
           a + 2 * HeaderSize < Word, Fits(h, c, a)
    PROVE  NoAdjacentFree(Carve(h, c, a))
<1>1. SizeT(a + HeaderSize + HeaderSize) = a + 2 * HeaderSize
  BY SizeTSmall DEF HeaderSize
<1>2. c \in h.free /\ c \in Heads(h) /\ h.free \subseteq Heads(h)
  BY CarveWellFormed DEF WellFormed, Typed
<1>3. CASE h.size[c] >= a + 2 * HeaderSize
  <2> DEFINE new == c + HeaderSize + a
             g == SplitAt(h, c, new, a, h.size[c] - a - HeaderSize)
  <2>1. Carve(h, c, a) = g /\ new \notin Heads(h)
    BY <1>1, <1>2, <1>3, SplitArithmetic DEF Carve, HeaderSize
  <2> HIDE DEF new
  <2>2. /\ g.free = (h.free \cup {new}) \ {c}
        /\ g.next[new] = h.next[c]
        /\ \A e \in Heads(h) \ {c} : g.next[e] = h.next[e]
    BY <1>2, <2>1 DEF SplitAt, Heads
  <2>3. \A e \in h.free : h.next[e] # new
    <3>1. \A e \in h.free : h.next[e] \in Heads(h) \cup {Null}
      BY <1>2 DEF WellFormed, Typed
    <3>2. new # Null
      BY <1>2 DEF WellFormed, Typed, new, HeaderSize, Null
    <3> QED
      BY <2>1, <3>1, <3>2
  <2> HIDE DEF g
  <2>4. ASSUME NEW e \in g.free PROVE g.next[e] \notin g.free
    BY <1>2, <2>1, <2>2, <2>3 DEF NoAdjacentFree
  <2> QED
    BY <2>1, <2>4 DEF NoAdjacentFree
<1>4. CASE ~ (h.size[c] >= a + 2 * HeaderSize)
  BY <1>1, <1>4 DEF Carve, Flagged, NoAdjacentFree
<1> QED
  BY <1>3, <1>4

(***************************************************************************)
(* The inductive invariant.                                                *)
(***************************************************************************)
HeldTyped == held \in [DOMAIN held -> Requests]

HeapInv ==
    /\ WellFormed(heap)
    /\ NoAdjacentFree(heap)
    /\ HeldTyped
    /\ HeldPointersValid

(* A held pointer's chunk is in use and long enough, and it is the only    *)
(* pointer into that chunk.                                                *)
LEMMA HeldChunk ==
    ASSUME HeapInv, NEW p \in DOMAIN held
    PROVE  /\ ChunkOf(p) \in Used(heap) /\ ChunkOf(p) \in Heads(heap)
           /\ p = ChunkOf(p) + 32 /\ ChunkOf(p) \in Nat /\ p \in Nat
           /\ held[p] \in Requests /\ held[p] <= heap.size[ChunkOf(p)]
           /\ heap.size[ChunkOf(p)] \in Nat
<1>1. PICK c \in Used(heap) : p = c + 32
  BY DEF HeapInv, HeldPointersValid, PointerOf, HeaderSize, Used
<1>2. c \in Nat /\ c \in Heads(heap) /\ heap.size[c] \in Nat
  BY <1>1 DEF HeapInv, WellFormed, Typed, Used
<1>3. ChunkOf(p) = c
  BY <1>1, <1>2 DEF ChunkOf, HeaderSize
<1> QED
  BY <1>1, <1>2, <1>3 DEF HeapInv, HeldTyped, HeldPointersValid, GrantFits

(* CreateHeap's single free chunk satisfies the invariant.                 *)
LEMMA InitHeapInv == Init => HeapInv
<1> SUFFICES ASSUME Init PROVE HeapInv
  OBVIOUS
<1>1. SizeT(ReserveSize - HeaderSize - HeaderSize) = ReserveSize - 64
  <2>1. ReserveSize - 64 \in Nat /\ ReserveSize - 64 < Word
    BY ReserveAssumption DEF HeaderSize
  <2> QED
    BY <2>1, SizeTSmall, ReserveAssumption DEF HeaderSize
<1>2. /\ Heads(heap) = {32} /\ heap.free = {32}
      /\ heap.size = [c \in {32} |-> ReserveSize - 64]
      /\ heap.next = [c \in {32} |-> 0] /\ heap.prev = [c \in {32} |-> 0]
      /\ DOMAIN held = {} /\ held = [p \in {} |-> 0]
  BY <1>1 DEF Init, Heads, First, HeaderSize, Null
<1>3. Typed(heap)
  BY <1>2, ReserveAssumption DEF Typed, Null, HeaderSize
<1>4. Linked(heap)
  BY <1>2, ReserveAssumption DEF Linked, First, End, Null, HeaderSize
<1>5. Aligned(heap) /\ NoAdjacentFree(heap)
  BY <1>2 DEF Aligned, NoAdjacentFree
<1>6. HeldTyped /\ HeldPointersValid
  BY <1>2 DEF HeldTyped, HeldPointersValid, GrantFits
<1> QED
  BY <1>3, <1>4, <1>5, <1>6 DEF HeapInv, WellFormed

(* Allocation: what RtlAllocateHeap leaves behind, also when it is called  *)
(* by RtlReAllocateHeap.                                                   *)
LEMMA CarveInv ==
    ASSUME NoWrap, HeapInv, NEW n \in Requests, NEW c, IsFirstFit(heap, c, AllocSize(n))
    PROVE  LET g == Carve(heap, c, AllocSize(n))
           IN  /\ WellFormed(g) /\ NoAdjacentFree(g)
               /\ Used(g) = Used(heap) \cup {c} /\ c \notin Used(heap)
               /\ c \in Heads(heap) /\ c \in Nat
               /\ n <= g.size[c]
               /\ \A d \in Used(heap) : g.size[d] = heap.size[d]
<1> DEFINE a == AllocSize(n)
           g == Carve(heap, c, a)
<1>1. a \in Nat /\ n <= a /\ a % 8 = 0 /\ a + 2 * HeaderSize < Word /\ n \in Nat
  BY AllocSizeBounds
<1>2. Fits(heap, c, a)
  BY DEF IsFirstFit
<1> HIDE DEF a
<1>3. /\ WellFormed(g) /\ c \in Heads(heap) /\ c \in heap.free
      /\ Used(g) = Used(heap) \cup {c} /\ a <= g.size[c]
      /\ \A d \in Used(heap) : g.size[d] = heap.size[d]
  BY <1>1, <1>2, CarveWellFormed DEF HeapInv
<1>4. NoAdjacentFree(g)
  BY <1>1, <1>2, CarveNoAdjacentFree DEF HeapInv
<1> HIDE DEF g
<1>5. c \in Nat /\ g.size[c] \in Nat /\ c \notin Used(heap)
  BY <1>3 DEF HeapInv, WellFormed, Typed, Used
<1>6. n <= g.size[c]
  BY <1>1, <1>3, <1>5
<1> QED
  BY <1>3, <1>4, <1>5, <1>6 DEF g, a

(* Every action keeps the invariant.                                       *)
LEMMA NextHeapInv == ASSUME NoWrap, HeapInv, [Next]_vars PROVE HeapInv'
<1>1. ASSUME NEW n \in Requests, Allocate(n) PROVE HeapInv'
  <2>1. PICK c \in Heads(heap) :
               /\ IsFirstFit(heap, c, AllocSize(n))
               /\ heap' = Carve(heap, c, AllocSize(n))
               /\ held' = Holding(PointerOf(c), n, DOMAIN held)
    BY <1>1 DEF Allocate
  <2>2. /\ WellFormed(heap') /\ NoAdjacentFree(heap')
        /\ Used(heap') = Used(heap) \cup {c} /\ c \notin Used(heap)
        /\ c \in Nat /\ n <= heap'.size[c]
        /\ \A d \in Used(heap) : heap'.size[d] = heap.size[d]
    BY <2>1, CarveInv
  <2>3. /\ DOMAIN held' = DOMAIN held \cup {c + 32} /\ held'[c + 32] = n
        /\ \A p \in DOMAIN held \ {c + 32} : held'[p] = held[p]
        /\ HeldTyped'
    BY <2>1 DEF HeapInv, HeldTyped, Holding, PointerOf, HeaderSize
  <2>4. DOMAIN held' = {PointerOf(d) : d \in Used(heap')}
    BY <2>2, <2>3 DEF HeapInv, HeldPointersValid, PointerOf, HeaderSize, Used
  <2>5. ASSUME NEW p \in DOMAIN held' PROVE held'[p] <= heap'.size[ChunkOf(p)]
    <3>1. CASE p = c + 32
      BY <2>2, <2>3, <3>1 DEF ChunkOf, HeaderSize
    <3>2. CASE p # c + 32
      BY <2>2, <2>3, <3>2, HeldChunk
    <3> QED
      BY <3>1, <3>2
  <2> QED
    BY <2>2, <2>3, <2>4, <2>5 DEF HeapInv, HeldPointersValid, GrantFits, Used
<1>2. ASSUME NEW p \in DOMAIN held, Free(p) PROVE HeapInv'
  <2> DEFINE c == ChunkOf(p)
  <2>1. c \in Used(heap) /\ p = c + 32 /\ c \in Nat
    BY HeldChunk
  <2> HIDE DEF c
  <2>2. /\ WellFormed(heap') /\ NoAdjacentFree(heap')
        /\ Used(heap') = Used(heap) \ {c}
        /\ \A d \in Used(heap) \ {c} : heap'.size[d] = heap.size[d]
    BY <1>2, <2>1, ReleaseWellFormed DEF Free, HeapInv, c
  <2>3. /\ DOMAIN held' = DOMAIN held \ {p} /\ HeldTyped'
        /\ \A q \in DOMAIN held' : held'[q] = held[q]
    BY <1>2 DEF Free, Dropping, HeapInv, HeldTyped
  <2>4. DOMAIN held' = {PointerOf(d) : d \in Used(heap')}
    <3>1. Used(heap) \subseteq Nat
      BY DEF HeapInv, WellFormed, Typed, Used
    <3> QED
      BY <2>1, <2>2, <2>3, <3>1 DEF HeapInv, HeldPointersValid, PointerOf, HeaderSize, Used
  <2>5. ASSUME NEW q \in DOMAIN held' PROVE held'[q] <= heap'.size[ChunkOf(q)]
    <3>1. ChunkOf(q) \in Used(heap) /\ q = ChunkOf(q) + 32
          /\ held[q] <= heap.size[ChunkOf(q)]
      BY <2>3, HeldChunk
    <3> QED
      BY <2>1, <2>2, <2>3, <3>1
  <2> QED
    BY <2>2, <2>3, <2>4, <2>5 DEF HeapInv, HeldPointersValid, GrantFits, Used
<1>3. ASSUME NEW p \in DOMAIN held, NEW n \in Requests, ReallocateInPlace(p, n)
      PROVE HeapInv'
  <2>1. /\ DOMAIN held' = DOMAIN held /\ HeldTyped' /\ heap' = heap
        /\ held'[p] = n /\ n <= heap.size[ChunkOf(p)]
        /\ \A q \in DOMAIN held \ {p} : held'[q] = held[q]
    BY <1>3 DEF ReallocateInPlace, Holding, HeapInv, HeldTyped
  <2> QED
    BY <2>1 DEF HeapInv, HeldPointersValid, GrantFits
<1>4. ASSUME NEW p \in DOMAIN held, NEW n \in Requests, ReallocateByMoving(p, n)
      PROVE HeapInv'
  <2> DEFINE o == ChunkOf(p)
  <2>1. PICK c \in Heads(heap) :
               /\ IsFirstFit(heap, c, AllocSize(n))
               /\ heap' = Release(Carve(heap, c, AllocSize(n)), o)
               /\ held' = Holding(PointerOf(c), n, DOMAIN held \ {p})
    BY <1>4 DEF ReallocateByMoving
  <2> DEFINE g == Carve(heap, c, AllocSize(n))
  <2>2. o \in Used(heap) /\ p = o + 32 /\ o \in Nat
    BY HeldChunk
  <2> HIDE DEF o
  <2>3. /\ WellFormed(g) /\ NoAdjacentFree(g)
        /\ Used(g) = Used(heap) \cup {c} /\ c \notin Used(heap)
        /\ c \in Nat /\ n <= g.size[c]
        /\ \A d \in Used(heap) : g.size[d] = heap.size[d]
    BY <2>1, CarveInv
  <2>4. heap' = Release(g, o)
    BY <2>1
  <2> HIDE DEF g
  <2>5. /\ WellFormed(heap') /\ NoAdjacentFree(heap')
        /\ Used(heap') = (Used(heap) \cup {c}) \ {o}
        /\ \A d \in Used(g) \ {o} : heap'.size[d] = g.size[d]
    BY <2>2, <2>3, <2>4, ReleaseWellFormed
  <2>6. /\ DOMAIN held' = (DOMAIN held \ {p}) \cup {c + 32} /\ held'[c + 32] = n
        /\ \A q \in DOMAIN held \ {p, c + 32} : held'[q] = held[q]
        /\ HeldTyped'
    BY <2>1 DEF HeapInv, HeldTyped, Holding, PointerOf, HeaderSize
  <2>7. DOMAIN held' = {PointerOf(d) : d \in Used(heap')}
    <3>1. Used(heap) \subseteq Nat
      BY DEF HeapInv, WellFormed, Typed, Used
    <3>2. DOMAIN held = {d + 32 : d \in Used(heap)}
      BY DEF HeapInv, HeldPointersValid, PointerOf, HeaderSize, Used
    <3> QED
      BY <2>2, <2>3, <2>5, <2>6, <3>1, <3>2 DEF PointerOf, HeaderSize
  <2>8. ASSUME NEW q \in DOMAIN held' PROVE held'[q] <= heap'.size[ChunkOf(q)]
    <3>1. CASE q = c + 32
      BY <2>2, <2>3, <2>5, <2>6, <3>1 DEF ChunkOf, HeaderSize
    <3>2. CASE q # c + 32
      <4>1. q \in DOMAIN held /\ q # p /\ held'[q] = held[q]
        BY <2>6, <3>2
      <4>2. ChunkOf(q) \in Used(heap) /\ q = ChunkOf(q) + 32
            /\ held[q] <= heap.size[ChunkOf(q)]
        BY <4>1, HeldChunk
      <4> QED
        BY <2>2, <2>3, <2>5, <4>1, <4>2
    <3> QED
      BY <3>1, <3>2
  <2> QED
    BY <2>5, <2>6, <2>7, <2>8 DEF HeapInv, HeldPointersValid, GrantFits, Used
<1>5. CASE UNCHANGED vars
  BY <1>5 DEF vars, HeapInv, HeldTyped, HeldPointersValid, GrantFits
<1> QED
  BY <1>1, <1>2, <1>3, <1>4, <1>5 DEF Next

(***************************************************************************)
(* Theorems of the specification.                                          *)
(***************************************************************************)
(* The invariant holds in every reachable state.                           *)
THEOREM HeapInvariant == ASSUME NoWrap PROVE Spec => []HeapInv
<1>1. HeapInv /\ [Next]_vars => HeapInv'
  BY NextHeapInv
<1> QED
  BY <1>1, InitHeapInv, PTL DEF Spec

(* Links always lead to existing headers, in every heap of any size.       *)
THEOREM TypeCorrect == ASSUME NoWrap PROVE Spec => []TypeOK
<1>1. HeapInv => TypeOK
  <2> SUFFICES ASSUME HeapInv PROVE TypeOK
    OBVIOUS
  <2>1. DOMAIN held \subseteq Nat
    BY HeldChunk
  <2> QED
    BY <2>1 DEF HeapInv, TypeOK, WellFormed, HeldTyped
<1> QED
  BY <1>1, HeapInvariant, PTL

(* No sequence of RtlAllocateHeap, RtlFreeHeap and RtlReAllocateHeap loses *)
(* a byte between chunks or lets two chunks overlap.                       *)
THEOREM ListTilesHeap == ASSUME NoWrap PROVE Spec => []ChunksTile
<1>1. HeapInv => ChunksTile
  BY DEF HeapInv, ChunksTile, WellFormed
<1> QED
  BY <1>1, HeapInvariant, PTL

(* What RtlFreeHeap needs of every pointer a caller holds.                 *)
THEOREM HeldPointersStayValid == ASSUME NoWrap PROVE Spec => []HeldPointersValid
<1>1. HeapInv => HeldPointersValid
  BY DEF HeapInv
<1> QED
  BY <1>1, HeapInvariant, PTL

(* RtlFreeHeap never leaves two free neighbours.                           *)
THEOREM FreeChunksMerged == ASSUME NoWrap PROVE Spec => []Coalesced
<1>1. HeapInv => Coalesced
  BY DEF HeapInv, Coalesced
<1> QED
  BY <1>1, HeapInvariant, PTL

(* In a well-formed heap the bytes callers hold never meet.                *)
LEMMA InvBlocksDisjoint == HeapInv => BlocksDisjoint
<1> SUFFICES ASSUME HeapInv, NEW p \in DOMAIN held
             PROVE  /\ p + held[p] <= End
                    /\ \A q \in DOMAIN held : p < q => p + held[p] <= q
                    /\ \A c \in Heads(heap) : c + HeaderSize <= p \/ p + held[p] <= c
  BY DEF BlocksDisjoint
<1> DEFINE o == ChunkOf(p)
<1>a. /\ o \in Heads(heap) /\ p = o + 32 /\ o \in Nat
      /\ held[p] \in Requests /\ held[p] <= heap.size[o] /\ heap.size[o] \in Nat
  BY HeldChunk
<1> HIDE DEF o
<1>1. /\ o \in Heads(heap) /\ p = o + 32 /\ o \in Nat /\ held[p] \in Nat
      /\ held[p] <= heap.size[o] /\ heap.size[o] \in Nat
  BY <1>a, RequestAssumption, ReserveAssumption
<1>2. /\ Heads(heap) \subseteq Nat
      /\ \A c \in Heads(heap) : heap.size[c] \in Nat /\ c + 32 + heap.size[c] <= ReserveSize
      /\ \A c, d \in Heads(heap) : c < d => c + 32 + heap.size[c] <= d
  BY DEF HeapInv, WellFormed, Typed, Linked, HeaderSize, End
<1>3. p + held[p] <= End
  BY <1>1, <1>2, ReserveAssumption DEF End
<1>4. ASSUME NEW q \in DOMAIN held, p < q PROVE p + held[p] <= q
  <2>1. ChunkOf(q) \in Heads(heap) /\ q = ChunkOf(q) + 32 /\ ChunkOf(q) \in Nat
    BY HeldChunk
  <2>2. o < ChunkOf(q)
    BY <1>1, <1>4, <2>1
  <2>3. o + 32 + heap.size[o] <= ChunkOf(q)
    BY <1>1, <1>2, <2>1, <2>2
  <2> QED
    BY <1>1, <2>1, <2>3
<1>5. ASSUME NEW c \in Heads(heap) PROVE c + HeaderSize <= p \/ p + held[p] <= c
  <2>1. CASE c <= o
    BY <1>1, <1>2, <2>1 DEF HeaderSize
  <2>2. CASE o < c
    <3>1. o + 32 + heap.size[o] <= c
      BY <1>1, <1>2, <2>2
    <3> QED
      BY <1>1, <1>2, <3>1
  <2> QED
    BY <1>1, <1>2, <2>1, <2>2
<1> QED
  BY <1>3, <1>4, <1>5

(* Every caller's bytes are its own.                                       *)
THEOREM BlocksNeverOverlap == ASSUME NoWrap PROVE Spec => []BlocksDisjoint
  BY InvBlocksDisjoint, HeapInvariant, PTL

(* Whatever was allocated and in whatever order it was freed, the empty    *)
(* heap is the one chunk it was created with: coalescing undoes splitting. *)
THEOREM EmptyHeapRecovers == ASSUME NoWrap PROVE Spec => []EmptyHeapIsWhole
<1>1. HeapInv => EmptyHeapIsWhole
  <2> SUFFICES ASSUME HeapInv, DOMAIN held = {}
               PROVE  Heads(heap) = {First} /\ heap.size[First] = ReserveSize - 2 * HeaderSize
    BY DEF EmptyHeapIsWhole
  <2>1. heap.free = Heads(heap)
    <3>1. \A c \in Heads(heap) \ heap.free : PointerOf(c) \in DOMAIN held
      BY DEF HeapInv, HeldPointersValid
    <3> QED
      BY <3>1 DEF HeapInv, WellFormed, Typed
  <2>2. \A c \in Heads(heap) : heap.next[c] = 0
    BY <2>1 DEF HeapInv, NoAdjacentFree, WellFormed, Typed, Null
  <2>3. /\ Heads(heap) \subseteq Nat /\ 32 \in Heads(heap)
        /\ \A c \in Heads(heap) : heap.size[c] \in Nat /\ 32 <= c
        /\ \A c \in Heads(heap) : c + 32 + heap.size[c] = ReserveSize
        /\ \A c, d \in Heads(heap) : c < d => c + 32 + heap.size[c] <= d
    BY <2>2 DEF HeapInv, WellFormed, Typed, Linked, HeaderSize, First, End, Null
  <2>4. \A c \in Heads(heap) : c = 32
    BY <2>3
  <2>5. heap.size[32] = ReserveSize - 64
    BY <2>3, ReserveAssumption
  <2> QED
    BY <2>3, <2>4, <2>5 DEF First, HeaderSize
<1> QED
  BY <1>1, HeapInvariant, PTL

(***************************************************************************)
(* Refinement.                                                             *)
(***************************************************************************)
(* A used chunk's bytes are unclaimed as far as every other block goes.    *)
LEMMA UsedChunkUnclaimed ==
    ASSUME HeapInv, NEW c \in Heads(heap), NEW n \in Nat, n <= heap.size[c],
           NEW S, \A q \in DOMAIN held \ S : ChunkOf(q) # c
    PROVE  Allocator!Unclaimed(c + 32, n, S)
<1>1. /\ Heads(heap) \subseteq Nat /\ c \in Nat /\ heap.size[c] \in Nat
      /\ \A d \in Heads(heap) : heap.size[d] \in Nat /\ d + 32 + heap.size[d] <= ReserveSize
      /\ \A d, e \in Heads(heap) : d < e => d + 32 + heap.size[d] <= e
  BY DEF HeapInv, WellFormed, Typed, Linked, HeaderSize, End
<1>2. c + 32 + n <= End
  BY <1>1, ReserveAssumption DEF End
<1>3. ASSUME NEW q \in DOMAIN held \ S
      PROVE  c + 32 + n <= q \/ q + held[q] <= c + 32
  <2> DEFINE d == ChunkOf(q)
  <2>1. /\ d \in Heads(heap) /\ q = d + 32 /\ d \in Nat /\ held[q] \in Nat
        /\ held[q] <= heap.size[d] /\ heap.size[d] \in Nat /\ d # c
    <3>1. q \in DOMAIN held /\ d # c
      OBVIOUS
    <3>2. \A r \in Requests : r \in Nat
      BY RequestAssumption, ReserveAssumption
    <3> QED
      BY <3>1, <3>2, HeldChunk
  <2> HIDE DEF d
  <2>2. CASE c < d
    <3>1. c + 32 + heap.size[c] <= d
      BY <1>1, <2>1, <2>2
    <3> QED
      BY <1>1, <2>1, <3>1
  <2>3. CASE d < c
    <3>1. d + 32 + heap.size[d] <= c
      BY <1>1, <2>1, <2>3
    <3> QED
      BY <1>1, <2>1, <3>1
  <2> QED
    BY <1>1, <2>1, <2>2, <2>3
<1> QED
  BY <1>2, <1>3 DEF Allocator!Unclaimed

(* The chunk an allocation finds is one the abstract allocator may grant.  *)
LEMMA FirstFitGrantable ==
    ASSUME NoWrap, HeapInv, NEW n \in Requests, NEW c, IsFirstFit(heap, c, AllocSize(n))
    PROVE  /\ c + 32 \in {p \in First .. End : p % 8 = 0} \ DOMAIN held
           /\ Allocator!Unclaimed(c + 32, n, {})
<1>1. n \in Nat /\ n <= AllocSize(n) /\ AllocSize(n) \in Nat
      /\ AllocSize(n) + 2 * HeaderSize < Word /\ AllocSize(n) % 8 = 0
  BY AllocSizeBounds
<1>2. Fits(heap, c, AllocSize(n))
  BY DEF IsFirstFit
<1>3. c \in Heads(heap) /\ c \in Nat /\ c \notin Used(heap)
  BY CarveInv
<1>4. heap.size[c] >= AllocSize(n) + 32 /\ heap.size[c] \in Nat
  <2>1. SizeT(AllocSize(n) + 32) = AllocSize(n) + 32
    <3>1. AllocSize(n) + 32 \in Nat /\ AllocSize(n) + 32 < Word
      BY <1>1, ReserveAssumption DEF HeaderSize
    <3> QED
      BY <3>1, SizeTSmall
  <2> QED
    BY <1>2, <1>3, <2>1 DEF Fits, HeaderSize, HeapInv, WellFormed, Typed
<1>5. \A q \in DOMAIN held : ChunkOf(q) # c /\ q # c + 32
  BY <1>3, HeldChunk
<1>6. Allocator!Unclaimed(c + 32, n, {})
  <2>1. n <= heap.size[c]
    BY <1>1, <1>4
  <2> QED
    BY <1>1, <1>3, <1>5, <2>1, UsedChunkUnclaimed
<1>7. /\ c + 32 \in First .. End /\ (c + 32) % 8 = 0
  <2>1. 32 <= c /\ c + 32 + heap.size[c] <= ReserveSize /\ c % 8 = 0
    BY <1>3 DEF HeapInv, WellFormed, Linked, Aligned, HeaderSize, First, End
  <2>2. (c + 32) % 8 = 0
    BY <1>3, <2>1
  <2> QED
    BY <1>3, <1>4, <2>1, <2>2, ReserveAssumption DEF First, End, HeaderSize
<1> QED
  BY <1>5, <1>6, <1>7

(* Every step of the heap is a step the abstract allocator allows, or one  *)
(* that callers cannot see.                                                *)
LEMMA StepRefines ==
    ASSUME NoWrap, HeapInv, [Next]_vars
    PROVE  [Allocator!Next]_held
<1>1. ASSUME NEW n \in Requests, Allocate(n) PROVE Allocator!Grant(n)
  <2>1. PICK c \in Heads(heap) :
               /\ IsFirstFit(heap, c, AllocSize(n))
               /\ held' = Holding(c + 32, n, DOMAIN held)
    BY <1>1 DEF Allocate, PointerOf, HeaderSize
  <2>2. /\ c + 32 \in {p \in First .. End : p % 8 = 0} \ DOMAIN held
        /\ Allocator!Unclaimed(c + 32, n, {})
    BY <2>1, FirstFitGrantable
  <2> QED
    BY <2>1, <2>2 DEF Allocator!Grant, Allocator!Holding, Holding
<1>2. ASSUME NEW p \in DOMAIN held, Free(p) PROVE Allocator!Return(p)
  BY <1>2 DEF Free, Dropping, Allocator!Return
<1>3. ASSUME NEW p \in DOMAIN held, NEW n \in Requests, ReallocateInPlace(p, n)
      PROVE  Allocator!Resize(p, n)
  <2>1. /\ ChunkOf(p) \in Heads(heap) /\ p = ChunkOf(p) + 32
        /\ n <= heap.size[ChunkOf(p)]
    BY <1>3, HeldChunk DEF ReallocateInPlace
  <2>2. n \in Nat
    BY RequestAssumption, ReserveAssumption
  <2>3. \A q \in DOMAIN held \ {p} : ChunkOf(q) # ChunkOf(p)
    BY HeldChunk
  <2>4. Allocator!Unclaimed(ChunkOf(p) + 32, n, {p})
    BY <2>1, <2>2, <2>3, UsedChunkUnclaimed
  <2> QED
    BY <1>3, <2>1, <2>4 DEF ReallocateInPlace, Allocator!Resize, Allocator!Holding, Holding
<1>4. ASSUME NEW p \in DOMAIN held, NEW n \in Requests, ReallocateByMoving(p, n)
      PROVE  Allocator!Move(p, n)
  <2>1. PICK c \in Heads(heap) :
               /\ IsFirstFit(heap, c, AllocSize(n))
               /\ held' = Holding(c + 32, n, DOMAIN held \ {p})
    BY <1>4 DEF ReallocateByMoving, PointerOf, HeaderSize
  <2>2. /\ c + 32 \in {q \in First .. End : q % 8 = 0} \ DOMAIN held
        /\ Allocator!Unclaimed(c + 32, n, {})
    BY <2>1, FirstFitGrantable
  <2> QED
    BY <2>1, <2>2 DEF Allocator!Move, Allocator!Holding, Holding
<1>5. CASE UNCHANGED vars
  BY <1>5 DEF vars
<1> QED
  BY <1>1, <1>2, <1>3, <1>4, <1>5 DEF Next, Allocator!Next

(* The heap implements the abstract allocator.                             *)
THEOREM HeapRefines == ASSUME NoWrap PROVE Spec => ImplementsAllocator
<1>1. Init => Allocator!Init
  BY DEF Init, Allocator!Init
<1>2. HeapInv /\ [Next]_vars => [Allocator!Next]_held
  BY StepRefines
<1> QED
  BY <1>1, <1>2, HeapInvariant, PTL DEF Spec, ImplementsAllocator, Allocator!Spec
=============================================================================
