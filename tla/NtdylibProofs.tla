---------------------------- MODULE NtdylibProofs ----------------------------
(***************************************************************************)
(* The reference counts of NTDYLIB, what its imports are bound to and what *)
(* its images hold, for any modules, files and memory, and DllMains nested *)
(* as deep as they may be.                                                 *)
(***************************************************************************)
EXTENDS Ntdylib, SequenceTheorems, FunctionTheorems, FiniteSetTheorems,
        WellFoundedInduction, NaturalsInduction, TLAPS

Frame(at, m) == [at |-> at, mod |-> m]
Frames == [at : {"attach", "detach"}, mod : Modules]

Pushes(t, y, s) == t = <<y>> \o s

\* The places of x in s.
Places(s, x) == {i \in DOMAIN s : s[i] = x}

LEMMA PlacesFinite ==
  ASSUME NEW S, NEW s \in Seq(S), NEW x
  PROVE  IsFiniteSet(Places(s, x)) /\ Cardinality(Places(s, x)) \in Nat
<1>1. Places(s, x) \subseteq 1 .. Len(s) /\ Len(s) \in Int
  BY DEF Places
<1>2. IsFiniteSet(1 .. Len(s))
  BY <1>1, FS_Interval
<1> QED
  BY <1>1, <1>2, FS_Subset, FS_CardinalityType

\* A frame more on the stack.
LEMMA PlacesPushed ==
  ASSUME NEW S, NEW s \in Seq(S), NEW y \in S, NEW x,
         NEW t, Pushes(t, y, s)
  PROVE  /\ t \in Seq(S)
         /\ x = y => Cardinality(Places(t, x)) = Cardinality(Places(s, x)) + 1
         /\ x # y => Cardinality(Places(t, x)) = Cardinality(Places(s, x))
<1>1. PICK z : z = <<y>>
  OBVIOUS
<1>2. z \in Seq(S) /\ Len(z) = 1 /\ z[1] = y /\ t = z \o s
  BY <1>1 DEF Pushes
<1>3. /\ t \in Seq(S) /\ Len(t) = Len(z) + Len(s)
      /\ \A i \in 1 .. Len(z) + Len(s) : t[i] = IF i <= Len(z) THEN z[i] ELSE s[i - Len(z)]
  BY <1>2, ConcatProperties
<1>4. Len(t) = Len(s) + 1 /\ t[1] = y /\ Len(s) \in Nat
  BY <1>2, <1>3
<1>5. \A i \in 1 .. Len(s) : t[i + 1] = s[i]
  BY <1>2, <1>3, <1>4
<1> DEFINE old == Places(s, x)
           moved == {i + 1 : i \in old}
           f == [i \in old |-> i + 1]
<1>6. old \subseteq 1 .. Len(s)
  BY DEF Places
<1>7. f \in Bijection(old, moved)
  <2>1. f \in [old -> moved]
    OBVIOUS
  <2>2. \A i, j \in old : f[i] = f[j] => i = j
    BY <1>6
  <2>3. \A m \in moved : \E i \in old : f[i] = m
    OBVIOUS
  <2> QED
    BY ONLY <2>1, <2>2, <2>3, Fun_IsBij
<1>8. IsFiniteSet(moved) /\ Cardinality(moved) = Cardinality(old) /\ Cardinality(old) \in Nat
  <2>1. ExistsBijection(old, moved)
    BY <1>7 DEF ExistsBijection
  <2>2. IsFiniteSet(old) /\ Cardinality(old) \in Nat
    BY PlacesFinite
  <2> HIDE DEF old, moved
  <2> QED
    BY <2>1, <2>2, FS_Bijection
<1>9. Places(t, x) = IF x = y THEN moved \cup {1} ELSE moved
  <2>1. \A i \in DOMAIN t : i \in 2 .. Len(t) => i - 1 \in 1 .. Len(s) /\ t[i] = s[i - 1]
    BY <1>3, <1>4, <1>5
  <2>2. ASSUME NEW i \in Places(t, x), i # 1 PROVE i \in moved
    <3>1. i \in 1 .. Len(t) /\ t[i] = x
      BY <1>3 DEF Places
    <3>2. i - 1 \in old /\ i = (i - 1) + 1
      BY <1>4, <1>5, <2>2, <3>1 DEF Places
    <3> QED
      BY <3>2
  <2>3. ASSUME NEW i \in moved PROVE i \in Places(t, x) /\ i # 1
    <3>1. PICK j \in old : i = j + 1
      OBVIOUS
    <3> QED
      BY <1>3, <1>4, <1>5, <1>6, <3>1 DEF Places
  <2>4. 1 \in Places(t, x) <=> x = y
    BY <1>3, <1>4 DEF Places
  <2>5. PICK there : there = Places(t, x)
    OBVIOUS
  <2> HIDE DEF moved
  <2>6. CASE x = y
    BY <2>2, <2>3, <2>4, <2>5, <2>6
  <2>7. CASE x # y
    <3>1. \A i : i \in there <=> i \in moved
      BY <2>2, <2>3, <2>4, <2>5, <2>7
    <3> QED
      BY <2>5, <2>7, <3>1
  <2> QED
    BY <2>6, <2>7
<1>10. 1 \notin moved
  BY <1>6
<1> HIDE DEF old, moved
<1>11. Cardinality(moved \cup {1}) = Cardinality(moved) + 1
  BY <1>8, <1>10, FS_AddElement
<1> QED
  BY <1>3, <1>8, <1>9, <1>11 DEF old

\* A sequence without duplicates has as many places as members.
Once(s) == \A i, j \in 1 .. Len(s) : s[i] = s[j] => i = j

LEMMA OnceCounts ==
  ASSUME NEW S, NEW s \in Seq(S), Once(s)
  PROVE  Cardinality(ToSet(s)) = Len(s)
<1>1. PICK n \in Nat : n = Len(s)
  OBVIOUS
<1>2. DOMAIN s = 1 .. n /\ s = [i \in 1 .. n |-> s[i]]
  BY <1>1
<1>3. PICK T : T = ToSet(s)
  OBVIOUS
<1>4. s \in [1 .. n -> T]
  BY <1>2, <1>3 DEF ToSet
<1>5. \A t \in T : \E i \in 1 .. n : s[i] = t
  BY <1>2, <1>3 DEF ToSet
<1>6. \A i, j \in 1 .. n : s[i] = s[j] => i = j
  BY <1>1 DEF Once
<1>7. s \in Bijection(1 .. n, T)
  BY ONLY <1>4, <1>5, <1>6, Fun_IsBij
<1>8. ExistsBijection(1 .. n, T)
  BY <1>7 DEF ExistsBijection
<1> QED
  BY ONLY <1>1, <1>3, <1>8, FS_CountingElements

\* A module more at the head of the list.
LEMMA OncePushed ==
  ASSUME NEW S, NEW s \in Seq(S), Once(s), NEW y \in S, y \notin ToSet(s),
         NEW t, Pushes(t, y, s)
  PROVE  t \in Seq(S) /\ Once(t) /\ ToSet(t) = ToSet(s) \cup {y}
<1>1. PICK z : z = <<y>>
  OBVIOUS
<1>2. z \in Seq(S) /\ Len(z) = 1 /\ z[1] = y /\ t = z \o s
  BY <1>1 DEF Pushes
<1>3. /\ t \in Seq(S) /\ Len(t) = Len(z) + Len(s)
      /\ \A i \in 1 .. Len(z) + Len(s) : t[i] = IF i <= Len(z) THEN z[i] ELSE s[i - Len(z)]
  BY <1>2, ConcatProperties
<1>4. PICK n \in Nat : n = Len(s)
  OBVIOUS
<1>5. t \in Seq(S) /\ Len(t) = n + 1 /\ t[1] = y
  BY <1>2, <1>3, <1>4
<1>6. \A i \in 2 .. n + 1 : i - 1 \in 1 .. n /\ t[i] = s[i - 1]
  BY <1>2, <1>3, <1>4
<1>7. \A i \in 1 .. n : t[i + 1] = s[i] /\ s[i] # y
  <2> SUFFICES ASSUME NEW i \in 1 .. n PROVE t[i + 1] = s[i] /\ s[i] # y
    OBVIOUS
  <2>1. i + 1 \in 2 .. n + 1 /\ (i + 1) - 1 = i
    BY <1>4
  <2>2. t[i + 1] = s[(i + 1) - 1]
    BY <1>6, <2>1
  <2>3. i \in DOMAIN s
    BY <1>4
  <2> QED
    BY <2>1, <2>2, <2>3 DEF ToSet
<1>8. Once(t)
  <2>1. SUFFICES ASSUME NEW i \in 1 .. n + 1, NEW j \in 1 .. n + 1, t[i] = t[j] PROVE i = j
    BY <1>5 DEF Once
  <2>2. CASE i = 1 \/ j = 1
    <3>1. \A l \in 2 .. n + 1 : t[l] # y
      BY <1>6, <1>7
    <3> QED
      BY <1>5, <2>1, <2>2, <3>1
  <2>3. CASE i # 1 /\ j # 1
    <3>1. i - 1 \in 1 .. n /\ j - 1 \in 1 .. n /\ s[i - 1] = s[j - 1]
      <4>1. i \in 2 .. n + 1 /\ j \in 2 .. n + 1
        BY <1>4, <2>3
      <4> QED
        BY <1>6, <2>1, <4>1
    <3>2. i - 1 = j - 1
      BY <1>4, <3>1 DEF Once
    <3> QED
      BY <3>2
  <2> QED
    BY <2>2, <2>3
<1>9. ToSet(t) = ToSet(s) \cup {y}
  <2>1. DOMAIN t = 1 .. n + 1 /\ DOMAIN s = 1 .. n
    BY <1>4, <1>5
  <2>2. ASSUME NEW x \in ToSet(t) PROVE x \in ToSet(s) \cup {y}
    <3>1. PICK i \in 1 .. n + 1 : x = t[i]
      BY <2>1 DEF ToSet
    <3>2. CASE i = 1
      BY <1>5, <3>1, <3>2
    <3>3. CASE i # 1
      <4>1. i \in 2 .. n + 1
        BY <1>4, <3>3
      <4>2. i - 1 \in 1 .. n /\ t[i] = s[i - 1]
        BY <1>6, <4>1
      <4> QED
        BY <2>1, <3>1, <4>2 DEF ToSet
    <3> QED
      BY <3>2, <3>3
  <2>3. ASSUME NEW x \in ToSet(s) PROVE x \in ToSet(t)
    <3>1. PICK i \in 1 .. n : x = s[i]
      BY <2>1 DEF ToSet
    <3>2. i + 1 \in 1 .. n + 1 /\ t[i + 1] = x
      <4>1. n \in Nat /\ i \in 1 .. n
        BY <1>4, <3>1
      <4>2. t[i + 1] = s[i]
        BY <1>7, <4>1
      <4> QED
        BY <3>1, <4>1, <4>2
    <3> QED
      BY <2>1, <3>2 DEF ToSet
  <2>4. y \in ToSet(t)
    BY <1>5, <2>1 DEF ToSet
  <2> QED
    BY <2>2, <2>3, <2>4
<1> QED
  BY <1>5, <1>8, <1>9

\* A module less in the list.
LEMMA OnceRemoved ==
  ASSUME NEW S, NEW s \in Seq(S), Once(s), NEW k \in 1 .. Len(s),
         NEW t, t = RemoveAt(s, k)
  PROVE  t \in Seq(S) /\ Once(t) /\ ToSet(t) = ToSet(s) \ {s[k]}
<1>1. PICK n \in Nat : n = Len(s)
  OBVIOUS
<1>2. PICK a : a = SubSeq(s, 1, k - 1)
  OBVIOUS
<1>3. PICK b : b = SubSeq(s, k + 1, n)
  OBVIOUS
<1>4. a \in Seq(S) /\ Len(a) = k - 1 /\ \A i \in 1 .. k - 1 : a[i] = s[i]
  BY <1>1, <1>2
<1>5. b \in Seq(S) /\ Len(b) = n - k /\ \A i \in 1 .. n - k : b[i] = s[k + i]
  BY <1>1, <1>3
<1>6. t = a \o b
  BY <1>1, <1>2, <1>3 DEF RemoveAt
<1>7. /\ t \in Seq(S) /\ Len(t) = Len(a) + Len(b)
      /\ \A i \in 1 .. Len(a) + Len(b) : t[i] = IF i <= Len(a) THEN a[i] ELSE b[i - Len(a)]
  BY ONLY <1>4, <1>5, <1>6, ConcatProperties
<1>8. Len(t) = n - 1 /\ k \in 1 .. n
  BY <1>1, <1>4, <1>5, <1>7
<1>9. \A i \in 1 .. n - 1 : t[i] = IF i <= k - 1 THEN s[i] ELSE s[i + 1]
  <2> SUFFICES ASSUME NEW i \in 1 .. n - 1 PROVE t[i] = IF i <= k - 1 THEN s[i] ELSE s[i + 1]
    OBVIOUS
  <2>1. CASE i <= k - 1
    BY <1>4, <1>5, <1>7, <1>8, <2>1, SMTT(30)
  <2>2. CASE ~(i <= k - 1)
    <3>1. t[i] = b[i - (k - 1)] /\ i - (k - 1) \in 1 .. n - k
      BY <1>4, <1>5, <1>7, <1>8, <2>2
    <3>2. k + (i - (k - 1)) = i + 1
      BY <1>8
    <3> QED
      BY <1>5, <2>2, <3>1, <3>2
  <2> QED
    BY <2>1, <2>2
<1>10. Once(t)
  <2> SUFFICES ASSUME NEW i \in 1 .. n - 1, NEW j \in 1 .. n - 1, t[i] = t[j] PROVE i = j
    BY <1>8 DEF Once
  <2>1. PICK x \in 1 .. n : t[i] = s[x] /\ x = IF i <= k - 1 THEN i ELSE i + 1
    BY <1>9
  <2>2. PICK y \in 1 .. n : t[j] = s[y] /\ y = IF j <= k - 1 THEN j ELSE j + 1
    BY <1>9
  <2>3. x = y
    BY <1>1, <2>1, <2>2 DEF Once
  <2> QED
    BY <1>8, <2>1, <2>2, <2>3
<1>11. ToSet(t) = ToSet(s) \ {s[k]}
  <2>1. DOMAIN t = 1 .. n - 1 /\ DOMAIN s = 1 .. n
    BY <1>1, <1>7, <1>8
  <2>2. ASSUME NEW x \in ToSet(t) PROVE x \in ToSet(s) \ {s[k]}
    <3>1. PICK i \in 1 .. n - 1 : x = t[i]
      BY <2>1 DEF ToSet
    <3>2. PICK j \in 1 .. n : x = s[j] /\ j # k
      BY <1>8, <1>9, <3>1
    <3>3. s[j] # s[k]
      BY <1>1, <1>8, <3>2 DEF Once
    <3> QED
      BY <2>1, <3>2, <3>3 DEF ToSet
  <2>3. ASSUME NEW x \in ToSet(s), x # s[k] PROVE x \in ToSet(t)
    <3>1. PICK j \in 1 .. n : x = s[j] /\ j # k
      BY <2>1, <2>3 DEF ToSet
    <3>2. PICK i \in 1 .. n - 1 : i = IF j < k THEN j ELSE j - 1
      BY <1>8, <3>1
    <3>3. t[i] = x
      BY <1>8, <1>9, <3>1, <3>2
    <3> QED
      BY <2>1, <3>3 DEF ToSet
  <2> QED
    BY <2>2, <2>3
<1> QED
  BY <1>7, <1>10, <1>11

-----------------------------------------------------------------------------
Attaches(m) == Cardinality(Places(frames, Frame("attach", m)))
Detaches(m) == Cardinality(Places(frames, Frame("detach", m)))
Fields == {"file", "refs", "named", "base", "from"}

Typed ==
    /\ frames \in Seq(Frames) /\ held \in [Modules -> Nat]
    /\ Alive \subseteq Modules /\ late \subseteq Modules
    /\ \A m \in Alive : DOMAIN mods[m] = Fields /\ mods[m].refs \in Nat

ListHoldsAlive == list \in Seq(Modules) /\ Once(list) /\ Listed = Alive /\ (~ready => list = <<>>)

ImagesOwned ==
    Alive \subseteq DOMAIN images /\ \A m \in DOMAIN images : m \in Alive \/ images[m].data

(* A living module has a reference for each holder and each DllMain that   *)
(* is about to make one, and none once its only DLL_PROCESS_DETACH runs;   *)
(* a module that is gone has neither holders nor DllMains.                 *)
Accounted(m) ==
    IF m \in Alive
    THEN /\ mods[m].refs = held[m] + Attaches(m)
         /\ Detaches(m) \in {0, 1} /\ (Detaches(m) = 1 => mods[m].refs = 0)
    ELSE held[m] = 0 /\ Attaches(m) = 0 /\ Detaches(m) = 0

LoaderInv ==
    /\ Typed /\ ListHoldsAlive /\ ImagesOwned
    /\ \A m \in Modules \ late : Accounted(m)
    /\ twice => late # {}

LEMMA CountsTyped ==
  ASSUME Typed, NEW m
  PROVE  Attaches(m) \in Nat /\ Detaches(m) \in Nat
BY PlacesFinite DEF Typed, Attaches, Detaches

\* A DllMain is called.
LEMMA Called ==
  ASSUME Typed, NEW at \in {"attach", "detach"}, NEW n \in Modules,
         frames' = <<[at |-> at, mod |-> n]>> \o frames
  PROVE  /\ frames' \in Seq(Frames)
         /\ \A m \in Modules :
               /\ Attaches(m)' = IF at = "attach" /\ m = n THEN Attaches(m) + 1 ELSE Attaches(m)
               /\ Detaches(m)' = IF at = "detach" /\ m = n THEN Detaches(m) + 1 ELSE Detaches(m)
<1>1. PICK y \in Frames : y = [at |-> at, mod |-> n]
  BY DEF Frames
<1>2. frames \in Seq(Frames) /\ frames' = <<y>> \o frames
  BY <1>1 DEF Typed
<1>3. \A x : /\ frames' \in Seq(Frames)
             /\ Cardinality(Places(frames', x)) =
                   IF x = y THEN Cardinality(Places(frames, x)) + 1
                   ELSE Cardinality(Places(frames, x))
  <2> SUFFICES ASSUME NEW x
               PROVE  /\ frames' \in Seq(Frames)
                      /\ Cardinality(Places(frames', x)) =
                            IF x = y THEN Cardinality(Places(frames, x)) + 1
                            ELSE Cardinality(Places(frames, x))
    OBVIOUS
  <2>1. PICK s : s = frames
    OBVIOUS
  <2>2. PICK t : t = frames'
    OBVIOUS
  <2>3. s \in Seq(Frames) /\ Pushes(t, y, s)
    BY <1>2, <2>1, <2>2 DEF Pushes
  <2>4. /\ t \in Seq(Frames)
        /\ x = y => Cardinality(Places(t, x)) = Cardinality(Places(s, x)) + 1
        /\ x # y => Cardinality(Places(t, x)) = Cardinality(Places(s, x))
    BY ONLY <1>1, <2>3, PlacesPushed
  <2> QED
    BY <2>1, <2>2, <2>4
<1>4. \A m : (Frame("attach", m) = y <=> at = "attach" /\ m = n)
             /\ (Frame("detach", m) = y <=> at = "detach" /\ m = n)
  BY <1>1 DEF Frame
<1> QED
  BY <1>3, <1>4 DEF Attaches, Detaches

\* The innermost DllMain returns.
LEMMA Returned ==
  ASSUME Typed, frames # <<>>, frames' = Tail(frames)
  PROVE  /\ frames' \in Seq(Frames)
         /\ \E at \in {"attach", "detach"}, n \in Modules :
               /\ Head(frames) = [at |-> at, mod |-> n]
               /\ \A m \in Modules :
                     /\ Attaches(m)' \in Nat /\ Detaches(m)' \in Nat
                     /\ Attaches(m) = IF at = "attach" /\ m = n THEN Attaches(m)' + 1 ELSE Attaches(m)'
                     /\ Detaches(m) = IF at = "detach" /\ m = n THEN Detaches(m)' + 1 ELSE Detaches(m)'
<1>1. frames \in Seq(Frames) /\ frames # <<>>
  BY DEF Typed
<1>2. Head(frames) \in Frames /\ Tail(frames) \in Seq(Frames) /\ frames = <<Head(frames)>> \o Tail(frames)
  BY <1>1
<1>3. PICK y \in Frames : y = Head(frames)
  BY <1>2
<1>4. PICK at \in {"attach", "detach"}, n \in Modules : y = [at |-> at, mod |-> n]
  BY DEF Frames
<1>5. frames' \in Seq(Frames) /\ frames = <<y>> \o frames'
  BY <1>2, <1>3
<1>6. \A x : Cardinality(Places(frames, x)) =
                 IF x = y THEN Cardinality(Places(frames', x)) + 1
                 ELSE Cardinality(Places(frames', x))
  <2> SUFFICES ASSUME NEW x
               PROVE  Cardinality(Places(frames, x)) =
                          IF x = y THEN Cardinality(Places(frames', x)) + 1
                          ELSE Cardinality(Places(frames', x))
    OBVIOUS
  <2>1. PICK s : s = frames'
    OBVIOUS
  <2>2. PICK t : t = frames
    OBVIOUS
  <2>3. s \in Seq(Frames) /\ Pushes(t, y, s)
    BY <1>5, <2>1, <2>2 DEF Pushes
  <2>4. /\ x = y => Cardinality(Places(t, x)) = Cardinality(Places(s, x)) + 1
        /\ x # y => Cardinality(Places(t, x)) = Cardinality(Places(s, x))
    BY ONLY <1>3, <2>3, PlacesPushed
  <2> QED
    BY <2>1, <2>2, <2>4
<1>7. \A x : Cardinality(Places(frames', x)) \in Nat
  BY ONLY <1>5, PlacesFinite
<1>8. \A m : (Frame("attach", m) = y <=> at = "attach" /\ m = n)
             /\ (Frame("detach", m) = y <=> at = "detach" /\ m = n)
  BY <1>4 DEF Frame
<1>9. \A m \in Modules :
         /\ Attaches(m)' \in Nat /\ Detaches(m)' \in Nat
         /\ Attaches(m) = IF at = "attach" /\ m = n THEN Attaches(m)' + 1 ELSE Attaches(m)'
         /\ Detaches(m) = IF at = "detach" /\ m = n THEN Detaches(m)' + 1 ELSE Detaches(m)'
  BY <1>6, <1>7, <1>8 DEF Attaches, Detaches
<1> QED
  BY <1>3, <1>4, <1>5, <1>9

\* Whether the DLL_PROCESS_DETACH of a module runs, as a count.
LEMMA RunningCounts ==
  ASSUME Typed, NEW m
  PROVE  Running("detach", m) <=> Detaches(m) # 0
<1>1. PICK P : P = Places(frames, Frame("detach", m))
  OBVIOUS
<1>2. Running("detach", m) <=> P # {}
  BY <1>1 DEF Running, Places, Frame
<1>3. IsFiniteSet(P)
  BY <1>1, PlacesFinite DEF Typed
<1>4. Cardinality(P) = 0 <=> P = {}
  BY ONLY <1>3, FS_EmptySet
<1> QED
  BY <1>1, <1>2, <1>4 DEF Detaches

-----------------------------------------------------------------------------
\* An unload that ends: the module leaves the list, and its image, unless it
\* is a data file's, goes with it.
LEMMA FreeKeeps ==
  ASSUME Typed, ListHoldsAlive, ImagesOwned, NEW m \in Modules, Free(m),
         ready' = ready
  PROVE  /\ ListHoldsAlive' /\ ImagesOwned'
         /\ Alive' = Alive \ {m}
         /\ \A n \in Alive' : DOMAIN mods'[n] = Fields /\ mods'[n].refs = mods[n].refs
<1>1. Alive' = Alive \ {m} /\ \A n \in Alive' : mods'[n] = Forget(mods[n], m)
  BY DEF Free, Alive
<1>2. \A n \in Alive' : DOMAIN mods'[n] = Fields /\ mods'[n].refs = mods[n].refs
  BY <1>1 DEF Typed, Forget, Fields
<1>3. list' \in Seq(Modules) /\ Once(list') /\ Listed' = Listed \ {m}
  <2>1. CASE m \in Listed
    <3>1. \E i \in DOMAIN list : list[i] = m
      BY <2>1 DEF Listed, ToSet
    <3>2. Position(m) \in DOMAIN list /\ list[Position(m)] = m
      BY <3>1 DEF Position
    <3>3. PICK k : k = Position(m)
      OBVIOUS
    <3>4. list \in Seq(Modules) /\ Once(list) /\ k \in 1 .. Len(list) /\ list[k] = m
      BY <3>2, <3>3 DEF ListHoldsAlive
    <3>5. PICK t : t = list'
      OBVIOUS
    <3>6. t = RemoveAt(list, k)
      BY <2>1, <3>3, <3>5 DEF Free
    <3>7. t \in Seq(Modules) /\ Once(t) /\ ToSet(t) = ToSet(list) \ {list[k]}
      BY ONLY <3>4, <3>6, OnceRemoved
    <3> QED
      BY <3>4, <3>5, <3>7 DEF Listed
  <2>2. CASE m \notin Listed
    BY <2>2 DEF Free, Listed, ListHoldsAlive
  <2> QED
    BY <2>1, <2>2
<1>4. ~ready' => list' = <<>>
  <2>1. ~ready => Listed = {}
    BY DEF ListHoldsAlive, Listed, ToSet
  <2> QED
    BY <2>1 DEF Free, ListHoldsAlive
<1>5. ListHoldsAlive'
  BY <1>1, <1>3, <1>4 DEF ListHoldsAlive
<1>6. ImagesOwned'
  <2>1. CASE m \in DOMAIN images /\ images[m].data
    BY <1>1, <2>1 DEF Free, ImagesOwned
  <2>2. CASE ~(m \in DOMAIN images /\ images[m].data)
    <3>1. images' = [n \in DOMAIN images \ {m} |-> images[n]]
      BY <2>2 DEF Free, Without, Restrict
    <3> QED
      BY <1>1, <3>1 DEF ImagesOwned
  <2> QED
    BY <2>1, <2>2
<1> QED
  BY <1>1, <1>2, <1>5, <1>6

\* What the counts depend on.
LEMMA CountsUnchanged ==
  ASSUME frames' = frames
  PROVE  \A m : Attaches(m)' = Attaches(m) /\ Detaches(m)' = Detaches(m)
BY DEF Attaches, Detaches

LEMMA LoaderInit ==
  Init => LoaderInv
<1> SUFFICES ASSUME Init PROVE LoaderInv
  OBVIOUS
<1>1. Alive = {} /\ Listed = {}
  BY DEF Init, Alive, NoModules, Listed, ToSet
<1>2. Typed
  BY <1>1 DEF Init, Typed, NoneHeld
<1>3. ListHoldsAlive
  BY <1>1 DEF Init, ListHoldsAlive, Once
<1>4. ImagesOwned
  BY <1>1 DEF Init, ImagesOwned, NoModules
<1>5. \A m \in Modules : Attaches(m) = 0 /\ Detaches(m) = 0
  <2>1. \A x : Places(frames, x) = {}
    BY DEF Init, Places
  <2> QED
    BY <2>1, FS_EmptySet DEF Attaches, Detaches
<1>6. \A m \in Modules : Accounted(m)
  BY <1>1, <1>5 DEF Init, NoneHeld, Accounted
<1> QED
  BY <1>2, <1>3, <1>4, <1>6 DEF LoaderInv, Init

\* A process that ends leaves the state it began with.
LEMMA CrashInits ==
  Crash => Init'
BY DEF Crash, Init

LEMMA AttachKeeps ==
  LoaderInv /\ ProcessAttach => LoaderInv'
<1> SUFFICES ASSUME LoaderInv, ProcessAttach PROVE LoaderInv'
  OBVIOUS
<1>1. list' = list /\ ready'
  BY DEF LoaderInv, ListHoldsAlive, ProcessAttach, NtdylibInit
<1>2. Typed' /\ ListHoldsAlive' /\ ImagesOwned'
  BY <1>1 DEF LoaderInv, ProcessAttach, Typed, ListHoldsAlive, ImagesOwned, Alive, Listed
<1>3. \A m : Accounted(m)' <=> Accounted(m)
  BY CountsUnchanged DEF ProcessAttach, Accounted, Alive
<1> QED
  BY <1>2, <1>3 DEF LoaderInv, ProcessAttach

LEMMA CleanupKeeps ==
  LoaderInv /\ Cleanup => LoaderInv'
<1> SUFFICES ASSUME LoaderInv, Cleanup PROVE LoaderInv'
  OBVIOUS
<1>1. Listed = Alive
  BY DEF LoaderInv, ListHoldsAlive
<1>2. Alive' = {} /\ Listed' = {}
  BY <1>1 DEF Cleanup, Without, Restrict, Alive, Listed, ToSet
<1>3. images' = [n \in DOMAIN images \ Alive |-> images[n]]
  BY <1>1 DEF Cleanup, Without, Restrict
<1>4. Typed'
  BY <1>2 DEF LoaderInv, Typed, Cleanup, NoneHeld
<1>5. ListHoldsAlive'
  BY <1>2 DEF Cleanup, ListHoldsAlive, Once
<1>6. ImagesOwned'
  BY <1>2, <1>3 DEF LoaderInv, ImagesOwned
<1>7. \A m \in Modules : Attaches(m)' = 0 /\ Detaches(m)' = 0
  <2>1. \A x : Places(frames', x) = {}
    BY DEF Cleanup, Places
  <2> QED
    BY <2>1, FS_EmptySet DEF Attaches, Detaches
<1>8. \A m \in Modules : Accounted(m)'
  BY <1>2, <1>7 DEF Accounted, Cleanup, NoneHeld
<1> QED
  BY <1>4, <1>5, <1>6, <1>8 DEF LoaderInv, Cleanup

LEMMA LoadFailsKeeps ==
  ASSUME LoaderInv, NEW f, NEW path, LoadFails(f, path) \/ LoadRefused(f, path)
  PROVE  LoaderInv'
<1>1. UNCHANGED <<list, mods, images, frames, held, late, twice>> /\ ready'
  BY DEF LoadFails, LoadRefused, NtdylibInit
<1>2. Typed' /\ ListHoldsAlive' /\ ImagesOwned'
  BY <1>1 DEF LoaderInv, Typed, ListHoldsAlive, ImagesOwned, Alive, Listed
<1>3. \A m : Accounted(m)' <=> Accounted(m)
  BY <1>1, CountsUnchanged DEF Accounted, Alive
<1> QED
  BY <1>1, <1>2, <1>3 DEF LoaderInv

LEMMA LoadAgainKeeps ==
  ASSUME LoaderInv, NEW f, NEW path, LoadAgain(f, path)
  PROVE  LoaderInv'
<1>1. PICK m \in Found(f, path) :
         /\ mods' = [mods EXCEPT ![m] = Counting(@, mods[m].refs + 1)]
         /\ held' = [held EXCEPT ![m] = @ + 1]
         /\ late' = IF Running("detach", m) THEN late \cup {m} ELSE late
  BY DEF LoadAgain
<1>2. UNCHANGED <<list, images, frames, twice>> /\ ready'
  BY DEF LoadAgain, NtdylibInit
<1>3. m \in Listed /\ Listed = Alive
  BY DEF Found, FindModule, Listed, ToSet, LoaderInv, ListHoldsAlive
<1>4. m \in Alive /\ m \in Modules /\ Typed
  BY <1>3 DEF LoaderInv, Typed
<1>5. Alive' = Alive /\ \A n \in Alive : n # m => mods'[n] = mods[n]
  BY <1>1 DEF Alive
<1>6. mods'[m] = Counting(mods[m], mods[m].refs + 1)
  BY <1>1, <1>4 DEF Alive
<1>7. DOMAIN mods'[m] = Fields /\ mods'[m].refs = mods[m].refs + 1 /\ mods[m].refs \in Nat
  BY <1>4, <1>6 DEF Typed, Fields, Counting
<1>8. held' \in [Modules -> Nat] /\ held'[m] = held[m] + 1 /\ \A n \in Modules : n # m => held'[n] = held[n]
  BY <1>1, <1>4 DEF Typed
<1>9. late' \subseteq Modules /\ late \subseteq late'
  BY <1>1, <1>4 DEF Typed
<1>10. Typed'
  <2>1. \A n \in Alive' : DOMAIN mods'[n] = Fields /\ mods'[n].refs \in Nat
    BY <1>4, <1>5, <1>7 DEF Typed
  <2>2. frames' \in Seq(Frames) /\ Alive' \subseteq Modules
    BY <1>2, <1>4, <1>5 DEF Typed
  <2> QED
    BY <1>8, <1>9, <2>1, <2>2 DEF Typed
<1>11. ListHoldsAlive' /\ ImagesOwned'
  BY <1>2, <1>5 DEF LoaderInv, ListHoldsAlive, ImagesOwned, Listed
<1>12. ASSUME NEW n \in Modules \ late' PROVE Accounted(n)'
  <2>1. Accounted(n) /\ Attaches(n)' = Attaches(n) /\ Detaches(n)' = Detaches(n)
    BY <1>2, <1>9, CountsUnchanged DEF LoaderInv
  <2>2. CASE n = m
    <3>1. Detaches(m) = 0
      BY <1>1, <1>4, <1>12, <2>2, RunningCounts
    <3>2. Attaches(m) \in Nat /\ held[m] \in Nat
      BY <1>4, CountsTyped DEF Typed
    <3> QED
      BY <1>4, <1>5, <1>7, <1>8, <2>1, <2>2, <3>1, <3>2 DEF Accounted
  <2>3. CASE n # m
    <3>1. held'[n] = held[n] /\ (n \in Alive => mods'[n] = mods[n])
      BY <1>5, <1>8, <2>3
    <3> QED
      BY <1>5, <2>1, <3>1 DEF Accounted
  <2> QED
    BY <2>2, <2>3
<1>13. twice' => late' # {}
  BY <1>2, <1>9 DEF LoaderInv
<1> QED
  BY <1>10, <1>11, <1>12, <1>13 DEF LoaderInv

LEMMA LoadNewKeeps ==
  ASSUME LoaderInv, NEW f, NEW path, NEW data, NEW named, LoadNew(f, path, data, named)
  PROVE  LoaderInv'
<1>1. PICK m \in Fresh, at \in Offered(f), starved \in SUBSET DOMAIN Content[f].imports :
         /\ list' = <<m>> \o list
         /\ mods' = With(mods, m, Structure(f, named, at, m, starved))
         /\ images' = With(images, m, [data |-> data, base |-> at,
                                    mem |-> ImageOf(Structure(f, named, at, m, starved), m)])
         /\ IF f \in Entry
            THEN frames' = <<[at |-> "attach", mod |-> m]>> \o frames /\ UNCHANGED held
            ELSE held' = [held EXCEPT ![m] = 1] /\ UNCHANGED frames
  BY DEF LoadNew
<1>2. UNCHANGED <<late, twice>> /\ ready'
  BY DEF LoadNew, NtdylibInit
<1>3. m \in Modules /\ m \notin Alive /\ m \notin late /\ m \notin DOMAIN images /\ Typed
  BY DEF Fresh, LoaderInv
<1>4. PICK new : new = Structure(f, named, at, m, starved)
  OBVIOUS
<1>5. DOMAIN new = Fields /\ new.refs = 1
  BY <1>4 DEF Structure, Fields
<1>6. Alive' = Alive \cup {m} /\ mods'[m] = new /\ \A n \in Alive : mods'[n] = mods[n]
  BY <1>1, <1>3, <1>4 DEF Alive, With
<1>7. DOMAIN images' = DOMAIN images \cup {m} /\ \A n \in DOMAIN images : images'[n] = images[n]
  BY <1>1, <1>3 DEF With
<1>8. ImagesOwned'
  BY <1>6, <1>7 DEF LoaderInv, ImagesOwned
<1>9. ListHoldsAlive'
  <2>1. PICK t : t = list'
    OBVIOUS
  <2>2. Pushes(t, m, list) /\ list \in Seq(Modules) /\ Once(list) /\ m \notin ToSet(list)
    BY <1>1, <1>3, <2>1 DEF Pushes, LoaderInv, ListHoldsAlive, Listed
  <2>3. t \in Seq(Modules) /\ Once(t) /\ ToSet(t) = ToSet(list) \cup {m}
    BY ONLY <1>3, <2>2, OncePushed
  <2>4. ToSet(list) = Alive
    BY DEF LoaderInv, ListHoldsAlive, Listed
  <2> QED
    BY <1>2, <1>6, <2>1, <2>3, <2>4 DEF ListHoldsAlive, Listed
<1>10. Accounted(m) /\ held[m] = 0 /\ Attaches(m) = 0 /\ Detaches(m) = 0
  BY <1>3 DEF LoaderInv, Accounted
<1>11. /\ frames' \in Seq(Frames) /\ held' \in [Modules -> Nat]
       /\ \A n \in Modules : n # m => /\ held'[n] = held[n] /\ Attaches(n)' = Attaches(n)
                                      /\ Detaches(n)' = Detaches(n)
       /\ held'[m] + Attaches(m)' = 1 /\ Detaches(m)' = 0
  <2>1. CASE f \in Entry
    <3>1. frames' = <<[at |-> "attach", mod |-> m]>> \o frames /\ held' = held
      BY <1>1, <2>1
    <3>2. /\ frames' \in Seq(Frames)
          /\ \A n \in Modules : /\ Attaches(n)' = IF n = m THEN Attaches(n) + 1 ELSE Attaches(n)
                                /\ Detaches(n)' = Detaches(n)
      BY <1>3, <3>1, Called
    <3> QED
      BY <1>3, <1>10, <3>1, <3>2 DEF Typed
  <2>2. CASE f \notin Entry
    <3>1. held' = [held EXCEPT ![m] = 1] /\ frames' = frames
      BY <1>1, <2>2
    <3> QED
      BY <1>3, <1>10, <3>1, CountsUnchanged DEF Typed
  <2> QED
    BY <2>1, <2>2
<1>12. Typed'
  <2>1. \A n \in Alive' : DOMAIN mods'[n] = Fields /\ mods'[n].refs \in Nat
    BY <1>3, <1>5, <1>6 DEF Typed
  <2>2. late' \subseteq Modules /\ Alive' \subseteq Modules
    BY <1>2, <1>3, <1>6 DEF Typed
  <2> QED
    BY <1>11, <2>1, <2>2 DEF Typed
<1>13. ASSUME NEW n \in Modules \ late' PROVE Accounted(n)'
  <2>1. CASE n = m
    BY <1>5, <1>6, <1>11, <2>1 DEF Accounted
  <2>2. CASE n # m
    <3>1. Accounted(n) /\ (n \in Alive' <=> n \in Alive)
      BY <1>2, <1>6, <2>2 DEF LoaderInv
    <3>2. held'[n] = held[n] /\ Attaches(n)' = Attaches(n) /\ Detaches(n)' = Detaches(n)
      BY <1>11, <2>2
    <3> QED
      BY <1>6, <3>1, <3>2 DEF Accounted
  <2> QED
    BY <2>1, <2>2
<1> QED
  BY <1>2, <1>8, <1>9, <1>12, <1>13 DEF LoaderInv

LEMMA AttachReturnsKeeps ==
  LoaderInv /\ AttachReturns => LoaderInv'
<1> SUFFICES ASSUME LoaderInv, AttachReturns PROVE LoaderInv'
  OBVIOUS
<1>1. /\ frames # <<>> /\ frames' = Tail(frames) /\ Head(frames).at = "attach"
      /\ held' = [held EXCEPT ![Head(frames).mod] = @ + 1]
      /\ UNCHANGED <<ready, list, mods, images, late, twice>>
  BY DEF AttachReturns
<1>2. Typed
  BY DEF LoaderInv
<1>3. PICK at \in {"attach", "detach"}, m \in Modules :
         /\ Head(frames) = [at |-> at, mod |-> m]
         /\ \A n \in Modules :
               /\ Attaches(n)' \in Nat /\ Detaches(n)' \in Nat
               /\ Attaches(n) = IF at = "attach" /\ n = m THEN Attaches(n)' + 1 ELSE Attaches(n)'
               /\ Detaches(n) = IF at = "detach" /\ n = m THEN Detaches(n)' + 1 ELSE Detaches(n)'
  BY <1>1, <1>2, Returned
<1>4. at = "attach" /\ Head(frames).mod = m
  BY <1>1, <1>3
<1>5. /\ held' \in [Modules -> Nat] /\ held'[m] = held[m] + 1
      /\ \A n \in Modules : n # m => held'[n] = held[n]
  BY <1>1, <1>2, <1>4 DEF Typed
<1>6. Alive' = Alive /\ mods' = mods
  BY <1>1 DEF Alive
<1>7. frames' \in Seq(Frames)
  BY <1>1, <1>2, Returned
<1>8. Typed'
  BY <1>1, <1>2, <1>5, <1>6, <1>7 DEF Typed
<1>9. ListHoldsAlive' /\ ImagesOwned'
  BY <1>1, <1>6 DEF LoaderInv, ListHoldsAlive, ImagesOwned, Listed
<1>10. ASSUME NEW n \in Modules \ late' PROVE Accounted(n)'
  <2>1. Accounted(n) /\ held[n] \in Nat /\ Attaches(n)' \in Nat
    BY <1>1, <1>2, <1>3 DEF LoaderInv, Typed
  <2>2. Detaches(n)' = Detaches(n)
    BY <1>3, <1>4
  <2>3. CASE n = m
    <3>1. Attaches(n) = Attaches(n)' + 1 /\ held'[n] = held[n] + 1
      BY <1>3, <1>4, <1>5, <2>3
    <3>2. n \in Alive
      BY <2>1, <3>1 DEF Accounted
    <3> QED
      BY <1>6, <2>1, <2>2, <3>1, <3>2 DEF Accounted
  <2>4. CASE n # m
    <3>1. Attaches(n) = Attaches(n)' /\ held'[n] = held[n]
      BY <1>3, <1>5, <2>4
    <3> QED
      BY <1>6, <2>1, <2>2, <3>1 DEF Accounted
  <2> QED
    BY <2>3, <2>4
<1> QED
  BY <1>1, <1>8, <1>9, <1>10 DEF LoaderInv

\* A reference less, on a module that stays.
LEMMA CountedDown ==
  ASSUME Typed, NEW m \in Alive, NEW n \in Nat, mods' = [mods EXCEPT ![m] = Counting(@, n)]
  PROVE  /\ Alive' = Alive /\ mods'[m].refs = n
         /\ \A o \in Alive : o # m => mods'[o] = mods[o]
         /\ \A o \in Alive' : DOMAIN mods'[o] = Fields /\ mods'[o].refs \in Nat
<1>1. Alive' = Alive /\ mods'[m] = Counting(mods[m], n)
      /\ \A o \in Alive : o # m => mods'[o] = mods[o]
  BY DEF Alive
<1>2. DOMAIN mods'[m] = Fields /\ mods'[m].refs = n
  BY <1>1 DEF Counting, Fields, Typed
<1> QED
  BY <1>1, <1>2 DEF Typed

LEMMA UnloadKeeps ==
  ASSUME LoaderInv, NEW m \in Modules, Unload(m)
  PROVE  LoaderInv'
<1>1. /\ held[m] > 0 /\ m \in Alive /\ held' = [held EXCEPT ![m] = @ - 1]
      /\ UNCHANGED <<attached, ready, late>>
  BY DEF Unload
<1>2. Typed /\ ListHoldsAlive /\ ImagesOwned /\ (twice => late # {})
  BY DEF LoaderInv
<1>3. held[m] \in Nat /\ mods[m].refs \in Nat /\ Attaches(m) \in Nat /\ Detaches(m) \in Nat
  BY <1>1, <1>2, CountsTyped DEF Typed
<1>4. /\ held' \in [Modules -> Nat] /\ held'[m] = held[m] - 1
      /\ \A n \in Modules : n # m => held'[n] = held[n]
  BY <1>1, <1>2, <1>3 DEF Typed
<1>5. \A n \in Modules \ late' : Accounted(n)
  BY <1>1 DEF LoaderInv
<1>6. CASE mods[m].refs > 1 /\ mods' = [mods EXCEPT ![m] = Counting(@, mods[m].refs - 1)]
           /\ UNCHANGED <<list, images, frames, twice>>
  <2>1. /\ Alive' = Alive /\ mods'[m].refs = mods[m].refs - 1
        /\ \A o \in Alive : o # m => mods'[o] = mods[o]
        /\ \A o \in Alive' : DOMAIN mods'[o] = Fields /\ mods'[o].refs \in Nat
    <3>1. PICK n \in Nat : n = mods[m].refs - 1
      BY <1>3, <1>6
    <3> QED
      BY <1>1, <1>2, <1>6, <3>1, CountedDown
  <2>2. Typed'
    BY <1>1, <1>2, <1>4, <1>6, <2>1 DEF Typed
  <2>3. ListHoldsAlive' /\ ImagesOwned'
    BY <1>1, <1>2, <1>6, <2>1 DEF ListHoldsAlive, ImagesOwned, Listed
  <2>4. ASSUME NEW n \in Modules \ late' PROVE Accounted(n)'
    <3>1. Accounted(n) /\ Attaches(n)' = Attaches(n) /\ Detaches(n)' = Detaches(n)
      BY <1>5, <1>6, CountsUnchanged
    <3>2. CASE n = m
      BY <1>1, <1>3, <1>4, <1>6, <2>1, <3>1, <3>2 DEF Accounted
    <3>3. CASE n # m
      <4>1. held'[n] = held[n] /\ (n \in Alive => mods'[n] = mods[n])
        BY <1>4, <2>1, <3>3
      <4> QED
        BY <2>1, <3>1, <4>1 DEF Accounted
    <3> QED
      BY <3>2, <3>3
  <2> QED
    BY <1>1, <1>2, <1>6, <2>2, <2>3, <2>4 DEF LoaderInv
<1>7. CASE mods[m].refs <= 1 /\ mods' = [mods EXCEPT ![m] = Counting(@, 0)]
           /\ frames' = <<[at |-> "detach", mod |-> m]>> \o frames
           /\ UNCHANGED <<list, images, twice>>
  <2>1. /\ Alive' = Alive /\ mods'[m].refs = 0
        /\ \A o \in Alive : o # m => mods'[o] = mods[o]
        /\ \A o \in Alive' : DOMAIN mods'[o] = Fields /\ mods'[o].refs \in Nat
    BY <1>1, <1>2, <1>7, CountedDown
  <2>2. /\ frames' \in Seq(Frames)
        /\ \A n \in Modules : /\ Attaches(n)' = Attaches(n)
                              /\ Detaches(n)' = IF n = m THEN Detaches(n) + 1 ELSE Detaches(n)
    BY <1>2, <1>7, Called
  <2>3. Typed'
    BY <1>1, <1>2, <1>4, <1>7, <2>1, <2>2 DEF Typed
  <2>4. ListHoldsAlive' /\ ImagesOwned'
    BY <1>1, <1>2, <1>7, <2>1 DEF ListHoldsAlive, ImagesOwned, Listed
  <2>5. ASSUME NEW n \in Modules \ late' PROVE Accounted(n)'
    <3>1. Accounted(n)
      BY <1>5
    <3>2. CASE n = m
      <4>1. mods[m].refs = held[m] + Attaches(m) /\ Detaches(m) \in {0, 1}
            /\ (Detaches(m) = 1 => mods[m].refs = 0)
        BY <1>1, <3>1, <3>2 DEF Accounted
      <4>2. held'[m] = 0 /\ Attaches(m) = 0 /\ Detaches(m) = 0
        BY <1>1, <1>3, <1>4, <1>7, <4>1
      <4> QED
        BY <1>1, <2>1, <2>2, <3>2, <4>2 DEF Accounted
    <3>3. CASE n # m
      <4>1. held'[n] = held[n] /\ (n \in Alive => mods'[n] = mods[n])
            /\ Attaches(n)' = Attaches(n) /\ Detaches(n)' = Detaches(n)
        BY <1>4, <2>1, <2>2, <3>3
      <4> QED
        BY <2>1, <3>1, <4>1 DEF Accounted
    <3> QED
      BY <3>2, <3>3
  <2> QED
    BY <1>1, <1>2, <1>7, <2>3, <2>4, <2>5 DEF LoaderInv
<1>8. CASE mods[m].refs <= 1 /\ Free(m) /\ UNCHANGED frames
  <2>1. /\ ListHoldsAlive' /\ ImagesOwned' /\ Alive' = Alive \ {m}
        /\ \A n \in Alive' : DOMAIN mods'[n] = Fields /\ mods'[n].refs = mods[n].refs
    BY <1>1, <1>2, <1>8, FreeKeeps
  <2>2. Typed'
    BY <1>1, <1>2, <1>4, <1>8, <2>1 DEF Typed
  <2>3. twice' => twice
    BY <1>1, <1>8 DEF Free
  <2>4. ASSUME NEW n \in Modules \ late' PROVE Accounted(n)'
    <3>1. Accounted(n) /\ Attaches(n)' = Attaches(n) /\ Detaches(n)' = Detaches(n)
      BY <1>5, <1>8, CountsUnchanged
    <3>2. CASE n = m
      <4>1. mods[m].refs = held[m] + Attaches(m) /\ Detaches(m) \in {0, 1}
            /\ (Detaches(m) = 1 => mods[m].refs = 0)
        BY <1>1, <3>1, <3>2 DEF Accounted
      <4>2. held'[m] = 0 /\ Attaches(m) = 0 /\ Detaches(m) = 0
        BY <1>1, <1>3, <1>4, <1>8, <4>1
      <4> QED
        BY <2>1, <3>1, <3>2, <4>2 DEF Accounted
    <3>3. CASE n # m
      <4>1. held'[n] = held[n] /\ (n \in Alive' <=> n \in Alive)
        BY <1>4, <2>1, <3>3
      <4> QED
        BY <2>1, <3>1, <4>1 DEF Accounted
    <3> QED
      BY <3>2, <3>3
  <2> QED
    BY <1>1, <1>2, <2>1, <2>2, <2>3, <2>4 DEF LoaderInv
<1> QED
  BY <1>6, <1>7, <1>8 DEF Unload

LEMMA DetachReturnsKeeps ==
  LoaderInv /\ DetachReturns => LoaderInv'
<1> SUFFICES ASSUME LoaderInv, DetachReturns PROVE LoaderInv'
  OBVIOUS
<1>1. /\ frames # <<>> /\ frames' = Tail(frames) /\ Head(frames).at = "detach"
      /\ Free(Head(frames).mod) /\ UNCHANGED <<ready, held, late>>
  BY DEF DetachReturns
<1>2. Typed /\ ListHoldsAlive /\ ImagesOwned /\ (twice => late # {})
  BY DEF LoaderInv
<1>3. PICK at \in {"attach", "detach"}, m \in Modules :
         /\ Head(frames) = [at |-> at, mod |-> m]
         /\ \A n \in Modules :
               /\ Attaches(n)' \in Nat /\ Detaches(n)' \in Nat
               /\ Attaches(n) = IF at = "attach" /\ n = m THEN Attaches(n)' + 1 ELSE Attaches(n)'
               /\ Detaches(n) = IF at = "detach" /\ n = m THEN Detaches(n)' + 1 ELSE Detaches(n)'
  BY <1>1, <1>2, Returned
<1>4. at = "detach" /\ Head(frames).mod = m /\ Free(m)
  BY <1>1, <1>3
<1>5. /\ ListHoldsAlive' /\ ImagesOwned' /\ Alive' = Alive \ {m}
      /\ \A n \in Alive' : DOMAIN mods'[n] = Fields /\ mods'[n].refs = mods[n].refs
  BY <1>1, <1>2, <1>4, FreeKeeps
<1>6. frames' \in Seq(Frames)
  BY <1>1, <1>2, Returned
<1>7. Typed'
  BY <1>1, <1>2, <1>5, <1>6 DEF Typed
<1>8. m \notin late => Accounted(m) /\ Detaches(m) = Detaches(m)' + 1 /\ Attaches(m) = Attaches(m)'
                       /\ Attaches(m)' \in Nat /\ Detaches(m)' \in Nat /\ held[m] \in Nat
  BY <1>2, <1>3, <1>4 DEF LoaderInv, Typed
<1>9. m \notin late => m \in Alive /\ held[m] = 0 /\ Attaches(m)' = 0 /\ Detaches(m)' = 0
  <2>1. SUFFICES ASSUME m \notin late
                 PROVE  m \in Alive /\ held[m] = 0 /\ Attaches(m)' = 0 /\ Detaches(m)' = 0
    OBVIOUS
  <2>2. m \in Alive
    BY <1>8, <2>1 DEF Accounted
  <2>3. Detaches(m) = 1 /\ mods[m].refs = 0 /\ mods[m].refs = held[m] + Attaches(m)
    BY <1>8, <2>1, <2>2 DEF Accounted
  <2> QED
    BY <1>8, <2>1, <2>2, <2>3
<1>10. twice' => late' # {}
  BY <1>1, <1>2, <1>4, <1>9 DEF Free
<1>11. ASSUME NEW n \in Modules \ late' PROVE Accounted(n)'
  <2>1. CASE n = m
    BY <1>1, <1>5, <1>9, <1>11, <2>1 DEF Accounted
  <2>2. CASE n # m
    <3>1. Accounted(n) /\ (n \in Alive' <=> n \in Alive) /\ held' = held
      BY <1>1, <1>5, <2>2 DEF LoaderInv
    <3>2. Attaches(n)' = Attaches(n) /\ Detaches(n)' = Detaches(n)
      BY <1>3, <2>2
    <3> QED
      BY <1>5, <3>1, <3>2 DEF Accounted
  <2> QED
    BY <2>1, <2>2
<1> QED
  BY <1>5, <1>7, <1>10, <1>11 DEF LoaderInv

-----------------------------------------------------------------------------
\* Every step of the loader keeps the accounts.
LEMMA LoaderNext ==
  LoaderInv /\ [Next]_vars => LoaderInv'
<1> SUFFICES ASSUME LoaderInv, [Next]_vars PROVE LoaderInv'
  OBVIOUS
<1>1. CASE ProcessAttach
  BY <1>1, AttachKeeps
<1>2. CASE Cleanup
  BY <1>2, CleanupKeeps
<1>3. ASSUME NEW f \in Files, NEW path \in BOOLEAN, LoadAgain(f, path) PROVE LoaderInv'
  BY <1>3, LoadAgainKeeps
<1>4. ASSUME NEW f \in Files, NEW path \in BOOLEAN, LoadFails(f, path) \/ LoadRefused(f, path)
      PROVE  LoaderInv'
  BY <1>4, LoadFailsKeeps
<1>5. ASSUME NEW f \in Files, NEW path \in BOOLEAN, LoadFaults(f, path) PROVE LoaderInv'
  <2>1. Init'
    BY <1>5, CrashInits DEF LoadFaults
  <2>2. Init' => LoaderInv'
    BY LoaderInit, PTL
  <2> QED
    BY <2>1, <2>2
<1>6. ASSUME NEW f \in Files, NEW path \in BOOLEAN, NEW data \in DataFlags[f], NEW named \in BOOLEAN,
             LoadNew(f, path, data, named)
      PROVE  LoaderInv'
  BY <1>6, LoadNewKeeps
<1>7. ASSUME NEW m \in Modules, Unload(m) PROVE LoaderInv'
  BY <1>7, UnloadKeeps
<1>8. CASE AttachReturns
  BY <1>8, AttachReturnsKeeps
<1>9. CASE DetachReturns
  BY <1>9, DetachReturnsKeeps
<1>10. CASE UNCHANGED vars
  <2>1. UNCHANGED <<ready, list, mods, images, frames, held, late, twice>>
    BY <1>10 DEF vars
  <2>2. Typed' /\ ListHoldsAlive' /\ ImagesOwned'
    BY <2>1 DEF LoaderInv, Typed, ListHoldsAlive, ImagesOwned, Alive, Listed
  <2>3. \A m : Accounted(m)' <=> Accounted(m)
    BY <2>1, CountsUnchanged DEF Accounted, Alive
  <2> QED
    BY <2>1, <2>2, <2>3 DEF LoaderInv
<1> QED
  BY <1>1, <1>2, <1>3, <1>4, <1>5, <1>6, <1>7, <1>8, <1>9, <1>10 DEF Next

\* NTDYLIB: the accounts are right in every state.
THEOREM LoaderAccounts == Spec => []LoaderInv
<1>1. Init => LoaderInv
  BY LoaderInit
<1>2. LoaderInv /\ [Next]_vars => LoaderInv'
  BY LoaderNext
<1> QED
  BY <1>1, <1>2, PTL DEF Spec

(* The list holds every living module once and no freed one, and no image  *)
(* is left behind but a data file's (NtdylibLoadDll, NtdylibUnloadDll).    *)
THEOREM LoaderListSound == Spec => []ListSound
<1>1. LoaderInv => ListSound
  <2> SUFFICES ASSUME LoaderInv PROVE ListSound
    OBVIOUS
  <2>1. list \in Seq(Modules) /\ Once(list)
    BY DEF LoaderInv, ListHoldsAlive
  <2>2. Cardinality(ToSet(list)) = Len(list)
    BY ONLY <2>1, OnceCounts
  <2>3. ToSet(list) = Alive /\ Listed = Alive
    BY DEF LoaderInv, ListHoldsAlive, Listed
  <2> QED
    BY <2>2, <2>3 DEF LoaderInv, ImagesOwned, ListSound
<1> QED
  BY <1>1, LoaderAccounts, PTL

(* However loads and unloads nest in DllMains, the reference count of a    *)
(* module is the number of loads its callers have not undone and of those  *)
(* that have not returned yet, unless it was handed out while its          *)
(* DLL_PROCESS_DETACH ran.                                                 *)
THEOREM LoaderCountsRefs == Spec => []RefsCounted
<1>1. LoaderInv => RefsCounted
  <2> SUFFICES ASSUME LoaderInv, NEW m \in Alive \ late
               PROVE  mods[m].refs = held[m] + Cardinality(Attaching(m))
    BY DEF RefsCounted
  <2>1. m \in Modules /\ Accounted(m)
    BY DEF LoaderInv, Typed
  <2>2. Attaching(m) = Places(frames, Frame("attach", m))
    BY DEF Attaching, Places, Frame
  <2> QED
    BY <2>1, <2>2 DEF Accounted, Attaches
<1> QED
  BY <1>1, LoaderAccounts, PTL

(* What a caller holds is alive, a DllMain that runs is a living module's, *)
(* and nothing is freed twice, as long as nobody was given a module in the *)
(* middle of its DLL_PROCESS_DETACH (NtdylibUnloadDll).                    *)
THEOREM LoaderKeepsHandles == Spec => []HandlesLive
<1>1. LoaderInv => HandlesLive
  <2> SUFFICES ASSUME LoaderInv PROVE HandlesLive
    OBVIOUS
  <2>1. Typed /\ \A m \in Modules \ late : Accounted(m)
    BY DEF LoaderInv
  <2>2. \A m \in Modules \ late : held[m] > 0 => m \in Alive
    BY <2>1 DEF Accounted
  <2>3. ASSUME NEW i \in DOMAIN frames PROVE frames[i].mod \in Alive \/ frames[i].mod \in late
    <3>1. frames[i] \in Frames
      BY <2>1 DEF Typed
    <3>2. PICK at \in {"attach", "detach"}, m \in Modules : frames[i] = Frame(at, m)
      BY <3>1 DEF Frames, Frame
    <3>3. PICK P : P = Places(frames, Frame(at, m))
      OBVIOUS
    <3>4. P # {} /\ IsFiniteSet(P)
      BY <2>1, <3>2, <3>3, PlacesFinite DEF Places, Typed
    <3>5. Cardinality(P) # 0
      BY ONLY <3>4, FS_EmptySet
    <3>6. Attaches(m) # 0 \/ Detaches(m) # 0
      BY <3>3, <3>5 DEF Attaches, Detaches
    <3>7. m \in Alive \/ m \in late
      BY <2>1, <3>6 DEF Accounted
    <3> QED
      BY <3>2, <3>7 DEF Frame
  <2> QED
    BY <2>2, <2>3 DEF LoaderInv, HandlesLive
<1> QED
  BY <1>1, LoaderAccounts, PTL

-----------------------------------------------------------------------------
(***************************************************************************)
(* What imports are bound to.                                              *)
(***************************************************************************)
\* The place of x in s, when it is there once.
Place(s, x) == CHOOSE i \in DOMAIN s : s[i] = x

LEMMA PlaceIs ==
  ASSUME NEW S, NEW s \in Seq(S), Once(s), NEW i \in 1 .. Len(s)
  PROVE  Place(s, s[i]) = i
<1>1. Place(s, s[i]) \in DOMAIN s /\ s[Place(s, s[i])] = s[i]
  BY DEF Place
<1> QED
  BY <1>1 DEF Once

LEMMA PlaceOf ==
  ASSUME NEW S, NEW s \in Seq(S), NEW x \in ToSet(s)
  PROVE  Place(s, x) \in 1 .. Len(s) /\ s[Place(s, x)] = x
<1>1. \E i \in DOMAIN s : s[i] = x
  BY DEF ToSet
<1> QED
  BY <1>1 DEF Place

(* A module at the head of the list goes before all others, whose order    *)
(* stays.                                                                  *)
LEMMA PlacePushed ==
  ASSUME NEW S, NEW s \in Seq(S), Once(s), NEW y \in S, y \notin ToSet(s),
         NEW t, Pushes(t, y, s)
  PROVE  Place(t, y) = 1 /\ \A x \in ToSet(s) : Place(t, x) = Place(s, x) + 1
<1>1. t \in Seq(S) /\ Once(t)
  BY OncePushed
<1>2. PICK z : z = <<y>>
  OBVIOUS
<1>3. z \in Seq(S) /\ Len(z) = 1 /\ z[1] = y /\ t = z \o s
  BY <1>2 DEF Pushes
<1>4. /\ Len(t) = Len(z) + Len(s)
      /\ \A i \in 1 .. Len(z) + Len(s) : t[i] = IF i <= Len(z) THEN z[i] ELSE s[i - Len(z)]
  BY <1>3, ConcatProperties
<1>5. Len(t) = Len(s) + 1 /\ t[1] = y /\ Len(s) \in Nat
  BY <1>3, <1>4
<1>6. \A i \in 1 .. Len(s) : t[i + 1] = s[i] /\ i + 1 \in 1 .. Len(t)
  BY <1>3, <1>4, <1>5
<1>7. Place(t, t[1]) = 1
  <2>1. 1 \in 1 .. Len(t)
    BY <1>5
  <2> QED
    BY ONLY <1>1, <2>1, PlaceIs
<1>8. ASSUME NEW x \in ToSet(s) PROVE Place(t, x) = Place(s, x) + 1
  <2>1. PICK i : i = Place(s, x)
    OBVIOUS
  <2>2. i \in 1 .. Len(s) /\ s[i] = x
    BY <2>1, PlaceOf
  <2>3. i + 1 \in 1 .. Len(t) /\ t[i + 1] = x
    BY <1>6, <2>2
  <2>4. Place(t, t[i + 1]) = i + 1
    BY ONLY <1>1, <2>3, PlaceIs
  <2> QED
    BY <2>1, <2>3, <2>4
<1> QED
  BY <1>5, <1>7, <1>8

\* A module that leaves the list leaves the others in their order.
LEMMA PlaceRemoved ==
  ASSUME NEW S, NEW s \in Seq(S), Once(s), NEW k \in 1 .. Len(s),
         NEW t, t = RemoveAt(s, k),
         NEW x \in ToSet(s), NEW y \in ToSet(s), x # s[k], y # s[k]
  PROVE  Place(t, x) <= Place(t, y) <=> Place(s, x) <= Place(s, y)
<1>1. t \in Seq(S) /\ Once(t)
  BY OnceRemoved
<1>2. PICK n \in Nat : n = Len(s)
  OBVIOUS
<1>3. PICK a : a = SubSeq(s, 1, k - 1)
  OBVIOUS
<1>4. PICK b : b = SubSeq(s, k + 1, n)
  OBVIOUS
<1>5. a \in Seq(S) /\ Len(a) = k - 1 /\ \A i \in 1 .. k - 1 : a[i] = s[i]
  BY <1>2, <1>3
<1>6. b \in Seq(S) /\ Len(b) = n - k /\ \A i \in 1 .. n - k : b[i] = s[k + i]
  BY <1>2, <1>4
<1>7. t = a \o b
  BY <1>2, <1>3, <1>4 DEF RemoveAt
<1>8. /\ Len(t) = Len(a) + Len(b)
      /\ \A i \in 1 .. Len(a) + Len(b) : t[i] = IF i <= Len(a) THEN a[i] ELSE b[i - Len(a)]
  BY ONLY <1>5, <1>6, <1>7, ConcatProperties
<1>9. Len(t) = n - 1 /\ k \in 1 .. n
  BY <1>2, <1>5, <1>6, <1>8
<1>10. ASSUME NEW z \in ToSet(s), z # s[k]
       PROVE  Place(t, z) = (IF Place(s, z) < k THEN Place(s, z) ELSE Place(s, z) - 1)
              /\ Place(s, z) # k /\ Place(s, z) \in 1 .. n
  <2>1. PICK i : i = Place(s, z)
    OBVIOUS
  <2>2. i \in 1 .. n /\ s[i] = z /\ i # k
    BY <1>2, <1>10, <2>1, PlaceOf
  <2>3. CASE i < k
    <3>1. i \in 1 .. Len(t) /\ t[i] = z
      BY <1>5, <1>6, <1>8, <1>9, <2>2, <2>3
    <3>2. Place(t, t[i]) = i
      BY ONLY <1>1, <3>1, PlaceIs
    <3> QED
      BY <2>1, <2>2, <2>3, <3>1, <3>2
  <2>4. CASE i > k
    <3>1. PICK j : j = i - 1
      OBVIOUS
    <3>2. j \in 1 .. Len(t) /\ t[j] = b[j - (k - 1)] /\ j - (k - 1) \in 1 .. n - k
      BY <1>5, <1>6, <1>8, <1>9, <2>2, <2>4, <3>1
    <3>3. k + (j - (k - 1)) = i
      BY <1>9, <2>2, <3>1
    <3>4. t[j] = z
      BY <1>6, <2>2, <3>2, <3>3
    <3>5. Place(t, t[j]) = j
      BY ONLY <1>1, <3>2, PlaceIs
    <3> QED
      BY <1>9, <2>1, <2>2, <2>4, <3>1, <3>4, <3>5
  <2> QED
    BY <1>9, <2>2, <2>3, <2>4
<1> QED
  BY <1>9, <1>10

\* A set of numbers has a least one.
LEMMA Least ==
  ASSUME NEW T \in SUBSET Nat, T # {}
  PROVE  \E m \in T : \A k \in T : m <= k
<1> DEFINE R == {x \in Nat \X Nat : x[1] < x[2]}
<1>1. IsWellFoundedOn(R, Nat)
  BY NatLessThanWellFounded, Zenon DEF OpToRel, R
<1>2. PICK x \in T : \A y \in T : <<y, x>> \notin R
  BY <1>1, WFMin
<1>3. ASSUME NEW k \in T PROVE x <= k
  <2>1. <<k, x>> \in Nat \X Nat /\ <<k, x>>[1] = k /\ <<k, x>>[2] = x
    OBVIOUS
  <2>2. ~(k < x)
    BY <1>2, <2>1
  <2> QED
    BY <2>2
<1> QED
  BY <1>3

(* NtdylibFindModuleByName finds the first, if there is any.               *)
LEMMA FindsFirst ==
  ASSUME ListHoldsAlive, NEW b
  PROVE  /\ \A n \in FindModule(b) :
               /\ n \in Listed /\ Finds(n, b)
               /\ \A o \in Listed : Finds(o, b) => Position(n) <= Position(o)
         /\ FindModule(b) = {} => \A o \in Listed : ~Finds(o, b)
<1>1. list \in Seq(Modules) /\ Once(list) /\ Len(list) \in Nat
  BY DEF ListHoldsAlive
<1>2. \A i \in 1 .. Len(list) : Position(list[i]) = i
  BY <1>1, PlaceIs DEF Position, Place
<1>3. \A o \in Listed : \E i \in 1 .. Len(list) : list[i] = o
  BY <1>1 DEF Listed, ToSet
<1>4. ASSUME NEW n \in FindModule(b)
      PROVE  /\ n \in Listed /\ Finds(n, b)
             /\ \A o \in Listed : Finds(o, b) => Position(n) <= Position(o)
  <2>1. PICK j \in 1 .. Len(list) :
           n = list[j] /\ Finds(list[j], b) /\ \A k \in 1 .. j - 1 : ~Finds(list[k], b)
    BY <1>1 DEF FindModule
  <2>2. n \in Listed
    BY <1>1, <2>1 DEF Listed, ToSet
  <2>3. ASSUME NEW o \in Listed, Finds(o, b) PROVE Position(n) <= Position(o)
    <3>1. PICK i \in 1 .. Len(list) : list[i] = o
      BY <1>3
    <3>2. ~(i \in 1 .. j - 1)
      BY <2>1, <2>3, <3>1
    <3>3. Position(n) = j /\ Position(o) = i
      BY <1>2, <2>1, <3>1
    <3> QED
      BY <1>1, <2>1, <3>1, <3>2, <3>3
  <2> QED
    BY <2>1, <2>2, <2>3
<1>5. ASSUME NEW o \in Listed, Finds(o, b) PROVE FindModule(b) # {}
  <2>1. PICK T : T = {j \in 1 .. Len(list) : Finds(list[j], b)}
    OBVIOUS
  <2>2. T \in SUBSET Nat /\ T # {}
    BY <1>1, <1>3, <1>5, <2>1
  <2>3. PICK j \in T : \A k \in T : j <= k
    BY ONLY <2>2, Least
  <2>4. j \in 1 .. Len(list) /\ Finds(list[j], b)
    BY <2>1
  <2>5. \A k \in 1 .. j - 1 : ~Finds(list[k], b)
    BY <1>1, <2>1, <2>3, <2>4
  <2> QED
    BY <1>1, <2>4, <2>5 DEF FindModule
<1> QED
  BY <1>4, <1>5


\* What ImportsNewest says of one import.
Import(m, k) ==
    LET f == mods[m].file
        n == mods[m].from[k[1]]
        older == Older(m, Content[f].imports[k[1]].dll)
    IN /\ n = "system" => older = {}
       /\ n \in Modules =>
            /\ n \in older /\ \A o \in older : Position(n) <= Position(o)
            /\ GetProcAddress(n, f, k) # 0
                  => images[m].mem[Thunk(Content[f], k).slot] = GetProcAddress(n, f, k)

Bound(m) ==
    /\ mods[m].file \in Files /\ ParseHeaders(Content[mods[m].file])
    /\ DOMAIN mods[m].from = DOMAIN Content[mods[m].file].imports
    /\ \A k \in Thunks(Content[mods[m].file]) : Import(m, k)

ImportInv == \A m \in Alive : Bound(m)

\* What a module's imports need to stay as they are.
Stays(o) ==
    mods'[o].file = mods[o].file /\ mods'[o].named = mods[o].named /\ mods'[o].base = mods[o].base

LEMMA BoundKept ==
  ASSUME ListHoldsAlive, ListHoldsAlive', NEW x \in Alive, x \in Alive', Bound(x),
         images'[x] = images[x],
         \A o \in Alive \cap Alive' : Stays(o),
         DOMAIN mods'[x].from = DOMAIN mods[x].from,
         \A i \in DOMAIN mods[x].from :
            \/ mods'[x].from[i] = "gone"
            \/ /\ mods'[x].from[i] = mods[x].from[i]
               /\ mods[x].from[i] \in Alive => mods[x].from[i] \in Alive',
         \A o, p \in Alive \cap Alive' :
            Position(o)' <= Position(p)' <=> Position(o) <= Position(p),
         \A o \in Alive' \ Alive : ~(Position(x)' <= Position(o)')
  PROVE  Bound(x)'
<1>1. /\ mods'[x].file = mods[x].file /\ mods[x].file \in Files /\ ParseHeaders(Content[mods[x].file])
      /\ DOMAIN mods[x].from = DOMAIN Content[mods[x].file].imports
      /\ \A k \in Thunks(Content[mods[x].file]) : Import(x, k)
  BY DEF Bound, Stays
<1>2. Listed = Alive /\ Listed' = Alive'
  BY DEF ListHoldsAlive
<1>3. \A b : \A o \in Alive \cap Alive' : Finds(o, b)' <=> Finds(o, b)
  BY DEF Finds, Stays
<1>4. \A b, o : o \in Older(x, b)' <=> o \in Older(x, b) /\ o \in Alive'
  BY <1>2, <1>3 DEF Older
<1>5. ASSUME NEW k \in Thunks(Content[mods[x].file]) PROVE Import(x, k)'
  <2>1. k[1] \in DOMAIN mods[x].from
    BY <1>1 DEF Thunks
  <2>2. PICK n, f : n = mods[x].from[k[1]] /\ f = mods[x].file
    OBVIOUS
  <2>3. PICK dll : dll = Content[f].imports[k[1]].dll
    OBVIOUS
  <2>4. /\ n = "system" => Older(x, dll) = {}
        /\ n \in Modules =>
             /\ n \in Older(x, dll) /\ \A o \in Older(x, dll) : Position(n) <= Position(o)
             /\ GetProcAddress(n, f, k) # 0
                   => images[x].mem[Thunk(Content[f], k).slot] = GetProcAddress(n, f, k)
    BY <1>1, <2>2, <2>3 DEF Import
  <2>5. CASE mods'[x].from[k[1]] = "gone"
    BY <2>5, NtdylibAssumption DEF Import
  <2>6. CASE mods'[x].from[k[1]] = n /\ (n \in Alive => n \in Alive')
    <3>1. n = "system" => Older(x, dll)' = {}
      BY <1>4, <2>4
    <3>2. ASSUME n \in Modules
          PROVE  /\ n \in Older(x, dll)' /\ \A o \in Older(x, dll)' : Position(n)' <= Position(o)'
                 /\ GetProcAddress(n, f, k)' = GetProcAddress(n, f, k)
      <4>1. n \in Older(x, dll) /\ n \in Alive /\ n \in Alive'
        BY <1>2, <2>4, <2>6, <3>2 DEF Older
      <4>2. \A o \in Older(x, dll)' : o \in Alive /\ o \in Alive' /\ o \in Older(x, dll)
        BY <1>2, <1>4 DEF Older
      <4>3. GetProcAddress(n, f, k)' = GetProcAddress(n, f, k)
        BY <4>1 DEF GetProcAddress, Stays
      <4> QED
        BY <1>4, <2>4, <3>2, <4>1, <4>2, <4>3
    <3> QED
      BY <1>1, <2>2, <2>3, <2>4, <2>6, <3>1, <3>2 DEF Import
  <2> QED
    BY <2>1, <2>2, <2>5, <2>6
<1> QED
  BY <1>1, <1>5 DEF Bound

\* A step that leaves the list and the images, and of the modules all but
\* their counts.
LEMMA ImportsStay ==
  ASSUME ListHoldsAlive, ListHoldsAlive', ImportInv, list' = list, images' = images, Alive' = Alive,
         \A o \in Alive : Stays(o) /\ mods'[o].from = mods[o].from
  PROVE  ImportInv'
<1>1. \A o : Position(o)' = Position(o)
  BY DEF Position
<1>2. ASSUME NEW x \in Alive PROVE Bound(x)'
  BY <1>1, <1>2, BoundKept DEF ImportInv
<1> QED
  BY <1>2 DEF ImportInv

LEMMA ImportsCounted ==
  ASSUME LoaderInv, ListHoldsAlive', ImportInv, list' = list, images' = images,
         NEW m \in Alive, NEW n, mods' = [mods EXCEPT ![m] = Counting(@, n)]
  PROVE  ImportInv'
<1>1. Alive' = Alive /\ \A o \in Alive : mods'[o] = IF o = m THEN Counting(mods[m], n) ELSE mods[o]
  BY DEF Alive
<1>2. \A o \in Alive : Stays(o) /\ mods'[o].from = mods[o].from
  BY <1>1 DEF Stays, Counting, LoaderInv, Typed, Fields
<1> QED
  BY <1>1, <1>2, ImportsStay DEF LoaderInv

LEMMA ImportsFreed ==
  ASSUME LoaderInv, LoaderInv', ImportInv, NEW m \in Modules, Free(m)
  PROVE  ImportInv'
<1>1. /\ Typed /\ ListHoldsAlive /\ ListHoldsAlive' /\ Alive' = Alive \ {m}
      /\ \A o \in Alive' : mods'[o] = Forget(mods[o], m)
  BY DEF LoaderInv, Free, Alive
<1>2. list \in Seq(Modules) /\ Once(list) /\ Listed = Alive /\ Alive \subseteq Modules
  BY <1>1 DEF ListHoldsAlive, Typed
<1>3. \A o, p \in Alive' : Position(o)' <= Position(p)' <=> Position(o) <= Position(p)
  <2>1. CASE m \in Listed
    <3>1. PICK k : k = Place(list, m)
      OBVIOUS
    <3>2. PICK s, t : s = list /\ t = list'
      OBVIOUS
    <3>3. m \in ToSet(s)
      BY <2>1, <3>2 DEF Listed
    <3>4. k \in 1 .. Len(s) /\ s[k] = m
      BY <1>2, <3>1, <3>2, <3>3, PlaceOf
    <3>5. t = RemoveAt(s, k)
      BY <2>1, <3>1, <3>2 DEF Free, Position, Place
    <3>6. ASSUME NEW o \in Alive', NEW p \in Alive'
          PROVE  Place(t, o) <= Place(t, p) <=> Place(s, o) <= Place(s, p)
      <4>1. o \in ToSet(s) /\ p \in ToSet(s) /\ o # s[k] /\ p # s[k]
        BY <1>1, <1>2, <3>2, <3>4 DEF Listed
      <4>2. s \in Seq(Modules) /\ Once(s)
        BY <1>2, <3>2
      <4> QED
        BY ONLY <3>4, <3>5, <4>1, <4>2, PlaceRemoved
    <3> QED
      BY <3>2, <3>6 DEF Position, Place
  <2>2. CASE m \notin Listed
    BY <2>2 DEF Free, Position
  <2> QED
    BY <2>1, <2>2
<1>4. ASSUME NEW x \in Alive' PROVE Bound(x)'
  <2>1. x \in Alive /\ x # m /\ Bound(x) /\ x \in DOMAIN images
    BY <1>1 DEF ImportInv, LoaderInv, ImagesOwned
  <2>2. images'[x] = images[x]
    BY <2>1 DEF Free, Without, Restrict
  <2>3. \A o \in Alive' : DOMAIN mods[o] = Fields
    BY <1>1 DEF Typed
  <2>4. \A o \in Alive \cap Alive' : Stays(o)
    <3> SUFFICES ASSUME NEW o \in Alive' PROVE Stays(o)
      OBVIOUS
    <3>1. PICK r : r = mods[o]
      OBVIOUS
    <3>2. mods'[o] = Forget(r, m) /\ DOMAIN r = Fields
      BY <1>1, <2>3, <3>1
    <3>3. mods'[o].file = r.file /\ mods'[o].named = r.named /\ mods'[o].base = r.base
      BY ONLY <3>2 DEF Forget, Fields
    <3> QED
      BY <3>1, <3>3 DEF Stays
  <2>5. mods'[x].from = [i \in DOMAIN mods[x].from |->
                           IF mods[x].from[i] = m THEN "gone" ELSE mods[x].from[i]]
    BY <1>1, <2>3 DEF Forget, Fields
  <2>6. DOMAIN mods'[x].from = DOMAIN mods[x].from
    BY <2>5
  <2>7. \A i \in DOMAIN mods[x].from :
            \/ mods'[x].from[i] = "gone"
            \/ /\ mods'[x].from[i] = mods[x].from[i]
               /\ mods[x].from[i] \in Alive => mods[x].from[i] \in Alive'
    BY <1>1, <2>5
  <2>8. Alive' \ Alive = {}
    BY <1>1
  <2> QED
    BY <1>1, <1>3, <2>1, <2>2, <2>4, <2>6, <2>7, <2>8, BoundKept
<1> QED
  BY <1>4 DEF ImportInv


(* A new module is bound to the newest of each name, itself included.      *)
LEMMA ImportsLoaded ==
  ASSUME LoaderInv, LoaderInv', ImportInv, NEW f \in Files, NEW path, NEW data, NEW named,
         LoadNew(f, path, data, named)
  PROVE  ImportInv'
<1>1. PICK m \in Fresh, at \in Offered(f), starved \in SUBSET DOMAIN Content[f].imports :
         /\ list' = <<m>> \o list
         /\ mods' = With(mods, m, Structure(f, named, at, m, starved))
         /\ images' = With(images, m, [data |-> data, base |-> at,
                                    mem |-> ImageOf(Structure(f, named, at, m, starved), m)])
  BY DEF LoadNew
<1>2. PICK new : new = Structure(f, named, at, m, starved)
  OBVIOUS
<1>3. /\ new.file = f /\ new.named = named /\ new.base = at
      /\ new.from = [i \in DOMAIN Content[f].imports |-> IF i \in starved THEN "nobody"
                                ELSE Provider(Content[f].imports[i].dll, m, f, named)]
  BY <1>2 DEF Structure
<1>4. m \in Modules /\ m \notin Alive /\ m \notin DOMAIN images
  BY DEF Fresh
<1>5. Alive' = Alive \cup {m} /\ mods'[m] = new /\ \A n \in Alive : mods'[n] = mods[n]
  BY <1>1, <1>2, <1>4 DEF Alive, With
<1>6. images'[m].mem = ImageOf(new, m) /\ \A n \in DOMAIN images : images'[n] = images[n]
  BY <1>1, <1>2, <1>4 DEF With
<1>7. /\ ListHoldsAlive /\ ListHoldsAlive' /\ Listed = Alive /\ Listed' = Alive'
      /\ Alive \subseteq Modules /\ Alive \subseteq DOMAIN images
  BY DEF LoaderInv, ListHoldsAlive, Typed, ImagesOwned
<1>8. /\ Position(m)' = 1
      /\ \A o \in Alive : Position(o)' = Position(o) + 1 /\ Position(o) \in 1 .. Len(list)
  <2>1. PICK s, t : s = list /\ t = list'
    OBVIOUS
  <2>2. s \in Seq(Modules) /\ Once(s) /\ m \notin ToSet(s) /\ Pushes(t, m, s) /\ ToSet(s) = Alive
    BY <1>1, <1>4, <1>7, <2>1 DEF ListHoldsAlive, Listed, Pushes
  <2>3. Place(t, m) = 1 /\ \A o \in ToSet(s) : Place(t, o) = Place(s, o) + 1
    BY ONLY <1>4, <2>2, PlacePushed
  <2>4. \A o \in ToSet(s) : Place(s, o) \in 1 .. Len(s)
    BY ONLY <2>2, PlaceOf
  <2> QED
    BY <2>1, <2>2, <2>3, <2>4 DEF Position, Place
<1>9. ParseHeaders(Content[f]) /\ WellMade(Content[f])
  BY NtdylibAssumption DEF LoadNew
<1>10. ASSUME NEW x \in Alive PROVE Bound(x)'
  <2>1. Bound(x) /\ x \in Alive' /\ images'[x] = images[x] /\ mods'[x] = mods[x]
    BY <1>5, <1>6, <1>7 DEF ImportInv
  <2>2. \A o \in Alive \cap Alive' : Stays(o)
    BY <1>5 DEF Stays
  <2>3. \A o, p \in Alive \cap Alive' :
           Position(o)' <= Position(p)' <=> Position(o) <= Position(p)
    BY <1>8
  <2>4. \A o \in Alive' \ Alive : ~(Position(x)' <= Position(o)')
    <3>1. Position(x) \in 1 .. Len(list) /\ Len(list) \in Nat
      BY <1>7, <1>8 DEF ListHoldsAlive
    <3>2. Position(x)' > 1
      BY <1>8, <3>1
    <3> QED
      BY <1>5, <1>8, <3>2
  <2>5. \A i \in DOMAIN mods[x].from : mods'[x].from[i] = mods[x].from[i]
            /\ (mods[x].from[i] \in Alive => mods[x].from[i] \in Alive')
    BY <1>5, <2>1
  <2> QED
    BY <1>7, <2>1, <2>2, <2>3, <2>4, <2>5, BoundKept
<1>11. ASSUME NEW k \in Thunks(Content[f]) PROVE Import(m, k)'
  <2>1. PICK dll : dll = Content[f].imports[k[1]].dll
    OBVIOUS
  <2>2. k[1] \in DOMAIN Content[f].imports
    BY DEF Thunks
  <2>3. PICK n : n = new.from[k[1]]
    OBVIOUS
  <2>4. n = "nobody" \/ n = Provider(dll, m, f, named)
    BY <1>3, <2>1, <2>2, <2>3
  <2>5. \A o : o \in Older(m, dll)' =>
           \/ o = m /\ named /\ Base[f] = dll
           \/ o \in Alive /\ Finds(o, dll)
    BY <1>3, <1>5, <1>7 DEF Older, Finds
  <2>6. \A o \in Alive' : Position(m)' <= Position(o)'
    BY <1>5, <1>7, <1>8 DEF ListHoldsAlive
  <2>7. ASSUME n = "system" PROVE Older(m, dll)' = {}
    <3>1. n = Provider(dll, m, f, named)
      BY <2>4, <2>7
    <3>2. ~(named /\ Base[f] = dll)
      BY <1>4, <2>7, <3>1, NtdylibAssumption DEF Provider
    <3>3. FindModule(dll) = {}
      BY <1>7, <2>7, <3>1, <3>2, FindsFirst, NtdylibAssumption DEF Provider
    <3> QED
      BY <1>7, <2>5, <3>2, <3>3, FindsFirst
  <2>8. ASSUME n \in Modules
        PROVE  n \in Older(m, dll)' /\ \A o \in Older(m, dll)' : Position(n)' <= Position(o)'
    <3>1. n = Provider(dll, m, f, named)
      BY <2>4, <2>8, NtdylibAssumption
    <3>2. CASE named /\ Base[f] = dll
      <4>1. n = m /\ Finds(m, dll)'
        BY <1>3, <1>5, <3>1, <3>2 DEF Provider, Finds
      <4> QED
        BY <1>5, <1>7, <2>6, <4>1 DEF Older
    <3>3. CASE ~(named /\ Base[f] = dll)
      <4>1. n \in FindModule(dll)
        BY <2>8, <3>1, <3>3, NtdylibAssumption DEF Provider
      <4>2. n \in Alive /\ Finds(n, dll) /\ \A o \in Alive : Finds(o, dll) => Position(n) <= Position(o)
        BY <1>7, <4>1, FindsFirst
      <4>3. Finds(n, dll)'
        BY <1>5, <4>2 DEF Finds
      <4>4. n \in Older(m, dll)'
        BY <1>5, <1>7, <2>6, <4>2, <4>3 DEF Older
      <4>5. ASSUME NEW o \in Older(m, dll)' PROVE Position(n)' <= Position(o)'
        <5>1. o \in Alive /\ Finds(o, dll)
          BY <2>5, <3>3, <4>5
        <5> QED
          BY <1>8, <4>2, <5>1
      <4> QED
        BY <4>4, <4>5
    <3> QED
      BY <3>2, <3>3
  <2>9. ASSUME n \in Modules, GetProcAddress(n, f, k)' # 0
        PROVE  images'[m].mem[Thunk(Content[f], k).slot] = GetProcAddress(n, f, k)'
    <3>1. n # "system" /\ n # "nobody"
      BY <2>9, NtdylibAssumption
    <3>2. n \in Alive'
      BY <1>7, <2>8, <2>9 DEF Older
    <3>3. Address(new, m, k) = GetProcAddress(n, f, k)'
      BY <1>3, <1>5, <2>3, <3>1, <3>2 DEF Address, GetProcAddress
    <3>4. k \in Resolved(new, m)
      BY <1>3, <2>9, <3>3 DEF Resolved
    <3>5. PICK a : a = Thunk(Content[f], k).slot
      OBVIOUS
    <3>6. a \in Cells(Content[f]) /\ \A l \in Thunks(Content[f]) : Thunk(Content[f], l).slot = a => l = k
      BY <1>9, <3>5 DEF WellMade
    <3>7. {l \in Resolved(new, m) : Thunk(Content[f], l).slot = a} = {k}
      BY <1>3, <3>4, <3>5, <3>6 DEF Resolved
    <3>8. ImageOf(new, m)[a] = Address(new, m, k)
      BY <1>3, <3>6, <3>7 DEF ImageOf
    <3> QED
      BY <1>6, <3>3, <3>5, <3>8
  <2> QED
    BY <1>3, <1>5, <2>1, <2>3, <2>7, <2>8, <2>9 DEF Import
<1>12. Bound(m)'
  BY <1>3, <1>5, <1>9, <1>11 DEF Bound
<1> QED
  BY <1>5, <1>10, <1>12 DEF ImportInv

LEMMA ImportsNext ==
  LoaderInv /\ LoaderInv' /\ ImportInv /\ [Next]_vars => ImportInv'
<1> SUFFICES ASSUME LoaderInv, LoaderInv', ImportInv, [Next]_vars PROVE ImportInv'
  OBVIOUS
<1>1. ListHoldsAlive /\ ListHoldsAlive' /\ Alive \subseteq Modules /\ Listed = Alive
  BY DEF LoaderInv, ListHoldsAlive, Typed
<1>2. ASSUME mods' = mods, images' = images, list' = list PROVE ImportInv'
  BY <1>1, <1>2, ImportsStay DEF Stays, Alive
<1>3. CASE ProcessAttach
  <2>1. list' = list
    BY <1>1, <1>3 DEF ProcessAttach, ListHoldsAlive
  <2> QED
    BY <1>2, <1>3, <2>1 DEF ProcessAttach
<1>4. CASE Cleanup
  <2>1. Alive' = {}
    BY <1>1, <1>4 DEF Cleanup, Without, Restrict, Alive
  <2> QED
    BY <2>1 DEF ImportInv
<1>5. ASSUME NEW f \in Files, NEW path \in BOOLEAN, LoadAgain(f, path) PROVE ImportInv'
  <2>1. PICK m \in Found(f, path) : mods' = [mods EXCEPT ![m] = Counting(@, mods[m].refs + 1)]
    BY <1>5 DEF LoadAgain
  <2>2. m \in Alive
    BY <1>1 DEF Found, FindModule, Listed, ToSet
  <2> QED
    BY <1>1, <1>5, <2>1, <2>2, ImportsCounted DEF LoadAgain
<1>6. ASSUME NEW f \in Files, NEW path \in BOOLEAN, LoadFails(f, path) \/ LoadRefused(f, path)
      PROVE  ImportInv'
  BY <1>2, <1>6 DEF LoadFails, LoadRefused
<1>7. ASSUME NEW f \in Files, NEW path \in BOOLEAN, LoadFaults(f, path) PROVE ImportInv'
  BY <1>7 DEF LoadFaults, Crash, ImportInv, Alive, NoModules
<1>8. ASSUME NEW f \in Files, NEW path \in BOOLEAN, NEW data \in DataFlags[f], NEW named \in BOOLEAN,
             LoadNew(f, path, data, named)
      PROVE  ImportInv'
  BY <1>8, ImportsLoaded
<1>9. ASSUME NEW m \in Modules, Unload(m) PROVE ImportInv'
  <2>1. m \in Alive
    BY <1>9 DEF Unload
  <2>2. ASSUME NEW n, mods' = [mods EXCEPT ![m] = Counting(@, n)], UNCHANGED <<list, images>>
        PROVE  ImportInv'
    BY <1>1, <2>1, <2>2, ImportsCounted
  <2>3. CASE Free(m)
    BY <2>3, ImportsFreed
  <2> QED
    BY <1>9, <2>2, <2>3 DEF Unload
<1>10. CASE AttachReturns
  BY <1>2, <1>10 DEF AttachReturns
<1>11. CASE DetachReturns
  <2>1. Free(Head(frames).mod) /\ frames # <<>>
    BY <1>11 DEF DetachReturns
  <2>2. Head(frames) \in Frames
    BY <2>1 DEF LoaderInv, Typed
  <2> QED
    BY <2>1, <2>2, ImportsFreed DEF Frames
<1>12. CASE UNCHANGED vars
  BY <1>2, <1>12 DEF vars
<1> QED
  BY <1>3, <1>4, <1>5, <1>6, <1>7, <1>8, <1>9, <1>10, <1>11, <1>12 DEF Next

(* ImportInv: every living module is of a file that the loader takes, and  *)
(* its imports are bound as ImportsNewest has it.                          *)
THEOREM LoaderBinds == Spec => []ImportInv
<1>1. Init => ImportInv
  BY DEF Init, ImportInv, Alive, NoModules
<1> QED
  BY <1>1, ImportsNext, LoaderAccounts, PTL DEF Spec

(* ImportsNewest: an import stays bound to the newest module of the name   *)
(* that was there when the importer came, at the address it exports, and   *)
(* to Windows only if there was none, whatever is loaded or unloaded since.*)
THEOREM LoaderBindsNewest == Spec => []ImportsNewest
<1>1. ImportInv => ImportsNewest
  BY DEF ImportInv, Bound, Import, ImportsNewest
<1> QED
  BY <1>1, LoaderBinds, PTL

-----------------------------------------------------------------------------
(***************************************************************************)
(* What the images hold.                                                   *)
(***************************************************************************)
\* Reducing what is reduced again changes nothing.
LEMMA ReducedOnce ==
  ASSUME NEW d \in Int, d > 0, NEW x \in Int, NEW y \in Int
  PROVE  ((x % d) + y) % d = (x + y) % d /\ x % d \in Nat
<1>1. x % d \in 0 .. d - 1
  OBVIOUS
<1>2. PICK r \in 0 .. d - 1 : r = x % d
  BY <1>1
<1>3. PICK q \in Int : q = x \div d
  OBVIOUS
<1>4. (x % d) = x - d * (x \div d)
  OBVIOUS
<1>5. PICK s \in 0 .. d - 1 : s = (r + y) % d
  OBVIOUS
<1>6. PICK p \in Int : p = (r + y) \div d
  OBVIOUS
<1>7. ((r + y) % d) = (r + y) - d * ((r + y) \div d)
  OBVIOUS
<1>8. x + y = d * (q + p) + s
  <2>1. d * q \in Int /\ d * p \in Int /\ d * (q + p) = d * q + d * p
    OBVIOUS
  <2>2. r = x - d * q /\ s = r + y - d * p
    BY <1>2, <1>3, <1>4, <1>5, <1>6, <1>7
  <2> QED
    BY ONLY <2>1, <2>2, d \in Int, x \in Int, y \in Int, r \in 0 .. d - 1, s \in 0 .. d - 1
<1>9. (x + y) % d = s
  <2>1. PICK z \in Int : z = x + y
    OBVIOUS
  <2>2. PICK w \in Int : w = q + p
    OBVIOUS
  <2>3. z = d * w + s
    BY <1>8, <2>1, <2>2
  <2>4. z % d = s
    BY ONLY <2>3, d \in Int, d > 0, z \in Int, w \in Int, s \in 0 .. d - 1
  <2> QED
    BY <2>1, <2>4
<1> QED
  BY <1>1, <1>2, <1>5, <1>9

\* A set of the first n numbers has a greatest one.
LEMMA Greatest ==
  ASSUME NEW n \in Nat, NEW T \in SUBSET (1 .. n), T # {}
  PROVE  \E m \in T : \A k \in T : k <= m
<1> DEFINE turned == {n - k : k \in T}
<1>1. turned \in SUBSET Nat /\ turned # {}
  <2>1. \A k \in T : k \in 1 .. n
    OBVIOUS
  <2>2. \A x \in turned : x \in Nat
    BY <2>1
  <2>3. PICK k \in T : TRUE
    OBVIOUS
  <2>4. n - k \in turned
    OBVIOUS
  <2> QED
    BY <2>2, <2>4
<1>2. PICK x \in turned : \A y \in turned : x <= y
  <2> HIDE DEF turned
  <2> QED
    BY <1>1, Least
<1>3. PICK m \in T : x = n - m
  OBVIOUS
<1>4. ASSUME NEW k \in T PROVE k <= m
  <2>1. n - k \in turned
    OBVIOUS
  <2>2. n - m <= n - k
    BY <1>2, <1>3, <2>1
  <2>3. k \in 1 .. n /\ m \in 1 .. n
    OBVIOUS
  <2> QED
    BY ONLY <2>2, <2>3, n \in Nat
<1> QED
  BY <1>4

(* A mapped cell holds what the linker put there for the preferred base.   *)
LEMMA MappedLinked ==
  ASSUME NEW f, WellMade(f), NEW a \in Cells(f)
  PROVE  MapImage(f)[a] \in Nat /\ (~IsSlot(f, a) => MapImage(f)[a] = Linked(f, f.base, a))
<1>1. /\ f.headers \in Nat
      /\ f.sections \in Seq([rva : Nat, raw : Nat, rawsize : Nat, vsize : Nat, write : BOOLEAN])
      /\ \A o \in DOMAIN f.raw : f.raw[o] \in Nat
  BY DEF WellMade, TypedFile
<1>2. /\ Stored(f, a) \subseteq DOMAIN f.raw
      /\ ~IsSlot(f, a) => /\ \A o \in Stored(f, a) : f.raw[o] = Linked(f, f.base, a)
                          /\ Stored(f, a) = {} => Linked(f, f.base, a) = 0
  BY DEF WellMade
<1>3. \A o \in Stored(f, a) : f.raw[o] \in Nat /\ (~IsSlot(f, a) => f.raw[o] = Linked(f, f.base, a))
  BY <1>1, <1>2
<1>4. a \in Nat
  BY DEF Cells, WellMade, TypedFile
<1>5. PICK n \in Nat : n = Len(f.sections)
  BY <1>1
<1>6. \A i \in 1 .. n :
         /\ f.sections[i] \in ToSet(f.sections)
         /\ f.sections[i] \in [rva : Nat, raw : Nat, rawsize : Nat, vsize : Nat, write : BOOLEAN]
  <2>1. PICK S : S = [rva : Nat, raw : Nat, rawsize : Nat, vsize : Nat, write : BOOLEAN]
    OBVIOUS
  <2>2. PICK s \in Seq(S) : s = f.sections
    BY <1>1, <2>1
  <2>3. \A i \in 1 .. n : s[i] \in S /\ s[i] \in ToSet(s)
    BY <1>5, <2>2 DEF ToSet
  <2> QED
    BY <2>1, <2>2, <2>3
<1> DEFINE W == {i \in DOMAIN f.sections : Copies(f.sections[i], a) \/ Zeroes(f.sections[i], a)}
           c == CHOOSE i \in W : \A j \in W : j <= i
<1>7. MapImage(f)[a] = IF W = {} THEN IF a < f.headers THEN f.raw[a] ELSE 0
                       ELSE IF Copies(f.sections[c], a)
                            THEN f.raw[f.sections[c].raw + a - f.sections[c].rva]
                       ELSE 0
  BY DEF MapImage
<1>8. W \in SUBSET (1 .. n)
  BY <1>1, <1>5, SMTT(30)
<1>9. ASSUME NEW i \in 1 .. n
      PROVE  LET s == f.sections[i] IN
             /\ s.rawsize > 0 /\ a \in s.rva .. s.rva + s.rawsize - 1 => i \in W
             /\ Copies(s, a) => s.raw + a - s.rva \in Stored(f, a)
             /\ Zeroes(s, a) => Stored(f, a) = {}
  <2>1. PICK s : s = f.sections[i]
    OBVIOUS
  <2>2. s.rva \in Nat /\ s.raw \in Nat /\ s.rawsize \in Nat /\ s.vsize \in Nat
    BY <1>6, <2>1
  <2>3. /\ s.raw > 0 <=> s.rawsize > 0
        /\ a \in s.rva + s.rawsize .. s.rva + s.vsize - 1 => Stored(f, a) = {}
    BY <1>6, <2>1 DEF WellMade
  <2>4. s.rawsize > 0 /\ a \in s.rva .. s.rva + s.rawsize - 1 => i \in W
    BY <1>1, <1>5, <2>1, <2>2, <2>3, SMTT(30) DEF Copies, Copied
  <2>5. ASSUME Copies(s, a) PROVE s.raw + a - s.rva \in Stored(f, a)
    <3>1. s.rawsize > 0 /\ a \in s.rva .. s.rva + s.rawsize - 1
      BY <2>2, <2>3, <2>5 DEF Copies, Copied
    <3> QED
      BY <1>6, <2>1, <3>1 DEF Stored
  <2>6. ASSUME Zeroes(s, a) PROVE Stored(f, a) = {}
    <3>1. a \in s.rva + s.rawsize .. s.rva + s.vsize - 1
      BY <1>4, <2>2, <2>6 DEF Zeroes, Copied, Virtual
    <3> QED
      BY <2>3, <3>1
  <2> QED
    BY <2>1, <2>4, <2>5, <2>6
<1>10. CASE W = {}
  <2>1. CASE a < f.headers
    <3>1. a \in Stored(f, a)
      BY <2>1 DEF Stored
    <3> QED
      BY <1>3, <1>7, <1>10, <2>1, <3>1
  <2>2. CASE ~(a < f.headers)
    <3>1. ASSUME NEW o \in Stored(f, a) PROVE FALSE
      <4>1. PICK s \in ToSet(f.sections) : s.rawsize > 0 /\ a \in s.rva .. s.rva + s.rawsize - 1
        BY <2>2 DEF Stored
      <4>2. PICK i \in 1 .. n : f.sections[i] = s
        BY <1>1, <1>5, <4>1 DEF ToSet
      <4> QED
        BY <1>9, <1>10, <4>1, <4>2
    <3>2. Stored(f, a) = {}
      BY <3>1
    <3> HIDE DEF W
    <3>3. MapImage(f)[a] = 0
      BY <1>7, <1>10, <2>2
    <3> QED
      BY <1>2, <3>2, <3>3
  <2> QED
    BY <2>1, <2>2
<1>11. CASE W # {}
  <2>1. PICK i \in W : \A j \in W : j <= i
    <3> HIDE DEF W
    <3> QED
      BY <1>8, <1>11, Greatest
  <2>2. c \in W
    <3> HIDE DEF W
    <3> QED
      BY <2>1
  <2>3. c \in 1 .. n /\ (Copies(f.sections[c], a) \/ Zeroes(f.sections[c], a))
    BY <1>8, <2>2
  <2> HIDE DEF W, c
  <2>4. CASE Copies(f.sections[c], a)
    BY <1>3, <1>7, <1>9, <1>11, <2>3, <2>4
  <2>5. CASE ~Copies(f.sections[c], a)
    BY <1>2, <1>7, <1>9, <1>11, <2>3, <2>5
  <2> QED
    BY <2>4, <2>5
<1> QED
  BY <1>10, <1>11

\* What a function makes of a finite set is finite.
LEMMA ImageFinite ==
  ASSUME NEW S, IsFiniteSet(S), NEW g, DOMAIN g = S
  PROVE  IsFiniteSet({g[x] : x \in S})
<1> DEFINE T == {g[x] : x \in S}
<1>1. PICK h : h = [x \in S |-> g[x]]
  OBVIOUS
<1>2. h \in [S -> T] /\ \A t \in T : \E x \in S : h[x] = t
  BY <1>1
<1> HIDE DEF T
<1>3. h \in Surjection(S, T)
  BY <1>2, Fun_IsSurj
<1>4. IsFiniteSet(T)
  BY <1>3, FS_Surjection
<1> QED
  BY <1>4 DEF T

LEMMA WalkedFinite ==
  ASSUME NEW f, WellMade(f)
  PROVE  IsFiniteSet(Walked(f))
<1> DEFINE I == {k \in DOMAIN f.relocs : \A l \in 1 .. k : f.relocs[l].size > 0}
           Of(i) == {<<i, j>> : j \in DOMAIN f.relocs[i].entries}
           Parts == {Of(i) : i \in I}
<1>1. PICK S : S = [page : Nat, size : Nat, entries : Seq([type : Nat, offset : Nat])]
  OBVIOUS
<1>2. PICK blocks \in Seq(S) : blocks = f.relocs
  BY <1>1 DEF WellMade, TypedFile
<1>3. IsFiniteSet(I)
  <2>1. I \subseteq 1 .. Len(blocks) /\ Len(blocks) \in Nat
    BY <1>2
  <2>2. IsFiniteSet(1 .. Len(blocks))
    BY <2>1, FS_Interval
  <2> HIDE DEF I
  <2> QED
    BY <2>1, <2>2, FS_Subset
<1>4. ASSUME NEW i \in I PROVE IsFiniteSet(Of(i))
  <2>1. blocks[i] \in S
    BY <1>2
  <2>2. PICK entries \in Seq([type : Nat, offset : Nat]) : entries = f.relocs[i].entries
    BY <1>1, <1>2, <2>1
  <2>3. Len(entries) \in Int /\ DOMAIN entries = 1 .. Len(entries)
    BY <2>2
  <2>4. IsFiniteSet(1 .. Len(entries))
    BY <2>3, FS_Interval
  <2>5. PICK g : g = [j \in 1 .. Len(entries) |-> <<i, j>>]
    OBVIOUS
  <2>6. DOMAIN g = 1 .. Len(entries) /\ \A j \in 1 .. Len(entries) : g[j] = <<i, j>>
    BY <2>5
  <2>7. IsFiniteSet({g[j] : j \in 1 .. Len(entries)})
    BY <2>4, <2>6, ImageFinite
  <2>8. Of(i) = {g[j] : j \in 1 .. Len(entries)}
    BY <2>2, <2>3, <2>6
  <2> QED
    BY <2>7, <2>8
<1>5. IsFiniteSet(Parts)
  <2> HIDE DEF I, Of
  <2>1. PICK g : g = [i \in I |-> Of(i)]
    OBVIOUS
  <2>2. DOMAIN g = I /\ \A i \in I : g[i] = Of(i)
    BY <2>1
  <2>3. IsFiniteSet({g[i] : i \in I})
    BY <1>3, <2>2, ImageFinite
  <2>4. Parts = {g[i] : i \in I}
    BY <2>2
  <2> QED
    BY <2>3, <2>4
<1>6. Walked(f) = UNION Parts
  BY DEF Walked
<1>7. \A T \in Parts : IsFiniteSet(T)
  BY <1>4
<1> HIDE DEF Parts
<1> QED
  BY <1>5, <1>6, <1>7, FS_UNION

\* The walk comes to every entry that the file has for a cell.
LEMMA FixupsPatched ==
  ASSUME NEW f, NEW a
  PROVE  Patched(f, a) = Fixups(f, a)
<1>1. ASSUME NEW e \in Patched(f, a) PROVE e \in Fixups(f, a)
  BY DEF Patched, Walked, Fixups
<1>2. ASSUME NEW e \in Fixups(f, a) PROVE e \in Patched(f, a)
  BY DEF Patched, Walked, Fixups, Absolute, HighLow
<1> QED
  BY <1>1, <1>2

(* A relocated cell holds what the linker would have put there for the     *)
(* base that the image has.                                                *)
LEMMA RelocatedLinked ==
  ASSUME NEW f, WellMade(f), NEW a \in Cells(f), NEW at \in Nat
  PROVE  LET mem == Relocate(f, MapImage(f), at)
         IN mem[a] \in Nat /\ (~IsSlot(f, a) => mem[a] = Linked(f, at, a))
<1>1. PICK v \in Nat : v = MapImage(f)[a]
  BY MappedLinked
<1>2. ~IsSlot(f, a) => v = Linked(f, f.base, a)
  BY <1>1, MappedLinked
<1>3. PICK b \in Nat : b = f.base
  BY DEF WellMade, TypedFile
<1>4. PICK w : w = Relocate(f, MapImage(f), at)[a]
  OBVIOUS
<1>5. w = IF at = b \/ Patched(f, a) = {} THEN v
          ELSE (v + Cardinality(Patched(f, a)) * (at - b)) % DWord
  BY <1>1, <1>3, <1>4 DEF Relocate
<1>6. PICK n \in Nat : n = Cardinality(Patched(f, a))
  <2>1. Patched(f, a) \subseteq Walked(f)
    BY DEF Patched
  <2> QED
    BY <2>1, WalkedFinite, FS_Subset, FS_CardinalityType
<1>7. w \in Nat
  <2>1. PICK x \in Int : x = v + n * (at - b)
    OBVIOUS
  <2>2. x % DWord \in Nat
    BY ReducedOnce, DWordAssumption
  <2> QED
    BY <1>5, <1>6, <2>1, <2>2
<1>8. ASSUME ~IsSlot(f, a), at = b PROVE w = Linked(f, at, a)
  BY <1>2, <1>3, <1>5, <1>8
<1>9. ASSUME ~IsSlot(f, a), at # b, a \notin DOMAIN f.pointers PROVE w = Linked(f, at, a)
  <2>1. Patched(f, a) = {}
    BY <1>9, FixupsPatched DEF WellMade
  <2> QED
    BY <1>2, <1>5, <1>9, <2>1 DEF Linked
<1>10. ASSUME ~IsSlot(f, a), at # b, a \in DOMAIN f.pointers PROVE w = Linked(f, at, a)
  <2>1. PICK p \in Nat : p = f.pointers[a]
    BY <1>10 DEF WellMade
  <2>2. PICK e : Patched(f, a) = {e}
    BY <1>10, FixupsPatched DEF WellMade
  <2>3. n = 1
    BY <1>6, <2>2, FS_Singleton
  <2>4. w = (v + 1 * (at - b)) % DWord
    BY <1>5, <1>6, <1>10, <2>2, <2>3
  <2>5. v = (b + p) % DWord
    BY <1>2, <1>3, <1>10, <2>1 DEF Linked
  <2>6. PICK x \in Int : x = b + p
    OBVIOUS
  <2>7. PICK y \in Int : y = at - b
    OBVIOUS
  <2>8. ((x % DWord) + y) % DWord = (x + y) % DWord
    <3>1. DWord \in Int /\ DWord > 0
      BY DWordAssumption
    <3> QED
      BY ONLY <3>1, x \in Int, y \in Int, ReducedOnce
  <2>9. 1 * (at - b) = y /\ x + y = at + p
    BY <2>6, <2>7
  <2>10. w = (at + p) % DWord
    BY <2>4, <2>5, <2>6, <2>8, <2>9
  <2> QED
    BY <1>10, <2>1, <2>10 DEF Linked
<1> QED
  BY <1>3, <1>4, <1>7, <1>8, <1>9, <1>10

\* The search for an export gives an address.
LEMMA ExportTyped ==
  ASSUME NEW e, TypedExports(e), NEW at \in Nat, NEW name, NEW ordinal
  PROVE  FindExport(e, at, name, ordinal) \in Nat
<1>1. PICK s \in Seq([name : STRING, index : Nat]) : s = e.names
  BY DEF TypedExports
<1>2. PICK g \in Seq(Nat) : g = e.functions
  BY DEF TypedExports
<1>3. PICK count \in Nat : count = Len(g)
  OBVIOUS
<1>4. \A i \in 1 .. count : ByRva(at, g[i]) \in Nat
  BY <1>3 DEF ByRva
<1> DEFINE I == {i \in 1 .. Len(s) : s[i].name = name /\ s[i].index < count}
           hit == IF I # {} THEN Min(I) ELSE 0
           index == ordinal - e.base
<1>5. \A i \in 1 .. Len(s) : s[i].index \in Nat
  <2>1. PICK S : S = [name : STRING, index : Nat]
    OBVIOUS
  <2>2. s \in Seq(S)
    BY <2>1
  <2>3. \A i \in 1 .. Len(s) : s[i] \in S
    BY <2>2
  <2> QED
    BY <2>1, <2>3
<1>6. FindExport(e, at, name, ordinal) =
         CASE hit > 0 -> ByRva(at, e.functions[e.names[hit].index + 1])
           [] hit = 0 /\ ordinal # NoOrdinal /\ index \in 0 .. count - 1
                -> ByRva(at, e.functions[index + 1])
           [] OTHER -> 0
  BY <1>1, <1>2, <1>3 DEF FindExport, SelectInSeq
<1>7. I # {} => hit \in I
  <2> SUFFICES ASSUME I # {} PROVE Min(I) \in I
    OBVIOUS
  <2>1. I \in SUBSET Nat
    OBVIOUS
  <2> HIDE DEF I
  <2>2. \E m \in I : \A k \in I : m <= k
    BY <2>1, Least
  <2> QED
    BY <2>2 DEF Min
<1> HIDE DEF hit
<1>8. CASE hit > 0
  <2>1. hit \in I
    BY <1>7, <1>8 DEF hit
  <2>2. s[hit].index \in Nat /\ s[hit].index < count
    BY <1>5, <2>1
  <2>3. s[hit].index + 1 \in 1 .. count
    BY <2>2
  <2> HIDE DEF I, index
  <2>4. FindExport(e, at, name, ordinal) = ByRva(at, g[s[hit].index + 1])
    BY <1>1, <1>2, <1>6, <1>8
  <2> QED
    BY <1>4, <2>3, <2>4
<1>9. CASE ~(hit > 0)
  <2>1. index \in 0 .. count - 1 => index + 1 \in 1 .. count
    <3> HIDE DEF index
    <3> QED
      OBVIOUS
  <2> HIDE DEF index
  <2> QED
    BY <1>2, <1>4, <1>6, <1>9, <2>1
<1> QED
  BY <1>8, <1>9

Providers == Modules \cup {"system", "nobody", "gone"}

ModuleTyped(m) ==
    /\ mods[m].named \in BOOLEAN /\ mods[m].base \in Bases
    /\ \A i \in DOMAIN mods[m].from : mods[m].from[i] \in Providers

ImageTyped(m) ==
    /\ images[m].data \in BOOLEAN /\ images[m].base \in Bases
    /\ \A a \in DOMAIN images[m].mem : images[m].mem[a] \in Nat

\* What ImagesLinked says of the image of one module.
ImageLinked(m) ==
    \A a \in Cells(Content[mods[m].file]) :
        ~IsSlot(Content[mods[m].file], a) =>
            images[m].mem[a] = Linked(Content[mods[m].file], images[m].base, a)

ImageInv ==
    /\ attached \in BOOLEAN /\ ready \in BOOLEAN /\ twice \in BOOLEAN
    /\ DOMAIN images \subseteq Modules
    /\ \A m \in Alive : ModuleTyped(m) /\ ImageLinked(m)
    /\ \A m \in DOMAIN images : ImageTyped(m)

(* What a new module is bound to are providers, and the addresses that     *)
(* they give are numbers.                                                  *)
LEMMA NewModuleTyped ==
  ASSUME LoaderInv, ImportInv, ImageInv, NEW f \in Files, ParseHeaders(Content[f]), NEW m \in Fresh,
         NEW at \in Offered(f), NEW starved, NEW named \in BOOLEAN,
         NEW new, new = Structure(f, named, at, m, starved)
  PROVE  /\ new.file = f /\ new.named = named /\ new.base = at /\ at \in Bases
         /\ \A i \in DOMAIN new.from : new.from[i] \in Providers
         /\ \A k \in Thunks(Content[f]) : Address(new, m, k) \in Nat
<1>1. /\ new.file = f /\ new.named = named /\ new.base = at
      /\ new.from = [i \in DOMAIN Content[f].imports |-> IF i \in starved THEN "nobody"
                                ELSE Provider(Content[f].imports[i].dll, m, f, named)]
  BY DEF Structure
<1>2. at \in Bases
  BY DEF Offered
<1>3. m \in Modules /\ Listed = Alive /\ Alive \subseteq Modules /\ ListHoldsAlive
  BY DEF Fresh, LoaderInv, ListHoldsAlive, Typed
<1>4. ASSUME NEW dll, NEW n, n = Provider(dll, m, f, named)
      PROVE  n = m \/ n \in Alive \/ (n = "system" /\ dll \in DOMAIN System) \/ n = "nobody"
  <2>1. \A o \in FindModule(dll) : o \in Alive
    BY <1>3, FindsFirst
  <2> QED
    BY <1>4, <2>1 DEF Provider
<1>5. ASSUME NEW i \in DOMAIN Content[f].imports, NEW n, n = new.from[i]
      PROVE  n = m \/ n \in Alive \/ (n = "system" /\ Content[f].imports[i].dll \in DOMAIN System)
             \/ n = "nobody"
  BY <1>1, <1>4, <1>5
<1>6. \A i \in DOMAIN new.from : new.from[i] \in Providers
  BY <1>1, <1>3, <1>5 DEF Providers
<1>7. \A b \in Bases : b \in Nat
  BY NtdylibAssumption
<1>8. \A h \in Files : ParseHeaders(Content[h]) => TypedExports(Content[h].exports)
  BY NtdylibAssumption DEF WellMade, TypedFile
<1>9. ASSUME NEW k \in Thunks(Content[f]) PROVE Address(new, m, k) \in Nat
  <2>1. k[1] \in DOMAIN Content[f].imports
    BY DEF Thunks
  <2>2. PICK n : n = new.from[k[1]]
    OBVIOUS
  <2>3. n = m \/ n \in Alive \/ (n = "system" /\ Content[f].imports[k[1]].dll \in DOMAIN System)
        \/ n = "nobody"
    BY <1>5, <2>1, <2>2
  <2>4. CASE n = "nobody"
    BY <2>2, <2>4 DEF Address
  <2>5. CASE n = "system" /\ Content[f].imports[k[1]].dll \in DOMAIN System
    <3>1. PICK dll : dll = System[Content[f].imports[k[1]].dll]
      OBVIOUS
    <3>2. TypedExports(dll.exports) /\ dll.base \in Nat
      BY <2>5, <3>1, NtdylibAssumption
    <3>3. Address(new, m, k) = Export(f, k, dll.exports, dll.base)
      BY <1>1, <2>2, <2>5, <3>1 DEF Address
    <3> QED
      BY <3>2, <3>3, ExportTyped DEF Export
  <2>6. CASE n \in Modules /\ (n = m \/ n \in Alive)
    <3>1. PICK module : module = IF n = m THEN new ELSE mods[n]
      OBVIOUS
    <3>2. n # "nobody" /\ n # "system"
      BY <2>6, NtdylibAssumption
    <3>3. Address(new, m, k) = Export(f, k, Content[module.file].exports, module.base)
      BY <1>1, <2>2, <3>1, <3>2 DEF Address
    <3>4. module.file \in Files /\ ParseHeaders(Content[module.file]) /\ module.base \in Bases
      BY <1>1, <1>2, <2>6, <3>1 DEF ImportInv, Bound, ImageInv, ModuleTyped
    <3> QED
      BY <1>7, <1>8, <3>3, <3>4, ExportTyped DEF Export
  <2> QED
    BY <1>3, <2>3, <2>4, <2>5, <2>6
<1> QED
  BY <1>1, <1>2, <1>6, <1>9

(* The image of a new module: numbers, and linked for its place.           *)
LEMMA NewImageLinked ==
  ASSUME LoaderInv, ImportInv, ImageInv, NEW f \in Files, ParseHeaders(Content[f]), NEW m \in Fresh,
         NEW at \in Offered(f), NEW starved, NEW named \in BOOLEAN,
         NEW new, new = Structure(f, named, at, m, starved), NEW a \in Cells(Content[f])
  PROVE  /\ DOMAIN ImageOf(new, m) = Cells(Content[f])
         /\ ImageOf(new, m)[a] \in Nat
         /\ ~IsSlot(Content[f], a) => ImageOf(new, m)[a] = Linked(Content[f], at, a)
<1>1. /\ new.file = f /\ new.base = at /\ at \in Bases
      /\ \A k \in Thunks(Content[f]) : Address(new, m, k) \in Nat
  BY NewModuleTyped
<1>2. WellMade(Content[f]) /\ at \in Nat
  BY <1>1, NtdylibAssumption
<1>3. PICK v : v = Relocate(Content[f], MapImage(Content[f]), at)[a]
  OBVIOUS
<1>4. v \in Nat /\ (~IsSlot(Content[f], a) => v = Linked(Content[f], at, a))
  BY <1>2, <1>3, RelocatedLinked
<1> DEFINE At == {k \in Resolved(new, m) : Thunk(Content[f], k).slot = a}
<1>5. /\ DOMAIN ImageOf(new, m) = Cells(Content[f])
      /\ ImageOf(new, m)[a] = IF At = {} THEN v ELSE Address(new, m, CHOOSE k \in At : TRUE)
  BY <1>1, <1>3 DEF ImageOf, Mapped
<1>6. \A k \in At : k \in Thunks(Content[f]) /\ IsSlot(Content[f], a)
  BY <1>1 DEF Resolved, IsSlot
<1> HIDE DEF At
<1>7. CASE At = {}
  BY <1>4, <1>5, <1>7
<1>8. CASE At # {}
  <2>1. PICK k : k = CHOOSE l \in At : TRUE
    OBVIOUS
  <2>2. k \in At
    BY <1>8, <2>1
  <2> QED
    BY <1>1, <1>5, <1>6, <1>8, <2>1, <2>2
<1> QED
  BY <1>7, <1>8

LEMMA ImagesLoaded ==
  ASSUME LoaderInv, ImportInv, ImageInv, NEW f \in Files, NEW path, NEW data \in DataFlags[f],
         NEW named \in BOOLEAN, LoadNew(f, path, data, named)
  PROVE  ImageInv'
<1>1. PICK m \in Fresh, at \in Offered(f), starved \in SUBSET DOMAIN Content[f].imports :
         /\ mods' = With(mods, m, Structure(f, named, at, m, starved))
         /\ images' = With(images, m, [data |-> data, base |-> at,
                                    mem |-> ImageOf(Structure(f, named, at, m, starved), m)])
  BY DEF LoadNew
<1>2. PICK new : new = Structure(f, named, at, m, starved)
  OBVIOUS
<1>3. ParseHeaders(Content[f])
  BY DEF LoadNew
<1>4. /\ new.file = f /\ new.named = named /\ new.base = at /\ at \in Bases
      /\ \A i \in DOMAIN new.from : new.from[i] \in Providers
  BY <1>2, <1>3, NewModuleTyped
<1>5. m \in Modules /\ m \notin Alive /\ m \notin DOMAIN images
  BY DEF Fresh
<1>6. Alive' = Alive \cup {m} /\ mods'[m] = new /\ \A n \in Alive : mods'[n] = mods[n]
  BY <1>1, <1>2, <1>5 DEF Alive, With
<1>7. /\ DOMAIN images' = DOMAIN images \cup {m}
      /\ images'[m] = [data |-> data, base |-> at, mem |-> ImageOf(new, m)]
      /\ \A n \in DOMAIN images : images'[n] = images[n]
  BY <1>1, <1>2, <1>5 DEF With
<1>8. Alive \subseteq DOMAIN images
  BY DEF LoaderInv, ImagesOwned
<1>9. data \in BOOLEAN
  BY NtdylibAssumption
<1>10. ImageTyped(m)'
  <2>1. \A a \in DOMAIN ImageOf(new, m) : ImageOf(new, m)[a] \in Nat
    <3>1. DOMAIN ImageOf(new, m) = Cells(Content[f])
      BY <1>4 DEF ImageOf
    <3> QED
      BY <1>2, <1>3, <3>1, NewImageLinked
  <2> QED
    BY <1>4, <1>7, <1>9, <2>1 DEF ImageTyped
<1>11. ModuleTyped(m)'
  BY <1>4, <1>6 DEF ModuleTyped
<1>12. ImageLinked(m)'
  <2>1. \A a \in Cells(Content[f]) : ~IsSlot(Content[f], a)
            => ImageOf(new, m)[a] = Linked(Content[f], at, a)
    BY <1>2, <1>3, NewImageLinked
  <2> QED
    BY <1>4, <1>6, <1>7, <2>1 DEF ImageLinked
<1>13. ASSUME NEW n \in Alive PROVE ModuleTyped(n)' /\ ImageLinked(n)'
  <2>1. ModuleTyped(n) /\ ImageLinked(n) /\ mods'[n] = mods[n] /\ images'[n] = images[n]
    BY <1>6, <1>7, <1>8 DEF ImageInv
  <2> QED
    BY <2>1 DEF ModuleTyped, ImageLinked
<1>14. ASSUME NEW n \in DOMAIN images PROVE ImageTyped(n)'
  BY <1>7 DEF ImageInv, ImageTyped
<1>15. DOMAIN images' \subseteq Modules
  BY <1>5, <1>7 DEF ImageInv
<1>16. attached' \in BOOLEAN /\ ready' \in BOOLEAN /\ twice' \in BOOLEAN
  BY DEF ImageInv, LoadNew, NtdylibInit
<1>17. \A n \in Alive' : ModuleTyped(n)' /\ ImageLinked(n)'
  BY <1>6, <1>11, <1>12, <1>13
<1>18. \A n \in DOMAIN images' : ImageTyped(n)'
  BY <1>7, <1>10, <1>14
<1> QED
  BY <1>15, <1>16, <1>17, <1>18 DEF ImageInv

\* A step that changes counts at most.
LEMMA ImagesStay ==
  ASSUME ImageInv, images' = images, Alive' = Alive,
         attached' \in BOOLEAN, ready' \in BOOLEAN, twice' \in BOOLEAN,
         \A o \in Alive : Stays(o) /\ mods'[o].from = mods[o].from
  PROVE  ImageInv'
<1>1. ASSUME NEW o \in Alive PROVE ModuleTyped(o)' /\ ImageLinked(o)'
  BY DEF ImageInv, ModuleTyped, ImageLinked, Stays
<1>2. ASSUME NEW o \in DOMAIN images PROVE ImageTyped(o)'
  BY DEF ImageInv, ImageTyped
<1> QED
  BY <1>1, <1>2 DEF ImageInv

LEMMA ImagesCounted ==
  ASSUME LoaderInv, ImageInv, images' = images,
         attached' \in BOOLEAN, ready' \in BOOLEAN, twice' \in BOOLEAN,
         NEW m \in Alive, NEW n, mods' = [mods EXCEPT ![m] = Counting(@, n)]
  PROVE  ImageInv'
<1>1. Alive' = Alive /\ \A o \in Alive : mods'[o] = IF o = m THEN Counting(mods[m], n) ELSE mods[o]
  BY DEF Alive
<1>2. \A o \in Alive : Stays(o) /\ mods'[o].from = mods[o].from
  BY <1>1 DEF Stays, Counting, LoaderInv, Typed, Fields
<1> QED
  BY <1>1, <1>2, ImagesStay

LEMMA ImagesFreed ==
  ASSUME LoaderInv, ImageInv, NEW m \in Modules, Free(m),
         attached' \in BOOLEAN, ready' \in BOOLEAN
  PROVE  ImageInv'
<1>1. /\ Typed /\ Alive \subseteq DOMAIN images /\ Alive' = Alive \ {m}
      /\ \A o \in Alive' : mods'[o] = Forget(mods[o], m)
  BY DEF LoaderInv, ImagesOwned, Free, Alive
<1>2. /\ DOMAIN images' \subseteq DOMAIN images
      /\ \A o \in DOMAIN images' : images'[o] = images[o]
      /\ \A o \in DOMAIN images : o # m => images'[o] = images[o]
  BY DEF Free, Without, Restrict
<1>3. ASSUME NEW o \in Alive' PROVE ModuleTyped(o)' /\ ImageLinked(o)'
  <2>1. o \in Alive /\ o # m /\ ModuleTyped(o) /\ ImageLinked(o) /\ images'[o] = images[o]
    BY <1>1, <1>2 DEF ImageInv
  <2>2. DOMAIN mods[o] = Fields /\ mods'[o] = Forget(mods[o], m)
    BY <1>1 DEF Typed
  <2>3. Stays(o)
    BY <2>2 DEF Stays, Forget, Fields
  <2>4. mods'[o].from = [i \in DOMAIN mods[o].from |->
                           IF mods[o].from[i] = m THEN "gone" ELSE mods[o].from[i]]
    BY <2>2 DEF Forget, Fields
  <2>5. \A i \in DOMAIN mods'[o].from : mods'[o].from[i] \in Providers
    BY <2>1, <2>4 DEF ModuleTyped, Providers
  <2> QED
    BY <2>1, <2>3, <2>5 DEF ModuleTyped, ImageLinked, Stays
<1>4. ASSUME NEW o \in DOMAIN images' PROVE ImageTyped(o)'
  BY <1>2 DEF ImageInv, ImageTyped
<1>5. twice' \in BOOLEAN
  BY DEF Free, ImageInv
<1> QED
  BY <1>2, <1>3, <1>4, <1>5 DEF ImageInv

LEMMA ImagesNext ==
  LoaderInv /\ ImportInv /\ ImageInv /\ [Next]_vars => ImageInv'
<1> SUFFICES ASSUME LoaderInv, ImportInv, ImageInv, [Next]_vars PROVE ImageInv'
  OBVIOUS
<1> DEFINE Flags == attached' \in BOOLEAN /\ ready' \in BOOLEAN
<1>1. attached \in BOOLEAN /\ ready \in BOOLEAN /\ twice \in BOOLEAN
  BY DEF ImageInv
<1>2. ASSUME mods' = mods, images' = images, Flags, twice' = twice PROVE ImageInv'
  BY <1>1, <1>2, ImagesStay DEF Stays, Alive
<1>3. CASE ProcessAttach
  BY <1>2, <1>3 DEF ProcessAttach, NtdylibInit
<1>4. CASE Cleanup
  <2>1. Alive' = {}
    BY <1>4 DEF Cleanup, Without, Restrict, Alive, LoaderInv, ListHoldsAlive
  <2>2. /\ DOMAIN images' \subseteq DOMAIN images
        /\ \A o \in DOMAIN images' : images'[o] = images[o]
    BY <1>4 DEF Cleanup, Without, Restrict
  <2>3. ASSUME NEW o \in DOMAIN images' PROVE ImageTyped(o)'
    BY <2>2 DEF ImageInv, ImageTyped
  <2> QED
    BY <1>1, <1>4, <2>1, <2>2, <2>3 DEF ImageInv, Cleanup
<1>5. ASSUME NEW f \in Files, NEW path \in BOOLEAN, LoadAgain(f, path) PROVE ImageInv'
  <2>1. PICK m \in Found(f, path) : mods' = [mods EXCEPT ![m] = Counting(@, mods[m].refs + 1)]
    BY <1>5 DEF LoadAgain
  <2>2. m \in Alive
    BY DEF Found, FindModule, Listed, ToSet, LoaderInv, ListHoldsAlive
  <2>3. images' = images /\ Flags /\ twice' = twice
    BY <1>1, <1>5 DEF LoadAgain, NtdylibInit
  <2> QED
    BY <1>1, <2>1, <2>2, <2>3, ImagesCounted
<1>6. ASSUME NEW f \in Files, NEW path \in BOOLEAN, LoadFails(f, path) \/ LoadRefused(f, path)
      PROVE  ImageInv'
  BY <1>1, <1>2, <1>6 DEF LoadFails, LoadRefused, NtdylibInit
<1>7. ASSUME NEW f \in Files, NEW path \in BOOLEAN, LoadFaults(f, path) PROVE ImageInv'
  BY <1>7 DEF LoadFaults, Crash, ImageInv, Alive, NoModules
<1>8. ASSUME NEW f \in Files, NEW path \in BOOLEAN, NEW data \in DataFlags[f], NEW named \in BOOLEAN,
             LoadNew(f, path, data, named)
      PROVE  ImageInv'
  BY <1>8, ImagesLoaded
<1>9. ASSUME NEW m \in Modules, Unload(m) PROVE ImageInv'
  <2>1. m \in Alive /\ Flags
    BY <1>1, <1>9 DEF Unload
  <2>2. ASSUME NEW n, mods' = [mods EXCEPT ![m] = Counting(@, n)], images' = images, twice' = twice
        PROVE  ImageInv'
    BY <1>1, <2>1, <2>2, ImagesCounted
  <2>3. CASE Free(m)
    BY <2>1, <2>3, ImagesFreed
  <2> QED
    BY <1>9, <2>2, <2>3 DEF Unload
<1>10. CASE AttachReturns
  BY <1>1, <1>2, <1>10 DEF AttachReturns
<1>11. CASE DetachReturns
  <2>1. Free(Head(frames).mod) /\ frames # <<>> /\ Flags
    BY <1>1, <1>11 DEF DetachReturns
  <2>2. Head(frames) \in Frames
    BY <2>1 DEF LoaderInv, Typed
  <2> QED
    BY <2>1, <2>2, ImagesFreed DEF Frames
<1>12. CASE UNCHANGED vars
  BY <1>1, <1>2, <1>12 DEF vars
<1> QED
  BY <1>3, <1>4, <1>5, <1>6, <1>7, <1>8, <1>9, <1>10, <1>11, <1>12 DEF Next

(* ImageInv: the image of every living module is what the linker would     *)
(* have made of its file at that address, outside the table of imports.    *)
THEOREM LoaderRelocates == Spec => []ImageInv
<1>1. Init => ImageInv
  BY DEF Init, ImageInv, Alive, NoModules
<1> QED
  BY <1>1, ImagesNext, LoaderAccounts, LoaderBinds, PTL DEF Spec

(* TypeOK: the list, the modules, the images and the DllMains that run are *)
(* what they seem, and every cell of an image is a number.                 *)
THEOREM LoaderTypeCorrect == Spec => []TypeOK
<1>1. LoaderInv /\ ImportInv /\ ImageInv => TypeOK
  <2> SUFFICES ASSUME LoaderInv, ImportInv, ImageInv PROVE TypeOK
    OBVIOUS
  <2>1. ASSUME NEW m \in Alive
        PROVE  /\ mods[m].file \in Files /\ mods[m].refs \in Nat
               /\ mods[m].named \in BOOLEAN /\ mods[m].base \in Bases
               /\ ToSet(mods[m].from) \subseteq Modules \cup {"system", "nobody", "gone"}
    BY DEF LoaderInv, Typed, ImportInv, Bound, ImageInv, ModuleTyped, Providers, ToSet
  <2>2. \A m \in DOMAIN images : ImageTyped(m)
    BY DEF ImageInv
  <2> QED
    BY <2>1, <2>2 DEF TypeOK, LoaderInv, Typed, ListHoldsAlive, ImageInv, ImageTyped, Frames
<1> QED
  BY <1>1, LoaderAccounts, LoaderBinds, LoaderRelocates, PTL

(* ImagesLinked: every image is the file as linked for the place where it  *)
(* lies: sections, zeroed tails and relocations leave nothing out.         *)
THEOREM LoaderImagesLinked == Spec => []ImagesLinked
<1>1. TypeOK /\ ImageInv => ImagesLinked
  BY DEF ImageInv, ImageLinked, ImagesLinked
<1> QED
  BY <1>1, LoaderTypeCorrect, LoaderRelocates, PTL
=============================================================================
