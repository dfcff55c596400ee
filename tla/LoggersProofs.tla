--------------------------- MODULE LoggersProofs ---------------------------
(* Proofs about Loggers.                                                     *)
EXTENDS Loggers, FiniteSetTheorems, SequenceTheorems, WellFoundedInduction, TLAPS

-----------------------------------------------------------------------------
(* Slices.                                                                   *)

\* The slots of a slice are those of its array.
LEMMA ElementsShape ==
    ASSUME NEW E, NEW m \in Seq(Seq(E)), NEW s, IsSlice(m, s)
    PROVE  /\ Elements(m, s) \in Seq(E)
           /\ Len(Elements(m, s)) = s.len
           /\ \A i \in 1..s.len : Elements(m, s)[i] = m[s.at][i]
<1>1. s.len \in Nat /\ s.cap \in Nat /\ s.at \in Nat /\ s.len <= s.cap
  BY DEF IsSlice, Windows
<1>2. CASE s.len = 0
  BY <1>2 DEF Elements
<1>3. CASE s.len > 0
  <2>1. s.at \in 1..Len(m) /\ s.len <= Len(m[s.at])
    BY <1>1, <1>3 DEF IsSlice
  <2>2. m[s.at] \in Seq(E)
    BY <2>1
  <2>. QED BY <1>1, <1>3, <2>1, <2>2 DEF Elements
<1>. QED BY <1>1, <1>2, <1>3

\* A memory that keeps the first slots of a slice's array keeps the slice.
LEMMA SliceKept ==
    ASSUME NEW E, NEW m \in Seq(Seq(E)), NEW n \in Seq(Seq(E)), NEW s, IsSlice(m, s),
           Len(m) <= Len(n),
           \A b \in 1..Len(m) : Len(m[b]) <= Len(n[b]),
           \A i \in 1..s.len : s.at \in 1..Len(m) => n[s.at][i] = m[s.at][i]
    PROVE  IsSlice(n, s) /\ Elements(n, s) = Elements(m, s)
<1>1. s.len \in Nat /\ s.cap \in Nat /\ s.at \in Nat /\ s.len <= s.cap /\ s.at <= Len(m)
  BY DEF IsSlice, Windows
<1>2. IsSlice(n, s)
  <2>1. CASE s.cap > 0
    <3>1. s.at \in 1..Len(m) /\ s.len <= Len(m[s.at])
      BY <1>1, <2>1 DEF IsSlice
    <3>2. m[s.at] \in Seq(E) /\ n[s.at] \in Seq(E)
      BY <3>1
    <3>3. Len(m[s.at]) \in Nat /\ Len(n[s.at]) \in Nat /\ Len(m[s.at]) <= Len(n[s.at])
      BY <3>1, <3>2
    <3>4. s.at <= Len(n) /\ s.at > 0 /\ s.len <= Len(n[s.at])
      <4>1. ASSUME NEW p \in 1..Len(m), NEW l \in Nat, l <= Len(m[p]), Len(m[p]) <= Len(n[p]),
                   Len(m[p]) \in Nat, Len(n[p]) \in Nat
            PROVE  p <= Len(n) /\ p > 0 /\ l <= Len(n[p])
        BY <4>1
      <4>. QED BY <1>1, <3>1, <3>3, <4>1
    <3>. QED BY <1>1, <3>4 DEF IsSlice
  <2>2. CASE ~(s.cap > 0)
    BY <1>1, <2>2 DEF IsSlice
  <2>. QED BY <2>1, <2>2
<1>3. CASE s.len = 0
  BY <1>2, <1>3 DEF Elements
<1>4. CASE s.len > 0
  <2>1. s.at \in 1..Len(m)
    BY <1>1, <1>4 DEF IsSlice
  <2>2. /\ Elements(m, s) \in Seq(E) /\ Len(Elements(m, s)) = s.len
        /\ \A i \in 1..s.len : Elements(m, s)[i] = m[s.at][i]
    BY m \in Seq(Seq(E)), IsSlice(m, s), ElementsShape
  <2>3. /\ Elements(n, s) \in Seq(E) /\ Len(Elements(n, s)) = s.len
        /\ \A i \in 1..s.len : Elements(n, s)[i] = n[s.at][i]
    BY <1>2, ElementsShape
  <2>4. \A i \in 1..s.len : Elements(n, s)[i] = Elements(m, s)[i]
    BY <2>1, <2>2, <2>3
  <2>5. Elements(n, s) = Elements(m, s)
    BY <2>2, <2>3, <2>4, SeqEqual
  <2>. QED BY <1>2, <2>5
<1>. QED BY <1>1, <1>3, <1>4, <1>2

\* A new array changes no slice, and holds its elements.
LEMMA StoredKeeps ==
    ASSUME NEW E, NEW m \in Seq(Seq(E)), NEW e \in Seq(E), NEW k \in Nat
    PROVE  /\ Stored(m, e) \in Seq(Seq(E))
           /\ Len(Stored(m, e)) = Len(m) + 1
           /\ \A s : IsSlice(m, s) => IsSlice(Stored(m, e), s) /\ Elements(Stored(m, e), s) = Elements(m, s)
           /\ IsSlice(Stored(m, e), Fresh(m, e, k)) /\ Elements(Stored(m, e), Fresh(m, e, k)) = e
           /\ Fresh(m, e, k).at = Len(m) + 1 /\ Fresh(m, e, k).len = Len(e)
<1>1. /\ Stored(m, e) \in Seq(Seq(E)) /\ Len(Stored(m, e)) = Len(m) + 1
      /\ \A i \in 1..Len(m) : Stored(m, e)[i] = m[i]
      /\ Stored(m, e)[Len(m) + 1] = e
  BY DEF Stored
<1>2. ASSUME NEW s, IsSlice(m, s)
      PROVE  IsSlice(Stored(m, e), s) /\ Elements(Stored(m, e), s) = Elements(m, s)
  <2>1. \A i \in 1..Len(m) : Len(m[i]) \in Nat
    OBVIOUS
  <2>2. \A b \in 1..Len(m) : Len(m[b]) <= Len(Stored(m, e)[b])
    BY <1>1, <2>1
  <2>3. \A i \in 1..s.len : s.at \in 1..Len(m) => Stored(m, e)[s.at][i] = m[s.at][i]
    BY <1>1
  <2>4. Len(m) <= Len(Stored(m, e))
    BY <1>1
  <2>. QED BY <1>1, <1>2, <2>2, <2>3, <2>4, SliceKept
<1>3. IsSlice(Stored(m, e), Fresh(m, e, k))
  BY <1>1 DEF IsSlice, Windows, Fresh
<1>4. Elements(Stored(m, e), Fresh(m, e, k)) = e
  <2>1. /\ Elements(Stored(m, e), Fresh(m, e, k)) \in Seq(E)
        /\ Len(Elements(Stored(m, e), Fresh(m, e, k))) = Len(e)
        /\ \A i \in 1..Len(e) : Elements(Stored(m, e), Fresh(m, e, k))[i] = Stored(m, e)[Len(m) + 1][i]
    BY <1>1, <1>3, ElementsShape DEF Fresh
  <2>. QED BY <1>1, <2>1, SeqEqual
<1>. QED BY <1>1, <1>2, <1>3, <1>4 DEF Fresh

LEMMA StoredType ==
    ASSUME NEW E, NEW m \in Seq(Seq(E)), NEW e \in Seq(E)
    PROVE  Stored(m, e) \in Seq(Seq(E)) /\ Len(Stored(m, e)) = Len(m) + 1
  BY StoredKeeps, 0 \in Nat

LEMMA StoredOthers ==
    ASSUME NEW E, NEW m \in Seq(Seq(E)), NEW e \in Seq(E), NEW s, IsSlice(m, s)
    PROVE  IsSlice(Stored(m, e), s) /\ Elements(Stored(m, e), s) = Elements(m, s)
  BY StoredKeeps, 0 \in Nat

LEMMA StoredFresh ==
    ASSUME NEW E, NEW m \in Seq(Seq(E)), NEW e \in Seq(E), NEW k \in Nat
    PROVE  /\ IsSlice(Stored(m, e), Fresh(m, e, k)) /\ Elements(Stored(m, e), Fresh(m, e, k)) = e
           /\ Fresh(m, e, k).at = Len(m) + 1 /\ Fresh(m, e, k).len = Len(e)
  BY StoredKeeps

\* A write to a slot of one array, or after its end, leaves every other slot.
LEMMA PutShape ==
    ASSUME NEW E, NEW b \in Seq(E), NEW k \in 1..(Len(b) + 1), NEW v \in E
    PROVE  /\ Put(b, k, v) \in Seq(E)
           /\ Len(b) <= Len(Put(b, k, v)) /\ k <= Len(Put(b, k, v))
           /\ \A j \in 1..Len(b) : j # k => Put(b, k, v)[j] = b[j]
           /\ Put(b, k, v)[k] = v
<1>1. CASE k = Len(b) + 1
  BY <1>1 DEF Put
<1>2. CASE k \in 1..Len(b)
  <2>1. Put(b, k, v) = [b EXCEPT ![k] = v]
    BY <1>2 DEF Put
  <2>2. /\ Put(b, k, v) \in Seq(E) /\ Len(Put(b, k, v)) = Len(b)
        /\ \A j \in 1..Len(b) : Put(b, k, v)[j] = IF j = k THEN v ELSE b[j]
    BY <1>2, <2>1
  <2>. QED BY <1>2, <2>2
<1>. QED BY <1>1, <1>2

LEMMA WrittenInPlace ==
    ASSUME NEW E, NEW m \in Seq(Seq(E)), NEW p \in 1..Len(m),
           NEW k \in 1..(Len(m[p]) + 1), NEW v \in E
    PROVE  LET n == [m EXCEPT ![p] = Put(@, k, v)]
           IN /\ n \in Seq(Seq(E)) /\ Len(n) = Len(m)
              /\ \A b \in 1..Len(m) : Len(m[b]) <= Len(n[b])
              /\ \A b \in 1..Len(m), j \in Nat \ {0} :
                   (b # p \/ j < k) /\ j <= Len(m[b]) => n[b][j] = m[b][j]
              /\ n[p][k] = v /\ k <= Len(n[p])
<1> DEFINE a == Put(m[p], k, v)
           n == [m EXCEPT ![p] = a]
<1>1. m[p] \in Seq(E) /\ \A b \in 1..Len(m) : Len(m[b]) \in Nat
  OBVIOUS
<1>2. /\ a \in Seq(E) /\ Len(m[p]) <= Len(a) /\ k <= Len(a)
      /\ \A j \in 1..Len(m[p]) : j # k => a[j] = m[p][j]
      /\ a[k] = v
  <2> DEFINE c == m[p]
  <2>1. c \in Seq(E) /\ k \in 1..(Len(c) + 1)
    BY <1>1
  <2> HIDE DEF c
  <2>2. /\ Put(c, k, v) \in Seq(E)
        /\ Len(c) <= Len(Put(c, k, v)) /\ k <= Len(Put(c, k, v))
        /\ \A j \in 1..Len(c) : j # k => Put(c, k, v)[j] = c[j]
        /\ Put(c, k, v)[k] = v
    BY <2>1, PutShape
  <2>. QED BY <2>2 DEF c
<1>3. /\ n \in Seq(Seq(E)) /\ Len(n) = Len(m) /\ n[p] = a
      /\ \A b \in 1..Len(m) : b # p => n[b] = m[b]
  BY <1>2
<1> HIDE DEF a, n
<1>4. \A b \in 1..Len(m) : Len(m[b]) <= Len(n[b])
  BY <1>1, <1>2, <1>3
<1>5. ASSUME NEW b \in 1..Len(m), NEW j \in Nat \ {0}, b # p \/ j < k, j <= Len(m[b])
      PROVE  n[b][j] = m[b][j]
  <2>1. CASE b = p
    BY <1>1, <1>2, <1>3, <1>5, <2>1
  <2>2. CASE b # p
    BY <1>3, <2>2
  <2>. QED BY <2>1, <2>2
<1>. QED BY <1>2, <1>3, <1>4, <1>5 DEF n, a

\* append: the slice gets its element, and a slice of another array, or one
\* that ends before the slot, is left as it was.
LEMMA AppendedKeeps ==
    ASSUME NEW E, NEW m \in Seq(Seq(E)), NEW s, IsSlice(m, s), NEW v \in E
    PROVE  /\ Appended(m, s, v) \in Seq(Seq(E))
           /\ IsSlice(Appended(m, s, v), Extended(m, s))
           /\ Elements(Appended(m, s, v), Extended(m, s)) = Append(Elements(m, s), v)
           /\ Extended(m, s).len = s.len + 1
           /\ (Extended(m, s).at = s.at /\ s.at > 0) \/ Extended(m, s).at = Len(m) + 1
           /\ \A u : IsSlice(m, u) /\ (u.at # s.at \/ u.len <= s.len)
                => IsSlice(Appended(m, s, v), u) /\ Elements(Appended(m, s, v), u) = Elements(m, u)
<1>1. s.len \in Nat /\ s.cap \in Nat /\ s.at \in Nat /\ s.len <= s.cap /\ s.at <= Len(m)
  BY DEF IsSlice, Windows
<1>e. /\ Elements(m, s) \in Seq(E) /\ Len(Elements(m, s)) = s.len
      /\ \A i \in 1..s.len : Elements(m, s)[i] = m[s.at][i]
  BY ElementsShape
<1>2. CASE Room(s)
  <2> DEFINE p == s.at
             k == s.len + 1
             n == [m EXCEPT ![p] = Put(@, k, v)]
             x == [at |-> p, len |-> k, cap |-> s.cap]
             f == Append(Elements(m, s), v)
  <2>1. p \in 1..Len(m) /\ k \in 1..(Len(m[p]) + 1) /\ k <= s.cap
    <3>1. s.at \in 1..Len(m) /\ s.len <= Len(m[s.at])
      BY <1>1, <1>2 DEF IsSlice, Room
    <3>2. Len(m[s.at]) \in Nat
      BY <3>1
    <3>. QED BY <1>1, <1>2, <3>1, <3>2 DEF Room
  <2>2. /\ n \in Seq(Seq(E)) /\ Len(n) = Len(m)
        /\ \A b \in 1..Len(m) : Len(m[b]) <= Len(n[b])
        /\ \A b \in 1..Len(m), j \in Nat \ {0} :
             (b # p \/ j < k) /\ j <= Len(m[b]) => n[b][j] = m[b][j]
        /\ n[p][k] = v /\ k <= Len(n[p])
    <3>. HIDE DEF p, k
    <3>. QED BY <2>1, WrittenInPlace
  <2>3. Appended(m, s, v) = n /\ Extended(m, s) = x
    BY <1>2 DEF Appended, Extended, IsSlice, Windows
  <2>4. IsSlice(n, x)
    BY <1>1, <2>1, <2>2 DEF IsSlice, Windows
  <2>5. ASSUME NEW u, IsSlice(m, u), u.at # s.at \/ u.len <= s.len
        PROVE  IsSlice(n, u) /\ Elements(n, u) = Elements(m, u)
    <3>1. u.len \in Nat /\ u.at \in Nat /\ u.at <= Len(m)
      BY <2>5 DEF IsSlice, Windows
    <3>2. u.at \in 1..Len(m) => (u.len = 0 \/ u.len <= Len(m[u.at]))
      BY <2>5, <3>1 DEF IsSlice, Windows
    <3>3. \A j \in 1..u.len : u.at \in 1..Len(m) => n[u.at][j] = m[u.at][j]
      <4>1. ASSUME NEW q \in Nat, NEW z \in Nat, q \in 1..Len(m), z = 0 \/ z <= Len(m[q]),
                   q # p \/ z < k, NEW j \in 1..z
            PROVE  n[q][j] = m[q][j]
        <5>1. Len(m[q]) \in Nat
          BY <4>1
        <5>2. p \in Nat /\ k \in Nat
          BY <1>1
        <5>. HIDE DEF n, p, k
        <5>3. j \in Nat \ {0} /\ (q # p \/ j < k) /\ j <= Len(m[q])
          BY <4>1, <5>1, <5>2
        <5>. QED BY <2>2, <4>1, <5>3
      <4>2. u.at # p \/ u.len < k
        BY <1>1, <2>5, <3>1
      <4>. HIDE DEF n, p, k
      <4>. QED BY <3>1, <3>2, <4>1, <4>2
    <3>. HIDE DEF n
    <3>. QED BY m \in Seq(Seq(E)), <2>2, <2>5, <3>3, SliceKept
  <2>6. Elements(n, x) = f
    <3>1. /\ Elements(n, x) \in Seq(E) /\ Len(Elements(n, x)) = k
          /\ \A i \in 1..k : Elements(n, x)[i] = n[p][i]
      <4>1. x.len = k /\ x.at = p
        OBVIOUS
      <4>. HIDE DEF n, x, p, k
      <4>. QED BY <2>2, <2>4, <4>1, ElementsShape
    <3>2. \A i \in 1..s.len : n[p][i] = m[p][i]
      <4>1. Len(m[p]) \in Nat
        BY <2>1
      <4>2. ASSUME NEW i \in 1..s.len
            PROVE  i \in Nat \ {0} /\ i < k /\ i <= Len(m[p])
        BY <1>1, <2>1, <4>1
      <4>. HIDE DEF n, p, k
      <4>. QED BY <2>1, <2>2, <4>2
    <3>3. f \in Seq(E) /\ Len(f) = k /\ f[k] = v /\ \A i \in 1..s.len : f[i] = m[p][i]
      BY <1>1, <1>e
    <3>4. \A i \in 1..k : Elements(n, x)[i] = f[i]
      <4>1. \A i \in 1..k : i = k \/ i \in 1..s.len
        BY <1>1
      <4>. HIDE DEF n, x, f, p
      <4>. QED BY <2>2, <3>1, <3>2, <3>3, <4>1
    <3>. HIDE DEF n, x, f
    <3>. QED BY <3>1, <3>3, <3>4, SeqEqual
  <2>7. x.len = s.len + 1 /\ x.at = s.at /\ s.at > 0
    BY <1>1, <2>1
  <2> HIDE DEF n, x
  <2>. QED BY <2>2, <2>3, <2>4, <2>5, <2>6, <2>7
<1>3. CASE ~Room(s)
  <2> DEFINE e == Append(Elements(m, s), v)
             k == IF s.cap = 0 THEN 0 ELSE s.cap - 1
  <2>1. e \in Seq(E) /\ Len(e) = s.len + 1
    BY <1>e
  <2>2. Appended(m, s, v) = Stored(m, e)
    BY <1>3 DEF Appended, Stored
  <2>3. s.len = s.cap
    BY <1>1, <1>3 DEF Room
  <2>4. k \in Nat
    BY <1>1
  <2>5. Extended(m, s) = Fresh(m, e, k)
    BY <1>1, <1>3, <2>1, <2>3 DEF Extended, Fresh
  <2> HIDE DEF e, k
  <2>6. /\ Stored(m, e) \in Seq(Seq(E))
        /\ \A u : IsSlice(m, u) => IsSlice(Stored(m, e), u) /\ Elements(Stored(m, e), u) = Elements(m, u)
        /\ IsSlice(Stored(m, e), Fresh(m, e, k)) /\ Elements(Stored(m, e), Fresh(m, e, k)) = e
        /\ Fresh(m, e, k).at = Len(m) + 1 /\ Fresh(m, e, k).len = Len(e)
    <3>1. e \in Seq(E) /\ k \in Nat
      BY <2>1, <2>4
    <3>2. Stored(m, e) \in Seq(Seq(E))
      BY <3>1, StoredKeeps
    <3>3. ASSUME NEW u, IsSlice(m, u)
          PROVE  IsSlice(Stored(m, e), u) /\ Elements(Stored(m, e), u) = Elements(m, u)
      BY <3>1, <3>3, StoredKeeps
    <3>4. /\ IsSlice(Stored(m, e), Fresh(m, e, k)) /\ Elements(Stored(m, e), Fresh(m, e, k)) = e
          /\ Fresh(m, e, k).at = Len(m) + 1 /\ Fresh(m, e, k).len = Len(e)
      BY <3>1, StoredKeeps
    <3>. QED BY <3>2, <3>3, <3>4
  <2>. QED BY <1>1, <2>1, <2>2, <2>5, <2>6 DEF e
<1>. QED BY <1>2, <1>3
-----------------------------------------------------------------------------
(* The slices of the family.                                                 *)

\* Slices look at different arrays, and hold tags or outputs.
SlicesInv ==
    /\ SlicesType
    /\ \A l \in Loggers : Elements(arrays, tagsOf[l]) \in Seq(Tags)
    /\ \A l \in Loggers : Elements(arrays, outputsOf[l]) \in Seq(Outputs)

\* A slice of outputs that no step writes to: no tags are in its array, and
\* no logger appends to that array before the end of the slice.
Frozen(u, m, tg, out) ==
    /\ IsSlice(m, u) /\ Elements(m, u) \in Seq(Outputs)
    /\ \A l \in Loggers : /\ u.at > 0 => u.at # tg[l].at
                          /\ u.at = out[l].at => u.len <= out[l].len

LEMMA SliceBasics ==
    ASSUME NEW m \in Seq(Seq(Tags \cup Outputs)), NEW s, IsSlice(m, s)
    PROVE  /\ s.at \in Nat /\ s.len \in Nat /\ s.at <= Len(m) /\ Len(m) \in Nat
           /\ s.at = 0 => s.len = 0
  BY DEF IsSlice, Windows

\* One logger gets new slices: of its old array or of a new one.
LEMMA SlicesStep ==
    ASSUME SlicesInv, NEW l \in Loggers, NEW n \in Seq(Seq(Tags \cup Outputs)),
           NEW x \in Windows, NEW y \in Windows,
           IsSlice(n, x), Elements(n, x) \in Seq(Tags),
           IsSlice(n, y), Elements(n, y) \in Seq(Outputs), y.len <= MaxCopies,
           x.at = tagsOf[l].at \/ x.at > Len(arrays),
           (y.at = outputsOf[l].at /\ y.len >= outputsOf[l].len) \/ y.at > Len(arrays),
           x.at > 0 => x.at # y.at,
           \A u : /\ IsSlice(arrays, u)
                  /\ u.at > 0 => u.at # tagsOf[l].at
                  /\ u.at = outputsOf[l].at => u.len <= outputsOf[l].len
                  => IsSlice(n, u) /\ Elements(n, u) = Elements(arrays, u),
           arrays' = n,
           tagsOf' = [tagsOf EXCEPT ![l] = x],
           outputsOf' = [outputsOf EXCEPT ![l] = y]
    PROVE  /\ SlicesInv'
           /\ \A k \in Loggers : GlobalTags(k)' = IF k = l THEN Elements(n, x) ELSE GlobalTags(k)
           /\ \A k \in Loggers : ItsOutputs(k)' = IF k = l THEN Elements(n, y) ELSE ItsOutputs(k)
           /\ \A u : Frozen(u, arrays, tagsOf, outputsOf)
                => /\ Frozen(u, n, tagsOf', outputsOf')
                   /\ Elements(n, u) = Elements(arrays, u)
<1> USE DEF SlicesInv, SlicesType
<1>1. \A k \in Loggers : /\ tagsOf[k].at \in Nat /\ tagsOf[k].len \in Nat
                         /\ tagsOf[k].at <= Len(arrays) /\ (tagsOf[k].at = 0 => tagsOf[k].len = 0)
  BY SliceBasics
<1>2. \A k \in Loggers : /\ outputsOf[k].at \in Nat /\ outputsOf[k].len \in Nat
                         /\ outputsOf[k].at <= Len(arrays)
                         /\ outputsOf[k].at = 0 => outputsOf[k].len = 0
  BY SliceBasics
<1>3. x.at \in Nat /\ x.len \in Nat /\ y.at \in Nat /\ y.len \in Nat /\ Len(arrays) \in Nat
  BY DEF Windows
<1>4. ASSUME NEW k \in Loggers, k # l
      PROVE  IsSlice(n, tagsOf[k]) /\ Elements(n, tagsOf[k]) = Elements(arrays, tagsOf[k])
  <2>1. tagsOf[k].at > 0 => tagsOf[k].at # tagsOf[l].at
    BY <1>4
  <2>2. tagsOf[k].at = outputsOf[l].at => tagsOf[k].len <= outputsOf[l].len
    BY <1>1, <1>2
  <2>3. QED
    BY <2>1, <2>2
<1>5. ASSUME NEW k \in Loggers, k # l
      PROVE  IsSlice(n, outputsOf[k]) /\ Elements(n, outputsOf[k]) = Elements(arrays, outputsOf[k])
  <2>1. outputsOf[k].at > 0 => outputsOf[k].at # tagsOf[l].at
    OBVIOUS
  <2>2. outputsOf[k].at = outputsOf[l].at => outputsOf[k].len <= outputsOf[l].len
    BY <1>1, <1>2, <1>5
  <2>3. QED
    BY <2>1, <2>2
<1>6. \A k \in Loggers : /\ tagsOf'[k] = IF k = l THEN x ELSE tagsOf[k]
                         /\ outputsOf'[k] = IF k = l THEN y ELSE outputsOf[k]
  OBVIOUS
<1>7. \A k \in Loggers : Elements(arrays', tagsOf'[k]) = IF k = l THEN Elements(n, x) ELSE Elements(arrays, tagsOf[k])
  BY <1>4, <1>6
<1>8. \A k \in Loggers : Elements(arrays', outputsOf'[k]) = IF k = l THEN Elements(n, y) ELSE Elements(arrays, outputsOf[k])
  BY <1>5, <1>6
<1>9. /\ tagsOf' \in [Loggers -> Windows] /\ outputsOf' \in [Loggers -> Windows]
      /\ \A k \in Loggers : IsSlice(arrays', tagsOf'[k])
      /\ \A k \in Loggers : IsSlice(arrays', outputsOf'[k]) /\ outputsOf'[k].len <= MaxCopies
  BY <1>4, <1>5, <1>6
<1>10. \A j, k \in Loggers :
         /\ j # k /\ tagsOf'[j].at > 0 => tagsOf'[j].at # tagsOf'[k].at
         /\ j # k /\ outputsOf'[j].at > 0 => outputsOf'[j].at # outputsOf'[k].at
         /\ tagsOf'[j].at > 0 => tagsOf'[j].at # outputsOf'[k].at
  <2>1. ASSUME NEW j \in Loggers, NEW k \in Loggers
        PROVE  /\ j # k /\ tagsOf[j].at > 0 => tagsOf[j].at # tagsOf[k].at
               /\ j # k /\ outputsOf[j].at > 0 => outputsOf[j].at # outputsOf[k].at
               /\ tagsOf[j].at > 0 => tagsOf[j].at # outputsOf[k].at
    OBVIOUS
  <2> HIDE DEF SlicesInv, SlicesType
  <2> SUFFICES ASSUME NEW j \in Loggers, NEW k \in Loggers
               PROVE  /\ j # k /\ tagsOf'[j].at > 0 => tagsOf'[j].at # tagsOf'[k].at
                      /\ j # k /\ outputsOf'[j].at > 0 => outputsOf'[j].at # outputsOf'[k].at
                      /\ tagsOf'[j].at > 0 => tagsOf'[j].at # outputsOf'[k].at
    OBVIOUS
  <2>2. CASE j = l /\ k = l
    BY <1>6, <2>2
  <2>3. CASE j = l /\ k # l
    <3>1. tagsOf'[j] = x /\ outputsOf'[j] = y /\ tagsOf'[k] = tagsOf[k] /\ outputsOf'[k] = outputsOf[k]
      BY <1>6, <2>3
    <3>2. x.at > 0 => x.at # tagsOf[k].at /\ x.at # outputsOf[k].at
      <4>1. tagsOf[l].at > 0 => tagsOf[l].at # tagsOf[k].at /\ tagsOf[l].at # outputsOf[k].at
        BY <2>1, <2>3
      <4>2. tagsOf[k].at <= Len(arrays) /\ outputsOf[k].at <= Len(arrays)
            /\ tagsOf[k].at \in Nat /\ outputsOf[k].at \in Nat
        BY <1>1, <1>2
      <4>3. CASE x.at = tagsOf[l].at
        BY <4>1, <4>3
      <4>4. CASE x.at > Len(arrays)
        BY <1>3, <4>2, <4>4
      <4>5. QED
        BY <4>3, <4>4
    <3>3. y.at > 0 => y.at # outputsOf[k].at
      BY <1>2, <1>3, <2>1, <2>3
    <3>4. QED
      BY <3>1, <3>2, <3>3
  <2>4. CASE j # l /\ k = l
    <3>1. tagsOf'[k] = x /\ outputsOf'[k] = y /\ tagsOf'[j] = tagsOf[j] /\ outputsOf'[j] = outputsOf[j]
      BY <1>6, <2>4
    <3>2. tagsOf[j].at > 0 => tagsOf[j].at # x.at /\ tagsOf[j].at # y.at
      <4>1. tagsOf[j].at > 0 => tagsOf[j].at # tagsOf[l].at /\ tagsOf[j].at # outputsOf[l].at
        BY <2>1, <2>4
      <4>2. tagsOf[j].at <= Len(arrays) /\ tagsOf[j].at \in Nat
        BY <1>1
      <4>3. tagsOf[j].at > 0 => tagsOf[j].at # x.at
        BY <1>3, <4>1, <4>2
      <4>4. tagsOf[j].at > 0 => tagsOf[j].at # y.at
        BY <1>3, <4>1, <4>2
      <4>5. QED
        BY <4>3, <4>4
    <3>3. outputsOf[j].at > 0 => outputsOf[j].at # y.at
      BY <1>2, <1>3, <2>1, <2>4
    <3>4. QED
      BY <3>1, <3>2, <3>3
  <2>5. CASE j # l /\ k # l
    BY <1>6, <2>1, <2>5
  <2>6. QED
    BY <2>2, <2>3, <2>4, <2>5
<1>11. SlicesInv'
  <2>1. SlicesType'
    BY <1>9, <1>10
  <2>2. ASSUME NEW k \in Loggers
        PROVE  Elements(arrays', tagsOf'[k]) \in Seq(Tags) /\ Elements(arrays', outputsOf'[k]) \in Seq(Outputs)
    BY <1>7, <1>8
  <2>3. QED
    BY <2>1, <2>2
<1>12. ASSUME NEW u, Frozen(u, arrays, tagsOf, outputsOf)
       PROVE  Frozen(u, n, tagsOf', outputsOf') /\ Elements(n, u) = Elements(arrays, u)
  <2>1. IsSlice(n, u) /\ Elements(n, u) = Elements(arrays, u)
    BY <1>12 DEF Frozen
  <2>2. u.at \in Nat /\ u.at <= Len(arrays) /\ u.len \in Nat
    BY <1>12, SliceBasics DEF Frozen
  <2>3. ASSUME NEW k \in Loggers
        PROVE  /\ u.at > 0 => u.at # tagsOf'[k].at
               /\ u.at = outputsOf'[k].at => u.len <= outputsOf'[k].len
    <3>1. /\ u.at > 0 => u.at # tagsOf[k].at
          /\ u.at = outputsOf[k].at => u.len <= outputsOf[k].len
      BY <1>12 DEF Frozen
    <3>2. CASE k = l
      <4>1. tagsOf'[k].at = x.at /\ outputsOf'[k].at = y.at /\ outputsOf'[k].len = y.len
        BY <1>6, <3>2
      <4>2. u.at > 0 => u.at # x.at
        BY <1>3, <2>2, <3>1, <3>2
      <4>3. u.at = y.at => u.len <= y.len
        BY <1>2, <1>3, <2>2, <3>1, <3>2
      <4>4. QED
        BY <4>1, <4>2, <4>3
    <3>3. CASE k # l
      BY <3>1, <3>3, <1>6
    <3>4. QED
      BY <3>2, <3>3
  <2>4. Elements(n, u) \in Seq(Outputs)
    BY <1>12, <2>1 DEF Frozen
  <2>5. QED
    BY <2>1, <2>3, <2>4 DEF Frozen
<1>13. QED
  BY <1>7, <1>8, <1>11, <1>12 DEF GlobalTags, ItsOutputs

\* No frozen slice is disturbed.
FrozenStays ==
    \A u : Frozen(u, arrays, tagsOf, outputsOf) =>
      Frozen(u, arrays', tagsOf', outputsOf') /\ Elements(arrays', u) = Elements(arrays, u)

LEMMA CloneStep ==
    ASSUME SlicesInv, NEW p \in Loggers, NEW l \in Loggers, CloneSlices(p, l)
    PROVE  /\ SlicesInv' /\ FrozenStays
           /\ \A k \in Loggers : GlobalTags(k)' = IF k = l THEN GlobalTags(p) ELSE GlobalTags(k)
           /\ \A k \in Loggers : ItsOutputs(k)' = IF k = l THEN ItsOutputs(p) ELSE ItsOutputs(k)
<1> DEFINE E == Tags \cup Outputs
           m == Stored(arrays, ItsOutputs(p))
           n == Stored(m, GlobalTags(p))
           y == Fresh(arrays, ItsOutputs(p), 0)
           x == Fresh(m, GlobalTags(p), 0)
<1>1. /\ arrays \in Seq(Seq(E)) /\ IsSlice(arrays, outputsOf[p]) /\ IsSlice(arrays, tagsOf[p])
      /\ ItsOutputs(p) \in Seq(Outputs) /\ GlobalTags(p) \in Seq(Tags)
      /\ outputsOf[p].len <= MaxCopies
  BY DEF SlicesInv, SlicesType, ItsOutputs, GlobalTags
<1>2. ItsOutputs(p) \in Seq(E) /\ GlobalTags(p) \in Seq(E) /\ Len(ItsOutputs(p)) = outputsOf[p].len
  BY <1>1, ElementsShape DEF ItsOutputs
<1>3. /\ m \in Seq(Seq(E)) /\ Len(m) = Len(arrays) + 1
      /\ \A u : IsSlice(arrays, u) => IsSlice(m, u) /\ Elements(m, u) = Elements(arrays, u)
      /\ IsSlice(m, y) /\ Elements(m, y) = ItsOutputs(p)
      /\ y.at = Len(arrays) + 1 /\ y.len = Len(ItsOutputs(p))
  <2>1. m \in Seq(Seq(E)) /\ Len(m) = Len(arrays) + 1
    BY <1>1, <1>2, StoredType
  <2>2. ASSUME NEW u, IsSlice(arrays, u)
        PROVE  IsSlice(m, u) /\ Elements(m, u) = Elements(arrays, u)
    BY <1>1, <1>2, <2>2, StoredOthers
  <2>3. /\ IsSlice(m, y) /\ Elements(m, y) = ItsOutputs(p)
        /\ y.at = Len(arrays) + 1 /\ y.len = Len(ItsOutputs(p))
    BY <1>1, <1>2, StoredFresh
  <2>4. QED
    BY <2>1, <2>2, <2>3
<1> HIDE DEF m, y
<1>4. /\ n \in Seq(Seq(E))
      /\ \A u : IsSlice(m, u) => IsSlice(n, u) /\ Elements(n, u) = Elements(m, u)
      /\ IsSlice(n, x) /\ Elements(n, x) = GlobalTags(p)
      /\ x.at = Len(m) + 1
  <2>1. n \in Seq(Seq(E))
    BY <1>2, <1>3, StoredType
  <2>2. ASSUME NEW u, IsSlice(m, u)
        PROVE  IsSlice(n, u) /\ Elements(n, u) = Elements(m, u)
    BY <1>2, <1>3, <2>2, StoredOthers
  <2>3. IsSlice(n, x) /\ Elements(n, x) = GlobalTags(p) /\ x.at = Len(m) + 1
    BY <1>2, <1>3, StoredFresh
  <2>4. QED
    BY <2>1, <2>2, <2>3
<1>5. arrays' = n /\ tagsOf' = [tagsOf EXCEPT ![l] = x] /\ outputsOf' = [outputsOf EXCEPT ![l] = y]
  BY DEF CloneSlices, m, n, x, y
<1> HIDE DEF n, x
<1>6. /\ IsSlice(n, y) /\ Elements(n, y) = ItsOutputs(p)
      /\ \A u : IsSlice(arrays, u) => IsSlice(n, u) /\ Elements(n, u) = Elements(arrays, u)
  BY <1>3, <1>4
<1>7. x \in Windows /\ y \in Windows /\ Len(arrays) \in Nat
  BY <1>1, <1>4, <1>6 DEF IsSlice
<1>8. y.len <= MaxCopies /\ x.at > Len(arrays) /\ y.at > Len(arrays) /\ x.at # y.at
  BY <1>1, <1>2, <1>3, <1>4, <1>7
<1>9. /\ SlicesInv'
      /\ \A k \in Loggers : GlobalTags(k)' = IF k = l THEN Elements(n, x) ELSE GlobalTags(k)
      /\ \A k \in Loggers : ItsOutputs(k)' = IF k = l THEN Elements(n, y) ELSE ItsOutputs(k)
      /\ \A u : Frozen(u, arrays, tagsOf, outputsOf)
           => Frozen(u, n, tagsOf', outputsOf') /\ Elements(n, u) = Elements(arrays, u)
  <2>1. Elements(n, x) \in Seq(Tags) /\ Elements(n, y) \in Seq(Outputs)
    BY <1>1, <1>4, <1>6
  <2>2. QED
    BY <1>4, <1>5, <1>6, <1>7, <1>8, <2>1, SlicesStep
<1>10. QED
  BY <1>4, <1>5, <1>6, <1>9 DEF FrozenStays

LEMMA TagStep ==
    ASSUME SlicesInv, NEW l \in Loggers, NEW t \in Tags,
           arrays' = Appended(arrays, tagsOf[l], t),
           tagsOf' = [tagsOf EXCEPT ![l] = Extended(arrays, tagsOf[l])],
           outputsOf' = outputsOf
    PROVE  /\ SlicesInv' /\ FrozenStays
           /\ \A k \in Loggers : GlobalTags(k)' = IF k = l THEN Append(GlobalTags(l), t) ELSE GlobalTags(k)
           /\ \A k \in Loggers : ItsOutputs(k)' = ItsOutputs(k)
<1> DEFINE E == Tags \cup Outputs
           n == Appended(arrays, tagsOf[l], t)
           x == Extended(arrays, tagsOf[l])
           y == outputsOf[l]
<1>1. /\ arrays \in Seq(Seq(E)) /\ IsSlice(arrays, tagsOf[l]) /\ IsSlice(arrays, y)
      /\ GlobalTags(l) \in Seq(Tags) /\ Elements(arrays, y) \in Seq(Outputs)
      /\ y.len <= MaxCopies /\ y \in Windows /\ outputsOf \in [Loggers -> Windows]
      /\ tagsOf[l].at > 0 => tagsOf[l].at # y.at
  BY DEF SlicesInv, SlicesType, GlobalTags
<1>2. /\ n \in Seq(Seq(E)) /\ IsSlice(n, x)
      /\ Elements(n, x) = Append(GlobalTags(l), t)
      /\ (x.at = tagsOf[l].at /\ tagsOf[l].at > 0) \/ x.at = Len(arrays) + 1
      /\ \A u : IsSlice(arrays, u) /\ (u.at # tagsOf[l].at \/ u.len <= tagsOf[l].len)
           => IsSlice(n, u) /\ Elements(n, u) = Elements(arrays, u)
  BY <1>1, AppendedKeeps DEF GlobalTags
<1> HIDE DEF n, x
<1>3. /\ tagsOf[l].at \in Nat /\ tagsOf[l].len \in Nat /\ Len(arrays) \in Nat
      /\ \A u : IsSlice(arrays, u) => u.len \in Nat /\ u.at \in Nat /\ u.at <= Len(arrays) /\ (u.at = 0 => u.len = 0)
  BY <1>1, SliceBasics
<1>4. ASSUME NEW u, IsSlice(arrays, u), u.at > 0 => u.at # tagsOf[l].at
      PROVE  IsSlice(n, u) /\ Elements(n, u) = Elements(arrays, u)
  <2>1. u.at # tagsOf[l].at \/ u.len <= tagsOf[l].len
    BY <1>3, <1>4
  <2>2. QED
    BY <1>2, <1>4, <2>1
<1>5. IsSlice(n, y) /\ Elements(n, y) = Elements(arrays, y)
  <2>1. y.at > 0 => y.at # tagsOf[l].at
    BY <1>1, <1>3
  <2>2. QED
    BY <1>1, <1>4, <2>1
<1>6. x \in Windows /\ Elements(n, x) \in Seq(Tags)
  BY <1>1, <1>2 DEF IsSlice
<1>7. /\ x.at = tagsOf[l].at \/ x.at > Len(arrays)
      /\ y.at = outputsOf[l].at /\ y.len >= outputsOf[l].len
      /\ x.at > 0 => x.at # y.at
  BY <1>1, <1>2, <1>3 DEF Windows
<1>8. arrays' = n /\ tagsOf' = [tagsOf EXCEPT ![l] = x] /\ outputsOf' = [outputsOf EXCEPT ![l] = y]
  BY <1>1 DEF n, x
<1>9. /\ SlicesInv'
      /\ \A k \in Loggers : GlobalTags(k)' = IF k = l THEN Elements(n, x) ELSE GlobalTags(k)
      /\ \A k \in Loggers : ItsOutputs(k)' = IF k = l THEN Elements(n, y) ELSE ItsOutputs(k)
      /\ \A u : Frozen(u, arrays, tagsOf, outputsOf)
           => Frozen(u, n, tagsOf', outputsOf') /\ Elements(n, u) = Elements(arrays, u)
  <2> HIDE DEF y
  <2>1. Elements(n, y) \in Seq(Outputs)
    BY <1>1, <1>5
  <2>2. QED
    BY <1>1, <1>2, <1>4, <1>5, <1>6, <1>7, <1>8, <2>1, SlicesStep
<1>10. QED
  BY <1>2, <1>5, <1>8, <1>9 DEF FrozenStays, ItsOutputs

LEMMA AddStep ==
    ASSUME SlicesInv, LoggersAssumption, NEW l \in Loggers, NEW o \in Outputs,
           outputsOf[l].len < MaxCopies,
           arrays' = Appended(arrays, outputsOf[l], o),
           outputsOf' = [outputsOf EXCEPT ![l] = Extended(arrays, outputsOf[l])],
           tagsOf' = tagsOf
    PROVE  /\ SlicesInv' /\ FrozenStays
           /\ \A k \in Loggers : GlobalTags(k)' = GlobalTags(k)
           /\ \A k \in Loggers : ItsOutputs(k)' = IF k = l THEN Append(ItsOutputs(l), o) ELSE ItsOutputs(k)
<1> DEFINE E == Tags \cup Outputs
           n == Appended(arrays, outputsOf[l], o)
           y == Extended(arrays, outputsOf[l])
           x == tagsOf[l]
<1>1. /\ arrays \in Seq(Seq(E)) /\ IsSlice(arrays, outputsOf[l]) /\ IsSlice(arrays, x)
      /\ ItsOutputs(l) \in Seq(Outputs) /\ Elements(arrays, x) \in Seq(Tags)
      /\ x \in Windows /\ tagsOf \in [Loggers -> Windows]
      /\ x.at > 0 => x.at # outputsOf[l].at
  BY DEF SlicesInv, SlicesType, ItsOutputs
<1>2. /\ n \in Seq(Seq(E)) /\ IsSlice(n, y)
      /\ Elements(n, y) = Append(ItsOutputs(l), o)
      /\ y.len = outputsOf[l].len + 1
      /\ (y.at = outputsOf[l].at /\ outputsOf[l].at > 0) \/ y.at = Len(arrays) + 1
      /\ \A u : IsSlice(arrays, u) /\ (u.at # outputsOf[l].at \/ u.len <= outputsOf[l].len)
           => IsSlice(n, u) /\ Elements(n, u) = Elements(arrays, u)
  BY <1>1, AppendedKeeps DEF ItsOutputs
<1> HIDE DEF n, y
<1>3. /\ outputsOf[l].at \in Nat /\ outputsOf[l].len \in Nat /\ Len(arrays) \in Nat
      /\ \A u : IsSlice(arrays, u) => u.len \in Nat /\ u.at \in Nat /\ u.at <= Len(arrays) /\ (u.at = 0 => u.len = 0)
  BY <1>1, SliceBasics
<1>4. ASSUME NEW u, IsSlice(arrays, u), u.at = outputsOf[l].at => u.len <= outputsOf[l].len
      PROVE  IsSlice(n, u) /\ Elements(n, u) = Elements(arrays, u)
  BY <1>2, <1>4
<1>5. IsSlice(n, x) /\ Elements(n, x) = Elements(arrays, x)
  <2>1. x.at = outputsOf[l].at => x.len <= outputsOf[l].len
    BY <1>1, <1>3
  <2>2. QED
    BY <1>1, <1>4, <2>1
<1>6. y \in Windows /\ Elements(n, y) \in Seq(Outputs)
  BY <1>1, <1>2 DEF IsSlice
<1>7. /\ (y.at = outputsOf[l].at /\ y.len >= outputsOf[l].len) \/ y.at > Len(arrays)
      /\ x.at > 0 => x.at # y.at
      /\ y.len <= MaxCopies
  BY <1>1, <1>2, <1>3 DEF LoggersAssumption
<1>8. arrays' = n /\ tagsOf' = [tagsOf EXCEPT ![l] = x] /\ outputsOf' = [outputsOf EXCEPT ![l] = y]
  BY <1>1 DEF n, y
<1>9. /\ SlicesInv'
      /\ \A k \in Loggers : GlobalTags(k)' = IF k = l THEN Elements(n, x) ELSE GlobalTags(k)
      /\ \A k \in Loggers : ItsOutputs(k)' = IF k = l THEN Elements(n, y) ELSE ItsOutputs(k)
      /\ \A u : Frozen(u, arrays, tagsOf, outputsOf)
           => Frozen(u, n, tagsOf', outputsOf') /\ Elements(n, u) = Elements(arrays, u)
  <2>1. x.at = tagsOf[l].at
    OBVIOUS
  <2> HIDE DEF x
  <2>2. Elements(n, x) \in Seq(Tags)
    BY <1>1, <1>5
  <2>3. QED
    BY <1>1, <1>2, <1>4, <1>5, <1>6, <1>7, <1>8, <2>1, <2>2, SlicesStep
<1>10. QED
  BY <1>2, <1>5, <1>8, <1>9 DEF FrozenStays, GlobalTags

LEMMA ReplacedShape ==
    ASSUME NEW s \in Seq(Outputs), NEW o \in Outputs
    PROVE  Replaced(s, o) \in Seq(Outputs) /\ Len(Replaced(s, o)) = Len(s)
  BY DEF Replaced

LEMMA SetStep ==
    ASSUME SlicesInv, NEW l \in Loggers, NEW o \in Outputs,
           outputsOf' = [outputsOf EXCEPT ![l] = Fresh(arrays, ItsOutputs(l), 0)],
           arrays' = Stored(arrays, Replaced(ItsOutputs(l), o)),
           tagsOf' = tagsOf
    PROVE  /\ SlicesInv' /\ FrozenStays
           /\ \A k \in Loggers : GlobalTags(k)' = GlobalTags(k)
           /\ \A k \in Loggers : ItsOutputs(k)' = IF k = l THEN Replaced(ItsOutputs(l), o) ELSE ItsOutputs(k)
<1> DEFINE E == Tags \cup Outputs
           e == Replaced(ItsOutputs(l), o)
           n == Stored(arrays, e)
           y == Fresh(arrays, e, 0)
           x == tagsOf[l]
<1>1. /\ arrays \in Seq(Seq(E)) /\ IsSlice(arrays, outputsOf[l]) /\ IsSlice(arrays, x)
      /\ ItsOutputs(l) \in Seq(Outputs) /\ Elements(arrays, x) \in Seq(Tags)
      /\ x \in Windows /\ tagsOf \in [Loggers -> Windows]
      /\ outputsOf[l].len <= MaxCopies
  BY DEF SlicesInv, SlicesType, ItsOutputs
<1>2. Len(ItsOutputs(l)) = outputsOf[l].len
  BY <1>1, ElementsShape DEF ItsOutputs
<1>3. e \in Seq(Outputs) /\ e \in Seq(E) /\ Len(e) = outputsOf[l].len
  BY <1>1, <1>2, ReplacedShape
<1>4. y = Fresh(arrays, ItsOutputs(l), 0)
  BY <1>2, <1>3 DEF Fresh
<1>5. arrays' = n /\ outputsOf' = [outputsOf EXCEPT ![l] = y] /\ tagsOf' = [tagsOf EXCEPT ![l] = x]
  BY <1>1, <1>4
<1> HIDE DEF e
<1>6. /\ n \in Seq(Seq(E))
      /\ \A u : IsSlice(arrays, u) => IsSlice(n, u) /\ Elements(n, u) = Elements(arrays, u)
      /\ IsSlice(n, y) /\ Elements(n, y) = e
      /\ y.at = Len(arrays) + 1 /\ y.len = Len(e)
  <2>1. n \in Seq(Seq(E))
    BY <1>1, <1>3, StoredType
  <2>2. ASSUME NEW u, IsSlice(arrays, u)
        PROVE  IsSlice(n, u) /\ Elements(n, u) = Elements(arrays, u)
    BY <1>1, <1>3, <2>2, StoredOthers
  <2>3. /\ IsSlice(n, y) /\ Elements(n, y) = e
        /\ y.at = Len(arrays) + 1 /\ y.len = Len(e)
    BY <1>1, <1>3, StoredFresh
  <2>4. QED
    BY <2>1, <2>2, <2>3
<1> HIDE DEF n, y
<1>7. x.at \in Nat /\ x.at <= Len(arrays) /\ Len(arrays) \in Nat
  BY <1>1, SliceBasics
<1>8. IsSlice(n, x) /\ Elements(n, x) = Elements(arrays, x) /\ y \in Windows
  BY <1>1, <1>6 DEF IsSlice
<1>9. /\ SlicesInv'
      /\ \A k \in Loggers : GlobalTags(k)' = IF k = l THEN Elements(n, x) ELSE GlobalTags(k)
      /\ \A k \in Loggers : ItsOutputs(k)' = IF k = l THEN Elements(n, y) ELSE ItsOutputs(k)
      /\ \A u : Frozen(u, arrays, tagsOf, outputsOf)
           => Frozen(u, n, tagsOf', outputsOf') /\ Elements(n, u) = Elements(arrays, u)
  <2>1. x.at = tagsOf[l].at /\ y.at > Len(arrays) /\ x.at # y.at
    BY <1>6, <1>7
  <2> HIDE DEF x
  <2>2. Elements(n, x) \in Seq(Tags) /\ Elements(n, y) \in Seq(Outputs) /\ y.len <= MaxCopies
    BY <1>1, <1>3, <1>6, <1>8
  <2>3. QED
    BY <1>1, <1>5, <1>6, <1>8, <2>1, <2>2, SlicesStep
<1>10. QED
  BY <1>5, <1>6, <1>8, <1>9 DEF FrozenStays, GlobalTags, e

-----------------------------------------------------------------------------
(* The maps.                                                                 *)

LEMMA LocationsDiffer ==
    /\ \A a, b \in AppMaps : AppMap(a) = AppMap(b) => a = b
    /\ \A k, l \in Loggers : LoggerMap(k) = LoggerMap(l) => k = l
    /\ \A a \in AppMaps, l \in Loggers : AppMap(a) # LoggerMap(l)
    /\ \A a \in AppMaps, c \in Callers : AppMap(a) # MessageMap(c)
    /\ \A l \in Loggers, c \in Callers : LoggerMap(l) # MessageMap(c)
    /\ \A a \in AppMaps, c \in Callers, n \in 1..MaxCopies : AppMap(a) # CopyMap(c, n)
    /\ \A l \in Loggers, c \in Callers, n \in 1..MaxCopies : LoggerMap(l) # CopyMap(c, n)
    /\ \A a \in AppMaps : AppMap(a) \in Locations /\ AppMap(a) \in MapsGiven
    /\ \A l \in Loggers : LoggerMap(l) \in Locations
    /\ \A c \in Callers : MessageMap(c) \in Locations
    /\ \A c \in Callers, n \in 1..MaxCopies : CopyMap(c, n) \in Locations
  BY DEF AppMap, LoggerMap, MessageMap, CopyMap, CopyMaps, Locations, MapsGiven

LEMMA NilIsNoMap ==
    /\ \A a \in AppMaps : Nil # AppMap(a) /\ Nil # a
    /\ \A l \in Loggers : Nil # LoggerMap(l)
  BY NilAssumption, LocationsDiffer

LEMMA EmptyShape == Empty \in Contents /\ DOMAIN Empty = {}
<1>1. Empty \in [{} -> Values] /\ {} \in SUBSET Keys
  BY DEF Empty
<1>2. QED
  BY <1>1 DEF Contents, Empty

LEMMA SingleShape == ASSUME NEW k \in Keys, NEW v \in Values PROVE Single(k, v) \in Contents
<1>1. Single(k, v) \in [{k} -> Values] /\ {k} \in SUBSET Keys
  BY DEF Single
<1>2. QED
  BY <1>1 DEF Contents

LEMMA ContentsShape ==
    ASSUME NEW f \in Contents
    PROVE  /\ DOMAIN f \in SUBSET Keys /\ f = [k \in DOMAIN f |-> f[k]]
           /\ \A k \in DOMAIN f : f[k] \in Values
<1>1. PICK D \in SUBSET Keys : f \in [D -> Values]
  BY DEF Contents
<1>2. QED
  BY <1>1

LEMMA OverShape ==
    ASSUME NEW f \in Contents, NEW g \in Contents
    PROVE  Over(f, g) \in Contents
<1>1. DOMAIN f \cup DOMAIN g \in SUBSET Keys
  BY ContentsShape
<1>2. \A k \in DOMAIN f \cup DOMAIN g : (IF k \in DOMAIN g THEN g[k] ELSE f[k]) \in Values
  BY ContentsShape
<1>3. Over(f, g) \in [DOMAIN f \cup DOMAIN g -> Values]
  BY <1>2 DEF Over
<1>4. QED
  BY <1>1, <1>3 DEF Contents

LEMMA OverEmpty == ASSUME NEW f \in Contents PROVE Over(f, Empty) = f
<1>1. DOMAIN f \cup DOMAIN Empty = DOMAIN f
  BY EmptyShape
<1>2. \A k \in DOMAIN f : k \notin DOMAIN Empty
  BY EmptyShape
<1>3. Over(f, Empty) = [k \in DOMAIN f |-> f[k]]
  BY <1>1, <1>2 DEF Over
<1>4. QED
  BY <1>3, ContentsShape

LEMMA GlobalFieldsShape ==
    ASSUME FamilyType, MapsType, NEW l \in Loggers
    PROVE  GlobalFields(l) \in Contents
  BY EmptyShape DEF FamilyType, MapsType, GlobalFields, MapsGiven

\* A write to the map of a message or of a copy.
LEMMA MessageWritten ==
    ASSUME MapsType, NEW p, NEW f,
           (\E c \in Callers : p = MessageMap(c)) \/ p \in CopyMaps,
           heap' = heap \/ heap' = [heap EXCEPT ![p] = f]
    PROVE  /\ MapsType'
           /\ \A a \in AppMaps : heap'[AppMap(a)] = heap[AppMap(a)]
           /\ \A l \in Loggers : heap'[LoggerMap(l)] = heap[LoggerMap(l)]
<1>1. \A a \in AppMaps : p # AppMap(a) /\ AppMap(a) \in Locations
  BY LocationsDiffer DEF CopyMaps
<1>2. \A l \in Loggers : p # LoggerMap(l) /\ LoggerMap(l) \in Locations
  BY LocationsDiffer DEF CopyMaps
<1>3. DOMAIN heap = Locations /\ heap = [q \in Locations |-> heap[q]]
  BY DEF MapsType
<1>4. \A a \in AppMaps : heap'[AppMap(a)] = heap[AppMap(a)]
  BY <1>1, <1>3
<1>5. \A l \in Loggers : heap'[LoggerMap(l)] = heap[LoggerMap(l)]
  BY <1>2, <1>3
<1>6. heap' = [q \in Locations |-> heap'[q]]
  BY <1>3
<1>7. QED
  BY <1>4, <1>5, <1>6 DEF MapsType

\* A write to the map of the application or of a logger.
LEMMA MapWritten ==
    ASSUME MapsType, NEW p, NEW f \in Contents,
           p \in {AppMap(a) : a \in AppMaps} \cup {LoggerMap(l) : l \in Loggers},
           heap' = [heap EXCEPT ![p] = f]
    PROVE  /\ MapsType'
           /\ \A a \in AppMaps : heap'[AppMap(a)] = IF p = AppMap(a) THEN f ELSE heap[AppMap(a)]
           /\ \A l \in Loggers : heap'[LoggerMap(l)] = IF p = LoggerMap(l) THEN f ELSE heap[LoggerMap(l)]
<1>1. \A a \in AppMaps : AppMap(a) \in Locations
  BY LocationsDiffer
<1>2. \A l \in Loggers : LoggerMap(l) \in Locations
  BY LocationsDiffer
<1>3. DOMAIN heap = Locations /\ heap = [q \in Locations |-> heap[q]]
  BY DEF MapsType
<1>4. \A a \in AppMaps : heap'[AppMap(a)] = IF p = AppMap(a) THEN f ELSE heap[AppMap(a)]
  BY <1>1, <1>3
<1>5. \A l \in Loggers : heap'[LoggerMap(l)] = IF p = LoggerMap(l) THEN f ELSE heap[LoggerMap(l)]
  BY <1>2, <1>3
<1>6. heap' = [q \in Locations |-> heap'[q]]
  BY <1>3
<1>7. \A a \in AppMaps : heap'[AppMap(a)] \in Contents
  BY <1>4 DEF MapsType
<1>8. \A l \in Loggers : heap'[LoggerMap(l)] \in Contents
  BY <1>5 DEF MapsType
<1>9. QED
  BY <1>4, <1>5, <1>6, <1>7, <1>8 DEF MapsType

-----------------------------------------------------------------------------
(* The logger steps.                                                         *)

FamilyInv == FamilyType /\ MapsType /\ SlicesInv

\* What a step that derives or sets a logger leaves behind.
LEMMA NewStep ==
    ASSUME FamilyInv, NEW p \in Loggers, NEW l \in Loggers, New(p, l)
    PROVE  FamilyInv' /\ FrozenStays
<1>1. FamilyType /\ MapsType /\ SlicesInv
  BY DEF FamilyInv
<1>2. SlicesInv' /\ FrozenStays
  BY <1>1, CloneStep DEF New
<1>3. MapsType'
  BY <1>1, GlobalFieldsShape, MapWritten DEF New
<1>4. FamilyType'
  <2>1. LoggerMap(l) \in Locations
    BY LocationsDiffer
  <2>2. fieldsOf' \in [Loggers -> Locations \cup {Nil}]
    BY <1>1, <2>1 DEF New, FamilyType
  <2>3. \A k \in Loggers : fieldsOf'[k] \in MapsGiven \cup {LoggerMap(k)}
    BY <1>1 DEF New, FamilyType, MapsGiven
  <2>4. QED
    BY <1>1, <2>2, <2>3 DEF New, FamilyType
<1>5. QED
  BY <1>2, <1>3, <1>4 DEF FamilyInv

LEMMA WithFields ==
    ASSUME FamilyInv, NEW p \in Loggers, NEW f \in MapsGiven
    PROVE  /\ (IF f = Nil THEN Empty ELSE heap[f]) \in Contents
           /\ Over(GlobalFields(p), IF f = Nil THEN Empty ELSE heap[f]) \in Contents
<1>1. (IF f = Nil THEN Empty ELSE heap[f]) \in Contents
  BY EmptyShape DEF FamilyInv, MapsType, MapsGiven
<1>2. QED
  BY <1>1, GlobalFieldsShape, OverShape DEF FamilyInv

LEMMA WithStep ==
    ASSUME FamilyInv, NEW p \in Loggers, NEW l \in Loggers, NEW f \in MapsGiven, With(p, l, f)
    PROVE  FamilyInv' /\ FrozenStays
<1>1. FamilyType /\ MapsType /\ SlicesInv
  BY DEF FamilyInv
<1>2. SlicesInv' /\ FrozenStays
  BY <1>1, CloneStep DEF With
<1>3. MapsType'
  <2> DEFINE g == Over(GlobalFields(p), IF f = Nil THEN Empty ELSE heap[f])
  <2>1. g \in Contents
    BY WithFields
  <2>2. heap' = [heap EXCEPT ![LoggerMap(l)] = g]
    BY DEF With
  <2> HIDE DEF g
  <2>3. QED
    BY <1>1, <2>1, <2>2, MapWritten
<1>4. FamilyType'
  BY <1>1, LocationsDiffer DEF With, FamilyType, Change
<1>5. QED
  BY <1>2, <1>3, <1>4 DEF FamilyInv

\* A step that leaves the slices alone.
LEMMA SlicesUntouched ==
    ASSUME SlicesInv, UNCHANGED <<arrays, tagsOf, outputsOf>>
    PROVE  SlicesInv' /\ FrozenStays
  BY DEF SlicesInv, SlicesType, FrozenStays

LEMMA MapsUntouched == ASSUME MapsType, heap' = heap PROVE MapsType'
  BY DEF MapsType

LEMMA ConfigureStep ==
    ASSUME LoggersAssumption, FamilyInv, Configures
    PROVE  FamilyInv' /\ FrozenStays /\ exists \subseteq exists' /\ call' = call /\ setup' = setup
<1>1. FamilyType /\ MapsType /\ SlicesInv
  BY DEF FamilyInv
<1>2. ASSUME NEW p \in Loggers, NEW l \in Loggers, New(p, l)
      PROVE  FamilyInv' /\ FrozenStays /\ exists \subseteq exists' /\ call' = call /\ setup' = setup
  BY <1>2, NewStep DEF New, Change
<1>3. ASSUME NEW p \in Loggers, NEW l \in Loggers, NEW f \in MapsGiven, With(p, l, f)
      PROVE  FamilyInv' /\ FrozenStays /\ exists \subseteq exists' /\ call' = call /\ setup' = setup
  BY <1>3, WithStep DEF With, Change
<1>4. ASSUME NEW l \in Loggers, NEW f \in MapsGiven, SetFields(l, f)
      PROVE  FamilyInv' /\ FrozenStays /\ exists \subseteq exists' /\ call' = call /\ setup' = setup
  <2>1. SlicesInv' /\ FrozenStays /\ MapsType'
    BY <1>1, <1>4, SlicesUntouched, MapsUntouched DEF SetFields, containers
  <2>2. f \in Locations \cup {Nil}
    BY LocationsDiffer DEF MapsGiven
  <2>3. FamilyType'
    BY <1>1, <1>4, <2>2 DEF SetFields, FamilyType
  <2>4. QED
    BY <1>4, <2>1, <2>3 DEF FamilyInv, SetFields, Change
<1>5. ASSUME NEW l \in Loggers, NEW t \in Tags, SetTags(l, t)
      PROVE  FamilyInv' /\ FrozenStays /\ exists \subseteq exists' /\ call' = call /\ setup' = setup
  <2>1. SlicesInv' /\ FrozenStays /\ MapsType'
    BY <1>1, <1>5, TagStep, MapsUntouched DEF SetTags
  <2>2. FamilyType'
    BY <1>1, <1>5 DEF SetTags, FamilyType
  <2>3. QED
    BY <1>5, <2>1, <2>2 DEF FamilyInv, SetTags, Change
<1>6. ASSUME NEW l \in Loggers, NEW o \in Outputs, AddOutputs(l, o)
      PROVE  FamilyInv' /\ FrozenStays /\ exists \subseteq exists' /\ call' = call /\ setup' = setup
  <2>1. SlicesInv' /\ FrozenStays /\ MapsType'
    BY <1>1, <1>6, AddStep, MapsUntouched DEF AddOutputs
  <2>2. FamilyType'
    BY <1>1, <1>6 DEF AddOutputs, FamilyType
  <2>3. QED
    BY <1>6, <2>1, <2>2 DEF FamilyInv, AddOutputs, Change
<1>7. ASSUME NEW l \in Loggers, NEW o \in Outputs, SetOutputs(l, o)
      PROVE  FamilyInv' /\ FrozenStays /\ exists \subseteq exists' /\ call' = call /\ setup' = setup
  <2>1. SlicesInv' /\ FrozenStays /\ MapsType'
    BY <1>1, <1>7, SetStep, MapsUntouched DEF SetOutputs
  <2>2. FamilyType'
    BY <1>1, <1>7 DEF SetOutputs, FamilyType
  <2>3. QED
    BY <1>7, <2>1, <2>2 DEF FamilyInv, SetOutputs, Change
<1>8. ASSUME NEW l \in Loggers, SetContextExtractor(l)
      PROVE  FamilyInv' /\ FrozenStays /\ exists \subseteq exists' /\ call' = call /\ setup' = setup
  <2>1. SlicesInv' /\ FrozenStays /\ MapsType'
    BY <1>1, <1>8, SlicesUntouched, MapsUntouched DEF SetContextExtractor, containers
  <2>2. FamilyType'
    BY <1>1, <1>8 DEF SetContextExtractor, FamilyType
  <2>3. QED
    BY <1>8, <2>1, <2>2 DEF FamilyInv, SetContextExtractor, Change
<1>9. ASSUME NEW a \in AppMaps, NEW k \in Keys, NEW v \in Values, AppWrites(a, k, v)
      PROVE  FamilyInv' /\ FrozenStays /\ exists \subseteq exists' /\ call' = call /\ setup' = setup
  <2>1. SlicesInv' /\ FrozenStays
    BY <1>1, <1>9, SlicesUntouched DEF AppWrites, family
  <2>2. Over(heap[AppMap(a)], Single(k, v)) \in Contents
    BY <1>1, SingleShape, OverShape DEF MapsType
  <2>3. heap' = [heap EXCEPT ![AppMap(a)] = Over(heap[AppMap(a)], Single(k, v))]
    BY <1>9 DEF AppWrites
  <2>4. MapsType'
    BY <1>1, <2>2, <2>3, MapWritten
  <2>5. FamilyType'
    BY <1>1, <1>9 DEF AppWrites, FamilyType, family
  <2>6. QED
    BY <1>9, <2>1, <2>4, <2>5 DEF FamilyInv, AppWrites, Change, family
<1>10. QED
  BY <1>2, <1>3, <1>4, <1>5, <1>6, <1>7, <1>8, <1>9 DEF Configures

-----------------------------------------------------------------------------
(* The calls.                                                                *)

\* What is true of every call: the slice it iterates over is never written.
CallOK(r) ==
    /\ r.logger \in exists
    /\ r.next <= r.listed.len + 1
    /\ Len(r.copies) < r.next
    /\ r.listed.len <= MaxCopies
    /\ r.pc \in {"loading", "sizing", "storing", "counting"} => r.copies # <<>>
    /\ r.pc \in {"begun", "named", "checked", "merged", "tagged"} => r.listed.len = 0
    /\ Frozen(r.listed, arrays, tagsOf, outputsOf)

CallInv ==
    /\ call \in [Callers -> CallRecord]
    /\ \A c \in Callers : CallOK(call[c])

IInv == setup \in Setups /\ FamilyInv /\ CallInv

LEMMA CallStep ==
    ASSUME IInv, NEW c \in Callers, NEW r \in CallRecord,
           call' = [call EXCEPT ![c] = r], CallOK(r),
           UNCHANGED <<setup, family, arrays>>, MapsType'
    PROVE  IInv'
<1>1. CallInv'
  <2>1. call' \in [Callers -> CallRecord]
    BY DEF IInv, CallInv
  <2>2. ASSUME NEW d \in Callers PROVE CallOK(call[d])'
    <3>1. CallOK(call'[d])
      BY DEF IInv, CallInv
    <3>2. QED
      BY <3>1 DEF CallOK, family
  <2>3. QED
    BY <2>1, <2>2 DEF CallInv
<1>2. FamilyInv'
  BY DEF IInv, FamilyInv, FamilyType, SlicesInv, SlicesType, family
<1>3. QED
  BY <1>1, <1>2 DEF IInv

LEMMA CallIs ==
    ASSUME IInv, NEW c \in Callers
    PROVE  call[c] \in CallRecord /\ CallOK(call[c])
  BY DEF IInv, CallInv

\* Which maps a step of process may write to.
LEMMA WrittenMessage ==
    ASSUME IInv, NEW c \in Callers, NEW f,
           heap' = heap \/ heap' = [heap EXCEPT ![MessageMap(c)] = f]
    PROVE  MapsType'
<1>1. MapsType
  BY DEF IInv, FamilyInv
<1>2. \E d \in Callers : MessageMap(c) = MessageMap(d)
  OBVIOUS
<1>3. QED
  BY <1>1, <1>2, MessageWritten

LEMMA WrittenCopy ==
    ASSUME IInv, NEW p \in CopyMaps, NEW f, heap' = heap \/ heap' = [heap EXCEPT ![p] = f]
    PROVE  MapsType'
  BY MessageWritten DEF IInv, FamilyInv

LEMMA GoesStep ==
    ASSUME IInv, NEW c \in Callers, NEW pc, heap' = heap,
           UNCHANGED <<setup, family, arrays>>, Goes(c, pc),
           pc \in {"checked", "merged", "gathering", "sizing", "storing", "counting",
                   "writing", "done"},
           pc \in {"sizing", "storing", "counting"} => call[c].copies # <<>>,
           pc \in {"checked", "merged"} => call[c].listed.len = 0
    PROVE  IInv'
<1> DEFINE r == [call[c] EXCEPT !.pc = pc]
<1>1. call[c] \in CallRecord /\ CallOK(call[c])
  BY CallIs
<1>2. r \in CallRecord
  BY <1>1 DEF CallRecord
<1>3. call' = [call EXCEPT ![c] = r]
  BY DEF Goes
<1>4. CallOK(r)
  BY <1>1 DEF CallOK, CallRecord
<1>5. MapsType'
  BY MapsUntouched DEF IInv, FamilyInv
<1>6. QED
  BY <1>2, <1>3, <1>4, <1>5, CallStep

LEMMA BeginStep ==
    ASSUME IInv, LoggersAssumption, NEW c \in Callers, NEW l \in Loggers,
           NEW p \in Locations \cup {Nil}, NEW names \in SUBSET OutputNames,
           NEW tags \in SUBSET Tags, NEW fields,
           Begin(c, l, p, names, tags, fields), MapsType'
    PROVE  IInv'
<1> DEFINE r == [pc |-> "begun", logger |-> l, fields |-> p, names |-> names,
                 tags |-> tags, listed |-> NilSlice, next |-> 1, copies |-> <<>>]
<1>1. call' = [call EXCEPT ![c] = r] /\ l \in exists /\ UNCHANGED <<setup, family, arrays>>
  BY DEF Begin
<1>2. MaxCopies \in Nat
  BY DEF LoggersAssumption
<1>3. NilSlice \in Windows
  BY DEF NilSlice, Windows
<1>4. <<>> \in Seq(CopyType) /\ 1 \in 1..(MaxCopies + 1) /\ Len(<<>>) = 0
  BY <1>2
<1>5. r \in CallRecord
  BY <1>3, <1>4 DEF CallRecord
<1>6. Frozen(NilSlice, arrays, tagsOf, outputsOf)
  <2>1. arrays \in Seq(Seq(Tags \cup Outputs)) /\ outputsOf \in [Loggers -> Windows]
    BY DEF IInv, FamilyInv, SlicesInv, SlicesType
  <2>2. IsSlice(arrays, NilSlice) /\ Elements(arrays, NilSlice) = <<>>
    BY <1>3, <2>1 DEF IsSlice, Elements, NilSlice
  <2>3. \A k \in Loggers : 0 <= outputsOf[k].len
    BY <2>1 DEF Windows
  <2>4. <<>> \in Seq(Outputs)
    OBVIOUS
  <2>5. QED
    BY <2>2, <2>3, <2>4 DEF Frozen, NilSlice
<1>7. CallOK(r)
  BY <1>1, <1>2, <1>4, <1>6 DEF CallOK, NilSlice
<1>8. QED
  BY <1>1, <1>5, <1>7, CallStep

LEMMA PrintStep ==
    ASSUME IInv, LoggersAssumption, SetupsAssumption, NEW c \in Callers, NEW l \in Loggers,
           NEW s \in setup.sources, NEW names \in setup.names, NEW tags \in setup.given,
           PrintWithOptions(c, l, s, names, tags)
    PROVE  IInv'
<1> DEFINE p == StartMap(c, s)
           f == Over(StartFields(l, s), s.put)
<1>1. IsSetup(setup)
  BY DEF IInv, SetupsAssumption
<1>2. names \in SUBSET OutputNames /\ tags \in SUBSET Tags /\ s \in Sources
  BY <1>1 DEF IsSetup
<1>3. s.kind = "map" => /\ s.map \in AppMaps
                        /\ s.put = NoPut \/ \E k \in Keys, v \in Values : s.put = Single(k, v)
  BY <1>2 DEF Sources
<1>4. CASE s.kind = "map"
  <2>1. p = AppMap(s.map) /\ AppMap(s.map) \in Locations /\ Nil # AppMap(s.map)
    BY <1>3, <1>4, LocationsDiffer, NilIsNoMap DEF StartMap
  <2>2. s.put \in Contents
    BY <1>3, <1>4, EmptyShape, SingleShape DEF NoPut, Empty
  <2>3. f \in Contents
    <3>1. heap[AppMap(s.map)] \in Contents
      BY <1>3, <1>4 DEF IInv, FamilyInv, MapsType
    <3>2. QED
      BY <1>4, <2>2, <3>1, OverShape DEF StartFields
  <2>4. heap' = [heap EXCEPT ![p] = f]
    BY <2>1 DEF PrintWithOptions
  <2> HIDE DEF f
  <2>5. MapsType'
    BY <1>3, <1>4, <2>1, <2>3, <2>4, MapWritten DEF IInv, FamilyInv
  <2>6. QED
    BY <1>2, <2>1, <2>5, BeginStep DEF PrintWithOptions
<1>5. CASE s.kind # "map"
  <2>1. p = Nil \/ p = MessageMap(c)
    BY <1>5 DEF StartMap
  <2>2. p \in Locations \cup {Nil}
    BY <2>1, LocationsDiffer
  <2>3. MapsType'
    <3>1. CASE p = Nil
      BY <3>1, MapsUntouched DEF IInv, FamilyInv, PrintWithOptions
    <3>2. CASE p # Nil
      <4>1. heap' = [heap EXCEPT ![MessageMap(c)] = f]
        BY <2>1, <3>2 DEF PrintWithOptions
      <4> HIDE DEF f
      <4>2. QED
        BY <4>1, WrittenMessage
    <3>3. QED
      BY <3>1, <3>2
  <2>4. QED
    BY <1>2, <2>2, <2>3, BeginStep DEF PrintWithOptions
<1>6. QED
  BY <1>4, <1>5

LEMMA OutputStep ==
    ASSUME IInv, LoggersAssumption, SetupsAssumption, NEW c \in Callers, NEW l \in Loggers,
           NEW o \in Outputs, NEW f \in MapsGiven, NEW names \in setup.names,
           NEW tags \in setup.given, PrintToOutput(c, l, o, f, names, tags)
    PROVE  IInv'
<1>1. IsSetup(setup)
  BY DEF IInv, SetupsAssumption
<1>2. names \in SUBSET OutputNames /\ tags \in SUBSET Tags
  BY <1>1 DEF IsSetup
<1>3. (IF names = {} THEN {o.name} ELSE names) \in SUBSET OutputNames
  BY <1>2 DEF OutputNames
<1>4. (IF f = Nil THEN MessageMap(c) ELSE f) \in Locations \cup {Nil}
  BY LocationsDiffer DEF MapsGiven
<1>5. MapsType'
  <2>1. heap' = heap \/ heap' = [heap EXCEPT ![MessageMap(c)] = Empty]
    BY DEF PrintToOutput
  <2>2. QED
    BY <2>1, WrittenMessage
<1>6. QED
  BY <1>2, <1>3, <1>4, <1>5, BeginStep DEF PrintToOutput

LEMMA AgainStep ==
    ASSUME IInv, LoggersAssumption, NEW c \in Callers, NEW l \in Loggers, PrintAgain(c, l)
    PROVE  IInv'
<1>1. call[c].fields \in Locations \cup {Nil} /\ call[c].names \in SUBSET OutputNames
      /\ call[c].tags \in SUBSET Tags
  BY CallIs DEF CallRecord
<1>2. MapsType'
  BY MapsUntouched DEF IInv, FamilyInv, PrintAgain
<1>3. QED
  BY <1>1, <1>2, BeginStep DEF PrintAgain

LEMMA ItsOutputsType ==
    ASSUME SlicesInv, NEW l \in Loggers
    PROVE  /\ Names(ItsOutputs(l)) \in SUBSET OutputNames
           /\ Members(GlobalTags(l)) \in SUBSET Tags
<1>1. ItsOutputs(l) \in Seq(Outputs) /\ GlobalTags(l) \in Seq(Tags)
  BY DEF SlicesInv, ItsOutputs, GlobalTags
<1>2. \A i \in DOMAIN ItsOutputs(l) : ItsOutputs(l)[i] \in Outputs
  BY <1>1
<1>3. \A i \in DOMAIN GlobalTags(l) : GlobalTags(l)[i] \in Tags
  BY <1>1
<1>4. QED
  BY <1>2, <1>3 DEF Names, Members, OutputNames

LEMMA ReadNamesStep == ASSUME IInv, NEW c \in Callers, ReadNames(c) PROVE IInv'
<1> DEFINE names == IF call[c].names = {} THEN Names(ItsOutputs(call[c].logger)) ELSE call[c].names
           r == [call[c] EXCEPT !.pc = "named", !.names = names]
<1>1. call[c] \in CallRecord /\ CallOK(call[c]) /\ call[c].pc = "begun"
  BY CallIs DEF ReadNames
<1>2. names \in SUBSET OutputNames
  BY <1>1, ItsOutputsType DEF CallRecord, IInv, FamilyInv
<1>3. r \in CallRecord
  BY <1>1, <1>2 DEF CallRecord
<1>4. call' = [call EXCEPT ![c] = r]
  BY DEF ReadNames
<1> HIDE DEF names
<1>5. CallOK(r)
  BY <1>1 DEF CallOK, CallRecord
<1>6. MapsType'
  BY MapsUntouched DEF IInv, FamilyInv, ReadNames
<1>7. QED
  BY <1>3, <1>4, <1>5, <1>6, CallStep DEF ReadNames, Processing

LEMMA MergeFieldsStep == ASSUME IInv, NEW c \in Callers, MergeFields(c) PROVE IInv'
<1> DEFINE final == FinalFields(c)
           p == IF final = Nil THEN Nil ELSE MessageMap(c)
           r == [call[c] EXCEPT !.pc = "merged", !.fields = p]
<1>1. call[c] \in CallRecord /\ CallOK(call[c]) /\ call[c].pc = "checked"
  BY CallIs DEF MergeFields
<1>2. p \in Locations \cup {Nil}
  BY LocationsDiffer
<1>3. r \in CallRecord
  BY <1>1, <1>2 DEF CallRecord
<1>4. call' = [call EXCEPT ![c] = r]
  BY DEF MergeFields
<1>5. MapsType'
  <2>1. heap' = heap \/ heap' = [heap EXCEPT ![MessageMap(c)] = final]
    BY DEF MergeFields
  <2> HIDE DEF final
  <2>2. QED
    BY <2>1, WrittenMessage
<1> HIDE DEF p
<1>6. CallOK(r)
  BY <1>1 DEF CallOK, CallRecord
<1>7. QED
  BY <1>3, <1>4, <1>5, <1>6, CallStep DEF MergeFields, Processing

LEMMA MergeTagsStep == ASSUME IInv, NEW c \in Callers, MergeTags(c) PROVE IInv'
<1> DEFINE tags == call[c].tags \cup Members(GlobalTags(call[c].logger))
           r == [call[c] EXCEPT !.pc = "tagged", !.tags = tags]
<1>1. call[c] \in CallRecord /\ CallOK(call[c]) /\ call[c].pc = "merged"
  BY CallIs DEF MergeTags
<1>2. tags \in SUBSET Tags
  BY <1>1, ItsOutputsType DEF CallRecord, IInv, FamilyInv
<1>3. r \in CallRecord
  BY <1>1, <1>2 DEF CallRecord
<1>4. call' = [call EXCEPT ![c] = r]
  BY DEF MergeTags
<1> HIDE DEF tags
<1>5. CallOK(r)
  BY <1>1 DEF CallOK, CallRecord
<1>6. MapsType'
  BY MapsUntouched DEF IInv, FamilyInv, MergeTags
<1>7. QED
  BY <1>3, <1>4, <1>5, <1>6, CallStep DEF MergeTags, Processing

\* The slice that processOutputs iterates over is frozen from here on.
LEMMA OutputsFrozen ==
    ASSUME SlicesInv, NEW l \in Loggers
    PROVE  Frozen(outputsOf[l], arrays, tagsOf, outputsOf)
<1>1. /\ IsSlice(arrays, outputsOf[l]) /\ Elements(arrays, outputsOf[l]) \in Seq(Outputs)
      /\ outputsOf[l].at \in Nat /\ outputsOf[l].len \in Nat
      /\ outputsOf[l].at = 0 => outputsOf[l].len = 0
  BY SliceBasics DEF SlicesInv, SlicesType
<1>2. ASSUME NEW k \in Loggers
      PROVE  outputsOf[l].at > 0 => outputsOf[l].at # tagsOf[k].at
  BY DEF SlicesInv, SlicesType
<1>3. ASSUME NEW k \in Loggers, outputsOf[l].at = outputsOf[k].at
      PROVE  outputsOf[l].len <= outputsOf[k].len
  <2>1. outputsOf[k].len \in Nat
    BY SliceBasics DEF SlicesInv, SlicesType
  <2>2. k # l => outputsOf[l].at = 0
    BY <1>1, <1>3 DEF SlicesInv, SlicesType
  <2>3. QED
    BY <1>1, <2>1, <2>2
<1>4. QED
  BY <1>1, <1>2, <1>3 DEF Frozen

LEMMA ReadOutputsStep == ASSUME IInv, NEW c \in Callers, ReadOutputs(c) PROVE IInv'
<1> DEFINE u == outputsOf[call[c].logger]
           r == [call[c] EXCEPT !.pc = "gathering", !.listed = u]
<1>1. call[c] \in CallRecord /\ CallOK(call[c]) /\ call[c].pc = "tagged"
  BY CallIs DEF ReadOutputs
<1>2. SlicesInv /\ call[c].logger \in Loggers
  BY <1>1 DEF IInv, FamilyInv, CallRecord
<1>3. u \in Windows /\ u.len \in Nat /\ u.len <= MaxCopies
  BY <1>2 DEF SlicesInv, SlicesType, Windows
<1>4. r \in CallRecord
  BY <1>1, <1>3 DEF CallRecord
<1>5. call' = [call EXCEPT ![c] = r]
  BY DEF ReadOutputs
<1>6. Frozen(u, arrays, tagsOf, outputsOf)
  BY <1>2, OutputsFrozen
<1> HIDE DEF u
<1>7. call[c].next <= 1 /\ call[c].next \in Int
  BY <1>1 DEF CallOK, CallRecord
<1>8. CallOK(r)
  BY <1>1, <1>3, <1>6, <1>7 DEF CallOK, CallRecord
<1>9. MapsType'
  BY MapsUntouched DEF IInv, FamilyInv, ReadOutputs
<1>10. QED
  BY <1>4, <1>5, <1>8, <1>9, CallStep DEF ReadOutputs, Processing

LEMMA SkipStep == ASSUME IInv, LoggersAssumption, NEW c \in Callers, Skip(c) PROVE IInv'
<1> DEFINE r == [call[c] EXCEPT !.next = @ + 1]
<1>1. /\ call[c] \in CallRecord /\ CallOK(call[c]) /\ call[c].pc = "gathering"
      /\ call[c].next <= call[c].listed.len
  BY CallIs DEF Skip
<1>2. /\ call[c].next \in Nat /\ call[c].next > 0 /\ call[c].listed.len \in Nat
      /\ call[c].listed.len <= MaxCopies /\ MaxCopies \in Nat
      /\ Len(call[c].copies) \in Nat
  BY <1>1 DEF CallOK, CallRecord, Windows, LoggersAssumption
<1>3. call[c].next + 1 \in 1..(MaxCopies + 1)
  BY <1>1, <1>2
<1>4. r \in CallRecord
  BY <1>1, <1>3 DEF CallRecord
<1>5. call' = [call EXCEPT ![c] = r]
  BY DEF Skip
<1>6. CallOK(r)
  BY <1>1, <1>2 DEF CallOK, CallRecord
<1>7. MapsType'
  BY MapsUntouched DEF IInv, FamilyInv, Skip
<1>8. QED
  BY <1>4, <1>5, <1>6, <1>7, CallStep DEF Skip, Processing

LEMMA ListedIs ==
    ASSUME IInv, NEW c \in Callers, call[c].next <= call[c].listed.len
    PROVE  /\ Listed(c) \in Outputs
           /\ Listed(c) = Elements(arrays, call[c].listed)[call[c].next]
<1> DEFINE u == call[c].listed
           i == call[c].next
<1>1. /\ IsSlice(arrays, u) /\ Elements(arrays, u) \in Seq(Outputs)
      /\ i \in 1..(MaxCopies + 1) /\ u \in Windows
      /\ arrays \in Seq(Seq(Tags \cup Outputs))
  BY CallIs DEF CallOK, Frozen, CallRecord, IInv, FamilyInv, SlicesInv, SlicesType
<1>2. i \in 1..u.len
  BY <1>1 DEF Windows
<1> HIDE DEF u, i
<1>3. /\ Len(Elements(arrays, u)) = u.len
      /\ \A k \in 1..u.len : Elements(arrays, u)[k] = arrays[u.at][k]
  BY <1>1, ElementsShape
<1>4. Elements(arrays, u)[i] \in Outputs /\ Elements(arrays, u)[i] = arrays[u.at][i]
  BY <1>1, <1>2, <1>3
<1>5. QED
  BY <1>4 DEF Listed, u, i

LEMMA CopyStep == ASSUME IInv, LoggersAssumption, NEW c \in Callers, CopyMessage(c) PROVE IInv'
<1> DEFINE n == Len(call[c].copies) + 1
           mine == Copy(At(call[c].fields), Empty)
           p == IF mine = Nil THEN Nil ELSE CopyMap(c, n)
           m == [output |-> Listed(c), from |-> call[c].next, fields |-> p,
                 tags |-> call[c].tags, added |-> Empty]
           pc == IF setup.levelSet THEN "loading" ELSE "gathering"
           r == [call[c] EXCEPT !.pc = pc, !.next = @ + 1, !.copies = Append(@, m)]
<1>1. /\ call[c] \in CallRecord /\ CallOK(call[c]) /\ call[c].pc = "gathering"
      /\ call[c].next <= call[c].listed.len
  BY CallIs DEF CopyMessage
<1>2. /\ call[c].next \in Nat /\ call[c].next > 0 /\ call[c].listed.len \in Nat
      /\ call[c].listed.len <= MaxCopies /\ MaxCopies \in Nat
      /\ Len(call[c].copies) \in Nat /\ call[c].copies \in Seq(CopyType)
      /\ Len(call[c].copies) < call[c].next
  BY <1>1 DEF CallOK, CallRecord, Windows, LoggersAssumption
<1>3. call[c].next + 1 \in 1..(MaxCopies + 1) /\ call[c].next \in 1..MaxCopies /\ n \in 1..MaxCopies
  BY <1>1, <1>2
<1>4. Listed(c) \in Outputs
  BY <1>1, ListedIs
<1>5. /\ call' = [call EXCEPT ![c] = r]
      /\ heap' = heap \/ heap' = [heap EXCEPT ![CopyMap(c, n)] = mine]
  BY DEF CopyMessage
<1>6. CopyMap(c, n) \in CopyMaps
  BY <1>3 DEF CopyMaps
<1>7. p \in CopyMaps \cup {Nil}
  BY <1>6
<1> HIDE DEF mine, n
<1>8. MapsType'
  BY <1>5, <1>6, WrittenCopy
<1>9. Empty \in Marks /\ call[c].tags \in SUBSET Tags
  BY <1>1 DEF Marks, CallRecord
<1> HIDE DEF p
<1>10. m \in CopyType
  BY <1>3, <1>4, <1>7, <1>9 DEF CopyType
<1> HIDE DEF m
<1>11. Append(call[c].copies, m) \in Seq(CopyType)
       /\ Len(Append(call[c].copies, m)) = Len(call[c].copies) + 1
       /\ Append(call[c].copies, m) # <<>>
  BY <1>2, <1>10
<1>12. pc \in {"loading", "gathering"}
  OBVIOUS
<1> HIDE DEF pc
<1>13. r \in CallRecord
  BY <1>1, <1>3, <1>11, <1>12 DEF CallRecord
<1>14. CallOK(r)
  BY <1>1, <1>2, <1>11, <1>12 DEF CallOK, CallRecord
<1>15. QED
  BY <1>5, <1>8, <1>13, <1>14, CallStep DEF CopyMessage, Processing

LEMMA DecorateStep ==
    ASSUME IInv, NEW c \in Callers, NEW n \in 1..MaxCopies, NEW f \in setup.marks, Decorate(c, n, f)
    PROVE  IInv'
<1> DEFINE m == [call[c].copies[n] EXCEPT !.added = f]
           s == [call[c].copies EXCEPT ![n] = m]
           r == [call[c] EXCEPT !.copies = s]
<1>1. /\ call[c] \in CallRecord /\ CallOK(call[c]) /\ call[c].pc = "writing"
      /\ n \in DOMAIN call[c].copies /\ call[c].copies[n].fields # Nil
  BY CallIs DEF Decorate
<1>2. call[c].copies \in Seq(CopyType) /\ call[c].copies[n] \in CopyType
  BY <1>1 DEF CallRecord
<1>3. f \in Marks
  BY DEF Marks, IInv
<1>4. m \in CopyType
  BY <1>2, <1>3 DEF CopyType
<1> HIDE DEF m
<1>5. s \in Seq(CopyType) /\ Len(s) = Len(call[c].copies)
  BY <1>1, <1>2, <1>4
<1>6. call' = [call EXCEPT ![c] = r]
  BY DEF Decorate, m
<1> HIDE DEF s
<1>7. r \in CallRecord
  BY <1>1, <1>5 DEF CallRecord
<1>8. CallOK(r)
  BY <1>1, <1>5 DEF CallOK, CallRecord
<1>9. MapsType'
  <2>1. call[c].copies[n].fields \in CopyMaps
    BY <1>1, <1>2 DEF CopyType
  <2>2. PICK g : heap' = [heap EXCEPT ![call[c].copies[n].fields] = g]
    BY DEF Decorate
  <2>3. QED
    BY <2>1, <2>2, WrittenCopy
<1>10. QED
  BY <1>6, <1>7, <1>8, <1>9, CallStep DEF Decorate, Processing

LEMMA ProcessStep ==
    ASSUME IInv, LoggersAssumption, NEW c \in Callers, Processes(c)
    PROVE  IInv'
<1>1. CASE CheckFields(c)
  <2>1. call[c].listed.len = 0
    BY <1>1, CallIs DEF CheckFields, CallOK
  <2>2. QED
    BY <1>1, <2>1, GoesStep DEF CheckFields, Processing
<1>2. CASE Gathered(c)
  BY <1>2, GoesStep DEF Gathered, Processing
<1>3. CASE LoadMatchers(c)
  <2>1. call[c].copies # <<>>
    BY <1>3, CallIs DEF LoadMatchers, CallOK
  <2>2. QED
    BY <1>3, <2>1, GoesStep DEF LoadMatchers, Processing
<1>4. CASE CheckSize(c)
  <2>1. call[c].copies # <<>>
    BY <1>4, CallIs DEF CheckSize, CallOK
  <2>2. QED
    BY <1>4, <2>1, GoesStep DEF CheckSize, Processing
<1>5. CASE StoreMatchers(c)
  <2>1. call[c].copies # <<>>
    BY <1>5, CallIs DEF StoreMatchers, CallOK
  <2>2. QED
    BY <1>5, <2>1, GoesStep DEF StoreMatchers, Processing
<1>6. CASE CountMatchers(c)
  BY <1>6, GoesStep DEF CountMatchers, Processing
<1>7. CASE Finish(c)
  BY <1>7, GoesStep DEF Finish, Processing
<1>8. CASE \E n \in 1..MaxCopies, f \in setup.marks : Decorate(c, n, f)
  BY <1>8, DecorateStep
<1>9. QED
  BY <1>1, <1>2, <1>3, <1>4, <1>5, <1>6, <1>7, <1>8, ReadNamesStep, MergeFieldsStep,
     MergeTagsStep, ReadOutputsStep, SkipStep, CopyStep DEF Processes

LEMMA ConfiguredCalls ==
    ASSUME IInv, FamilyInv', FrozenStays, exists \subseteq exists', call' = call, setup' = setup
    PROVE  IInv'
<1>1. ASSUME NEW c \in Callers
      PROVE  CallOK(call[c])'
  <2>1. CallOK(call[c])
    BY CallIs
  <2>2. Frozen(call[c].listed, arrays', tagsOf', outputsOf')
    BY <2>1 DEF CallOK, FrozenStays
  <2>3. QED
    BY <2>1, <2>2 DEF CallOK
<1>2. QED
  BY <1>1 DEF IInv, CallInv

LEMMA NextStep ==
    ASSUME IInv, LoggersAssumption, SetupsAssumption, [Next]_vars
    PROVE  IInv'
<1>1. CASE Configures
  BY <1>1, ConfigureStep, ConfiguredCalls DEF IInv
<1>2. ASSUME NEW c \in Callers, Calls(c)
      PROVE  IInv'
  BY <1>2, PrintStep, OutputStep, AgainStep DEF Calls
<1>3. ASSUME NEW c \in Callers, Processes(c)
      PROVE  IInv'
  BY <1>3, ProcessStep
<1>4. CASE UNCHANGED vars
  <2>1. UNCHANGED <<setup, exists, component, fieldsOf, tagsOf, outputsOf, extracts,
                    heap, arrays, call>>
    BY <1>4 DEF vars, family, containers
  <2>2. FamilyInv'
    BY <2>1 DEF IInv, FamilyInv, FamilyType, MapsType, SlicesInv, SlicesType
  <2>3. FrozenStays
    BY <2>1 DEF FrozenStays
  <2>4. QED
    BY <2>1, <2>2, <2>3, ConfiguredCalls
<1>5. QED
  BY <1>1, <1>2, <1>3, <1>4 DEF Next

\* The slices of the first logger.
LEMMA FirstSlices ==
    ASSUME NEW os \in Seq(Outputs), NEW ts \in Seq(Tags), NEW k \in Nat
    PROVE  LET n == <<os, ts>>
               y == Fresh(<<>>, os, k)
               x == Fresh(<<os>>, ts, k)
           IN /\ n \in Seq(Seq(Tags \cup Outputs))
              /\ IsSlice(n, y) /\ Elements(n, y) = os /\ y.at = 1 /\ y.len = Len(os)
              /\ IsSlice(n, x) /\ Elements(n, x) = ts /\ x.at = 2
<1> DEFINE E == Tags \cup Outputs
           z == <<>>
           m == <<os>>
           n == <<os, ts>>
           y == Fresh(z, os, k)
           x == Fresh(m, ts, k)
<1>1. os \in Seq(E) /\ ts \in Seq(E)
  OBVIOUS
<1>2. /\ m = Stored(z, os) /\ n = Stored(m, ts)
      /\ Len(m) = 1 /\ m \in Seq(Seq(E)) /\ z \in Seq(Seq(E)) /\ Len(z) = 0
  BY <1>1 DEF Stored
<1> HIDE DEF E, z, m, n
<1>3. IsSlice(m, y) /\ Elements(m, y) = os /\ y.at = 1 /\ y.len = Len(os)
  <2>1. IsSlice(Stored(z, os), y) /\ Elements(Stored(z, os), y) = os
        /\ y.at = Len(z) + 1 /\ y.len = Len(os)
    BY <1>1, <1>2, StoredFresh
  <2>2. QED
    BY <1>2, <2>1
<1>4. IsSlice(n, x) /\ Elements(n, x) = ts /\ x.at = 2
  <2>1. IsSlice(Stored(m, ts), x) /\ Elements(Stored(m, ts), x) = ts /\ x.at = Len(m) + 1
    BY <1>1, <1>2, StoredFresh
  <2>2. QED
    BY <1>2, <2>1
<1> HIDE DEF x, y
<1>5. IsSlice(n, y) /\ Elements(n, y) = os
  <2>1. IsSlice(Stored(m, ts), y) /\ Elements(Stored(m, ts), y) = Elements(m, y)
    BY <1>1, <1>2, <1>3, StoredOthers
  <2>2. QED
    BY <1>2, <1>3, <2>1
<1>6. n \in Seq(Seq(E))
  BY <1>1, <1>2, StoredType
<1>7. QED
  BY <1>3, <1>4, <1>5, <1>6 DEF E, z, m, n, x, y

LEMMA InitStep == ASSUME LoggersAssumption, SetupsAssumption, Init PROVE IInv
<1> DEFINE n == <<setup.outputs, setup.tags>>
           y == Fresh(<<>>, setup.outputs, setup.spare)
           x == Fresh(<<setup.outputs>>, setup.tags, setup.spare)
<1>1. setup \in Setups /\ IsSetup(setup)
  BY DEF Init, SetupsAssumption
<1>2. /\ setup.outputs \in Seq(Outputs) /\ setup.tags \in Seq(Tags) /\ setup.spare \in Nat
      /\ Len(setup.outputs) <= MaxCopies
      /\ setup.fields \in Contents /\ setup.map \in Contents
  BY <1>1 DEF IsSetup
<1>3. n \in Seq(Seq(Tags \cup Outputs))
  BY <1>2, FirstSlices
<1>4. /\ IsSlice(n, y) /\ Elements(n, y) = setup.outputs /\ y.at = 1
      /\ y.len = Len(setup.outputs)
  BY <1>2, FirstSlices
<1>5. IsSlice(n, x) /\ Elements(n, x) = setup.tags /\ x.at = 2
  BY <1>2, FirstSlices
<1>6. /\ arrays = n
      /\ outputsOf = [l \in Loggers |-> IF l = Root THEN y ELSE NilSlice]
      /\ tagsOf = [l \in Loggers |-> IF l = Root THEN x ELSE NilSlice]
  BY DEF Init
<1> HIDE DEF n, x, y
<1>7. /\ IsSlice(n, NilSlice) /\ Elements(n, NilSlice) = <<>> /\ NilSlice \in Windows
      /\ NilSlice.at = 0 /\ NilSlice.len = 0 /\ <<>> \in Seq(Tags) /\ <<>> \in Seq(Outputs)
  <2>1. Len(n) \in Nat
    BY <1>3
  <2>2. QED
    BY <2>1 DEF IsSlice, Elements, NilSlice, Windows
<1>8. x \in Windows /\ y \in Windows /\ MaxCopies \in Nat /\ Root \in Loggers
  BY <1>4, <1>5 DEF IsSlice, LoggersAssumption
<1>9. SlicesInv
  <2>1. arrays \in Seq(Seq(Tags \cup Outputs)) /\ tagsOf \in [Loggers -> Windows]
        /\ outputsOf \in [Loggers -> Windows]
    BY <1>3, <1>6, <1>7, <1>8
  <2>2. ASSUME NEW l \in Loggers
        PROVE  /\ IsSlice(arrays, tagsOf[l]) /\ IsSlice(arrays, outputsOf[l])
               /\ outputsOf[l].len <= MaxCopies
               /\ Elements(arrays, tagsOf[l]) \in Seq(Tags)
               /\ Elements(arrays, outputsOf[l]) \in Seq(Outputs)
    <3>1. CASE l = Root
      BY <1>2, <1>4, <1>5, <1>6, <3>1
    <3>2. CASE l # Root
      BY <1>6, <1>7, <1>8, <3>2
    <3>3. QED
      BY <3>1, <3>2
  <2>3. ASSUME NEW k \in Loggers, NEW l \in Loggers
        PROVE  /\ k # l /\ tagsOf[k].at > 0 => tagsOf[k].at # tagsOf[l].at
               /\ k # l /\ outputsOf[k].at > 0 => outputsOf[k].at # outputsOf[l].at
               /\ tagsOf[k].at > 0 => tagsOf[k].at # outputsOf[l].at
    BY <1>4, <1>5, <1>6, <1>7
  <2>4. QED
    BY <2>1, <2>2, <2>3 DEF SlicesInv, SlicesType
<1>10. FamilyType /\ MapsType
  <2>1. \A l \in Loggers : LoggerMap(l) \in Locations
    BY LocationsDiffer
  <2>2. FamilyType
    BY <1>8, <2>1 DEF Init, FamilyType, MapsGiven
  <2>3. \A a \in AppMaps : heap[AppMap(a)] = setup.map
    BY LocationsDiffer, <1>8 DEF Init
  <2>4. \A l \in Loggers : heap[LoggerMap(l)] \in Contents
    <3> SUFFICES ASSUME NEW l \in Loggers PROVE heap[LoggerMap(l)] \in Contents
      OBVIOUS
    <3>1. heap[LoggerMap(l)] \in {setup.fields, setup.map, Empty}
      BY <2>1 DEF Init
    <3>2. QED
      BY <1>2, <3>1, EmptyShape
  <2>5. heap = [p \in Locations |-> heap[p]]
    BY DEF Init
  <2>6. QED
    BY <1>2, <2>2, <2>3, <2>4, <2>5 DEF MapsType
<1>11. CallInv
  <2>1. NoCall \in CallRecord
    BY <1>7, <1>8 DEF NoCall, CallRecord
  <2>2. Frozen(NilSlice, arrays, tagsOf, outputsOf)
    BY <1>6, <1>7, <1>8 DEF Frozen, Windows
  <2>3. CallOK(NoCall)
    BY <1>7, <1>8, <2>2 DEF CallOK, NoCall, Init
  <2>4. QED
    BY <2>1, <2>3 DEF Init, CallInv
<1>12. QED
  BY <1>1, <1>9, <1>10, <1>11 DEF IInv, FamilyInv

THEOREM Inductive == Spec => []IInv
<1>1. Init => IInv
  BY LoggersAssumption, SetupsAssumption, InitStep
<1>2. IInv /\ [Next]_vars => IInv'
  BY LoggersAssumption, SetupsAssumption, NextStep
<1>3. QED
  BY <1>1, <1>2, PTL DEF Spec

-----------------------------------------------------------------------------
(* The cache of matchers.                                                    *)

At_(pc) == {c \in Callers : call[c].pc = pc}

\* The entries not yet counted are those of the calls about to count; a call
\* about to store has seen room, and the others may have filled it since.
CacheInv ==
    /\ cache \subseteq Loggers \X OutputNames
    /\ IsFiniteSet(cache) /\ cacheSize \in Nat
    /\ Cardinality(cache) = cacheSize + Cardinality(At_("counting"))
    /\ Cardinality(cache) + Cardinality(At_("storing")) <= MaxCached - 1 + Cardinality(Callers)

LEMMA AtFinite ==
    ASSUME LoggersAssumption, NEW pc
    PROVE  /\ IsFiniteSet(At_(pc)) /\ Cardinality(At_(pc)) \in Nat
           /\ Cardinality(At_(pc)) <= Cardinality(Callers) /\ Cardinality(Callers) \in Nat
  BY FS_Subset, FS_CardinalityType DEF At_, LoggersAssumption

\* A call that moves to pc, or from it.
LEMMA Moved ==
    ASSUME IInv, NEW c \in Callers, NEW r, r.pc # call[c].pc, call' = [call EXCEPT ![c] = r], NEW pc
    PROVE  /\ call[c].pc = pc => c \in At_(pc) /\ At_(pc)' = At_(pc) \ {c}
           /\ r.pc = pc => c \notin At_(pc) /\ At_(pc)' = At_(pc) \cup {c}
           /\ call[c].pc # pc /\ r.pc # pc => At_(pc)' = At_(pc)
<1>1. \A d \in Callers : call'[d] = IF d = c THEN r ELSE call[d]
  BY DEF IInv, CallInv
<1>2. QED
  BY <1>1 DEF At_

LEMMA MovedCount ==
    ASSUME LoggersAssumption, IInv, NEW c \in Callers, NEW r, r.pc # call[c].pc,
           call' = [call EXCEPT ![c] = r], NEW pc
    PROVE  /\ call[c].pc = pc => Cardinality(At_(pc))' = Cardinality(At_(pc)) - 1
           /\ r.pc = pc => Cardinality(At_(pc))' = Cardinality(At_(pc)) + 1
           /\ call[c].pc # pc /\ r.pc # pc => Cardinality(At_(pc))' = Cardinality(At_(pc))
<1>1. IsFiniteSet(At_(pc))
  BY AtFinite
<1>2. ASSUME call[c].pc = pc
      PROVE  Cardinality(At_(pc))' = Cardinality(At_(pc)) - 1
  <2>1. c \in At_(pc) /\ At_(pc)' = At_(pc) \ {c}
    BY <1>2, Moved
  <2>2. Cardinality(At_(pc) \ {c}) = Cardinality(At_(pc)) - 1
    BY <1>1, <2>1, FS_RemoveElement
  <2>3. QED
    BY <2>1, <2>2
<1>3. r.pc = pc => Cardinality(At_(pc))' = Cardinality(At_(pc)) + 1
  BY <1>1, Moved, FS_AddElement
<1>4. call[c].pc # pc /\ r.pc # pc => Cardinality(At_(pc))' = Cardinality(At_(pc))
  BY Moved
<1>5. QED
  BY <1>2, <1>3, <1>4

LEMMA GoesIs == ASSUME NEW c \in Callers, NEW pc, IInv, Goes(c, pc)
    PROVE  \E r : r.pc = pc /\ call' = [call EXCEPT ![c] = r]
<1>1. call[c] \in CallRecord
  BY CallIs
<1>2. call' = [call EXCEPT ![c] = [call[c] EXCEPT !.pc = pc]] /\ [call[c] EXCEPT !.pc = pc].pc = pc
  BY <1>1 DEF Goes, CallRecord
<1>3. QED
  BY <1>2

\* A step that is not about the cache.
LEMMA CacheKept ==
    ASSUME CacheInv, UNCHANGED matchers,
           At_("storing")' = At_("storing"), At_("counting")' = At_("counting")
    PROVE  CacheInv'
  BY DEF CacheInv, matchers

LEMMA QuietCall ==
    ASSUME CacheInv, NEW c \in Callers, UNCHANGED matchers,
           \A d \in Callers : d # c => call'[d] = call[d],
           call[c].pc \notin {"storing", "counting"},
           call'[c].pc \notin {"storing", "counting"}
    PROVE  CacheInv'
<1>1. At_("storing")' = At_("storing") /\ At_("counting")' = At_("counting")
  BY DEF At_
<1>2. QED
  BY <1>1, CacheKept

LEMMA MatcherKeyType ==
    ASSUME IInv, NEW c \in Callers, call[c].copies # <<>>
    PROVE  MatcherKey(c) \in Loggers \X OutputNames
<1>1. call[c] \in CallRecord
  BY CallIs
<1>2. call[c].copies \in Seq(CopyType) /\ call[c].logger \in Loggers
  BY <1>1 DEF CallRecord
<1>3. call[c].copies[Len(call[c].copies)] \in CopyType
  BY <1>2
<1>4. call[c].copies[Len(call[c].copies)].output \in Outputs
  BY <1>3 DEF CopyType
<1>5. component[call[c].logger] \in Loggers
  BY <1>2 DEF IInv, FamilyInv, FamilyType
<1>6. QED
  BY <1>4, <1>5 DEF MatcherKey, OutputNames

LEMMA CheckSizeCache ==
    ASSUME LoggersAssumption, IInv, CacheInv, NEW c \in Callers, CheckSize(c)
    PROVE  CacheInv'
<1>1. CASE ~RoomInCache
  <2>1. /\ call'[c].pc = "gathering"
        /\ \A d \in Callers : d # c => call'[d] = call[d]
    BY <1>1 DEF CheckSize, Goes, IInv, CallInv, CallRecord
  <2>2. QED
    BY <2>1, QuietCall DEF CheckSize
<1>2. CASE RoomInCache
  <2>1. PICK r : r.pc = "storing" /\ call' = [call EXCEPT ![c] = r]
    BY <1>2, GoesIs DEF CheckSize
  <2>2. call[c].pc = "sizing" /\ cache' = cache /\ cacheSize' = cacheSize
    BY DEF CheckSize, matchers
  <2>3. /\ Cardinality(At_("storing"))' = Cardinality(At_("storing")) + 1
        /\ Cardinality(At_("counting"))' = Cardinality(At_("counting"))
    BY <2>1, <2>2, MovedCount
  <2>4. /\ Cardinality(At_("storing")) \in Nat /\ Cardinality(At_("counting")) \in Nat
        /\ Cardinality(Callers) \in Nat /\ MaxCached \in Nat /\ Cardinality(cache) \in Nat
    BY AtFinite, FS_CardinalityType DEF LoggersAssumption, CacheInv
  <2>5. Cardinality(At_("storing")) + Cardinality(At_("counting")) + 1 <= Cardinality(Callers)
    <3> DEFINE B == At_("storing") \cup At_("counting")
    <3>1. IsFiniteSet(B) /\ Cardinality(B) = Cardinality(At_("storing")) + Cardinality(At_("counting"))
      <4>1. At_("storing") \cap At_("counting") = {}
        BY DEF At_
      <4>2. Cardinality(At_("storing") \cap At_("counting")) = 0
        BY <4>1, FS_EmptySet
      <4>3. /\ IsFiniteSet(At_("storing")) /\ IsFiniteSet(At_("counting"))
        BY AtFinite
      <4>4. /\ IsFiniteSet(B)
            /\ Cardinality(B) = Cardinality(At_("storing")) + Cardinality(At_("counting"))
                                 - Cardinality(At_("storing") \cap At_("counting"))
        BY <4>3, FS_Union
      <4> HIDE DEF B
      <4>5. QED
        BY <2>4, <4>2, <4>4
    <3>2. c \notin B /\ B \cup {c} \in SUBSET Callers
      BY <2>2 DEF At_
    <3> HIDE DEF B
    <3>3. Cardinality(B \cup {c}) = Cardinality(B) + 1
      BY <3>1, <3>2, FS_AddElement
    <3>4. Cardinality(B \cup {c}) <= Cardinality(Callers)
      BY <3>2, FS_Subset DEF LoggersAssumption
    <3>5. QED
      BY <3>1, <3>3, <3>4
  <2>6. cacheSize < MaxCached
    BY <1>2 DEF RoomInCache
  <2>7. QED
    BY <2>2, <2>3, <2>4, <2>5, <2>6 DEF CacheInv
<1>3. QED
  BY <1>1, <1>2

LEMMA StoreCache ==
    ASSUME LoggersAssumption, IInv, CacheInv, NEW c \in Callers, StoreMatchers(c)
    PROVE  CacheInv'
<1> DEFINE k == MatcherKey(c)
<1>1. call[c].pc = "storing" /\ cache' = cache \cup {k} /\ cacheSize' = cacheSize
  BY DEF StoreMatchers
<1>2. k \in Loggers \X OutputNames
  <2>1. call[c].copies # <<>>
    BY <1>1, CallIs DEF CallOK
  <2>2. QED
    BY <2>1, MatcherKeyType
<1>3. /\ IsFiniteSet(cache')
      /\ Cardinality(cache') = IF k \in cache THEN Cardinality(cache) ELSE Cardinality(cache) + 1
  BY <1>1, FS_AddElement DEF CacheInv
<1>4. /\ Cardinality(At_("storing")) \in Nat /\ Cardinality(At_("counting")) \in Nat
      /\ Cardinality(Callers) \in Nat /\ MaxCached \in Nat /\ Cardinality(cache) \in Nat
      /\ cacheSize \in Nat
  BY AtFinite, FS_CardinalityType DEF LoggersAssumption, CacheInv
<1>5. cache' \subseteq Loggers \X OutputNames
  BY <1>1, <1>2 DEF CacheInv
<1>6. CASE k \in cache
  <2>1. PICK r : r.pc = "gathering" /\ call' = [call EXCEPT ![c] = r]
    BY <1>6, GoesIs DEF StoreMatchers
  <2>2. /\ Cardinality(At_("storing"))' = Cardinality(At_("storing")) - 1
        /\ Cardinality(At_("counting"))' = Cardinality(At_("counting"))
    BY <1>1, <2>1, MovedCount
  <2>3. QED
    BY <1>1, <1>3, <1>4, <1>5, <1>6, <2>2 DEF CacheInv
<1>7. CASE k \notin cache
  <2>1. PICK r : r.pc = "counting" /\ call' = [call EXCEPT ![c] = r]
    BY <1>7, GoesIs DEF StoreMatchers
  <2>2. /\ Cardinality(At_("storing"))' = Cardinality(At_("storing")) - 1
        /\ Cardinality(At_("counting"))' = Cardinality(At_("counting")) + 1
    BY <1>1, <2>1, MovedCount
  <2>3. QED
    BY <1>1, <1>3, <1>4, <1>5, <1>7, <2>2 DEF CacheInv
<1>8. QED
  BY <1>6, <1>7

LEMMA CountCache ==
    ASSUME LoggersAssumption, IInv, CacheInv, NEW c \in Callers, CountMatchers(c)
    PROVE  CacheInv'
<1>1. call[c].pc = "counting" /\ cache' = cache /\ cacheSize' = cacheSize + 1
  BY DEF CountMatchers
<1>2. PICK r : r.pc = "gathering" /\ call' = [call EXCEPT ![c] = r]
  BY GoesIs DEF CountMatchers
<1>3. /\ Cardinality(At_("storing"))' = Cardinality(At_("storing"))
      /\ Cardinality(At_("counting"))' = Cardinality(At_("counting")) - 1
  BY <1>1, <1>2, MovedCount
<1>4. /\ Cardinality(At_("storing")) \in Nat /\ Cardinality(At_("counting")) \in Nat
      /\ cacheSize \in Nat /\ Cardinality(cache) \in Nat
  BY AtFinite, FS_CardinalityType DEF CacheInv
<1>5. QED
  BY <1>1, <1>3, <1>4 DEF CacheInv

LEMMA CacheStep ==
    ASSUME LoggersAssumption, IInv, CacheInv, [Next]_vars
    PROVE  CacheInv'
<1>1. ASSUME call' = call, UNCHANGED matchers
      PROVE  CacheInv'
  BY <1>1, CacheKept DEF At_
<1>2. CASE Configures \/ UNCHANGED vars
  <2>1. call' = call /\ UNCHANGED matchers
    BY <1>2 DEF Configures, New, With, SetFields, SetTags, AddOutputs, SetOutputs,
       SetContextExtractor, AppWrites, Change, vars
  <2>2. QED
    BY <1>1, <2>1
<1>3. ASSUME NEW c \in Callers, NEW l, NEW p, NEW names, NEW tags, NEW fields,
             Begin(c, l, p, names, tags, fields)
      PROVE  CacheInv'
  <2>1. call[c].pc \in Resting /\ UNCHANGED matchers
    BY <1>3 DEF Begin
  <2>2. /\ call'[c].pc = "begun"
        /\ \A d \in Callers : d # c => call'[d] = call[d]
    BY <1>3 DEF Begin, IInv, CallInv
  <2>3. QED
    BY <2>1, <2>2, QuietCall DEF Resting
<1>4. ASSUME NEW c \in Callers, Calls(c)
      PROVE  CacheInv'
  BY <1>3, <1>4 DEF Calls, PrintWithOptions, PrintToOutput, PrintAgain
<1>5. ASSUME NEW c \in Callers, Processes(c)
      PROVE  CacheInv'
  <2>1. call \in [Callers -> CallRecord]
    BY DEF IInv, CallInv
  <2>2. CASE ReadNames(c)
    <3>1. /\ call'[c].pc = "named"
          /\ \A d \in Callers : d # c => call'[d] = call[d]
      BY <2>1, <2>2 DEF ReadNames, CallRecord
    <3>2. QED
      BY <2>2, <3>1, QuietCall DEF ReadNames
  <2>3. CASE CheckFields(c)
    <3>1. /\ call'[c].pc \in {"merged", "checked"}
          /\ \A d \in Callers : d # c => call'[d] = call[d]
      BY <2>1, <2>3 DEF Goes, CallRecord, CheckFields
    <3>2. QED
      BY <2>3, <3>1, QuietCall DEF CheckFields
  <2>4. CASE MergeFields(c)
    <3>1. /\ call'[c].pc = "merged"
          /\ \A d \in Callers : d # c => call'[d] = call[d]
      BY <2>1, <2>4 DEF MergeFields, CallRecord
    <3>2. QED
      BY <2>4, <3>1, QuietCall DEF MergeFields
  <2>5. CASE MergeTags(c)
    <3>1. /\ call'[c].pc = "tagged"
          /\ \A d \in Callers : d # c => call'[d] = call[d]
      BY <2>1, <2>5 DEF MergeTags, CallRecord
    <3>2. QED
      BY <2>5, <3>1, QuietCall DEF MergeTags
  <2>6. CASE ReadOutputs(c)
    <3>1. /\ call'[c].pc = "gathering"
          /\ \A d \in Callers : d # c => call'[d] = call[d]
      BY <2>1, <2>6 DEF ReadOutputs, CallRecord
    <3>2. QED
      BY <2>6, <3>1, QuietCall DEF ReadOutputs
  <2>7. CASE Skip(c)
    <3>1. /\ call'[c].pc = "gathering"
          /\ \A d \in Callers : d # c => call'[d] = call[d]
      BY <2>1, <2>7 DEF Skip, CallRecord
    <3>2. QED
      BY <2>7, <3>1, QuietCall DEF Skip
  <2>8. CASE CopyMessage(c)
    <3>1. /\ call'[c].pc \in {"loading", "gathering"}
          /\ \A d \in Callers : d # c => call'[d] = call[d]
      BY <2>1, <2>8 DEF CopyMessage, CallRecord
    <3>2. QED
      BY <2>8, <3>1, QuietCall DEF CopyMessage
  <2>9. CASE Gathered(c)
    <3>1. /\ call'[c].pc = "writing"
          /\ \A d \in Callers : d # c => call'[d] = call[d]
      BY <2>1, <2>9 DEF Goes, CallRecord, Gathered
    <3>2. QED
      BY <2>9, <3>1, QuietCall DEF Gathered
  <2>10. CASE LoadMatchers(c)
    <3>1. /\ call'[c].pc \in {"gathering", "sizing"}
          /\ \A d \in Callers : d # c => call'[d] = call[d]
      BY <2>1, <2>10 DEF Goes, CallRecord, LoadMatchers
    <3>2. QED
      BY <2>10, <3>1, QuietCall DEF LoadMatchers
  <2>11. CASE \E n \in 1..MaxCopies, f \in setup.marks : Decorate(c, n, f)
    <3>1. PICK n \in 1..MaxCopies, f \in setup.marks : Decorate(c, n, f)
      BY <2>11
    <3>2. /\ call'[c].pc = "writing"
          /\ \A d \in Callers : d # c => call'[d] = call[d]
      BY <2>1, <3>1 DEF Decorate, CallRecord
    <3>3. QED
      BY <3>1, <3>2, QuietCall DEF Decorate
  <2>12. CASE Finish(c)
    <3>1. /\ call'[c].pc = "done"
          /\ \A d \in Callers : d # c => call'[d] = call[d]
      BY <2>1, <2>12 DEF Goes, CallRecord, Finish
    <3>2. QED
      BY <2>12, <3>1, QuietCall DEF Finish
  <2>13. QED
    BY <1>5, <2>2, <2>3, <2>4, <2>5, <2>6, <2>7, <2>8, <2>9, <2>10, <2>11, <2>12,
       CheckSizeCache, StoreCache, CountCache DEF Processes
<1>6. QED
  BY <1>2, <1>4, <1>5 DEF Next

LEMMA CacheInit == ASSUME LoggersAssumption, Init PROVE CacheInv
<1>1. At_("counting") = {} /\ At_("storing") = {} /\ cache = {} /\ cacheSize = 0
  BY DEF Init, NoCall, At_
<1>2. Cardinality({}) = 0 /\ IsFiniteSet({})
  BY FS_EmptySet
<1>3. Cardinality(Callers) \in Nat /\ MaxCached \in Nat \ {0}
  BY FS_CardinalityType DEF LoggersAssumption
<1>4. QED
  BY <1>1, <1>2, <1>3 DEF CacheInv

\* The cache stays within its bound and the goroutines that print: each of
\* them may store one entry after another has taken the last room
\* (MatchersBounded, debug.go getMatchers).
THEOREM CacheBounded == Spec => []MatchersBounded
<1>1. Init => CacheInv
  BY LoggersAssumption, CacheInit
<1>2. IInv /\ CacheInv /\ [Next]_vars => CacheInv'
  BY LoggersAssumption, CacheStep
<1>3. CacheInv => MatchersBounded
  <2>1. ASSUME CacheInv PROVE MatchersBounded
    <3>1. Cardinality(At_("storing")) \in Nat /\ Cardinality(Callers) \in Nat
          /\ MaxCached \in Nat /\ Cardinality(cache) \in Nat
      BY LoggersAssumption, <2>1, AtFinite, FS_CardinalityType DEF CacheInv, LoggersAssumption
    <3>2. QED
      BY <2>1, <3>1 DEF CacheInv, MatchersBounded
  <2>2. QED
    BY <2>1
<1>4. QED
  BY <1>1, <1>2, <1>3, Inductive, PTL DEF Spec

\* Every variable keeps its type, no two loggers share an array, and the
\* cache's size counts no entry twice (TypeOK).
THEOREM TypeCorrect == Spec => []TypeOK
<1>1. Init => CacheInv
  BY LoggersAssumption, CacheInit
<1>2. IInv /\ CacheInv /\ [Next]_vars => CacheInv'
  BY LoggersAssumption, CacheStep
<1>3. IInv /\ CacheInv => TypeOK
  <2>1. ASSUME IInv, CacheInv PROVE TypeOK
    <3>1. ASSUME NEW c \in Callers
          PROVE  /\ call[c].logger \in exists
                 /\ IsSlice(arrays, call[c].listed)
                 /\ call[c].next <= call[c].listed.len + 1
                 /\ Len(call[c].copies) < call[c].next
                 /\ call[c].listed.len <= MaxCopies
                 /\ call[c].pc \in {"loading", "sizing", "storing", "counting"} => call[c].copies # <<>>
      BY <2>1, CallIs DEF CallOK, Frozen
    <3>2. CallType
      BY <2>1, <3>1 DEF CallType, IInv, CallInv
    <3>3. Cardinality(At_("counting")) \in Nat
      BY LoggersAssumption, AtFinite
    <3>4. CacheType
      BY <2>1, <3>3 DEF CacheType, CacheInv
    <3>5. QED
      BY <2>1, <3>2, <3>4 DEF TypeOK, IInv, FamilyInv, SlicesInv
  <2>2. QED
    BY <2>1
<1>4. QED
  BY <1>1, <1>2, <1>3, Inductive, PTL DEF Spec

-----------------------------------------------------------------------------
(* The refinement.                                                           *)

LEMMA FollowsIs ==
    ASSUME NEW l \in Loggers
    PROVE  /\ fieldsOf[l] \in {Nil, LoggerMap(l)} => ~Follows(l)
           /\ \A a \in AppMaps : fieldsOf[l] = AppMap(a) => Follows(l) /\ fieldsOf[l][2] = a
  BY LocationsDiffer, NilIsNoMap DEF Follows, AppMap

\* The fields of a logger are the same below and above.
LEMMA FieldsAre ==
    ASSUME FamilyType, NEW l \in Loggers
    PROVE  Value!Fields(l) = GlobalFields(l)
<1>1. fieldsOf[l] \in MapsGiven \cup {LoggerMap(l)}
  BY DEF FamilyType
<1>2. CASE fieldsOf[l] \in {Nil, LoggerMap(l)}
  BY <1>2, FollowsIs DEF Value!Fields, followed, ownFields
<1>3. CASE \E a \in AppMaps : fieldsOf[l] = AppMap(a)
  <2>1. PICK a \in AppMaps : fieldsOf[l] = AppMap(a)
    BY <1>3
  <2>2. followed[l] = a /\ a # Nil /\ fieldsOf[l] # Nil
    BY <2>1, FollowsIs, NilIsNoMap DEF followed
  <2>3. Value!Fields(l) = mapsHeld[a]
    BY <2>2 DEF Value!Fields
  <2>4. QED
    BY <2>1, <2>2, <2>3 DEF mapsHeld, GlobalFields
<1>4. QED
  BY <1>1, <1>2, <1>3 DEF MapsGiven

\* What a logger that a step leaves alone keeps.
LEMMA OwnKept ==
    ASSUME FamilyType, NEW l \in Loggers, fieldsOf'[l] = fieldsOf[l],
           heap'[LoggerMap(l)] = heap[LoggerMap(l)]
    PROVE  ownFields'[l] = ownFields[l] /\ followed'[l] = followed[l]
<1>1. Follows(l)' = Follows(l)
  BY DEF Follows
<1>2. ~Follows(l) => fieldsOf[l] \in {Nil, LoggerMap(l)}
  BY DEF FamilyType, Follows, MapsGiven
<1>3. ~Follows(l) => GlobalFields(l)' = GlobalFields(l)
  BY <1>2 DEF GlobalFields
<1>4. QED
  BY <1>1, <1>3 DEF ownFields, followed

LEMMA ValueStutters ==
    ASSUME FamilyType, UNCHANGED <<exists, fieldsOf, tagsOf, outputsOf, arrays>>,
           \A a \in AppMaps : heap'[AppMap(a)] = heap[AppMap(a)],
           \A l \in Loggers : heap'[LoggerMap(l)] = heap[LoggerMap(l)]
    PROVE  UNCHANGED Value!valueVars
<1>1. \A l \in Loggers : ownFields'[l] = ownFields[l] /\ followed'[l] = followed[l]
  BY OwnKept
<1>2. ownFields' = ownFields /\ followed' = followed
  BY <1>1 DEF ownFields, followed
<1>3. tagsHeld' = tagsHeld /\ outputsHeld' = outputsHeld
  BY DEF tagsHeld, outputsHeld, GlobalTags, ItsOutputs
<1>4. mapsHeld' = mapsHeld
  BY DEF mapsHeld
<1>5. QED
  BY <1>2, <1>3, <1>4 DEF Value!valueVars

LEMMA SlicesHeld ==
    ASSUME UNCHANGED <<arrays, tagsOf, outputsOf>>
    PROVE  tagsHeld' = tagsHeld /\ outputsHeld' = outputsHeld
  BY DEF tagsHeld, outputsHeld, GlobalTags, ItsOutputs

LEMMA MapsHeld ==
    ASSUME \A a \in AppMaps : heap'[AppMap(a)] = heap[AppMap(a)]
    PROVE  mapsHeld' = mapsHeld
  BY DEF mapsHeld

\* A logger derived from another holds what its parent holds, and given.
LEMMA DeriveMaps ==
    ASSUME FamilyType, MapsType, SlicesInv, NEW p \in exists, NEW l \in Loggers, l \notin exists,
           NEW given \in Contents,
           exists' = exists \cup {l}, CloneSlices(p, l),
           \A k \in Loggers : k # l => fieldsOf'[k] = fieldsOf[k],
           fieldsOf'[l] \in {Nil, LoggerMap(l)},
           GlobalFields(l)' = Over(GlobalFields(p), given),
           \A a \in AppMaps : heap'[AppMap(a)] = heap[AppMap(a)],
           \A k \in Loggers : k # l => heap'[LoggerMap(k)] = heap[LoggerMap(k)]
    PROVE  Value!Derive(p, l, given)
<1>1. p \in Loggers
  BY DEF FamilyType
<1>2. /\ \A k \in Loggers : GlobalTags(k)' = IF k = l THEN GlobalTags(p) ELSE GlobalTags(k)
      /\ \A k \in Loggers : ItsOutputs(k)' = IF k = l THEN ItsOutputs(p) ELSE ItsOutputs(k)
  BY <1>1, CloneStep
<1>3. \A k \in Loggers : k # l => ownFields'[k] = ownFields[k] /\ followed'[k] = followed[k]
  BY OwnKept
<1>4. ~Follows(l)'
  BY LocationsDiffer, NilIsNoMap DEF Follows
<1>5. ownFields'[l] = Over(GlobalFields(p), given) /\ followed'[l] = Nil
  BY <1>4 DEF ownFields, followed
<1>6. Value!Over(Value!Fields(p), given) = Over(GlobalFields(p), given)
  BY <1>1, FieldsAre DEF Value!Over, Over
<1>7. ownFields' = [ownFields EXCEPT ![l] = Value!Over(Value!Fields(p), given)]
  BY <1>3, <1>5, <1>6 DEF ownFields
<1>8. followed' = [followed EXCEPT ![l] = Nil]
  BY <1>3, <1>5 DEF followed
<1>9. tagsHeld' = [tagsHeld EXCEPT ![l] = tagsHeld[p]]
  BY <1>1, <1>2 DEF tagsHeld
<1>10. outputsHeld' = [outputsHeld EXCEPT ![l] = outputsHeld[p]]
  BY <1>1, <1>2 DEF outputsHeld
<1>11. mapsHeld' = mapsHeld
  BY MapsHeld
<1>12. QED
  BY <1>7, <1>8, <1>9, <1>10, <1>11 DEF Value!Derive

LEMMA ContentsSame == Value!Contents = Contents /\ Value!Empty = Empty
  BY DEF Value!Contents, Contents, Value!Empty, Empty

LEMMA LoggerMapWritten ==
    ASSUME MapsType, NEW l \in Loggers, NEW f \in Contents, heap' = [heap EXCEPT ![LoggerMap(l)] = f]
    PROVE  /\ \A a \in AppMaps : heap'[AppMap(a)] = heap[AppMap(a)]
           /\ \A k \in Loggers : heap'[LoggerMap(k)] = IF k = l THEN f ELSE heap[LoggerMap(k)]
<1>1. DOMAIN heap = Locations
  BY DEF MapsType
<1>2. \A a \in AppMaps : AppMap(a) \in Locations /\ AppMap(a) # LoggerMap(l)
  BY LocationsDiffer
<1>3. \A k \in Loggers : LoggerMap(k) \in Locations /\ (LoggerMap(k) = LoggerMap(l) => k = l)
  BY LocationsDiffer
<1>4. QED
  BY <1>1, <1>2, <1>3

LEMMA AppMapWritten ==
    ASSUME MapsType, NEW a \in AppMaps, NEW f \in Contents, heap' = [heap EXCEPT ![AppMap(a)] = f]
    PROVE  /\ \A b \in AppMaps : heap'[AppMap(b)] = IF b = a THEN f ELSE heap[AppMap(b)]
           /\ \A k \in Loggers : heap'[LoggerMap(k)] = heap[LoggerMap(k)]
<1>1. DOMAIN heap = Locations
  BY DEF MapsType
<1>2. \A b \in AppMaps : AppMap(b) \in Locations /\ (AppMap(b) = AppMap(a) => b = a)
  BY LocationsDiffer
<1>3. \A k \in Loggers : LoggerMap(k) \in Locations /\ LoggerMap(k) # AppMap(a)
  BY LocationsDiffer
<1>4. QED
  BY <1>1, <1>2, <1>3

LEMMA NewRefines ==
    ASSUME FamilyInv, NEW p \in Loggers, NEW l \in Loggers, New(p, l)
    PROVE  Value!Next
<1>1. FamilyType /\ MapsType /\ SlicesInv /\ p \in exists /\ l \notin exists /\ p # l
  BY DEF FamilyInv, New
<1>2. GlobalFields(p) \in Contents
  BY <1>1, GlobalFieldsShape
<1>3. heap' = [heap EXCEPT ![LoggerMap(l)] = GlobalFields(p)]
  BY DEF New
<1>4. /\ \A a \in AppMaps : heap'[AppMap(a)] = heap[AppMap(a)]
      /\ \A k \in Loggers : heap'[LoggerMap(k)] = IF k = l THEN GlobalFields(p) ELSE heap[LoggerMap(k)]
  BY <1>1, <1>2, <1>3, LoggerMapWritten
<1>5. fieldsOf'[l] = IF fieldsOf[p] = Nil THEN Nil ELSE LoggerMap(l)
  BY <1>1 DEF New, FamilyType
<1>6. GlobalFields(l)' = Over(GlobalFields(p), Empty)
  <2>1. CASE fieldsOf[p] = Nil
    <3>1. GlobalFields(p) = Empty /\ GlobalFields(l)' = Empty
      BY <1>5, <2>1 DEF GlobalFields
    <3>2. QED
      BY <1>2, <3>1, OverEmpty
  <2>2. CASE fieldsOf[p] # Nil
    <3>1. GlobalFields(l)' = heap'[LoggerMap(l)]
      BY <1>5, <2>2, NilIsNoMap DEF GlobalFields
    <3>2. QED
      BY <1>2, <1>4, <3>1, OverEmpty
  <2>3. QED
    BY <2>1, <2>2
<1>7. Value!Derive(p, l, Empty)
  <2>1. \A k \in Loggers : k # l => fieldsOf'[k] = fieldsOf[k]
    BY <1>1 DEF New, FamilyType
  <2>2. \A k \in Loggers : k # l => heap'[LoggerMap(k)] = heap[LoggerMap(k)]
    BY <1>4, LocationsDiffer
  <2>3. Empty \in Contents
    BY EmptyShape
  <2>4. exists' = exists \cup {l} /\ CloneSlices(p, l) /\ fieldsOf'[l] \in {Nil, LoggerMap(l)}
    BY <1>5 DEF New
  <2>5. QED
    BY <1>1, <1>4, <1>6, <2>1, <2>2, <2>3, <2>4, DeriveMaps
<1>8. QED
  BY <1>7, EmptyShape, ContentsSame DEF Value!Next

LEMMA WithRefines ==
    ASSUME FamilyInv, NEW p \in Loggers, NEW l \in Loggers, NEW f \in MapsGiven, With(p, l, f)
    PROVE  Value!Next
<1> DEFINE given == IF f = Nil THEN Empty ELSE heap[f]
           g == Over(GlobalFields(p), given)
<1>1. FamilyType /\ MapsType /\ SlicesInv /\ p \in exists /\ l \notin exists /\ p # l
  BY DEF FamilyInv, With
<1>2. given \in Contents /\ g \in Contents
  BY WithFields
<1>3. heap' = [heap EXCEPT ![LoggerMap(l)] = g]
  BY DEF With
<1> HIDE DEF given
<1>4. /\ \A a \in AppMaps : heap'[AppMap(a)] = heap[AppMap(a)]
      /\ \A k \in Loggers : heap'[LoggerMap(k)] = IF k = l THEN g ELSE heap[LoggerMap(k)]
  <2> HIDE DEF g
  <2>1. QED
    BY <1>1, <1>2, <1>3, LoggerMapWritten
<1>5. fieldsOf'[l] = LoggerMap(l)
  BY <1>1 DEF With, FamilyType
<1>6. GlobalFields(l)' = Over(GlobalFields(p), given)
  BY <1>4, <1>5, NilIsNoMap DEF GlobalFields
<1>7. Value!Derive(p, l, given)
  <2>1. \A k \in Loggers : k # l => fieldsOf'[k] = fieldsOf[k]
    BY <1>1 DEF With, FamilyType
  <2>2. \A k \in Loggers : k # l => heap'[LoggerMap(k)] = heap[LoggerMap(k)]
    BY <1>4, LocationsDiffer
  <2>3. exists' = exists \cup {l} /\ CloneSlices(p, l) /\ fieldsOf'[l] \in {Nil, LoggerMap(l)}
    BY <1>5 DEF With
  <2>4. QED
    BY <1>1, <1>2, <1>4, <1>6, <2>1, <2>2, <2>3, DeriveMaps
<1>8. QED
  BY <1>2, <1>7, ContentsSame DEF Value!Next

LEMMA SetFieldsRefines ==
    ASSUME FamilyInv, NEW l \in Loggers, NEW f \in MapsGiven, SetFields(l, f)
    PROVE  Value!Next
<1> DEFINE a == IF f = Nil THEN Nil ELSE f[2]
<1>1. FamilyType /\ l \in exists /\ fieldsOf' = [fieldsOf EXCEPT ![l] = f] /\ heap' = heap
      /\ UNCHANGED <<exists, tagsOf, outputsOf, arrays>>
  BY DEF FamilyInv, SetFields, containers
<1>2. fieldsOf'[l] = f /\ \A k \in Loggers : k # l => fieldsOf'[k] = fieldsOf[k]
  BY <1>1 DEF FamilyType
<1>3. ownFields'[l] = Empty /\ followed'[l] = a /\ a \in AppMaps \cup {Nil}
  <2>1. CASE f = Nil
    <3>1. ~Follows(l)' /\ GlobalFields(l)' = Empty
      BY <1>2, <2>1, NilIsNoMap DEF Follows, GlobalFields
    <3>2. QED
      BY <2>1, <3>1 DEF ownFields, followed
  <2>2. CASE f # Nil
    <3>1. PICK b \in AppMaps : f = AppMap(b)
      BY <2>2 DEF MapsGiven
    <3>2. Follows(l)' /\ f[2] = b
      BY <1>2, <3>1 DEF Follows, AppMap
    <3>3. QED
      BY <1>2, <2>2, <3>2 DEF ownFields, followed
  <2>3. QED
    BY <2>1, <2>2
<1>4. \A k \in Loggers : k # l => ownFields'[k] = ownFields[k] /\ followed'[k] = followed[k]
  BY <1>1, <1>2, OwnKept
<1> HIDE DEF a
<1>5. ownFields' = [ownFields EXCEPT ![l] = Empty] /\ followed' = [followed EXCEPT ![l] = a]
  BY <1>3, <1>4 DEF ownFields, followed
<1>6. Value!SetFields(l, a)
  BY <1>1, <1>5, SlicesHeld, MapsHeld, ContentsSame DEF Value!SetFields
<1>7. QED
  BY <1>3, <1>6 DEF Value!Next

LEMMA FieldsUntouched ==
    ASSUME FamilyType, UNCHANGED <<fieldsOf, heap>>
    PROVE  ownFields' = ownFields /\ followed' = followed /\ mapsHeld' = mapsHeld
<1>1. \A l \in Loggers : ownFields'[l] = ownFields[l] /\ followed'[l] = followed[l]
  BY OwnKept
<1>2. QED
  BY <1>1 DEF ownFields, followed, mapsHeld

LEMMA SetTagsRefines ==
    ASSUME FamilyInv, NEW l \in Loggers, NEW t \in Tags, SetTags(l, t)
    PROVE  Value!Next
<1>1. FamilyType /\ SlicesInv /\ l \in exists /\ UNCHANGED <<exists, fieldsOf, heap>>
  BY DEF FamilyInv, SetTags
<1>2. /\ \A k \in Loggers : GlobalTags(k)' = IF k = l THEN Append(GlobalTags(l), t) ELSE GlobalTags(k)
      /\ \A k \in Loggers : ItsOutputs(k)' = ItsOutputs(k)
  BY <1>1, TagStep DEF SetTags
<1>3. tagsHeld' = [tagsHeld EXCEPT ![l] = Append(@, t)]
  BY <1>2 DEF tagsHeld
<1>4. outputsHeld' = outputsHeld
  BY <1>2 DEF outputsHeld
<1>5. Value!SetTags(l, t)
  BY <1>1, <1>3, <1>4, FieldsUntouched DEF Value!SetTags
<1>6. QED
  BY <1>5 DEF Value!Next

LEMMA AddOutputsRefines ==
    ASSUME FamilyInv, NEW l \in Loggers, NEW o \in Outputs, AddOutputs(l, o)
    PROVE  Value!Next
<1>1. FamilyType /\ SlicesInv /\ l \in exists /\ UNCHANGED <<exists, fieldsOf, heap>>
  BY DEF FamilyInv, AddOutputs
<1>2. /\ \A k \in Loggers : GlobalTags(k)' = GlobalTags(k)
      /\ \A k \in Loggers : ItsOutputs(k)' = IF k = l THEN Append(ItsOutputs(l), o) ELSE ItsOutputs(k)
  BY <1>1, AddStep, LoggersAssumption DEF AddOutputs
<1>3. outputsHeld' = [outputsHeld EXCEPT ![l] = Append(@, o)]
  BY <1>2 DEF outputsHeld
<1>4. tagsHeld' = tagsHeld
  BY <1>2 DEF tagsHeld
<1>5. Value!AddOutputs(l, o)
  BY <1>1, <1>3, <1>4, FieldsUntouched DEF Value!AddOutputs
<1>6. QED
  BY <1>5 DEF Value!Next

LEMMA SetOutputsRefines ==
    ASSUME FamilyInv, NEW l \in Loggers, NEW o \in Outputs, SetOutputs(l, o)
    PROVE  Value!Next
<1>1. FamilyType /\ SlicesInv /\ l \in exists /\ UNCHANGED <<exists, fieldsOf, heap>>
  BY DEF FamilyInv, SetOutputs
<1>2. /\ \A k \in Loggers : GlobalTags(k)' = GlobalTags(k)
      /\ \A k \in Loggers : ItsOutputs(k)' = IF k = l THEN Replaced(ItsOutputs(l), o) ELSE ItsOutputs(k)
  BY <1>1, SetStep DEF SetOutputs
<1>3. outputsHeld' = [outputsHeld EXCEPT ![l] = Replaced(outputsHeld[l], o)]
  BY <1>2 DEF outputsHeld
<1>4. outputsHeld' = [outputsHeld EXCEPT ![l] =
                        [i \in DOMAIN @ |-> IF @[i].name = o.name THEN o ELSE @[i]]]
  BY <1>3 DEF Replaced
<1>5. tagsHeld' = tagsHeld
  BY <1>2 DEF tagsHeld
<1>6. Value!SetOutputs(l, o)
  BY <1>1, <1>4, <1>5, FieldsUntouched DEF Value!SetOutputs
<1>7. QED
  BY <1>6 DEF Value!Next

\* A write to a map of the application.
LEMMA WrittenRefines ==
    ASSUME FamilyInv, NEW a \in AppMaps, NEW k \in Keys, NEW v \in Values,
           UNCHANGED <<exists, fieldsOf, tagsOf, outputsOf, arrays>>,
           heap' = [heap EXCEPT ![AppMap(a)] = Over(heap[AppMap(a)], Single(k, v))]
    PROVE  Value!Next
<1> DEFINE g == Over(heap[AppMap(a)], Single(k, v))
<1>1. FamilyType /\ MapsType
  BY DEF FamilyInv
<1>2. g \in Contents
  BY <1>1, SingleShape, OverShape DEF MapsType
<1>3. g = Value!Over(mapsHeld[a], [x \in {k} |-> v])
  BY DEF Over, Value!Over, mapsHeld, Single
<1> HIDE DEF g
<1>4. heap' = [heap EXCEPT ![AppMap(a)] = g]
  BY DEF g
<1>5. /\ \A b \in AppMaps : heap'[AppMap(b)] = IF b = a THEN g ELSE heap[AppMap(b)]
      /\ \A l \in Loggers : heap'[LoggerMap(l)] = heap[LoggerMap(l)]
  BY <1>1, <1>2, <1>4, AppMapWritten
<1>6. mapsHeld' = [mapsHeld EXCEPT ![a] = g]
  BY <1>5 DEF mapsHeld
<1>7. \A l \in Loggers : ownFields'[l] = ownFields[l] /\ followed'[l] = followed[l]
  BY <1>1, <1>5, OwnKept
<1>8. ownFields' = ownFields /\ followed' = followed
  BY <1>7 DEF ownFields, followed
<1>9. Value!Written(a, k, v)
  BY <1>3, <1>6, <1>8, SlicesHeld DEF Value!Written
<1>10. QED
  BY <1>9 DEF Value!Next

\* A step of a message leaves the loggers and the maps of the application.
LEMMA MessageStutters ==
    ASSUME IInv, NEW p, NEW f, (\E c \in Callers : p = MessageMap(c)) \/ p \in CopyMaps,
           heap' = heap \/ heap' = [heap EXCEPT ![p] = f], UNCHANGED <<family, arrays>>
    PROVE  UNCHANGED Value!valueVars
<1>1. FamilyType /\ MapsType
  BY DEF IInv, FamilyInv
<1>2. /\ \A a \in AppMaps : heap'[AppMap(a)] = heap[AppMap(a)]
      /\ \A l \in Loggers : heap'[LoggerMap(l)] = heap[LoggerMap(l)]
  BY <1>1, MessageWritten
<1>3. QED
  BY <1>1, <1>2, ValueStutters DEF family

LEMMA QuietStutters ==
    ASSUME FamilyType, UNCHANGED <<exists, fieldsOf, tagsOf, outputsOf, arrays, heap>>
    PROVE  UNCHANGED Value!valueVars
  BY ValueStutters

LEMMA PrintRefines ==
    ASSUME IInv, NEW c \in Callers, NEW l \in Loggers,
           NEW s \in setup.sources, NEW names, NEW tags,
           PrintWithOptions(c, l, s, names, tags)
    PROVE  [Value!Next]_(Value!valueVars)
<1> DEFINE p == StartMap(c, s)
           f == Over(StartFields(l, s), s.put)
<1>1. IsSetup(setup)
  BY SetupsAssumption DEF IInv
<1>2. s \in Sources
  BY <1>1 DEF IsSetup
<1>3. s.kind = "map" => /\ s.map \in AppMaps
                        /\ s.put = NoPut \/ \E k \in Keys, v \in Values : s.put = Single(k, v)
  BY <1>2 DEF Sources
<1>4. UNCHANGED <<exists, fieldsOf, tagsOf, outputsOf, arrays, family>>
  BY DEF PrintWithOptions, Begin, family
<1>5. FamilyInv /\ FamilyType /\ MapsType
  BY DEF IInv, FamilyInv
<1>6. CASE s.kind = "map"
  <2>1. p = AppMap(s.map) /\ p # Nil /\ s.map \in AppMaps
    BY <1>3, <1>6, NilIsNoMap DEF StartMap
  <2>2. heap' = [heap EXCEPT ![AppMap(s.map)] = Over(heap[AppMap(s.map)], s.put)]
    BY <1>6, <2>1 DEF PrintWithOptions, StartFields
  <2>3. CASE s.put = NoPut
    <3>1. Over(heap[AppMap(s.map)], s.put) = heap[AppMap(s.map)]
      BY <1>5, <2>1, <2>3, OverEmpty DEF MapsType, NoPut, Empty
    <3>2. heap' = heap
      BY <1>5, <2>2, <3>1 DEF MapsType
    <3>3. QED
      BY <1>4, <1>5, <3>2, QuietStutters
  <2>4. CASE \E k \in Keys, v \in Values : s.put = Single(k, v)
    <3>1. PICK k \in Keys, v \in Values : s.put = Single(k, v)
      BY <2>4
    <3>2. heap' = [heap EXCEPT ![AppMap(s.map)] = Over(heap[AppMap(s.map)], Single(k, v))]
      BY <2>2, <3>1
    <3>3. QED
      BY <1>4, <1>5, <2>1, <3>2, WrittenRefines
  <2>5. QED
    BY <1>3, <1>6, <2>3, <2>4
<1>7. CASE s.kind # "map"
  <2>1. p = Nil \/ p = MessageMap(c)
    BY <1>7 DEF StartMap
  <2>2. heap' = heap \/ heap' = [heap EXCEPT ![MessageMap(c)] = f]
    BY <2>1 DEF PrintWithOptions
  <2> HIDE DEF f
  <2>3. QED
    BY <1>4, <2>2, MessageStutters
<1>8. QED
  BY <1>6, <1>7

LEMMA CallsRefine ==
    ASSUME IInv, NEW c \in Callers, Calls(c)
    PROVE  [Value!Next]_(Value!valueVars)
<1>1. ASSUME NEW l \in Loggers, NEW o \in Outputs, NEW f \in MapsGiven, NEW names, NEW tags,
             PrintToOutput(c, l, o, f, names, tags)
      PROVE  UNCHANGED Value!valueVars
  <2>1. heap' = heap \/ heap' = [heap EXCEPT ![MessageMap(c)] = Empty]
    BY <1>1 DEF PrintToOutput
  <2>2. UNCHANGED <<family, arrays>>
    BY <1>1 DEF PrintToOutput, Begin
  <2>3. QED
    BY <2>1, <2>2, MessageStutters
<1>2. ASSUME NEW l \in Loggers, PrintAgain(c, l)
      PROVE  UNCHANGED Value!valueVars
  BY <1>2, QuietStutters DEF PrintAgain, Begin, IInv, FamilyInv, family
<1>3. QED
  BY <1>1, <1>2, PrintRefines DEF Calls

LEMMA ProcessesStutter ==
    ASSUME IInv, NEW c \in Callers, LoggersAssumption, Processes(c)
    PROVE  UNCHANGED Value!valueVars
<1>1. UNCHANGED <<family, arrays>>
  BY DEF Processes, ReadNames, CheckFields, MergeFields, MergeTags, ReadOutputs, Skip, CopyMessage,
     Gathered, LoadMatchers, CheckSize, StoreMatchers, CountMatchers, Decorate, Finish, Processing
<1>2. CASE heap' = heap
  BY <1>1, <1>2, QuietStutters DEF IInv, FamilyInv, family
<1>3. CASE MergeFields(c)
  <2>1. heap' = heap \/ heap' = [heap EXCEPT ![MessageMap(c)] = FinalFields(c)]
    BY <1>3 DEF MergeFields
  <2>2. QED
    BY <1>1, <2>1, MessageStutters
<1>4. CASE CopyMessage(c)
  <2> DEFINE n == Len(call[c].copies) + 1
             mine == Copy(At(call[c].fields), Empty)
  <2>1. heap' = heap \/ heap' = [heap EXCEPT ![CopyMap(c, n)] = mine]
    BY <1>4 DEF CopyMessage
  <2>2. CopyMap(c, n) \in CopyMaps
    <3>1. /\ call[c].next \in 1..(MaxCopies + 1) /\ Len(call[c].copies) \in Nat
          /\ call[c].listed.len \in Nat /\ call[c].listed.len <= MaxCopies
          /\ Len(call[c].copies) < call[c].next /\ MaxCopies \in Nat
      BY CallIs DEF CallRecord, CallOK, Windows, LoggersAssumption
    <3>2. n \in 1..MaxCopies
      BY <1>4, <3>1 DEF CopyMessage
    <3>3. QED
      BY <3>2 DEF CopyMaps
  <2> HIDE DEF n, mine
  <2>3. QED
    BY <1>1, <2>1, <2>2, MessageStutters
<1>5. CASE \E n \in 1..MaxCopies, f \in setup.marks : Decorate(c, n, f)
  <2>1. PICK n \in 1..MaxCopies, f \in setup.marks : Decorate(c, n, f)
    BY <1>5
  <2>2. call[c].copies \in Seq(CopyType) /\ n \in DOMAIN call[c].copies
    BY <2>1, CallIs DEF CallRecord, Decorate
  <2>3. call[c].copies[n] \in CopyType
    BY <2>2
  <2>4. call[c].copies[n].fields \in CopyMaps
    BY <2>1, <2>3 DEF CopyType, Decorate
  <2>5. PICK g : heap' = [heap EXCEPT ![call[c].copies[n].fields] = g]
    BY <2>1 DEF Decorate
  <2>6. QED
    BY <1>1, <2>4, <2>5, MessageStutters
<1>6. QED
  BY <1>2, <1>3, <1>4, <1>5 DEF Processes, ReadNames, CheckFields, MergeTags, ReadOutputs, Skip,
     Gathered, LoadMatchers, CheckSize, StoreMatchers, CountMatchers, Finish

LEMMA ConfiguresRefine ==
    ASSUME IInv, Configures
    PROVE  [Value!Next]_(Value!valueVars)
<1>1. FamilyInv /\ FamilyType
  BY DEF IInv, FamilyInv
<1>2. ASSUME NEW l \in Loggers, SetContextExtractor(l)
      PROVE  UNCHANGED Value!valueVars
  BY <1>1, <1>2, QuietStutters DEF SetContextExtractor, containers
<1>3. ASSUME NEW a \in AppMaps, NEW k \in Keys, NEW v \in Values, AppWrites(a, k, v)
      PROVE  Value!Next
  BY <1>1, <1>3, WrittenRefines DEF AppWrites, family
<1>4. QED
  BY <1>1, <1>2, <1>3, NewRefines, WithRefines, SetFieldsRefines, SetTagsRefines,
     AddOutputsRefines, SetOutputsRefines DEF Configures

LEMMA ValueInit == ASSUME IInv, Init PROVE Value!Init
<1>1. FamilyType /\ MapsType /\ SlicesInv
  BY DEF IInv, FamilyInv
<1>2. \A l \in Loggers : ~Follows(l)
  BY FollowsIs DEF Init
<1>3. ownFields \in [Loggers -> Contents]
  BY <1>1, <1>2, GlobalFieldsShape DEF ownFields
<1>4. followed = [l \in Loggers |-> Nil]
  BY <1>2 DEF followed
<1>5. tagsHeld \in [Loggers -> Seq(Tags)] /\ outputsHeld \in [Loggers -> Seq(Outputs)]
  BY <1>1 DEF tagsHeld, outputsHeld, GlobalTags, ItsOutputs, SlicesInv
<1>6. mapsHeld \in [AppMaps -> Contents]
  BY <1>1 DEF mapsHeld, MapsType
<1>7. exists = {Root}
  BY DEF Init
<1>8. QED
  BY <1>3, <1>4, <1>5, <1>6, <1>7, ContentsSame DEF Value!Init

\* A family of loggers, with its shared maps and arrays and the messages that
\* read them, implements loggers that are values of their own (Isolated;
\* sypl.go New, with.go With).
THEOREM LoggersAreValues == Spec => Isolated
<1>1. IInv /\ Init => Value!Init
  BY ValueInit
<1>2. IInv /\ [Next]_vars => [Value!Next]_(Value!valueVars)
  <2>1. ASSUME IInv, [Next]_vars
        PROVE  [Value!Next]_(Value!valueVars)
    <3>1. CASE Configures
      BY <2>1, <3>1, ConfiguresRefine
    <3>2. ASSUME NEW c \in Callers, Calls(c)
          PROVE  [Value!Next]_(Value!valueVars)
      BY <2>1, <3>2, CallsRefine
    <3>3. ASSUME NEW c \in Callers, Processes(c)
          PROVE  [Value!Next]_(Value!valueVars)
      BY <2>1, <3>3, LoggersAssumption, ProcessesStutter
    <3>4. CASE UNCHANGED vars
      BY <2>1, <3>4, QuietStutters DEF vars, family, containers, IInv, FamilyInv
    <3>5. QED
      BY <2>1, <3>1, <3>2, <3>3, <3>4 DEF Next
  <2>2. QED
    BY <2>1
<1>3. QED
  BY <1>1, <1>2, Inductive, PTL DEF Spec, Isolated, Value!Spec

-----------------------------------------------------------------------------
(* Where a message goes, and with which tags.                                *)

Iterating == {"gathering", "loading", "sizing", "storing", "counting"}
Named == {"named", "checked", "merged", "tagged", "writing"} \cup Iterating
Tagged == {"tagged", "writing"} \cup Iterating

\* The copies made of the first outputs of a list, up to one of them.
Picked(copies, outs, names, upto) ==
    /\ \A i \in DOMAIN copies :
         /\ copies[i].from <= upto /\ copies[i].from \in DOMAIN outs
         /\ copies[i].output = outs[copies[i].from]
         /\ copies[i].output.name \in names
    /\ \A i, j \in DOMAIN copies : i < j => copies[i].from < copies[j].from
    /\ \A k \in DOMAIN outs : k <= upto /\ outs[k].name \in names =>
         \E i \in DOMAIN copies : copies[i].from = k

ItsList(c) == Elements(arrays, call[c].listed)

NamesAre(c, n) ==
    call[c].names = IF asked[c].names = {} THEN Names(n.outputs) ELSE asked[c].names

TagsAre(c, t) == call[c].tags = asked[c].tags \cup Members(t.tags)

\* What a call has read so far, its logger held at one moment of the call.
Routing(c) ==
    /\ Running(c) => LoggerOf(c) \in seen[c]
    /\ call[c].pc = "begun" => call[c].names = asked[c].names
    /\ call[c].pc \in Named => \E n \in seen[c] : NamesAre(c, n)
    /\ call[c].pc \in {"begun", "named", "checked", "merged"} => call[c].tags = asked[c].tags
    /\ call[c].pc \in Tagged => \E t \in seen[c] : TagsAre(c, t)
    /\ call[c].pc \in Iterating =>
         /\ \E s \in seen[c] : s.outputs = ItsList(c)
         /\ Picked(call[c].copies, ItsList(c), call[c].names, call[c].next - 1)
         /\ \A i \in DOMAIN call[c].copies : call[c].copies[i].tags = call[c].tags
    /\ Gone(c) => RightOutputs(c) /\ RightTags(c)

\* The history grows while the call runs.
Grows(c) ==
    /\ Running(c)' => LoggerOf(c)' \in seen'[c]
    /\ Running(c) => seen[c] \subseteq seen'[c]
    /\ ~Running(c) /\ ~Running(c)' => seen'[c] = seen[c]

LEMMA WatchGrows == ASSUME NEW c \in Callers, Watch PROVE Grows(c)
<1>1. seen'[c] = IF call'[c].pc \in Resting THEN seen[c]
                 ELSE (IF Running(c) THEN seen[c] ELSE {}) \cup {LoggerOf(c)'}
  BY DEF Watch
<1>2. Running(c)' <=> call'[c].pc \notin Resting
  BY DEF Running
<1>3. QED
  BY <1>1, <1>2 DEF Grows

LEMMA Holding ==
    ASSUME NEW c \in Callers, Running(c), Routing(c)
    PROVE  \E s \in seen[c] : /\ s.outputs = ItsOutputs(call[c].logger)
                              /\ s.tags = GlobalTags(call[c].logger)
<1>1. LoggerOf(c) \in seen[c]
  BY DEF Routing
<1>2. /\ LoggerOf(c).outputs = ItsOutputs(call[c].logger)
      /\ LoggerOf(c).tags = GlobalTags(call[c].logger)
  BY DEF LoggerOf
<1>3. QED
  BY <1>1, <1>2

\* A step of another call, or of a logger.
LEMMA RoutingKept ==
    ASSUME NEW c \in Callers, Routing(c), Grows(c),
           call'[c] = call[c], asked'[c] = asked[c],
           Elements(arrays', call[c].listed) = Elements(arrays, call[c].listed)
    PROVE  Routing(c)'
<1>1. (Running(c)' <=> Running(c)) /\ (Gone(c)' <=> Gone(c)) /\ ItsList(c)' = ItsList(c)
  BY DEF Running, Gone, ItsList
<1>2. seen[c] \subseteq seen'[c]
  BY <1>1 DEF Grows
<1>3. /\ \A n : NamesAre(c, n)' = NamesAre(c, n)
      /\ \A t : TagsAre(c, t)' = TagsAre(c, t)
  BY DEF NamesAre, TagsAre
<1>4. (\E n \in seen[c] : NamesAre(c, n)) => (\E n \in seen'[c] : NamesAre(c, n)')
  BY <1>2, <1>3
<1>5. (\E t \in seen[c] : TagsAre(c, t)) => (\E t \in seen'[c] : TagsAre(c, t)')
  BY <1>2, <1>3
<1>6. (\E s \in seen[c] : s.outputs = ItsList(c)) => (\E s \in seen'[c] : s.outputs = ItsList(c)')
  BY <1>1, <1>2
<1>7. RightOutputs(c) => RightOutputs(c)'
  BY <1>2 DEF RightOutputs
<1>8. RightTags(c) => RightTags(c)'
  BY <1>2 DEF RightTags
<1>9. Running(c)' => LoggerOf(c)' \in seen'[c]
  BY DEF Grows
<1>10. QED
  BY <1>1, <1>4, <1>5, <1>6, <1>7, <1>8, <1>9 DEF Routing

\* A step of process that leaves names, tags and copies as they are.
LEMMA RoutingGoes ==
    ASSUME IInv, NEW c \in Callers, Routing(c), Grows(c), NEW pc, Goes(c, pc),
           UNCHANGED <<asked, arrays>>,
           \/ call[c].pc \in Iterating /\ pc \in Iterating
           \/ call[c].pc = "named" /\ pc \in {"checked", "merged"}
    PROVE  Routing(c)'
<1>1. /\ call'[c].pc = pc /\ call'[c].names = call[c].names /\ call'[c].tags = call[c].tags
      /\ call'[c].copies = call[c].copies /\ call'[c].listed = call[c].listed
      /\ call'[c].next = call[c].next
  BY DEF Goes, IInv, CallInv, CallRecord
<1>2. Running(c) /\ Running(c)' /\ ~Gone(c)' /\ ItsList(c)' = ItsList(c)
  BY <1>1 DEF Running, Resting, Iterating, Gone, ItsList
<1>3. seen[c] \subseteq seen'[c] /\ LoggerOf(c)' \in seen'[c]
  BY <1>2 DEF Grows
<1>4. /\ \A n : NamesAre(c, n)' = NamesAre(c, n)
      /\ \A t : TagsAre(c, t)' = TagsAre(c, t)
  BY <1>1 DEF NamesAre, TagsAre
<1>5. call[c].pc \in Named /\ (pc \in Iterating <=> call[c].pc \in Iterating)
      /\ (pc \in Tagged <=> call[c].pc \in Tagged) /\ pc # "begun"
      /\ (pc \in {"checked", "merged"} => call[c].pc = "named")
      /\ (pc \in Iterating => pc \notin {"begun", "named", "checked", "merged"})
  BY DEF Named, Tagged, Iterating
<1>6. \E n \in seen'[c] : NamesAre(c, n)'
  BY <1>3, <1>4, <1>5 DEF Routing
<1>7. pc \in Tagged => \E t \in seen'[c] : TagsAre(c, t)'
  BY <1>3, <1>4, <1>5 DEF Routing
<1>8. pc \in Iterating => \E s \in seen'[c] : s.outputs = ItsList(c)'
  BY <1>2, <1>3, <1>5 DEF Routing
<1>9. pc \in Iterating =>
        /\ Picked(call'[c].copies, ItsList(c)', call'[c].names, call'[c].next - 1)
        /\ \A i \in DOMAIN call'[c].copies : call'[c].copies[i].tags = call'[c].tags
  BY <1>1, <1>2, <1>5 DEF Routing
<1>10. pc \in {"begun", "named", "checked", "merged"} => call'[c].tags = asked'[c].tags
  BY <1>1, <1>5 DEF Routing
<1>11. QED
  BY <1>1, <1>2, <1>3, <1>5, <1>6, <1>7, <1>8, <1>9, <1>10 DEF Routing


RouteInv == asked = [c \in Callers |-> asked[c]] /\ \A c \in Callers : Routing(c)

LEMMA BeginRoutes ==
    ASSUME IInv, RouteInv, NEW c \in Callers, NEW l, NEW p, NEW names, NEW tags, NEW fields,
           Begin(c, l, p, names, tags, fields), Grows(c)
    PROVE  Routing(c)'
<1>1. /\ call'[c].pc = "begun" /\ call'[c].names = names /\ call'[c].tags = tags
  BY DEF Begin, IInv, CallInv
<1>2. asked'[c].names = names /\ asked'[c].tags = tags
  BY DEF Begin, RouteInv
<1>3. LoggerOf(c)' \in seen'[c]
  BY <1>1 DEF Grows, Running, Resting
<1>4. QED
  BY <1>1, <1>2, <1>3 DEF Routing, Named, Tagged, Iterating, Gone

LEMMA ReadNamesRoutes ==
    ASSUME IInv, NEW c \in Callers, Routing(c), Grows(c), ReadNames(c)
    PROVE  Routing(c)'
<1> DEFINE l == call[c].logger
<1>1. /\ call[c].pc = "begun" /\ call'[c].pc = "named" /\ call'[c].tags = call[c].tags
      /\ call'[c].names = IF call[c].names = {} THEN Names(ItsOutputs(l)) ELSE call[c].names
      /\ asked' = asked
  BY DEF ReadNames, Processing, IInv, CallInv, CallRecord
<1>2. Running(c) /\ Running(c)'
  BY <1>1 DEF Running, Resting
<1>3. seen[c] \subseteq seen'[c] /\ LoggerOf(c)' \in seen'[c]
  BY <1>2 DEF Grows
<1>4. call[c].names = asked[c].names /\ call[c].tags = asked[c].tags
  BY <1>1 DEF Routing
<1>5. PICK n \in seen[c] : n.outputs = ItsOutputs(l)
  BY <1>2, Holding
<1>6. NamesAre(c, n)'
  BY <1>1, <1>4, <1>5 DEF NamesAre
<1>7. \E k \in seen'[c] : NamesAre(c, k)'
  BY <1>3, <1>6
<1>8. QED
  BY <1>1, <1>3, <1>4, <1>7 DEF Routing, Named, Tagged, Iterating, Gone

LEMMA MergeFieldsRoutes ==
    ASSUME IInv, NEW c \in Callers, Routing(c), Grows(c), MergeFields(c)
    PROVE  Routing(c)'
<1>1. /\ call[c].pc = "checked" /\ call'[c].pc = "merged" /\ call'[c].tags = call[c].tags
      /\ call'[c].names = call[c].names /\ asked' = asked
  BY DEF MergeFields, Processing, IInv, CallInv, CallRecord
<1>2. Running(c) /\ Running(c)'
  BY <1>1 DEF Running, Resting
<1>3. seen[c] \subseteq seen'[c] /\ LoggerOf(c)' \in seen'[c]
  BY <1>2 DEF Grows
<1>4. PICK n \in seen[c] : NamesAre(c, n)
  BY <1>1 DEF Routing, Named
<1>5. \E k \in seen'[c] : NamesAre(c, k)'
  BY <1>1, <1>3, <1>4 DEF NamesAre
<1>6. call'[c].tags = asked'[c].tags
  BY <1>1 DEF Routing
<1>7. QED
  BY <1>1, <1>3, <1>5, <1>6 DEF Routing, Named, Tagged, Iterating, Gone

LEMMA MergeTagsRoutes ==
    ASSUME IInv, NEW c \in Callers, Routing(c), Grows(c), MergeTags(c)
    PROVE  Routing(c)'
<1> DEFINE l == call[c].logger
<1>1. /\ call[c].pc = "merged" /\ call'[c].pc = "tagged"
      /\ call'[c].tags = call[c].tags \cup Members(GlobalTags(l))
      /\ call'[c].names = call[c].names /\ asked' = asked
  BY DEF MergeTags, Processing, IInv, CallInv, CallRecord
<1>2. Running(c) /\ Running(c)'
  BY <1>1 DEF Running, Resting
<1>3. seen[c] \subseteq seen'[c] /\ LoggerOf(c)' \in seen'[c]
  BY <1>2 DEF Grows
<1>4. PICK n \in seen[c] : NamesAre(c, n)
  BY <1>1 DEF Routing, Named
<1>5. \E k \in seen'[c] : NamesAre(c, k)'
  BY <1>1, <1>3, <1>4 DEF NamesAre
<1>6. PICK t \in seen[c] : t.tags = GlobalTags(l)
  BY <1>2, Holding
<1>7. call[c].tags = asked[c].tags
  BY <1>1 DEF Routing
<1>8. TagsAre(c, t)'
  BY <1>1, <1>6, <1>7 DEF TagsAre
<1>9. \E k \in seen'[c] : TagsAre(c, k)'
  BY <1>3, <1>8
<1>10. QED
  BY <1>1, <1>3, <1>5, <1>9 DEF Routing, Named, Tagged, Iterating, Gone

\* What a step keeps that changes neither names nor tags.
LEMMA ReadsKept ==
    ASSUME NEW c \in Callers, Routing(c), Grows(c), call[c].pc \in Tagged, Running(c)',
           call'[c].tags = call[c].tags, call'[c].names = call[c].names, asked' = asked
    PROVE  /\ seen[c] \subseteq seen'[c] /\ LoggerOf(c)' \in seen'[c]
           /\ \E n \in seen'[c] : NamesAre(c, n)'
           /\ \E t \in seen'[c] : TagsAre(c, t)'
<1>1. call[c].pc \in Named /\ Running(c)
  BY DEF Tagged, Named, Running, Resting, Iterating
<1>2. seen[c] \subseteq seen'[c] /\ LoggerOf(c)' \in seen'[c]
  BY <1>1 DEF Grows
<1>3. PICK n \in seen[c] : NamesAre(c, n)
  BY <1>1 DEF Routing
<1>4. PICK t \in seen[c] : TagsAre(c, t)
  BY DEF Routing
<1>5. NamesAre(c, n)' /\ TagsAre(c, t)'
  BY <1>3, <1>4 DEF NamesAre, TagsAre
<1>6. QED
  BY <1>2, <1>5

LEMMA ReadOutputsRoutes ==
    ASSUME IInv, NEW c \in Callers, Routing(c), Grows(c), ReadOutputs(c)
    PROVE  Routing(c)'
<1> DEFINE l == call[c].logger
<1>1. /\ call[c].pc = "tagged" /\ call'[c].pc = "gathering" /\ call'[c].tags = call[c].tags
      /\ call'[c].names = call[c].names /\ call'[c].listed = outputsOf[l]
      /\ call'[c].copies = call[c].copies /\ call'[c].next = call[c].next
      /\ asked' = asked /\ arrays' = arrays
  BY DEF ReadOutputs, Processing, IInv, CallInv, CallRecord
<1>2. Running(c) /\ Running(c)' /\ call[c].pc \in Tagged
  BY <1>1 DEF Running, Resting, Tagged
<1>3. /\ seen[c] \subseteq seen'[c] /\ LoggerOf(c)' \in seen'[c]
      /\ \E n \in seen'[c] : NamesAre(c, n)'
      /\ \E t \in seen'[c] : TagsAre(c, t)'
  BY <1>1, <1>2, ReadsKept
<1>4. ItsList(c)' = ItsOutputs(l)
  BY <1>1 DEF ItsList, ItsOutputs
<1>5. \E s \in seen'[c] : s.outputs = ItsList(c)'
  BY <1>2, <1>3, <1>4, Holding
<1>6. /\ call[c].next = 1 /\ Len(call[c].copies) = 0 /\ call[c].copies \in Seq(CopyType)
  BY <1>1, CallIs DEF CallOK, CallRecord
<1>7. DOMAIN call'[c].copies = {}
  BY <1>1, <1>6
<1>8. call[c].logger \in Loggers
  BY CallIs DEF CallRecord
<1>9. ItsOutputs(l) \in Seq(Outputs)
  BY <1>8 DEF IInv, FamilyInv, SlicesInv, ItsOutputs
<1>10. Picked(call'[c].copies, ItsList(c)', call'[c].names, call'[c].next - 1)
  <2>1. \A k \in DOMAIN ItsList(c)' : ~(k <= call'[c].next - 1)
    BY <1>1, <1>4, <1>6, <1>9
  <2>2. QED
    BY <1>7, <2>1 DEF Picked
<1>11. QED
  BY <1>1, <1>3, <1>5, <1>7, <1>10 DEF Routing, Named, Tagged, Iterating, Gone

\* The list a call iterates over, and how far it is.
LEMMA ListIs ==
    ASSUME IInv, NEW c \in Callers
    PROVE  /\ ItsList(c) \in Seq(Outputs) /\ Len(ItsList(c)) = call[c].listed.len
           /\ call[c].next \in Nat /\ call[c].next > 0
           /\ call[c].copies \in Seq(CopyType) /\ call[c].listed.len \in Nat
           /\ call[c].next <= call[c].listed.len => Listed(c) = ItsList(c)[call[c].next]
<1>1. call[c] \in CallRecord /\ CallOK(call[c])
  BY CallIs
<1>2. IsSlice(arrays, call[c].listed) /\ ItsList(c) \in Seq(Outputs)
      /\ arrays \in Seq(Seq(Tags \cup Outputs))
  BY <1>1 DEF CallOK, Frozen, ItsList, IInv, FamilyInv, SlicesInv, SlicesType
<1>3. Len(ItsList(c)) = call[c].listed.len
  BY <1>2, ElementsShape DEF ItsList
<1>4. /\ call[c].next \in Nat /\ call[c].next > 0
      /\ call[c].copies \in Seq(CopyType) /\ call[c].listed.len \in Nat
  BY <1>1 DEF CallRecord, Windows
<1>5. QED
  BY <1>2, <1>3, <1>4, ListedIs DEF ItsList

LEMMA SkipRoutes ==
    ASSUME IInv, NEW c \in Callers, Routing(c), Grows(c), Skip(c)
    PROVE  Routing(c)'
<1>1. /\ call[c].pc = "gathering" /\ call'[c].pc = "gathering" /\ call'[c].tags = call[c].tags
      /\ call'[c].names = call[c].names /\ call'[c].listed = call[c].listed
      /\ call'[c].copies = call[c].copies /\ call'[c].next = call[c].next + 1
      /\ asked' = asked /\ arrays' = arrays
      /\ call[c].next <= call[c].listed.len /\ Listed(c).name \notin call[c].names
  BY DEF Skip, Processing, IInv, CallInv, CallRecord
<1>2. Running(c)' /\ call[c].pc \in Tagged /\ call[c].pc \in Iterating
  BY <1>1 DEF Running, Resting, Tagged, Iterating
<1>3. /\ seen[c] \subseteq seen'[c] /\ LoggerOf(c)' \in seen'[c]
      /\ \E n \in seen'[c] : NamesAre(c, n)'
      /\ \E t \in seen'[c] : TagsAre(c, t)'
  BY <1>1, <1>2, ReadsKept
<1>4. ItsList(c)' = ItsList(c)
  BY <1>1 DEF ItsList
<1>5. \E s \in seen'[c] : s.outputs = ItsList(c)'
  BY <1>2, <1>3, <1>4 DEF Routing
<1> DEFINE outs == ItsList(c)  copies == call[c].copies  names == call[c].names  i == call[c].next
<1>6. Picked(copies, outs, names, i - 1)
      /\ \A j \in DOMAIN copies : copies[j].tags = call[c].tags
  BY <1>2 DEF Routing
<1>7. outs \in Seq(Outputs) /\ i \in Nat /\ outs[i].name \notin names /\ copies \in Seq(CopyType)
  BY <1>1, ListIs
<1> HIDE DEF outs, copies, names, i
<1>8. Picked(copies, outs, names, (i + 1) - 1)
  <2>1. \A j \in DOMAIN copies : copies[j].from \in DOMAIN outs /\ copies[j].from <= i - 1
    BY <1>6 DEF Picked
  <2>2. \A j \in DOMAIN copies : copies[j].from <= (i + 1) - 1
    BY <1>7, <2>1
  <2>3. ASSUME NEW k \in DOMAIN outs, k <= (i + 1) - 1, outs[k].name \in names
        PROVE  \E j \in DOMAIN copies : copies[j].from = k
    <3>1. k # i
      BY <1>7, <2>3
    <3>2. k <= i - 1
      BY <1>7, <2>3, <3>1
    <3>3. QED
      BY <1>6, <2>3, <3>2 DEF Picked
  <2>4. QED
    BY <1>6, <2>2, <2>3 DEF Picked
<1>9. /\ Picked(call'[c].copies, ItsList(c)', call'[c].names, call'[c].next - 1)
      /\ \A j \in DOMAIN call'[c].copies : call'[c].copies[j].tags = call'[c].tags
  BY <1>1, <1>4, <1>6, <1>8 DEF outs, copies, names, i
<1>10. QED
  BY <1>1, <1>3, <1>5, <1>9 DEF Routing, Named, Tagged, Iterating, Gone

LEMMA PickedMore ==
    ASSUME NEW copies \in Seq(CopyType), NEW outs \in Seq(Outputs), NEW names,
           NEW i \in Nat, i \in DOMAIN outs, outs[i].name \in names,
           NEW m \in CopyType, m.from = i, m.output = outs[i],
           Picked(copies, outs, names, i - 1)
    PROVE  Picked(Append(copies, m), outs, names, (i + 1) - 1)
<1> DEFINE n == Len(copies)
           more == Append(copies, m)
<1>1. /\ n \in Nat /\ DOMAIN copies = 1..n /\ DOMAIN more = 1..(n + 1)
      /\ \A j \in 1..n : more[j] = copies[j]
      /\ more[n + 1] = m
  OBVIOUS
<1> HIDE DEF n, more
<1>2. ASSUME NEW j \in 1..n
      PROVE  /\ more[j].from <= i - 1 /\ more[j].from \in DOMAIN outs
             /\ more[j].output = outs[more[j].from] /\ more[j].output.name \in names
             /\ more[j].from < i
  <2>1. j \in DOMAIN copies /\ more[j] = copies[j]
    BY <1>1, <1>2
  <2>2. copies[j] \in CopyType
    BY <2>1
  <2>3. copies[j].from \in Int
    BY <2>2, LoggersAssumption DEF CopyType, LoggersAssumption
  <2>4. /\ copies[j].from <= i - 1 /\ copies[j].from \in DOMAIN outs
        /\ copies[j].output = outs[copies[j].from] /\ copies[j].output.name \in names
    BY <2>1 DEF Picked
  <2>5. copies[j].from < i
    BY <2>3, <2>4
  <2>6. QED
    BY <2>1, <2>4, <2>5
<1>3. ASSUME NEW j \in DOMAIN more
      PROVE  /\ more[j].from <= (i + 1) - 1 /\ more[j].from \in DOMAIN outs
             /\ more[j].output = outs[more[j].from] /\ more[j].output.name \in names
  <2>1. CASE j \in 1..n
    BY <1>2, <2>1
  <2>2. CASE j = n + 1
    BY <1>1, <2>2
  <2>3. QED
    BY <1>1, <2>1, <2>2
<1>4. ASSUME NEW j \in DOMAIN more, NEW k \in DOMAIN more, j < k
      PROVE  more[j].from < more[k].from
  <2>1. CASE k \in 1..n
    BY <1>1, <1>4, <2>1 DEF Picked
  <2>2. CASE k = n + 1
    BY <1>1, <1>2, <1>4, <2>2
  <2>3. QED
    BY <1>1, <2>1, <2>2
<1>5. ASSUME NEW k \in DOMAIN outs, k <= (i + 1) - 1, outs[k].name \in names
      PROVE  \E j \in DOMAIN more : more[j].from = k
  <2>1. CASE k = i
    BY <1>1, <2>1
  <2>2. CASE k # i
    <3>1. k <= i - 1
      BY <1>5, <2>2
    <3>2. PICK j \in DOMAIN copies : copies[j].from = k
      BY <1>5, <3>1 DEF Picked
    <3>3. QED
      BY <1>1, <3>2
  <2>3. QED
    BY <2>1, <2>2
<1>6. QED
  BY <1>3, <1>4, <1>5 DEF Picked, more

LEMMA CopyRoutes ==
    ASSUME IInv, LoggersAssumption, NEW c \in Callers, Routing(c), Grows(c), CopyMessage(c), IInv'
    PROVE  Routing(c)'
<1> DEFINE outs == ItsList(c)  copies == call[c].copies  names == call[c].names  i == call[c].next
<1>1. PICK m : /\ call'[c].copies = Append(copies, m) /\ m.from = i /\ m.output = Listed(c)
               /\ m.tags = call[c].tags
  <2>1. call[c] \in CallRecord /\ call \in [Callers -> CallRecord]
    BY DEF IInv, CallInv
  <2> DEFINE mine == Copy(At(call[c].fields), Empty)
             n == Len(call[c].copies) + 1
             w == [output |-> Listed(c), from |-> call[c].next,
                   fields |-> IF mine = Nil THEN Nil ELSE CopyMap(c, n),
                   tags |-> call[c].tags, added |-> Empty]
             pc == IF setup.levelSet THEN "loading" ELSE "gathering"
  <2>2. /\ w.from = i /\ w.output = Listed(c) /\ w.tags = call[c].tags
        /\ call' = [call EXCEPT ![c].pc = pc, ![c].next = @ + 1, ![c].copies = Append(@, w)]
    BY DEF CopyMessage
  <2> HIDE DEF w, pc
  <2>3. call'[c].copies = Append(copies, w)
    BY <2>1, <2>2 DEF CallRecord
  <2>4. QED
    BY <2>2, <2>3
<1>2. /\ call[c].pc = "gathering" /\ call'[c].pc \in {"loading", "gathering"}
      /\ call'[c].tags = call[c].tags
      /\ call'[c].names = call[c].names /\ call'[c].listed = call[c].listed
      /\ call'[c].next = call[c].next + 1
      /\ asked' = asked /\ arrays' = arrays
      /\ call[c].next <= call[c].listed.len /\ Listed(c).name \in call[c].names
  BY DEF CopyMessage, Processing, IInv, CallInv, CallRecord
<1>3. Running(c)' /\ call[c].pc \in Tagged /\ call[c].pc \in Iterating
  BY <1>2 DEF Running, Resting, Tagged, Iterating
<1>4. /\ seen[c] \subseteq seen'[c] /\ LoggerOf(c)' \in seen'[c]
      /\ \E n \in seen'[c] : NamesAre(c, n)'
      /\ \E t \in seen'[c] : TagsAre(c, t)'
  BY <1>2, <1>3, ReadsKept
<1>5. ItsList(c)' = ItsList(c)
  BY <1>2 DEF ItsList
<1>6. \E s \in seen'[c] : s.outputs = ItsList(c)'
  BY <1>3, <1>4, <1>5 DEF Routing
<1>7. Picked(copies, outs, names, i - 1)
      /\ \A j \in DOMAIN copies : copies[j].tags = call[c].tags
  BY <1>3 DEF Routing
<1>8. /\ outs \in Seq(Outputs) /\ i \in Nat /\ i \in DOMAIN outs /\ outs[i] = Listed(c)
      /\ copies \in Seq(CopyType)
  BY <1>2, ListIs
<1>9. call'[c].copies \in Seq(CopyType)
  BY CallIs DEF CallRecord, IInv, CallInv
<1> HIDE DEF outs, copies, names, i
<1>10. m \in CopyType
  <2>1. m = Append(copies, m)[Len(copies) + 1] /\ Len(copies) + 1 \in DOMAIN Append(copies, m)
    BY <1>8
  <2>2. QED
    BY <1>1, <1>9, <2>1
<1>11. Picked(Append(copies, m), outs, names, (i + 1) - 1)
  BY <1>1, <1>2, <1>7, <1>8, <1>10, PickedMore DEF names
<1>12. \A j \in DOMAIN Append(copies, m) : Append(copies, m)[j].tags = call[c].tags
  BY <1>1, <1>7, <1>8
<1>13. /\ Picked(call'[c].copies, ItsList(c)', call'[c].names, call'[c].next - 1)
       /\ \A j \in DOMAIN call'[c].copies : call'[c].copies[j].tags = call'[c].tags
  BY <1>1, <1>2, <1>5, <1>11, <1>12 DEF outs, names, i
<1>14. QED
  BY <1>2, <1>4, <1>6, <1>13 DEF Routing, Named, Tagged, Iterating, Gone

LEMMA GatheredRoutes ==
    ASSUME IInv, NEW c \in Callers, Routing(c), Grows(c), Gathered(c)
    PROVE  Routing(c)'
<1> DEFINE outs == ItsList(c)  copies == call[c].copies
<1>1. /\ call[c].pc = "gathering" /\ call'[c].pc = "writing" /\ call'[c].tags = call[c].tags
      /\ call'[c].names = call[c].names /\ call'[c].copies = call[c].copies
      /\ asked' = asked /\ call[c].next > call[c].listed.len
  BY DEF Gathered, Goes, Processing, IInv, CallInv, CallRecord
<1>2. Running(c)' /\ call[c].pc \in Tagged /\ call[c].pc \in Iterating /\ call[c].pc \in Named
  BY <1>1 DEF Running, Resting, Tagged, Iterating, Named
<1>3. /\ seen[c] \subseteq seen'[c] /\ LoggerOf(c)' \in seen'[c]
      /\ \E n \in seen'[c] : NamesAre(c, n)'
      /\ \E t \in seen'[c] : TagsAre(c, t)'
  BY <1>1, <1>2, ReadsKept
<1>4. PICK n \in seen[c] : NamesAre(c, n)
  BY <1>2 DEF Routing
<1>5. PICK s \in seen[c] : s.outputs = outs
  BY <1>2 DEF Routing
<1>6. PICK t \in seen[c] : TagsAre(c, t)
  BY <1>2 DEF Routing
<1>7. Picked(copies, outs, call[c].names, call[c].next - 1)
      /\ \A j \in DOMAIN copies : copies[j].tags = call[c].tags
  BY <1>2 DEF Routing
<1>8. outs \in Seq(Outputs) /\ Len(outs) = call[c].listed.len /\ call[c].next \in Nat
      /\ call[c].listed.len \in Nat
  BY ListIs
<1> HIDE DEF outs, copies
<1>9. \A k \in DOMAIN outs : k <= call[c].next - 1
  BY <1>1, <1>8
<1>10. RightOutputs(c)'
  <2> DEFINE names == IF asked[c].names = {} THEN Names(n.outputs) ELSE asked[c].names
  <2>1. names = call[c].names
    BY <1>4 DEF NamesAre
  <2>2. /\ \A i \in DOMAIN copies :
              /\ copies[i].from \in DOMAIN s.outputs
              /\ copies[i].output = s.outputs[copies[i].from]
              /\ copies[i].output.name \in names
        /\ \A i, j \in DOMAIN copies : i < j => copies[i].from < copies[j].from
        /\ \A k \in DOMAIN s.outputs : s.outputs[k].name \in names =>
              \E i \in DOMAIN copies : copies[i].from = k
    BY <1>5, <1>7, <1>9, <2>1 DEF Picked
  <2>3. n \in seen'[c] /\ s \in seen'[c] /\ asked'[c] = asked[c] /\ call'[c].copies = copies
    BY <1>1, <1>3 DEF copies
  <2>4. QED
    BY <2>2, <2>3 DEF RightOutputs
<1>11. RightTags(c)'
  <2>1. \A i \in DOMAIN copies : copies[i].tags = asked[c].tags \cup Members(t.tags)
    BY <1>6, <1>7 DEF TagsAre
  <2>2. t \in seen'[c] /\ asked'[c] = asked[c] /\ call'[c].copies = copies
    BY <1>1, <1>3 DEF copies
  <2>3. QED
    BY <2>1, <2>2 DEF RightTags
<1>12. QED
  BY <1>1, <1>3, <1>10, <1>11 DEF Routing, Named, Tagged, Iterating, Gone

LEMMA DecorateRoutes ==
    ASSUME IInv, NEW c \in Callers, Routing(c), Grows(c), NEW n, NEW f, Decorate(c, n, f)
    PROVE  Routing(c)'
<1> DEFINE copies == call[c].copies  after == call'[c].copies
<1>1. /\ call[c].pc = "writing" /\ call'[c].pc = "writing" /\ call'[c].tags = call[c].tags
      /\ call'[c].names = call[c].names /\ asked' = asked
      /\ n \in DOMAIN copies /\ after = [copies EXCEPT ![n].added = f]
  BY DEF Decorate, Processing, IInv, CallInv, CallRecord
<1>2. copies \in Seq(CopyType)
  BY CallIs DEF CallRecord
<1>3. /\ DOMAIN after = DOMAIN copies
      /\ \A i \in DOMAIN copies : /\ after[i].from = copies[i].from
                                  /\ after[i].output = copies[i].output
                                  /\ after[i].tags = copies[i].tags
  <2>1. DOMAIN after = DOMAIN copies
    BY <1>1
  <2>2. ASSUME NEW i \in DOMAIN copies
        PROVE  /\ after[i].from = copies[i].from
               /\ after[i].output = copies[i].output
               /\ after[i].tags = copies[i].tags
    <3>1. copies[i] \in CopyType
      BY <1>2, <2>2
    <3>2. after[i] = IF i = n THEN [copies[i] EXCEPT !.added = f] ELSE copies[i]
      BY <1>1, <2>2
    <3>3. QED
      BY <3>1, <3>2 DEF CopyType
  <2>3. QED
    BY <2>1, <2>2
<1>4. Running(c)' /\ call[c].pc \in Tagged
  BY <1>1 DEF Running, Resting, Tagged
<1>5. /\ seen[c] \subseteq seen'[c] /\ LoggerOf(c)' \in seen'[c]
      /\ \E k \in seen'[c] : NamesAre(c, k)'
      /\ \E t \in seen'[c] : TagsAre(c, t)'
  BY <1>1, <1>4, ReadsKept
<1>6. RightOutputs(c) /\ RightTags(c)
  BY <1>1 DEF Routing, Gone
<1> HIDE DEF copies, after
<1>7. RightOutputs(c)'
  <2>1. PICK k \in seen[c], s \in seen[c] :
          LET names == IF asked[c].names = {} THEN Names(k.outputs) ELSE asked[c].names
          IN /\ \A i \in DOMAIN copies :
                  /\ copies[i].from \in DOMAIN s.outputs
                  /\ copies[i].output = s.outputs[copies[i].from]
                  /\ copies[i].output.name \in names
             /\ \A i, j \in DOMAIN copies : i < j => copies[i].from < copies[j].from
             /\ \A d \in DOMAIN s.outputs : s.outputs[d].name \in names =>
                  \E i \in DOMAIN copies : copies[i].from = d
    BY <1>6 DEF RightOutputs, copies
  <2> DEFINE names == IF asked[c].names = {} THEN Names(k.outputs) ELSE asked[c].names
  <2>2. /\ \A i \in DOMAIN after :
              /\ after[i].from \in DOMAIN s.outputs
              /\ after[i].output = s.outputs[after[i].from]
              /\ after[i].output.name \in names
        /\ \A i, j \in DOMAIN after : i < j => after[i].from < after[j].from
        /\ \A d \in DOMAIN s.outputs : s.outputs[d].name \in names =>
              \E i \in DOMAIN after : after[i].from = d
    BY <1>3, <2>1
  <2>3. k \in seen'[c] /\ s \in seen'[c] /\ asked'[c] = asked[c] /\ call'[c].copies = after
    BY <1>1, <1>5 DEF after
  <2>4. QED
    BY <2>2, <2>3 DEF RightOutputs
<1>8. RightTags(c)'
  <2>1. PICK t \in seen[c] : \A i \in DOMAIN copies :
          copies[i].tags = asked[c].tags \cup Members(t.tags)
    BY <1>6 DEF RightTags, copies
  <2>2. \A i \in DOMAIN after : after[i].tags = asked[c].tags \cup Members(t.tags)
    BY <1>3, <2>1
  <2>3. t \in seen'[c] /\ asked'[c] = asked[c] /\ call'[c].copies = after
    BY <1>1, <1>5 DEF after
  <2>4. QED
    BY <2>2, <2>3 DEF RightTags
<1>9. QED
  BY <1>1, <1>5, <1>7, <1>8 DEF Routing, Named, Tagged, Iterating, Gone

LEMMA FinishRoutes ==
    ASSUME IInv, NEW c \in Callers, Routing(c), Finish(c)
    PROVE  Routing(c)'
<1>1. /\ call[c].pc = "writing" /\ call'[c].pc = "done" /\ call'[c].copies = call[c].copies
      /\ asked' = asked
  BY DEF Finish, Goes, Processing, IInv, CallInv, CallRecord
<1>2. seen'[c] = seen[c]
  BY <1>1 DEF Finish, Processing, Watch, Resting
<1>3. RightOutputs(c) /\ RightTags(c)
  BY <1>1 DEF Routing, Gone
<1>4. RightOutputs(c)' /\ RightTags(c)'
  BY <1>1, <1>2, <1>3 DEF RightOutputs, RightTags
<1>5. QED
  BY <1>1, <1>4 DEF Routing, Named, Tagged, Iterating, Gone, Running, Resting

\* No step of Configures touches a call, and every one is watched.
LEMMA ConfiguresQuiet ==
    ASSUME Configures
    PROVE  call' = call /\ asked' = asked /\ Watch
<1>1. (\E p, l \in Loggers : New(p, l)) => Change
  BY DEF New
<1>2. (\E p, l \in Loggers, f \in MapsGiven : With(p, l, f)) => Change
  BY DEF With
<1>3. (\E l \in Loggers, f \in MapsGiven : SetFields(l, f)) => Change
  BY DEF SetFields
<1>4. (\E l \in Loggers, t \in Tags : SetTags(l, t)) => Change
  BY DEF SetTags
<1>5. (\E l \in Loggers, o \in Outputs : AddOutputs(l, o)) => Change
  BY DEF AddOutputs
<1>6. (\E l \in Loggers, o \in Outputs : SetOutputs(l, o)) => Change
  BY DEF SetOutputs
<1>7. (\E l \in Loggers : SetContextExtractor(l)) => Change
  BY DEF SetContextExtractor
<1>8. (\E a \in AppMaps, k \in Keys, v \in Values : AppWrites(a, k, v)) => Change
  BY DEF AppWrites
<1>9. Change
  BY <1>1, <1>2, <1>3, <1>4, <1>5, <1>6, <1>7, <1>8 DEF Configures
<1>10. QED
  BY <1>9 DEF Change

\* A step of a call touches no other call, and is watched.
LEMMA CallQuiet ==
    ASSUME IInv, RouteInv, NEW c \in Callers, Calls(c) \/ Processes(c)
    PROVE  /\ Watch /\ arrays' = arrays
           /\ \A d \in Callers : d # c => call'[d] = call[d] /\ asked'[d] = asked[d]
           /\ asked' = [d \in Callers |-> asked'[d]]
<1>1. call = [d \in Callers |-> call[d]] /\ asked = [d \in Callers |-> asked[d]]
  BY DEF IInv, CallInv, RouteInv
<1>2. ASSUME NEW l, NEW p, NEW names, NEW tags, NEW fields,
             Begin(c, l, p, names, tags, fields)
      PROVE  /\ Watch /\ arrays' = arrays
             /\ \A d \in Callers : d # c => call'[d] = call[d] /\ asked'[d] = asked[d]
             /\ asked' = [d \in Callers |-> asked'[d]]
  BY <1>1, <1>2 DEF Begin
<1>3. CASE Calls(c)
  BY <1>2, <1>3 DEF Calls, PrintWithOptions, PrintToOutput, PrintAgain
<1>4. CASE Processes(c)
  <2>1. Processing(c)
    BY <1>4 DEF Processes, ReadNames, CheckFields, MergeFields, MergeTags, ReadOutputs, Skip,
       CopyMessage, Gathered, LoadMatchers, CheckSize, StoreMatchers, CountMatchers, Decorate, Finish
  <2>2. \A d \in Callers : d # c => call'[d] = call[d]
    BY <1>1, <1>4 DEF Processes, ReadNames, CheckFields, MergeFields, MergeTags, ReadOutputs, Skip,
       CopyMessage, Gathered, LoadMatchers, CheckSize, StoreMatchers, CountMatchers, Decorate,
       Finish, Goes
  <2>3. QED
    BY <1>1, <2>1, <2>2 DEF Processing
<1>5. QED
  BY <1>3, <1>4

\* The steps of a call, one lemma each.
LEMMA ProcessRoutes ==
    ASSUME IInv, IInv', LoggersAssumption, NEW c \in Callers, Routing(c), Grows(c), Processes(c)
    PROVE  Routing(c)'
<1>1. UNCHANGED <<asked, arrays>>
  BY DEF Processes, ReadNames, CheckFields, MergeFields, MergeTags, ReadOutputs, Skip, CopyMessage,
     Gathered, LoadMatchers, CheckSize, StoreMatchers, CountMatchers, Decorate, Finish, Processing
<1>2. CASE CheckFields(c)
  <2>1. PICK pc \in {"checked", "merged"} : Goes(c, pc)
    BY <1>2 DEF CheckFields
  <2>2. QED
    BY <1>1, <1>2, <2>1, RoutingGoes DEF CheckFields
<1>3. CASE LoadMatchers(c)
  <2>1. call[c].pc \in Iterating /\ \E pc \in Iterating : Goes(c, pc)
    BY <1>3 DEF LoadMatchers, Iterating
  <2>2. QED
    BY <1>1, <2>1, RoutingGoes
<1>4. CASE CheckSize(c)
  <2>1. call[c].pc \in Iterating /\ \E pc \in Iterating : Goes(c, pc)
    BY <1>4 DEF CheckSize, Iterating
  <2>2. QED
    BY <1>1, <2>1, RoutingGoes
<1>5. CASE StoreMatchers(c)
  <2>1. call[c].pc \in Iterating /\ \E pc \in Iterating : Goes(c, pc)
    BY <1>5 DEF StoreMatchers, Iterating
  <2>2. QED
    BY <1>1, <2>1, RoutingGoes
<1>6. CASE CountMatchers(c)
  <2>1. call[c].pc \in Iterating /\ \E pc \in Iterating : Goes(c, pc)
    BY <1>6 DEF CountMatchers, Iterating
  <2>2. QED
    BY <1>1, <2>1, RoutingGoes
<1>7. QED
  BY <1>2, <1>3, <1>4, <1>5, <1>6, ReadNamesRoutes, MergeFieldsRoutes, MergeTagsRoutes,
     ReadOutputsRoutes, SkipRoutes, CopyRoutes, GatheredRoutes, DecorateRoutes, FinishRoutes
     DEF Processes

LEMMA RouteStep ==
    ASSUME IInv, IInv', LoggersAssumption, RouteInv, [Next]_vars
    PROVE  RouteInv'
<1>1. CASE Configures
  <2>1. call' = call /\ asked' = asked /\ Watch
    BY <1>1, ConfiguresQuiet
  <2>2. FrozenStays
    BY <1>1, ConfigureStep DEF IInv
  <2>3. ASSUME NEW c \in Callers
        PROVE  Routing(c)'
    <3>1. Grows(c)
      BY <2>1, WatchGrows
    <3>2. Frozen(call[c].listed, arrays, tagsOf, outputsOf)
      BY CallIs DEF CallOK
    <3>3. Elements(arrays', call[c].listed) = Elements(arrays, call[c].listed)
      BY <2>2, <3>2 DEF FrozenStays
    <3>4. QED
      BY <2>1, <3>1, <3>3, RoutingKept DEF RouteInv
  <2>4. QED
    BY <2>1, <2>3 DEF RouteInv
<1>2. CASE UNCHANGED vars
  <2>1. UNCHANGED <<asked, call, seen, arrays, fieldsOf, tagsOf, outputsOf, heap>>
    BY <1>2 DEF vars, family, containers
  <2>2. ASSUME NEW c \in Callers
        PROVE  Routing(c)'
    <3>1. Routing(c)
      BY DEF RouteInv
    <3>2. LoggerOf(c)' = LoggerOf(c)
      BY <2>1 DEF LoggerOf, GlobalFields, GlobalTags, ItsOutputs
    <3>3. Grows(c)
      BY <2>1, <3>1, <3>2 DEF Grows, Routing, Running
    <3>4. QED
      BY <2>1, <3>1, <3>3, RoutingKept
  <2>3. QED
    BY <2>1, <2>2 DEF RouteInv
<1>3. ASSUME NEW c \in Callers, Calls(c) \/ Processes(c)
      PROVE  RouteInv'
  <2>1. /\ Watch /\ arrays' = arrays
        /\ \A d \in Callers : d # c => call'[d] = call[d] /\ asked'[d] = asked[d]
        /\ asked' = [d \in Callers |-> asked'[d]]
    BY <1>3, CallQuiet
  <2>2. \A d \in Callers : Grows(d) /\ Routing(d)
    BY <2>1, WatchGrows DEF RouteInv
  <2>3. ASSUME NEW d \in Callers, d # c
        PROVE  Routing(d)'
    BY <2>1, <2>2, <2>3, RoutingKept
  <2>4. Routing(c)'
    <3>1. CASE Calls(c)
      <4>1. \E l, p, names, tags, fields : Begin(c, l, p, names, tags, fields)
        BY <3>1 DEF Calls, PrintWithOptions, PrintToOutput, PrintAgain
      <4>2. QED
        BY <2>2, <4>1, BeginRoutes
    <3>2. CASE Processes(c)
      BY <2>2, <3>2, ProcessRoutes
    <3>3. QED
      BY <1>3, <3>1, <3>2
  <2>5. QED
    BY <2>1, <2>3, <2>4 DEF RouteInv
<1>4. QED
  BY <1>1, <1>2, <1>3 DEF Next

LEMMA RouteInit == ASSUME Init PROVE RouteInv
<1>1. ASSUME NEW c \in Callers PROVE call[c].pc = "idle"
  BY DEF Init, NoCall
<1>2. ASSUME NEW c \in Callers PROVE Routing(c)
  BY <1>1 DEF Routing, Running, Resting, Named, Tagged, Iterating, Gone
<1>3. QED
  BY <1>2 DEF RouteInv, Init

\* Whatever is derived or configured while a message is on its way, it goes
\* once, in their order, to the named outputs its logger had at one moment of
\* the call, with its own tags and those the logger had at one moment of it
\* (Routed; sypl.go process and processOutputs).
THEOREM MessagesReachTheirOutputs == Spec => []Routed
<1>1. Init => RouteInv
  BY RouteInit
<1>2. IInv /\ IInv' /\ RouteInv /\ [Next]_vars => RouteInv'
  BY LoggersAssumption, RouteStep
<1>3. RouteInv => Routed
  BY DEF RouteInv, Routing, Routed
<1>4. QED
  BY <1>1, <1>2, <1>3, Inductive, PTL DEF Spec

-----------------------------------------------------------------------------
(* Maps of fields.                                                           *)

LEMMA MapShape ==
    ASSUME NEW f \in Maps
    PROVE  /\ DOMAIN f \in SUBSET FieldNames /\ f = [k \in DOMAIN f |-> f[k]]
           /\ \A k \in DOMAIN f : f[k] \in FieldValues
<1>1. PICK D \in SUBSET FieldNames : f \in [D -> FieldValues]
  BY DEF Maps
<1>2. QED
  BY <1>1

LEMMA MapIs ==
    ASSUME NEW D \in SUBSET FieldNames, NEW f \in [D -> FieldValues]
    PROVE  f \in Maps
  BY DEF Maps

LEMMA ContentsAreMaps == Contents \subseteq Maps
<1>1. ASSUME NEW f \in Contents PROVE f \in Maps
  <2>1. DOMAIN f \in SUBSET FieldNames
    BY ContentsShape DEF FieldNames
  <2>2. f \in [DOMAIN f -> FieldValues]
    BY ContentsShape DEF FieldValues
  <2>3. QED
    BY <2>1, <2>2, MapIs
<1>2. QED
  BY <1>1

LEMMA OverIsMap ==
    ASSUME NEW f \in Maps, NEW g \in Maps
    PROVE  Over(f, g) \in Maps
<1>1. DOMAIN f \cup DOMAIN g \in SUBSET FieldNames
  BY MapShape
<1>2. \A k \in DOMAIN f \cup DOMAIN g : (IF k \in DOMAIN g THEN g[k] ELSE f[k]) \in FieldValues
  BY MapShape
<1>3. Over(f, g) \in [DOMAIN f \cup DOMAIN g -> FieldValues]
  BY <1>2 DEF Over
<1>4. QED
  BY <1>1, <1>3, MapIs

LEMMA OverNothing ==
    ASSUME NEW f \in Maps
    PROVE  Over(f, Empty) = f /\ Over(Empty, f) = f
<1>1. DOMAIN f \cup DOMAIN Empty = DOMAIN f /\ DOMAIN Empty \cup DOMAIN f = DOMAIN f
  BY EmptyShape
<1>2. \A k \in DOMAIN f : k \notin DOMAIN Empty
  BY EmptyShape
<1>3. Over(f, Empty) = [k \in DOMAIN f |-> f[k]]
  BY <1>1, <1>2 DEF Over
<1>4. Over(Empty, f) = [k \in DOMAIN f |-> f[k]]
  BY <1>1 DEF Over
<1>5. QED
  BY <1>3, <1>4, MapShape

\* A non-empty set of naturals has a least one, and a bounded one a greatest.
LEMMA LeastNatural ==
    ASSUME NEW T, T \subseteq Nat, T # {}
    PROVE  \E x \in T : \A y \in T : x <= y
<1>1. \E x \in T : \A y \in T : ~ (<<y, x>> \in OpToRel(<, Nat))
  BY NatLessThanWellFounded, WFMin, Zenon
<1>2. \A x, y \in T : y < x => <<y, x>> \in OpToRel(<, Nat)
  BY Zenon DEF OpToRel
<1>3. \E x \in T : \A y \in T : ~ (y < x)
  BY <1>1, <1>2, Zenon
<1>4. QED
  BY <1>3

LEMMA GreatestNatural ==
    ASSUME NEW n \in Nat, NEW T, T \subseteq 0..n, T # {}
    PROVE  \E x \in T : \A y \in T : y <= x
<1> DEFINE S == {m \in 0..n : n - m \in T}
<1>1. \A y \in T : y \in 0..n /\ n - y \in 0..n /\ n - (n - y) = y
  OBVIOUS
<1>2. \A y \in T : n - y \in S
  BY <1>1
<1>3. S # {} /\ S \subseteq Nat
  <2>1. S \subseteq Nat
    OBVIOUS
  <2>2. PICK y \in T : TRUE
    OBVIOUS
  <2> HIDE DEF S
  <2>3. QED
    BY <1>2, <2>1, <2>2
<1>4. PICK m \in S : \A z \in S : m <= z
  BY <1>3, LeastNatural
<1>5. \A y \in T : y <= n - m
  BY <1>1, <1>2, <1>4
<1>6. QED
  BY <1>4, <1>5

\* One pass of the loop of kvToFields, with the rest of the loop given.
KvStep(list, f, i) ==
    IF i > Len(list) THEN Empty
    ELSE IF list[i] \notin Keys THEN Over(Single(BadKey(i), list[i]), f[i + 1])
    ELSE IF i = Len(list) THEN Single(list[i], Missing)
    ELSE Over(Single(list[i], list[i + 1]), f[i + 2])

\* The loop is a function of the place it starts at.
LEMMA LoopExists ==
    ASSUME NEW V, NEW list \in Seq(V)
    PROVE  \E f : f = [i \in 1..(Len(list) + 2) |-> KvStep(list, f, i)]
<1> DEFINE n == Len(list)
           D(m) == (n + 3 - m)..(n + 2)
           Good(m) == \E f : f = [i \in D(m) |-> KvStep(list, f, i)]
           T == {m \in 0..(n + 2) : ~Good(m)}
<1>1. n \in Nat
  OBVIOUS
<1>2. Good(0)
  <2>1. D(0) = {}
    BY <1>1
  <2>2. [i \in {} |-> 0] = [i \in D(0) |-> KvStep(list, [j \in {} |-> 0], i)]
    BY <2>1
  <2>3. QED
    BY <2>2
<1>3. ASSUME NEW m \in 0..(n + 1), Good(m)
      PROVE  Good(m + 1)
  <2> DEFINE k == n + 2 - m
  <2>1. k \in Nat /\ k >= 1 /\ D(m) = (k + 1)..(n + 2) /\ D(m + 1) = k..(n + 2)
    BY <1>1
  <2>2. PICK f : f = [i \in D(m) |-> KvStep(list, f, i)]
    BY <1>3
  <2> DEFINE g == [i \in D(m + 1) |-> IF i = k THEN KvStep(list, f, i) ELSE f[i]]
  <2> HIDE DEF k
  <2>3. \A i \in D(m) : g[i] = f[i]
    BY <1>1, <2>1
  <2> HIDE DEF g, D
  <2>4. \A i \in D(m + 1) : KvStep(list, g, i) = KvStep(list, f, i)
    <3>1. ASSUME NEW i \in D(m + 1), i <= n PROVE g[i + 1] = f[i + 1]
      BY <1>1, <2>1, <2>3, <3>1
    <3>2. ASSUME NEW i \in D(m + 1), i < n PROVE g[i + 2] = f[i + 2]
      BY <1>1, <2>1, <2>3, <3>2
    <3>3. \A i \in D(m + 1) : i \in Int /\ (~(i > n) => i <= n) /\ (~(i > n) /\ i # n => i < n)
      BY <1>1, <2>1
    <3> HIDE DEF n
    <3>4. \A i \in D(m + 1) : KvStep(list, g, i) = KvStep(list, f, i)
      BY <3>1, <3>2, <3>3 DEF KvStep, n
    <3>5. QED
      BY <3>4
  <2>5. \A i \in D(m + 1) : g[i] = KvStep(list, f, i)
    <3>1. \A i \in D(m + 1) : i = k \/ i \in D(m)
      BY <1>1, <2>1
    <3>2. \A i \in D(m) : f[i] = KvStep(list, f, i)
      BY <2>2
    <3>3. QED
      BY <2>3, <3>1, <3>2 DEF g
  <2>6. g = [i \in D(m + 1) |-> KvStep(list, g, i)]
    <3>1. g = [i \in D(m + 1) |-> g[i]]
      BY DEF g
    <3>2. \A i \in D(m + 1) : g[i] = KvStep(list, g, i)
      BY <2>4, <2>5
    <3> HIDE DEF g
    <3>3. QED
      BY <3>1, <3>2, Zenon
  <2>7. QED
    BY <2>6
<1> HIDE DEF Good
<1>4. T = {}
  <2> SUFFICES ASSUME T # {} PROVE FALSE
    OBVIOUS
  <2>0. T \subseteq Nat
    BY <1>1
  <2>1. PICK x \in T : \A y \in T : x <= y
    <3> HIDE DEF T
    <3>1. QED
      BY <2>0, LeastNatural
  <2>2. x # 0 /\ x - 1 \in 0..(n + 1) /\ x \in 0..(n + 2) /\ x - 1 \notin T
    BY <1>1, <1>2, <2>1
  <2>3. Good(x - 1)
    BY <1>1, <2>2
  <2>4. Good((x - 1) + 1)
    BY <1>3, <2>2, <2>3
  <2>5. QED
    BY <2>1, <2>2, <2>4
<1>5. Good(n + 2)
  BY <1>1, <1>4
<1>6. D(n + 2) = 1..(n + 2)
  BY <1>1
<1>7. QED
  BY <1>5, <1>6 DEF Good

LEMMA LoopIs ==
    ASSUME NEW V, NEW list \in Seq(V)
    PROVE  \E f : /\ \A i \in 1..(Len(list) + 2) : f[i] = KvStep(list, f, i)
                  /\ KvToFields(list) = f[1]
<1> DEFINE f == CHOOSE f : f = [i \in 1..(Len(list) + 2) |-> KvStep(list, f, i)]
<1>1. f = [i \in 1..(Len(list) + 2) |-> KvStep(list, f, i)]
  BY LoopExists
<1>2. KvToFields(list) = f[1]
  BY DEF KvToFields, KvStep
<1> HIDE DEF f
<1>3. \A i \in 1..(Len(list) + 2) : f[i] = KvStep(list, f, i)
  BY <1>1
<1>4. QED
  BY <1>2, <1>3

-----------------------------------------------------------------------------
(* What Logw makes of its arguments.                                         *)

\* What PairsMean is made of: the places of the keys, those of the entries,
\* and the entries from a place on.
IsKeys(list, P) ==
    P \in SUBSET (1..Len(list))
      /\ \A i \in 1..Len(list) : i \in P <=> list[i] \in Keys /\ i - 1 \notin P

Entries(list, P) == {i \in 1..Len(list) : i - 1 \notin P}
NameOf(list, P, i) == IF i \in P THEN list[i] ELSE BadKey(i)
ValueOf(list, P, i) ==
    IF i \notin P THEN list[i] ELSE IF i = Len(list) THEN Missing ELSE list[i + 1]
LastOf(list, P, k) ==
    CHOOSE i \in Entries(list, P) :
      NameOf(list, P, i) = k /\ \A j \in Entries(list, P) : NameOf(list, P, j) = k => j <= i
Since(list, P, m) == {i \in Entries(list, P) : m <= i}
Meaning(list, P, m) ==
    [k \in {NameOf(list, P, i) : i \in Since(list, P, m)} |-> ValueOf(list, P, LastOf(list, P, k))]

LEMMA KeysExist ==
    ASSUME NEW V, NEW list \in Seq(V)
    PROVE  \E P : IsKeys(list, P)
<1> DEFINE n == Len(list)
           Good(m) == \E P \in SUBSET (1..m) :
                        \A i \in 1..m : i \in P <=> list[i] \in Keys /\ i - 1 \notin P
           T == {m \in 0..n : ~Good(m)}
<1>1. n \in Nat
  OBVIOUS
<1>2. Good(0)
  <2>1. 1..0 = {} /\ {} \in SUBSET (1..0)
    OBVIOUS
  <2>2. QED
    BY <2>1
<1>3. ASSUME NEW m \in 0..(n - 1), Good(m)
      PROVE  Good(m + 1)
  <2>1. PICK P \in SUBSET (1..m) :
               \A i \in 1..m : i \in P <=> list[i] \in Keys /\ i - 1 \notin P
    BY <1>3
  <2> DEFINE Q == IF list[m + 1] \in Keys /\ m \notin P THEN P \cup {m + 1} ELSE P
  <2>2. Q \in SUBSET (1..(m + 1))
    OBVIOUS
  <2>3. ASSUME NEW i \in 1..(m + 1)
        PROVE  i \in Q <=> list[i] \in Keys /\ i - 1 \notin Q
    <3>1. m + 1 \notin P /\ i - 1 # m + 1 /\ (i - 1 \in Q <=> i - 1 \in P)
      OBVIOUS
    <3>2. CASE i = m + 1
      BY <3>1, <3>2
    <3>3. CASE i \in 1..m
      <4>1. i # m + 1
        BY <3>3
      <4>2. i \in Q <=> i \in P
        BY <4>1
      <4>3. QED
        BY <2>1, <3>1, <3>3, <4>2
    <3>4. QED
      BY <3>2, <3>3
  <2>4. QED
    BY <2>2, <2>3
<1> HIDE DEF Good
<1>4. T = {}
  <2> SUFFICES ASSUME T # {} PROVE FALSE
    OBVIOUS
  <2>0. T \subseteq Nat
    BY <1>1
  <2>1. PICK x \in T : \A y \in T : x <= y
    <3> HIDE DEF T
    <3>1. QED
      BY <2>0, LeastNatural
  <2>2. x # 0 /\ x - 1 \in 0..(n - 1) /\ x \in 0..n /\ x - 1 \notin T
    BY <1>1, <1>2, <2>1
  <2>3. Good(x - 1)
    BY <1>1, <2>2
  <2>4. Good((x - 1) + 1)
    BY <1>3, <2>2, <2>3
  <2>5. QED
    BY <2>1, <2>2, <2>4
<1>5. Good(n)
  BY <1>1, <1>4
<1>6. QED
  BY <1>5 DEF Good, IsKeys

LEMMA LastIs ==
    ASSUME NEW V, NEW list \in Seq(V), NEW P, NEW i \in Entries(list, P)
    PROVE  LET k == NameOf(list, P, i)
               l == LastOf(list, P, k)
           IN /\ l \in Entries(list, P) /\ NameOf(list, P, l) = k
              /\ \A j \in Entries(list, P) : NameOf(list, P, j) = k => j <= l
<1> DEFINE k == NameOf(list, P, i)
           T == {j \in Entries(list, P) : NameOf(list, P, j) = k}
<1>1. Len(list) \in Nat /\ T \subseteq 0..Len(list) /\ i \in T
  BY DEF Entries
<1> HIDE DEF T
<1>2. \E x \in T : \A y \in T : y <= x
  BY <1>1, GreatestNatural
<1>3. \E x \in Entries(list, P) :
        NameOf(list, P, x) = k /\ \A j \in Entries(list, P) : NameOf(list, P, j) = k => j <= x
  BY <1>2 DEF T
<1> HIDE DEF k
<1>4. QED
  BY <1>3 DEF LastOf, k

\* An entry goes under the meaning of those behind it.
LEMMA MeaningStep ==
    ASSUME NEW V, NEW list \in Seq(V), NEW P, NEW i \in Entries(list, P), NEW m \in Nat,
           i < m, Since(list, P, i) = {i} \cup Since(list, P, m)
    PROVE  Meaning(list, P, i) = Over(Single(NameOf(list, P, i), ValueOf(list, P, i)),
                                      Meaning(list, P, m))
<1> DEFINE name(j) == NameOf(list, P, j)
           val(k) == ValueOf(list, P, LastOf(list, P, k))
           A == {name(j) : j \in Since(list, P, i)}
           B == {name(j) : j \in Since(list, P, m)}
           S == Single(name(i), ValueOf(list, P, i))
<1>1. A = {name(i)} \cup B
  OBVIOUS
<1>2. Meaning(list, P, i) = [k \in A |-> val(k)] /\ Meaning(list, P, m) = [k \in B |-> val(k)]
  BY DEF Meaning
<1>3. name(i) \notin B => val(name(i)) = ValueOf(list, P, i)
  <2> SUFFICES ASSUME name(i) \notin B PROVE LastOf(list, P, name(i)) = i
    OBVIOUS
  <2>1. PICK l : /\ l = LastOf(list, P, name(i))
                 /\ l \in Entries(list, P) /\ name(l) = name(i)
                 /\ \A j \in Entries(list, P) : name(j) = name(i) => j <= l
    BY LastIs
  <2>2. i <= l
    BY <2>1
  <2>3. l \in Since(list, P, i)
    BY <2>1, <2>2 DEF Since
  <2>4. l = i \/ l \in Since(list, P, m)
    BY <2>3
  <2>5. l \notin Since(list, P, m)
    BY <2>1
  <2>6. QED
    BY <2>1, <2>4, <2>5
<1>4. S = [k \in {name(i)} |-> ValueOf(list, P, i)]
  BY DEF Single
<1> HIDE DEF name, val, A, B, S
<1> DEFINE M == Meaning(list, P, m)
<1>5. DOMAIN S = {name(i)} /\ S[name(i)] = ValueOf(list, P, i) /\ DOMAIN M = B
      /\ \A k \in B : M[k] = val(k)
  BY <1>2, <1>4
<1> HIDE DEF M
<1>6. Over(S, M) = [k \in A |-> IF k \in B THEN M[k] ELSE S[k]]
  BY <1>1, <1>5 DEF Over
<1>7. \A k \in A : (IF k \in B THEN M[k] ELSE S[k]) = val(k)
  BY <1>1, <1>3, <1>5
<1>8. Over(S, M) = [k \in A |-> val(k)]
  BY <1>6, <1>7
<1>9. QED
  BY <1>2, <1>8 DEF S, M, name

LEMMA MeaningOver ==
    ASSUME NEW V, NEW list \in Seq(V), NEW P, NEW m \in Nat, m > Len(list)
    PROVE  Meaning(list, P, m) = Empty
<1>1. Since(list, P, m) = {}
  BY DEF Since, Entries
<1>2. {NameOf(list, P, i) : i \in Since(list, P, m)} = {}
  BY <1>1
<1>3. QED
  BY <1>2 DEF Meaning, Empty

\* The loop computes what the list means, from wherever an entry starts.
LEMMA LoopMeans ==
    ASSUME NEW V, NEW list \in Seq(V), NEW P, IsKeys(list, P), NEW f,
           \A i \in 1..(Len(list) + 2) : f[i] = KvStep(list, f, i)
    PROVE  f[1] = Meaning(list, P, 1)
<1> DEFINE n == Len(list)
           Good(i) == i - 1 \notin P => f[i] = Meaning(list, P, i)
           T == {i \in 0..(n + 2) : i > 0 /\ ~Good(i)}
<1>1. n \in Nat
  OBVIOUS
<1>2. \A i \in 1..n : i \in P <=> list[i] \in Keys /\ i - 1 \notin P
  BY DEF IsKeys
<1>p. \A i \in P : i \in 1..n
  BY DEF IsKeys
<1>3. ASSUME NEW i \in 1..(n + 2), i > n
      PROVE  Good(i)
  <2>1. f[i] = Empty
    BY <1>3 DEF KvStep
  <2>2. QED
    BY <1>1, <1>3, <2>1, MeaningOver
<1>e. Entries(list, P) = {i \in 1..n : i - 1 \notin P}
  BY DEF Entries
<1> HIDE DEF n
<1>4. ASSUME NEW i \in 1..n, i - 1 \notin P, Good(i + 1), Good(i + 2)
      PROVE  Good(i)
  <2>1. i \in Entries(list, P) /\ i + 1 \in Nat /\ i + 2 \in Nat /\ i < i + 1 /\ i < i + 2
    BY <1>1, <1>4, <1>e
  <2>2. f[i] = IF list[i] \notin Keys THEN Over(Single(BadKey(i), list[i]), f[i + 1])
               ELSE IF i = n THEN Single(list[i], Missing)
               ELSE Over(Single(list[i], list[i + 1]), f[i + 2])
    <3>1. i \in 1..(n + 2) /\ ~(i > n)
      BY <1>1
    <3>2. f[i] = KvStep(list, f, i)
      BY <3>1 DEF n
    <3>3. QED
      BY <3>1, <3>2 DEF KvStep, n
  <2>3. CASE list[i] \notin Keys
    <3>1. i \notin P /\ (i + 1) - 1 = i
      BY <1>1, <1>2, <2>3
    <3>2. Since(list, P, i) = {i} \cup Since(list, P, i + 1)
      BY <1>1, <1>e, <2>1 DEF Since
    <3>3. Meaning(list, P, i) = Over(Single(NameOf(list, P, i), ValueOf(list, P, i)),
                                     Meaning(list, P, i + 1))
      BY <2>1, <3>2, MeaningStep
    <3>4. NameOf(list, P, i) = BadKey(i) /\ ValueOf(list, P, i) = list[i]
      BY <3>1 DEF NameOf, ValueOf
    <3>5. f[i + 1] = Meaning(list, P, i + 1)
      BY <1>4, <3>1
    <3>6. QED
      BY <2>2, <2>3, <3>3, <3>4, <3>5
  <2>4. CASE list[i] \in Keys
    <3>1. i \in P
      BY <1>2, <1>4, <2>4
    <3>2. i + 1 \notin P /\ (i + 2) - 1 = i + 1 /\ (i + 1) - 1 = i
      BY <1>1, <1>2, <1>p, <3>1
    <3>3. Since(list, P, i) = {i} \cup Since(list, P, i + 2)
      <4>1. i + 1 \notin Entries(list, P)
        BY <1>e, <3>1, <3>2
      <4>2. \A j \in Entries(list, P) : j \in 1..n /\ (i <= j <=> j = i \/ j = i + 1 \/ i + 2 <= j)
        BY <1>1, <1>e
      <4>3. QED
        BY <2>1, <4>1, <4>2 DEF Since
    <3>4. Meaning(list, P, i) = Over(Single(NameOf(list, P, i), ValueOf(list, P, i)),
                                     Meaning(list, P, i + 2))
      BY <2>1, <3>3, MeaningStep
    <3>5. NameOf(list, P, i) = list[i]
          /\ ValueOf(list, P, i) = IF i = n THEN Missing ELSE list[i + 1]
      BY <3>1 DEF NameOf, ValueOf, n
    <3>6. CASE i = n
      <4>1. Meaning(list, P, i + 2) = Empty
        BY <1>1, <2>1, <3>6, MeaningOver DEF n
      <4>2. Over(Single(list[i], Missing), Empty) = Single(list[i], Missing)
        <5>1. DOMAIN Single(list[i], Missing) \cup DOMAIN Empty = {list[i]}
          BY EmptyShape DEF Single
        <5>2. QED
          BY <5>1, EmptyShape DEF Over, Single
      <4>3. QED
        BY <2>2, <2>4, <3>4, <3>5, <3>6, <4>1, <4>2
    <3>7. CASE i # n
      <4>1. f[i + 2] = Meaning(list, P, i + 2)
        BY <1>4, <3>2
      <4>2. QED
        BY <2>2, <2>4, <3>4, <3>5, <3>7, <4>1
    <3>8. QED
      BY <3>6, <3>7
  <2>5. QED
    BY <2>3, <2>4
<1>5. ASSUME NEW i \in 1..n, i - 1 \in P
      PROVE  Good(i)
  BY <1>5
<1> HIDE DEF Good
<1>6. T = {}
  <2> SUFFICES ASSUME T # {} PROVE FALSE
    OBVIOUS
  <2>0. T \subseteq 0..(n + 2) /\ n + 2 \in Nat
    BY <1>1
  <2>1. PICK x \in T : \A y \in T : y <= x
    <3> HIDE DEF T
    <3>1. QED
      BY <2>0, GreatestNatural
  <2>2. x \in 1..(n + 2) /\ ~Good(x)
    BY <1>1
  <2>3. x \in 1..n
    BY <1>1, <1>3, <2>2
  <2>4. x + 1 \in 0..(n + 2) /\ x + 2 \in 0..(n + 2) /\ x + 1 > 0 /\ x + 2 > 0
        /\ x + 1 \notin T /\ x + 2 \notin T
    BY <1>1, <2>1, <2>3
  <2>5. Good(x + 1) /\ Good(x + 2)
    BY <2>4
  <2>6. QED
    BY <1>4, <1>5, <2>2, <2>3, <2>5
<1>7. Good(1)
  <2>1. 1 \in 0..(n + 2) /\ 1 > 0
    BY <1>1
  <2>2. QED
    BY <1>6, <2>1
<1>8. 1 - 1 \notin P
  BY <1>p
<1>9. QED
  BY <1>7, <1>8 DEF Good

\* kvToFields keeps of every list what its caller means, for lists of any
\* length with any elements in any order.
LEMMA PairsAreMeant ==
    ASSUME NEW V, NEW list \in Seq(V)
    PROVE  KvToFields(list) = PairsMean(list)
<1> DEFINE P == CHOOSE P \in SUBSET (1..Len(list)) :
                  \A i \in 1..Len(list) : i \in P <=> list[i] \in Keys /\ i - 1 \notin P
<1>1. IsKeys(list, P)
  <2>1. \E Q \in SUBSET (1..Len(list)) :
          \A i \in 1..Len(list) : i \in Q <=> list[i] \in Keys /\ i - 1 \notin Q
    BY KeysExist DEF IsKeys
  <2>2. QED
    BY <2>1 DEF IsKeys
<1>2. PairsMean(list) =
        [k \in {NameOf(list, P, i) : i \in Entries(list, P)} |-> ValueOf(list, P, LastOf(list, P, k))]
  BY DEF PairsMean, NameOf, ValueOf, LastOf, Entries
<1> HIDE DEF P
<1>3. Since(list, P, 1) = Entries(list, P)
  BY DEF Since, Entries
<1>4. PairsMean(list) = Meaning(list, P, 1)
  BY <1>2, <1>3 DEF Meaning
<1>5. QED
  BY <1>1, <1>4, LoopIs, LoopMeans

LEMMA PairsAreMaps ==
    ASSUME NEW list \in PairLists
    PROVE  PairsMean(list) \in Maps
<1>1. list \in Seq(FieldValues)
  BY FieldsAssumption
<1>2. PICK P : IsKeys(list, P) /\ PairsMean(list) =
        [k \in {NameOf(list, P, i) : i \in Entries(list, P)} |-> ValueOf(list, P, LastOf(list, P, k))]
  <2> DEFINE P == CHOOSE P \in SUBSET (1..Len(list)) :
                  \A i \in 1..Len(list) : i \in P <=> list[i] \in Keys /\ i - 1 \notin P
  <2>1. \E Q \in SUBSET (1..Len(list)) :
          \A i \in 1..Len(list) : i \in Q <=> list[i] \in Keys /\ i - 1 \notin Q
    BY <1>1, KeysExist DEF IsKeys
  <2>2. IsKeys(list, P)
    BY <2>1 DEF IsKeys
  <2>3. PairsMean(list) =
          [k \in {NameOf(list, P, i) : i \in Entries(list, P)} |-> ValueOf(list, P, LastOf(list, P, k))]
    BY DEF PairsMean, NameOf, ValueOf, LastOf, Entries
  <2> HIDE DEF P
  <2>4. QED
    BY <2>2, <2>3
<1>3. ASSUME NEW i \in Entries(list, P)
      PROVE  NameOf(list, P, i) \in FieldNames /\ ValueOf(list, P, i) \in FieldValues
  <2>1. i \in 1..Len(list) /\ Len(list) \in Nat /\ i \in DOMAIN list
    BY <1>1 DEF Entries
  <2>2. i \in P => list[i] \in Keys
    BY <1>2, <2>1 DEF IsKeys
  <2>3. list[i] \in FieldValues /\ (i # Len(list) => list[i + 1] \in FieldValues)
    BY <1>1, <2>1
  <2>4. BadKey(i) \in FieldNames
    BY <2>1 DEF FieldNames
  <2>5. Missing \in FieldValues
    BY DEF FieldValues
  <2>6. QED
    BY <2>2, <2>3, <2>4, <2>5 DEF NameOf, ValueOf, FieldNames
<1> DEFINE D == {NameOf(list, P, i) : i \in Entries(list, P)}
<1>4. D \in SUBSET FieldNames
  BY <1>3
<1>5. ASSUME NEW k \in D PROVE ValueOf(list, P, LastOf(list, P, k)) \in FieldValues
  <2>1. PICK i \in Entries(list, P) : k = NameOf(list, P, i)
    OBVIOUS
  <2>2. LastOf(list, P, k) \in Entries(list, P)
    BY <1>1, <2>1, LastIs
  <2>3. QED
    BY <1>3, <2>2
<1> HIDE DEF D
<1>6. [k \in D |-> ValueOf(list, P, LastOf(list, P, k))] \in [D -> FieldValues]
  BY <1>5
<1>7. QED
  BY <1>2, <1>4, <1>6, MapIs DEF D

-----------------------------------------------------------------------------
(* With which fields.                                                        *)

\* The fields a call works on, as the caller meant them at first, and then
\* over the global ones of one moment; and the copies, each with a map of its
\* own.
Early == {"begun", "named", "checked"}
Late == {"merged", "tagged", "writing", "done"} \cup Iterating

Merged(c, g) == Over(g.fields, asked[c].fields)

Carrying(c, g) ==
    /\ Running(c) => call[c].fields # Nil /\ At(call[c].fields) = Merged(c, g)
    /\ \A i \in DOMAIN call[c].copies :
         /\ call[c].copies[i].fields # Nil
         /\ Carried(call[c].copies[i]) = Over(Merged(c, g), call[c].copies[i].added)

Bare(c) ==
    /\ Running(c) => call[c].fields = Nil
    /\ \A i \in DOMAIN call[c].copies : call[c].copies[i].fields = Nil

\* Where the maps of a call are.
Holds(c) ==
    /\ call[c].fields \in MapsGiven \cup {MessageMap(c)}
    /\ \A i \in DOMAIN call[c].copies : call[c].copies[i].fields \in {Nil, CopyMap(c, i)}
    /\ call[c].pc \in Early => call[c].copies = <<>>

Fielding(c) ==
    /\ Holds(c)
    /\ call[c].pc \in Early => At(call[c].fields) = asked[c].fields
    /\ call[c].pc \in Late =>
         \/ asked[c].fields = Nil /\ Bare(c)
         \/ asked[c].fields # Nil /\ \E g \in seen[c] : Carrying(c, g)

FieldsInv ==
    /\ heap \in [Locations -> Maps]
    /\ \A c \in Callers : asked[c].fields \in Maps \cup {Nil} /\ Fielding(c)

LEMMA PlacesDiffer ==
    /\ \A c, d \in Callers : MessageMap(c) = MessageMap(d) => c = d
    /\ \A c, d \in Callers, m, n \in 1..MaxCopies : CopyMap(c, m) = CopyMap(d, n) => c = d /\ m = n
    /\ \A c, d \in Callers, n \in 1..MaxCopies : MessageMap(c) # CopyMap(d, n)
    /\ Nil \notin Locations /\ Nil \notin Maps
  BY NilAssumption DEF MessageMap, CopyMap

LEMMA AtIs ==
    ASSUME heap \in [Locations -> Maps], NEW p \in Locations \cup {Nil}
    PROVE  /\ p = Nil <=> At(p) = Nil
           /\ p # Nil => At(p) = heap[p] /\ heap[p] \in Maps
  BY PlacesDiffer DEF At

\* The copies are at most as many as there are maps for them.
LEMMA CopiesAre ==
    ASSUME IInv, NEW c \in Callers
    PROVE  /\ call[c].copies \in Seq(CopyType) /\ call[c].fields \in Locations \cup {Nil}
           /\ Len(call[c].copies) \in Nat /\ Len(call[c].copies) <= MaxCopies
           /\ \A i \in DOMAIN call[c].copies :
                i \in 1..MaxCopies /\ call[c].copies[i] \in CopyType
<1>1. call[c] \in CallRecord /\ CallOK(call[c])
  BY CallIs
<1>2. call[c].copies \in Seq(CopyType) /\ call[c].fields \in Locations \cup {Nil}
      /\ call[c].next \in 1..(MaxCopies + 1) /\ call[c].listed \in Windows
  BY <1>1 DEF CallRecord
<1>3. Len(call[c].copies) \in Nat /\ call[c].next \in Nat /\ call[c].listed.len \in Nat
  BY <1>2 DEF Windows
<1>4. MaxCopies \in Nat
  BY LoggersAssumption DEF LoggersAssumption
<1>5. Len(call[c].copies) < call[c].next /\ call[c].next <= call[c].listed.len + 1
      /\ call[c].listed.len <= MaxCopies
  BY <1>1 DEF CallOK
<1>6. Len(call[c].copies) <= MaxCopies
  BY <1>3, <1>4, <1>5
<1>7. \A i \in DOMAIN call[c].copies : i \in 1..Len(call[c].copies) /\ call[c].copies[i] \in CopyType
  BY <1>2
<1>8. QED
  BY <1>2, <1>3, <1>4, <1>6, <1>7

\* A step leaves the maps that a call holds as they are.
Untouched(c) ==
    /\ Running(c) /\ call[c].fields # Nil => heap'[call[c].fields] = heap[call[c].fields]
    /\ \A i \in DOMAIN call[c].copies : call[c].copies[i].fields # Nil =>
         heap'[call[c].copies[i].fields] = heap[call[c].copies[i].fields]

Writes(p, f) == heap' = heap \/ heap' = [heap EXCEPT ![p] = f]

LEMMA WrittenElsewhere ==
    ASSUME IInv, heap \in [Locations -> Maps], NEW c \in Callers, NEW p, NEW f, Writes(p, f),
           Running(c) => call[c].fields # p \/ heap' = heap,
           \A i \in DOMAIN call[c].copies : call[c].copies[i].fields # p
    PROVE  Untouched(c)
<1>1. \A q \in Locations : q # p => heap'[q] = heap[q]
  BY DEF Writes
<1>2. call[c].fields \in Locations \cup {Nil}
  BY CopiesAre
<1>3. \A i \in DOMAIN call[c].copies : call[c].copies[i].fields \in Locations \cup {Nil}
  BY CopiesAre DEF CopyType, Locations
<1>4. QED
  BY <1>1, <1>2, <1>3 DEF Untouched

LEMMA HeapWritten ==
    ASSUME heap \in [Locations -> Maps], NEW p, NEW f \in Maps, Writes(p, f)
    PROVE  heap' \in [Locations -> Maps]
  BY DEF Writes

\* A step that leaves a call's maps as they are, and its place in the order
\* of things.
LEMMA FieldingKept ==
    ASSUME IInv, NEW c \in Callers, Fielding(c), Grows(c), Untouched(c),
           asked'[c] = asked[c], call'[c].fields = call[c].fields,
           call'[c].copies = call[c].copies,
           \/ call'[c].pc = call[c].pc
           \/ call[c].pc \in Early /\ call'[c].pc \in Early
           \/ Running(c) /\ call[c].pc \in Late /\ call'[c].pc \in Late
    PROVE  Fielding(c)'
<1>1. /\ call'[c].pc \in Early <=> call[c].pc \in Early
      /\ call'[c].pc \in Late <=> call[c].pc \in Late
      /\ Running(c)' => Running(c)
  BY DEF Early, Late, Iterating, Running, Resting
<1>2. seen[c] \subseteq seen'[c]
  BY <1>1 DEF Grows
<1>3. Holds(c)'
  BY <1>1 DEF Fielding, Holds
<1>4. Running(c) => At(call[c].fields)' = At(call[c].fields)
  BY DEF At, Untouched
<1>5. call[c].pc \in Early => Running(c)
  BY DEF Early, Running, Resting
<1>6. ASSUME NEW i \in DOMAIN call[c].copies
      PROVE  Carried(call[c].copies[i])' = Carried(call[c].copies[i])
  BY DEF Carried, Untouched
<1>7. ASSUME NEW g, Carrying(c, g) PROVE Carrying(c, g)'
  BY <1>1, <1>4, <1>6, <1>7 DEF Carrying, Merged
<1>8. Bare(c) => Bare(c)'
  BY <1>1 DEF Bare
<1>9. call'[c].pc \in Early => At(call[c].fields)' = asked'[c].fields
  BY <1>1, <1>4, <1>5 DEF Fielding
<1>10. call'[c].pc \in Late =>
         \/ asked'[c].fields = Nil /\ Bare(c)'
         \/ asked'[c].fields # Nil /\ \E g \in seen'[c] : Carrying(c, g)'
  BY <1>1, <1>2, <1>7, <1>8 DEF Fielding
<1>11. QED
  BY <1>3, <1>9, <1>10 DEF Fielding

LEMMA BeginFields ==
    ASSUME IInv, NEW c \in Callers, NEW l, NEW p \in MapsGiven \cup {MessageMap(c)}, NEW names,
           NEW tags, NEW fields, Begin(c, l, p, names, tags, fields),
           asked = [d \in Callers |-> asked[d]],
           fields = IF p = Nil THEN Nil ELSE heap'[p]
    PROVE  Fielding(c)' /\ asked'[c].fields = fields
<1>1. /\ call'[c].pc = "begun" /\ call'[c].fields = p /\ call'[c].copies = <<>>
      /\ asked'[c].fields = fields
  BY DEF Begin, IInv, CallInv
<1>2. Holds(c)'
  BY <1>1 DEF Holds
<1>3. At(call[c].fields)' = fields
  BY <1>1 DEF At
<1>4. QED
  BY <1>1, <1>2, <1>3 DEF Fielding, Early, Late, Iterating

\* What a step of the application or of a logger writes to.
LEMMA ConfiguresWrites ==
    ASSUME IInv, Configures
    PROVE  \E p, f : /\ Writes(p, f) /\ f \in Maps
                     /\ \/ \E l \in Loggers : p = LoggerMap(l)
                        \/ (\E a \in AppMaps : p = AppMap(a)) /\ \A c \in Callers : ~Running(c)
<1>1. FamilyInv /\ FamilyType /\ MapsType
  BY DEF IInv, FamilyInv
<1>2. CASE heap' = heap
  BY <1>2, LoggersAssumption, EmptyShape, ContentsAreMaps DEF Writes, LoggersAssumption
<1>3. ASSUME NEW l \in Loggers, NEW f \in Contents, heap' = [heap EXCEPT ![LoggerMap(l)] = f]
      PROVE  \E p, m : /\ Writes(p, m) /\ m \in Maps
                       /\ \/ \E k \in Loggers : p = LoggerMap(k)
                          \/ (\E a \in AppMaps : p = AppMap(a)) /\ \A c \in Callers : ~Running(c)
  BY <1>3, ContentsAreMaps DEF Writes
<1>4. ASSUME NEW p \in Loggers, NEW l \in Loggers, New(p, l)
      PROVE  \E f \in Contents : heap' = [heap EXCEPT ![LoggerMap(l)] = f]
  BY <1>1, <1>4, GlobalFieldsShape DEF New
<1>5. ASSUME NEW p \in Loggers, NEW l \in Loggers, NEW f \in MapsGiven, With(p, l, f)
      PROVE  \E m \in Contents : heap' = [heap EXCEPT ![LoggerMap(l)] = m]
  BY <1>1, <1>5, WithFields DEF With
<1>6. ASSUME NEW a \in AppMaps, NEW k \in Keys, NEW v \in Values, AppWrites(a, k, v)
      PROVE  \E p, f : /\ Writes(p, f) /\ f \in Maps
                       /\ \/ \E l \in Loggers : p = LoggerMap(l)
                          \/ (\E b \in AppMaps : p = AppMap(b)) /\ \A c \in Callers : ~Running(c)
  <2>1. PICK f : f = Over(heap[AppMap(a)], Single(k, v))
    OBVIOUS
  <2>2. f \in Maps
    BY <1>1, <2>1, SingleShape, OverShape, ContentsAreMaps DEF MapsType
  <2>3. Writes(AppMap(a), f) /\ \A c \in Callers : ~Running(c)
    BY <1>6, <2>1 DEF AppWrites, Writes
  <2>4. QED
    BY <2>2, <2>3
<1>7. (\E l \in Loggers, f \in MapsGiven : SetFields(l, f)) => heap' = heap
  BY DEF SetFields, containers
<1>8. (\E l \in Loggers, t \in Tags : SetTags(l, t)) => heap' = heap
  BY DEF SetTags
<1>9. (\E l \in Loggers, o \in Outputs : AddOutputs(l, o)) => heap' = heap
  BY DEF AddOutputs
<1>10. (\E l \in Loggers, o \in Outputs : SetOutputs(l, o)) => heap' = heap
  BY DEF SetOutputs
<1>11. (\E l \in Loggers : SetContextExtractor(l)) => heap' = heap
  BY DEF SetContextExtractor, containers
<1>12. QED
  BY <1>2, <1>3, <1>4, <1>5, <1>6, <1>7, <1>8, <1>9, <1>10, <1>11 DEF Configures

\* A call holds no map of a logger, and none of another call.
LEMMA HeldElsewhere ==
    ASSUME IInv, NEW c \in Callers, Holds(c)
    PROVE  /\ \A l \in Loggers : call[c].fields # LoggerMap(l)
           /\ \A d \in Callers : d # c => call[c].fields # MessageMap(d)
           /\ \A d \in Callers, n \in 1..MaxCopies : call[c].fields # CopyMap(d, n)
           /\ \A i \in DOMAIN call[c].copies :
                /\ \A l \in Loggers : call[c].copies[i].fields # LoggerMap(l)
                /\ \A a \in AppMaps : call[c].copies[i].fields # AppMap(a)
                /\ \A d \in Callers : call[c].copies[i].fields # MessageMap(d)
                /\ \A d \in Callers, n \in 1..MaxCopies :
                     d # c \/ n # i => call[c].copies[i].fields # CopyMap(d, n)
<1>1. call[c].fields \in MapsGiven \cup {MessageMap(c)}
  BY DEF Holds
<1>2. \A i \in DOMAIN call[c].copies :
        i \in 1..MaxCopies /\ call[c].copies[i].fields \in {Nil, CopyMap(c, i)}
  BY CopiesAre DEF Holds
<1>3. QED
  BY <1>1, <1>2, LocationsDiffer, PlacesDiffer DEF MapsGiven

LEMMA ConfiguresFields ==
    ASSUME IInv, RouteInv, FieldsInv, Configures
    PROVE  FieldsInv'
<1>1. call' = call /\ asked' = asked /\ Watch
  BY ConfiguresQuiet
<1>2. PICK p, f : /\ Writes(p, f) /\ f \in Maps
                  /\ \/ \E l \in Loggers : p = LoggerMap(l)
                     \/ (\E a \in AppMaps : p = AppMap(a)) /\ \A c \in Callers : ~Running(c)
  BY ConfiguresWrites
<1>3. heap' \in [Locations -> Maps]
  BY <1>2, HeapWritten DEF FieldsInv
<1>4. ASSUME NEW c \in Callers PROVE Fielding(c)'
  <2>1. Fielding(c) /\ Holds(c) /\ Grows(c)
    BY <1>1, WatchGrows DEF FieldsInv, Fielding
  <2>2. Untouched(c)
    BY <1>2, <2>1, HeldElsewhere, WrittenElsewhere DEF FieldsInv
  <2>3. QED
    BY <1>1, <2>1, <2>2, FieldingKept
<1>5. QED
  BY <1>1, <1>3, <1>4 DEF FieldsInv

\* Extracted, options and pairs are maps; what a call asks for is what its
\* message starts with.
LEMMA StartIs ==
    ASSUME IInv, FieldsInv, NEW l, NEW s \in Sources
    PROVE  /\ StartFields(l, s) \in Maps /\ s.put \in Maps
           /\ s.kind = "map" => s.map \in AppMaps
           /\ Asks(l, s) = Over(StartFields(l, s), s.put)
<1>1. s.put = NoPut \/ \E k \in Keys, v \in Values : s.put = Single(k, v)
  BY DEF Sources
<1>2. s.put \in Maps
  BY <1>1, EmptyShape, SingleShape, ContentsAreMaps DEF NoPut, Empty
<1>3. s.kind = "map" => s.map \in AppMaps
  BY DEF Sources
<1>4. s.kind = "pairs" => s.pairs \in PairLists
  BY DEF Sources
<1>5. ASSUME s.kind = "pairs"
      PROVE  KvToFields(s.pairs) = PairsMean(s.pairs) /\ PairsMean(s.pairs) \in Maps
  <2>1. s.pairs \in Seq(FieldValues)
    BY <1>4, <1>5, FieldsAssumption DEF FieldsAssumption
  <2>2. QED
    BY <1>4, <1>5, <2>1, PairsAreMeant, PairsAreMaps
<1>6. StartFields(l, s) \in Maps
  <2>1. CASE s.kind = "map"
    BY <1>3, <2>1, LocationsDiffer DEF StartFields, FieldsInv
  <2>2. CASE s.kind = "pairs"
    BY <1>5, <2>2 DEF StartFields
  <2>3. CASE s.kind # "map" /\ s.kind # "pairs" /\ s.kind = "context" /\ extracts[l]
    BY <2>3, FieldsAssumption DEF StartFields, FieldsAssumption
  <2>4. CASE s.kind # "map" /\ s.kind # "pairs" /\ ~(s.kind = "context" /\ extracts[l])
    BY <2>4, EmptyShape, ContentsAreMaps DEF StartFields
  <2>5. QED
    BY <2>1, <2>2, <2>3, <2>4
<1>7. Asks(l, s) = Over(StartFields(l, s), s.put)
  BY <1>5 DEF Asks, StartFields
<1>8. QED
  BY <1>2, <1>3, <1>6, <1>7

\* The other calls do not see what a call starts with: the map of the
\* application is written to while no other call reads it only.
LEMMA PrintFields ==
    ASSUME IInv, RouteInv, FieldsInv, NEW c \in Callers, NEW l \in Loggers,
           NEW s \in setup.sources, NEW names, NEW tags, PrintWithOptions(c, l, s, names, tags)
    PROVE  FieldsInv'
<1>1. s \in Sources
  BY SetupsAssumption DEF SetupsAssumption, IInv, IsSetup
<1>2. PICK p : p = StartMap(c, s)
  OBVIOUS
<1>3. PICK f : f = Over(StartFields(l, s), s.put)
  OBVIOUS
<1>4. f \in Maps /\ Asks(l, s) = f
  BY <1>1, <1>3, StartIs, OverIsMap
<1>5. /\ heap' = IF p = Nil THEN heap ELSE [heap EXCEPT ![p] = f]
      /\ Begin(c, l, p, names, tags, IF p = Nil THEN Nil ELSE f)
      /\ s.kind = "map" /\ s.put # NoPut => ~InUse(s.map, c)
  BY <1>2, <1>3, <1>4 DEF PrintWithOptions
<1>6. \/ s.kind = "map" /\ p = AppMap(s.map) /\ s.map \in AppMaps
      \/ s.kind # "map" /\ p = MessageMap(c)
      \/ s.kind # "map" /\ p = Nil
  BY <1>1, <1>2, StartIs DEF StartMap
<1>7. p \in MapsGiven \cup {MessageMap(c)} /\ p \in Locations \cup {Nil}
  BY <1>6, LocationsDiffer DEF MapsGiven
<1>8. heap \in [Locations -> Maps]
  BY DEF FieldsInv
<1>9. heap' \in [Locations -> Maps] /\ (p # Nil => heap'[p] = f)
  BY <1>4, <1>5, <1>7, <1>8
<1>10. asked = [d \in Callers |-> asked[d]]
  BY DEF RouteInv
<1>11. Fielding(c)' /\ asked'[c].fields = IF p = Nil THEN Nil ELSE f
  <2>1. (IF p = Nil THEN Nil ELSE f) = (IF p = Nil THEN Nil ELSE heap'[p])
    BY <1>9
  <2>2. QED
    BY <1>5, <1>7, <1>10, <2>1, BeginFields
<1>12. ASSUME NEW d \in Callers, d # c PROVE Fielding(d)' /\ asked'[d] = asked[d]
  <2>1. /\ Watch /\ call'[d] = call[d] /\ asked'[d] = asked[d]
    BY <1>5, <1>10, <1>12 DEF Begin, IInv, CallInv
  <2>2. Fielding(d) /\ Holds(d) /\ Grows(d)
    BY <2>1, WatchGrows DEF FieldsInv, Fielding
  <2>3. CASE s.kind = "map"
    <3>1. p = AppMap(s.map) /\ p # Nil /\ s.map \in AppMaps
      BY <1>6, <2>3, NilIsNoMap
    <3>2. s.put = NoPut => heap' = heap
      <4>1. Over(heap[p], Empty) = heap[p]
        BY <1>7, <1>8, <3>1, OverNothing
      <4>2. StartFields(l, s) = heap[p]
        BY <2>3, <3>1 DEF StartFields
      <4>3. s.put = NoPut => s.put = Empty
        BY DEF NoPut, Empty
      <4>4. s.put = NoPut => f = heap[p]
        BY <1>3, <4>1, <4>2, <4>3
      <4>5. [heap EXCEPT ![p] = heap[p]] = heap
        BY <1>8
      <4>6. QED
        BY <1>5, <3>1, <4>4, <4>5
    <3>3. s.put # NoPut => (Running(d) => call[d].fields # p)
      BY <1>5, <1>12, <2>3, <3>1 DEF InUse
    <3>4. Writes(p, f)
      BY <1>5 DEF Writes
    <3>5. Untouched(d)
      BY <1>8, <2>2, <3>1, <3>2, <3>3, <3>4, HeldElsewhere, WrittenElsewhere
    <3>6. QED
      BY <2>1, <2>2, <3>5, FieldingKept
  <2>4. CASE s.kind # "map"
    <3>1. Writes(MessageMap(c), f)
      BY <1>5, <1>6, <2>4 DEF Writes
    <3>2. Untouched(d)
      BY <1>8, <1>12, <2>2, <3>1, HeldElsewhere, WrittenElsewhere
    <3>3. QED
      BY <2>1, <2>2, <3>2, FieldingKept
  <2>5. QED
    BY <2>3, <2>4
<1>13. \A d \in Callers : asked'[d].fields \in Maps \cup {Nil}
  BY <1>4, <1>11, <1>12 DEF FieldsInv
<1>14. QED
  BY <1>9, <1>11, <1>12, <1>13 DEF FieldsInv

\* A step of one call that writes to its own maps leaves the others alone.
LEMMA OthersFields ==
    ASSUME IInv, RouteInv, FieldsInv, NEW c \in Callers, Calls(c) \/ Processes(c),
           NEW p, NEW f, Writes(p, f),
           p = MessageMap(c) \/ \E n \in 1..MaxCopies : p = CopyMap(c, n)
    PROVE  \A d \in Callers : d # c => Fielding(d)' /\ asked'[d] = asked[d]
<1>1. Watch /\ \A d \in Callers : d # c => call'[d] = call[d] /\ asked'[d] = asked[d]
  BY CallQuiet
<1>2. ASSUME NEW d \in Callers, d # c PROVE Fielding(d)'
  <2>1. Fielding(d) /\ Holds(d) /\ Grows(d)
    BY <1>1, WatchGrows DEF FieldsInv, Fielding
  <2>2. Untouched(d)
    BY <1>2, <2>1, HeldElsewhere, WrittenElsewhere DEF FieldsInv
  <2>3. QED
    BY <1>1, <1>2, <2>1, <2>2, FieldingKept
<1>3. QED
  BY <1>1, <1>2

LEMMA OutputFields ==
    ASSUME IInv, RouteInv, FieldsInv, NEW c \in Callers, NEW l \in Loggers, NEW o \in Outputs,
           NEW g \in MapsGiven, NEW names \in setup.names, NEW tags \in setup.given,
           PrintToOutput(c, l, o, g, names, tags)
    PROVE  FieldsInv'
<1>1. PICK p : p = IF g = Nil THEN MessageMap(c) ELSE g
  OBVIOUS
<1>2. PICK m : m = IF g = Nil THEN Empty ELSE heap[g]
  OBVIOUS
<1>3. PICK q : q = IF names = {} THEN {o.name} ELSE names
  OBVIOUS
<1>4. /\ heap' = IF g = Nil THEN [heap EXCEPT ![MessageMap(c)] = Empty] ELSE heap
      /\ Begin(c, l, p, q, tags, m)
  BY <1>1, <1>2, <1>3 DEF PrintToOutput
<1>5. p \in MapsGiven \cup {MessageMap(c)} /\ p \in Locations /\ p # Nil
  BY <1>1, LocationsDiffer, PlacesDiffer DEF MapsGiven
<1>6. heap \in [Locations -> Maps] /\ Empty \in Maps
  BY EmptyShape, ContentsAreMaps DEF FieldsInv
<1>7. heap' \in [Locations -> Maps] /\ m = heap'[p] /\ m \in Maps
  BY <1>1, <1>2, <1>4, <1>5, <1>6
<1>8. Fielding(c)' /\ asked'[c].fields = m
  BY <1>4, <1>5, <1>7, BeginFields DEF RouteInv
<1>9. Calls(c) /\ Writes(MessageMap(c), Empty)
  BY <1>4 DEF Calls, Writes
<1>10. \A d \in Callers : d # c => Fielding(d)' /\ asked'[d] = asked[d]
  BY <1>9, OthersFields
<1>11. QED
  BY <1>7, <1>8, <1>10 DEF FieldsInv

LEMMA AgainFields ==
    ASSUME IInv, RouteInv, FieldsInv, NEW c \in Callers, NEW l \in Loggers, PrintAgain(c, l)
    PROVE  FieldsInv'
<1>1. PICK p : p = call[c].fields
  OBVIOUS
<1>2. heap' = heap /\ Begin(c, l, p, call[c].names, call[c].tags, At(p))
  BY <1>1 DEF PrintAgain
<1>3. p \in MapsGiven \cup {MessageMap(c)} /\ p \in Locations \cup {Nil}
  BY <1>1, CopiesAre DEF FieldsInv, Fielding, Holds
<1>4. At(p) = (IF p = Nil THEN Nil ELSE heap'[p]) /\ At(p) \in Maps \cup {Nil}
  BY <1>2, <1>3, AtIs DEF At, FieldsInv
<1>5. Fielding(c)' /\ asked'[c].fields = At(p)
  BY <1>2, <1>3, <1>4, BeginFields DEF RouteInv
<1>6. Calls(c) /\ Writes(MessageMap(c), Empty)
  BY <1>2 DEF Calls, Writes
<1>7. \A d \in Callers : d # c => Fielding(d)' /\ asked'[d] = asked[d]
  BY <1>6, OthersFields
<1>8. QED
  BY <1>2, <1>4, <1>5, <1>7 DEF FieldsInv

\* The steps that write to no map.
LEMMA QuietFields ==
    ASSUME IInv, RouteInv, FieldsInv, NEW c \in Callers, Processes(c), heap' = heap,
           call'[c].fields = call[c].fields, call'[c].copies = call[c].copies,
           \/ call[c].pc \in Early /\ call'[c].pc \in Early
           \/ call[c].pc \in Late /\ call'[c].pc \in Late
    PROVE  FieldsInv'
<1>1. Watch /\ asked' = asked /\ Running(c)
  BY CallQuiet DEF Processes, ReadNames, CheckFields, MergeFields, MergeTags, ReadOutputs, Skip,
     CopyMessage, Gathered, LoadMatchers, CheckSize, StoreMatchers, CountMatchers, Decorate, Finish,
     Processing
<1>2. Grows(c) /\ Fielding(c) /\ Untouched(c)
  BY <1>1, WatchGrows DEF FieldsInv, Untouched
<1>3. Fielding(c)'
  BY <1>1, <1>2, FieldingKept
<1>4. Writes(MessageMap(c), Empty)
  BY DEF Writes
<1>5. \A d \in Callers : d # c => Fielding(d)'
  BY <1>4, OthersFields
<1>6. QED
  BY <1>1, <1>3, <1>5 DEF FieldsInv

\* The moment whose global fields count: this one.
LEMMA Moment ==
    ASSUME RouteInv, NEW c \in Callers, Running(c), Running(c)', Grows(c)
    PROVE  \E g \in seen'[c] : g.fields = GlobalFields(call[c].logger)
<1>1. LoggerOf(c) \in seen'[c]
  BY DEF RouteInv, Routing, Grows
<1>2. LoggerOf(c).fields = GlobalFields(call[c].logger)
  BY DEF LoggerOf
<1>3. QED
  BY <1>1, <1>2

LEMMA CheckFieldsFields ==
    ASSUME IInv, RouteInv, FieldsInv, NEW c \in Callers, CheckFields(c)
    PROVE  FieldsInv'
<1>1. PICK pc : pc = IF fieldsOf[call[c].logger] = Nil THEN "merged" ELSE "checked"
  OBVIOUS
<1>2. Goes(c, pc) /\ call[c].pc = "named" /\ heap' = heap /\ Processes(c)
  BY <1>1 DEF CheckFields, Processes
<1>3. /\ call'[c].pc = pc /\ call'[c].fields = call[c].fields /\ call'[c].copies = call[c].copies
  BY <1>2 DEF Goes, IInv, CallInv, CallRecord
<1>4. CASE pc = "checked"
  BY <1>2, <1>3, <1>4, QuietFields DEF Early
<1>5. CASE pc = "merged"
  <2>1. Watch /\ asked' = asked /\ Grows(c)
    BY <1>2, WatchGrows, CallQuiet DEF CheckFields, Processing
  <2>2. Running(c) /\ Running(c)'
    BY <1>2, <1>3, <1>5 DEF Running, Resting
  <2>3. PICK g \in seen'[c] : g.fields = GlobalFields(call[c].logger)
    BY <2>1, <2>2, Moment
  <2>4. g.fields = Empty
    BY <1>1, <1>5, <2>3 DEF GlobalFields
  <2>5. Fielding(c) /\ Holds(c) /\ call[c].copies = <<>>
    BY <1>2 DEF FieldsInv, Fielding, Holds, Early
  <2>6. At(call[c].fields) = asked[c].fields /\ call[c].fields \in Locations \cup {Nil}
    BY <1>2, <2>5, CopiesAre DEF Fielding, Early
  <2>7. At(call[c].fields)' = At(call[c].fields)
    BY <1>2, <1>3 DEF At
  <2>8. Holds(c)'
    BY <1>3, <2>5 DEF Holds
  <2>9. ASSUME asked[c].fields = Nil PROVE Fielding(c)'
    <3>1. call[c].fields = Nil
      BY <2>6, <2>9, AtIs DEF FieldsInv
    <3>2. Bare(c)'
      BY <1>3, <2>5, <3>1 DEF Bare
    <3>3. QED
      BY <1>3, <1>5, <2>1, <2>8, <2>9, <3>2 DEF Fielding, Early
  <2>10. ASSUME asked[c].fields # Nil PROVE Fielding(c)'
    <3>1. asked[c].fields \in Maps
      BY <2>10 DEF FieldsInv
    <3>2. Merged(c, g)' = asked[c].fields
      BY <2>1, <2>4, <3>1, OverNothing DEF Merged
    <3>3. Carrying(c, g)'
      <4>1. call[c].fields # Nil
        BY <2>6, <2>10 DEF At
      <4>2. QED
        BY <1>3, <2>5, <2>6, <2>7, <3>2, <4>1 DEF Carrying
    <3>4. asked'[c].fields # Nil /\ call'[c].pc \notin Early
      BY <1>3, <1>5, <2>1, <2>10 DEF Early
    <3>5. QED
      BY <2>3, <2>8, <3>3, <3>4 DEF Fielding
  <2>11. Fielding(c)'
    BY <2>9, <2>10
  <2>12. Writes(MessageMap(c), Empty)
    BY <1>2 DEF Writes
  <2>13. \A d \in Callers : d # c => Fielding(d)'
    BY <1>2, <2>12, OthersFields
  <2>14. QED
    BY <1>2, <2>1, <2>11, <2>13 DEF FieldsInv
<1>6. QED
  BY <1>1, <1>4, <1>5

LEMMA MergeFieldsFields ==
    ASSUME IInv, RouteInv, FieldsInv, NEW c \in Callers, MergeFields(c)
    PROVE  FieldsInv'
<1>1. PICK final : final = FinalFields(c)
  OBVIOUS
<1>2. PICK p : p = IF final = Nil THEN Nil ELSE MessageMap(c)
  OBVIOUS
<1>3. /\ call[c].pc = "checked" /\ Processes(c)
      /\ heap' = IF final = Nil THEN heap ELSE [heap EXCEPT ![MessageMap(c)] = final]
      /\ call'[c].pc = "merged" /\ call'[c].fields = p /\ call'[c].copies = call[c].copies
  BY <1>1, <1>2 DEF MergeFields, Processes, IInv, CallInv, CallRecord
<1>4. Watch /\ asked' = asked /\ Grows(c) /\ Running(c) /\ Running(c)'
  BY <1>3, WatchGrows, CallQuiet DEF MergeFields, Processing, Running, Resting
<1>5. PICK g \in seen'[c] : g.fields = GlobalFields(call[c].logger)
  BY <1>4, Moment
<1>6. PICK l : l = call[c].logger
  OBVIOUS
<1>7. l \in Loggers /\ fieldsOf[l] \in Locations \cup {Nil} /\ FamilyType /\ MapsType
  BY <1>6, CallIs DEF CallRecord, IInv, FamilyInv, FamilyType
<1>8. heap \in [Locations -> Maps] /\ asked[c].fields \in Maps \cup {Nil}
  BY DEF FieldsInv
<1>9. At(call[c].fields) = asked[c].fields /\ call[c].copies = <<>>
  BY <1>3 DEF FieldsInv, Fielding, Holds, Early
<1>10. GlobalFields(l) \in Maps
  BY <1>7, GlobalFieldsShape, ContentsAreMaps
<1>11. \/ asked[c].fields = Nil /\ final = Nil
       \/ asked[c].fields # Nil /\ final = Over(GlobalFields(l), asked[c].fields)
  <2>1. final = Copy(asked[c].fields, Copy(At(fieldsOf[l]), Empty))
    BY <1>1, <1>6, <1>9 DEF FinalFields
  <2>2. PICK global : global = Copy(At(fieldsOf[l]), Empty)
    OBVIOUS
  <2>3. (IF global = Nil THEN Empty ELSE global) = GlobalFields(l)
    <3>1. CASE fieldsOf[l] = Nil
      BY <2>2, <3>1 DEF Copy, At, GlobalFields
    <3>2. CASE fieldsOf[l] # Nil
      <4>1. At(fieldsOf[l]) = GlobalFields(l) /\ At(fieldsOf[l]) # Nil
        BY <1>7, <1>8, <3>2, AtIs DEF GlobalFields
      <4>2. Empty # Nil
        BY EmptyShape, ContentsAreMaps, PlacesDiffer
      <4>3. global = Over(Empty, GlobalFields(l))
        BY <2>2, <4>1, <4>2 DEF Copy
      <4>4. QED
        BY <1>10, <4>1, <4>3, OverNothing
    <3>3. QED
      BY <3>1, <3>2
  <2>4. QED
    BY <2>1, <2>2, <2>3 DEF Copy
<1>12. p \in MapsGiven \cup {MessageMap(c)}
  BY <1>2 DEF MapsGiven
<1>13. Holds(c)'
  BY <1>3, <1>9, <1>12 DEF Holds, Early
<1>14. CASE asked[c].fields = Nil
  <2>1. heap' = heap /\ p = Nil
    BY <1>2, <1>3, <1>11, <1>14
  <2>2. Bare(c)'
    BY <1>3, <1>9, <2>1 DEF Bare
  <2>3. Fielding(c)'
    BY <1>3, <1>4, <1>13, <1>14, <2>2 DEF Fielding, Early
  <2>4. Writes(MessageMap(c), Empty)
    BY <2>1 DEF Writes
  <2>5. \A d \in Callers : d # c => Fielding(d)'
    BY <1>3, <2>4, OthersFields
  <2>6. QED
    BY <1>4, <1>8, <2>1, <2>3, <2>5 DEF FieldsInv
<1>15. CASE asked[c].fields # Nil
  <2>1. final = Over(GlobalFields(l), asked[c].fields) /\ final \in Maps /\ final # Nil
    BY <1>8, <1>10, <1>11, <1>15, OverIsMap, PlacesDiffer
  <2>2. p = MessageMap(c) /\ p \in Locations /\ p # Nil
    BY <1>2, <2>1, LocationsDiffer, PlacesDiffer
  <2>3. heap' = [heap EXCEPT ![p] = final]
    BY <1>3, <2>1, <2>2
  <2>4. heap' \in [Locations -> Maps] /\ heap'[p] = final
    BY <1>8, <2>1, <2>2, <2>3
  <2>5. At(call[c].fields)' = final
    BY <1>3, <2>2, <2>4 DEF At
  <2>6. Merged(c, g)' = final
    BY <1>4, <1>5, <1>6, <2>1 DEF Merged
  <2>7. Carrying(c, g)'
    BY <1>3, <1>9, <2>2, <2>5, <2>6 DEF Carrying
  <2>8. Fielding(c)'
    BY <1>3, <1>4, <1>5, <1>13, <1>15, <2>7 DEF Fielding, Early
  <2>9. Writes(MessageMap(c), final)
    BY <2>2, <2>3 DEF Writes
  <2>10. \A d \in Callers : d # c => Fielding(d)'
    BY <1>3, <2>9, OthersFields
  <2>11. QED
    BY <1>4, <1>8, <2>4, <2>8, <2>10 DEF FieldsInv
<1>16. QED
  BY <1>14, <1>15

LEMMA CopyFields ==
    ASSUME IInv, IInv', RouteInv, FieldsInv, NEW c \in Callers, CopyMessage(c)
    PROVE  FieldsInv'
<1>1. PICK copies : copies = call[c].copies
  OBVIOUS
<1>2. PICK n : n = Len(copies) + 1
  OBVIOUS
<1>3. PICK mine : mine = Copy(At(call[c].fields), Empty)
  OBVIOUS
<1>4. PICK m : m = [output |-> Listed(c), from |-> call[c].next,
                    fields |-> IF mine = Nil THEN Nil ELSE CopyMap(c, n),
                    tags |-> call[c].tags, added |-> Empty]
  OBVIOUS
<1>5. /\ call[c].pc = "gathering" /\ Processes(c) /\ call'[c].pc \in {"loading", "gathering"}
      /\ heap' = IF mine = Nil THEN heap ELSE [heap EXCEPT ![CopyMap(c, n)] = mine]
      /\ call'[c].fields = call[c].fields /\ call'[c].copies = Append(copies, m)
  BY <1>1, <1>2, <1>3, <1>4 DEF CopyMessage, Processes, IInv, CallInv, CallRecord
<1>6. Watch /\ asked' = asked /\ Grows(c) /\ Running(c) /\ Running(c)'
  BY <1>5, WatchGrows, CallQuiet DEF CopyMessage, Processing, Running, Resting
<1>7. seen[c] \subseteq seen'[c]
  BY <1>6 DEF Grows
<1>8. /\ copies \in Seq(CopyType) /\ call[c].fields \in Locations \cup {Nil}
      /\ Len(copies) \in Nat /\ DOMAIN copies = 1..Len(copies)
      /\ \A i \in DOMAIN copies : i \in 1..MaxCopies /\ copies[i] \in CopyType
  BY <1>1, CopiesAre
<1>9. n \in 1..MaxCopies
  <2>1. Len(copies) < call[c].next /\ call[c].next <= call[c].listed.len
        /\ call[c].listed.len <= MaxCopies
    BY <1>1, CallIs DEF CallOK, CopyMessage
  <2>2. call[c].next \in Nat /\ call[c].listed.len \in Nat /\ MaxCopies \in Nat
    BY CallIs, LoggersAssumption DEF CallRecord, Windows, LoggersAssumption
  <2>3. QED
    BY <1>2, <1>8, <2>1, <2>2
<1>10. heap \in [Locations -> Maps] /\ asked[c].fields \in Maps \cup {Nil} /\ Empty # Nil
       /\ Fielding(c) /\ Holds(c)
  BY EmptyShape, ContentsAreMaps, PlacesDiffer DEF FieldsInv, Fielding
<1>11. At(call[c].fields) # Nil => mine = At(call[c].fields) /\ mine \in Maps /\ mine # Nil
  <2>1. At(call[c].fields) # Nil => At(call[c].fields) \in Maps
    BY <1>8, <1>10, AtIs
  <2>2. QED
    BY <1>3, <1>10, <2>1, OverNothing DEF Copy
<1>12. At(call[c].fields) = Nil => mine = Nil
  BY <1>3 DEF Copy
<1>13. /\ DOMAIN Append(copies, m) = 1..n /\ Append(copies, m)[n] = m
       /\ \A i \in 1..n : i # n => i \in DOMAIN copies /\ Append(copies, m)[i] = copies[i]
  <2>1. copies \in Seq(CopyType \cup {m})
    BY <1>8
  <2>2. PICK e : e = m
    OBVIOUS
  <2>3. /\ Append(copies, e) \in Seq(CopyType \cup {e}) /\ Len(Append(copies, e)) = n
        /\ \A i \in 1..Len(copies) : Append(copies, e)[i] = copies[i]
        /\ Append(copies, e)[n] = e
    BY <1>2, <2>1, <2>2, AppendProperties
  <2>4. \A i \in 1..n : i = n \/ i \in DOMAIN copies
    BY <1>2, <1>8
  <2>5. DOMAIN Append(copies, e) = 1..n
    <3>1. \A s \in Seq(CopyType \cup {e}) : DOMAIN s = 1..Len(s)
      OBVIOUS
    <3>2. QED
      BY <2>3, <3>1
  <2>6. \A i \in 1..n : i # n => i \in DOMAIN copies /\ Append(copies, e)[i] = copies[i]
    BY <1>8, <2>3, <2>4
  <2>7. QED
    BY <2>2, <2>3, <2>5, <2>6, Zenon
<1>14. call[c].pc \in Late /\ call[c].pc \notin Early /\ call'[c].pc \in Late
       /\ call'[c].pc \notin Early
  BY <1>5 DEF Late, Early, Iterating
<1>15. Holds(c)'
  <2>1. m.fields \in {Nil, CopyMap(c, n)}
    BY <1>4
  <2>2. \A i \in DOMAIN copies : copies[i].fields \in {Nil, CopyMap(c, i)}
    BY <1>1, <1>10 DEF Holds
  <2>3. call[c].fields \in MapsGiven \cup {MessageMap(c)}
    BY <1>10 DEF Holds
  <2>4. \A i \in DOMAIN Append(copies, m) : Append(copies, m)[i].fields \in {Nil, CopyMap(c, i)}
    BY <1>13, <2>1, <2>2
  <2>5. QED
    BY <1>5, <1>14, <2>3, <2>4 DEF Holds
<1>16. CASE asked[c].fields = Nil /\ Bare(c)
  <2>1. At(call[c].fields) = Nil
    BY <1>6, <1>16 DEF Bare, At
  <2>2. heap' = heap /\ m.fields = Nil
    BY <1>4, <1>5, <1>12, <2>1
  <2>3. \A i \in DOMAIN Append(copies, m) : Append(copies, m)[i].fields = Nil
    BY <1>1, <1>13, <1>16, <2>2 DEF Bare
  <2>4. Bare(c)'
    BY <1>5, <1>6, <1>16, <2>3 DEF Bare
  <2>5. Fielding(c)'
    BY <1>6, <1>14, <1>15, <1>16, <2>4 DEF Fielding
  <2>6. Writes(MessageMap(c), Empty)
    BY <2>2 DEF Writes
  <2>7. \A d \in Callers : d # c => Fielding(d)'
    BY <1>5, <2>6, OthersFields
  <2>8. QED
    BY <1>6, <2>2, <2>5, <2>7 DEF FieldsInv
<1>17. ASSUME asked[c].fields # Nil, NEW g \in seen[c], Carrying(c, g)
       PROVE  FieldsInv'
  <2>1. PICK want : want = Merged(c, g)
    OBVIOUS
  <2>2. At(call[c].fields) = want /\ call[c].fields # Nil
    BY <1>6, <1>17, <2>1 DEF Carrying
  <2>3. want \in Maps /\ want # Nil /\ mine = want /\ mine # Nil
    BY <1>8, <1>10, <1>11, <2>2, AtIs
  <2>4. PICK p : p = CopyMap(c, n)
    OBVIOUS
  <2>5. p \in Locations /\ p # Nil /\ heap' = [heap EXCEPT ![p] = want] /\ m.fields = p
        /\ m.added = Empty
    BY <1>4, <1>5, <1>9, <2>3, <2>4, LocationsDiffer, PlacesDiffer
  <2>6. heap' \in [Locations -> Maps] /\ heap'[p] = want
        /\ \A q \in Locations : q # p => heap'[q] = heap[q]
    BY <1>10, <2>3, <2>5
  <2>7. call[c].fields # p
    BY <1>9, <1>10, <2>4, HeldElsewhere
  <2>8. At(call[c].fields)' = want /\ call'[c].fields # Nil
    <3>1. heap'[call[c].fields] = heap[call[c].fields]
      BY <1>8, <2>2, <2>6, <2>7
    <3>2. QED
      BY <1>5, <2>2, <3>1 DEF At
  <2>9. Merged(c, g)' = want
    BY <1>6, <2>1 DEF Merged
  <2>10. ASSUME NEW i \in DOMAIN copies
         PROVE  copies[i].fields # Nil /\ Carried(copies[i])' = Over(want, copies[i].added)
    <3>1. copies[i].fields # Nil /\ Carried(copies[i]) = Over(want, copies[i].added)
      BY <1>1, <1>17, <2>1 DEF Carrying
    <3>2. copies[i].fields \in Locations
      BY <1>8, <3>1 DEF CopyType, Locations
    <3>3. copies[i].fields # p
      <4>1. i # n
        BY <1>2, <1>8
      <4>2. QED
        BY <1>1, <1>9, <1>10, <2>4, <4>1, HeldElsewhere
    <3>4. heap'[copies[i].fields] = heap[copies[i].fields]
      BY <2>6, <3>2, <3>3
    <3>5. QED
      BY <3>1, <3>4 DEF Carried
  <2>11. m.fields # Nil /\ Carried(m)' = Over(want, m.added)
    BY <2>3, <2>5, <2>6, OverNothing DEF Carried
  <2>12. Carrying(c, g)'
    <3>1. ASSUME NEW i \in DOMAIN Append(copies, m)
          PROVE  /\ Append(copies, m)[i].fields # Nil
                 /\ Carried(Append(copies, m)[i])' = Over(want, Append(copies, m)[i].added)
      <4>1. CASE i = n
        BY <1>13, <2>11, <4>1 DEF Carried
      <4>2. CASE i # n
        BY <1>13, <2>10, <4>2 DEF Carried
      <4>3. QED
        BY <4>1, <4>2
    <3>2. QED
      BY <1>5, <2>8, <2>9, <3>1 DEF Carrying, Carried
  <2>13. Fielding(c)'
    BY <1>6, <1>7, <1>14, <1>15, <1>17, <2>12 DEF Fielding
  <2>14. Writes(p, want)
    BY <2>5 DEF Writes
  <2>15. \A d \in Callers : d # c => Fielding(d)'
    BY <1>5, <1>9, <2>4, <2>14, OthersFields
  <2>16. QED
    BY <1>6, <1>10, <2>6, <2>13, <2>15 DEF FieldsInv
<1>18. QED
  BY <1>10, <1>14, <1>16, <1>17 DEF Fielding

LEMMA DecorateFields ==
    ASSUME IInv, RouteInv, FieldsInv, NEW c \in Callers, NEW n \in 1..MaxCopies,
           NEW f \in setup.marks, Decorate(c, n, f)
    PROVE  FieldsInv'
<1>1. PICK copies : copies = call[c].copies
  OBVIOUS
<1>2. PICK p : p = copies[n].fields
  OBVIOUS
<1>3. PICK m : m = [copies[n] EXCEPT !.added = f]
  OBVIOUS
<1>4. PICK after : after = [copies EXCEPT ![n] = m]
  OBVIOUS
<1>5. /\ call[c].pc = "writing" /\ Processes(c) /\ n \in DOMAIN copies
      /\ p # Nil /\ copies[n].added = Empty
      /\ heap' = [heap EXCEPT ![p] = Over(heap[p], f)]
  BY <1>1, <1>2 DEF Decorate, Processes
<1>6. call'[c].pc = "writing" /\ call'[c].fields = call[c].fields /\ call'[c].copies = after
  BY <1>1, <1>3, <1>4 DEF Decorate, IInv, CallInv, CallRecord
<1>7. Watch /\ asked' = asked /\ Grows(c) /\ Running(c) /\ Running(c)'
  BY <1>5, <1>6, WatchGrows, CallQuiet DEF Decorate, Processing, Running, Resting
<1>8. seen[c] \subseteq seen'[c]
  BY <1>7 DEF Grows
<1>9. /\ copies \in Seq(CopyType) /\ call[c].fields \in Locations \cup {Nil}
      /\ \A i \in DOMAIN copies : i \in 1..MaxCopies /\ copies[i] \in CopyType
  BY <1>1, CopiesAre
<1>10. heap \in [Locations -> Maps] /\ asked[c].fields \in Maps \cup {Nil}
       /\ Fielding(c) /\ Holds(c)
  BY DEF FieldsInv, Fielding
<1>11. p = CopyMap(c, n) /\ p \in Locations
  BY <1>1, <1>2, <1>5, <1>10, LocationsDiffer DEF Holds
<1>12. f \in Maps
  BY SetupsAssumption, ContentsAreMaps DEF SetupsAssumption, IInv, IsSetup
<1>13. heap[p] \in Maps
  BY <1>10, <1>11
<1>14. PICK g \in seen[c] : asked[c].fields # Nil /\ Carrying(c, g)
  BY <1>1, <1>2, <1>5, <1>10 DEF Fielding, Late, Bare
<1>15. PICK want : want = Merged(c, g)
  OBVIOUS
<1>16. heap[p] = want
  <2>1. Carried(copies[n]) = Over(want, Empty)
    BY <1>1, <1>5, <1>14, <1>15 DEF Carrying
  <2>2. heap[p] = Over(want, Empty)
    BY <1>2, <1>5, <2>1 DEF Carried
  <2>3. At(call[c].fields) = want /\ call[c].fields # Nil
    BY <1>7, <1>14, <1>15 DEF Carrying
  <2>4. want \in Maps
    BY <1>9, <1>10, <2>3, AtIs
  <2>5. QED
    BY <2>2, <2>4, OverNothing
<1>17. PICK v : v = Over(want, f)
  OBVIOUS
<1>18. v \in Maps /\ heap' = [heap EXCEPT ![p] = v]
  BY <1>5, <1>12, <1>13, <1>16, <1>17, OverIsMap
<1>19. heap' \in [Locations -> Maps] /\ heap'[p] = v
       /\ \A q \in Locations : q # p => heap'[q] = heap[q]
  BY <1>10, <1>11, <1>18
<1>20. Merged(c, g)' = want
  BY <1>7, <1>15 DEF Merged
<1>21. At(call[c].fields)' = want /\ call[c].fields # Nil
  <2>1. At(call[c].fields) = want /\ call[c].fields # Nil
    BY <1>7, <1>14, <1>15 DEF Carrying
  <2>2. call[c].fields # p
    BY <1>10, <1>11, HeldElsewhere
  <2>3. heap'[call[c].fields] = heap[call[c].fields]
    BY <1>9, <1>19, <2>1, <2>2
  <2>4. QED
    BY <1>6, <2>1, <2>3 DEF At
<1>22. /\ DOMAIN after = DOMAIN copies
       /\ \A i \in DOMAIN copies : after[i] = IF i = n THEN m ELSE copies[i]
       /\ m.fields = p /\ m.added = f
  BY <1>2, <1>3, <1>4, <1>5, <1>9 DEF CopyType
<1>23. ASSUME NEW i \in DOMAIN copies
       PROVE  after[i].fields # Nil /\ heap'[after[i].fields] = Over(want, after[i].added)
  <2>1. CASE i = n
    BY <1>5, <1>17, <1>19, <1>22, <2>1
  <2>2. CASE i # n
    <3>1. copies[i].fields # Nil /\ Carried(copies[i]) = Over(want, copies[i].added)
      BY <1>1, <1>14, <1>15 DEF Carrying
    <3>2. copies[i].fields \in Locations
      BY <1>9, <3>1 DEF CopyType, Locations
    <3>3. copies[i].fields # p
      BY <1>1, <1>10, <1>11, <2>2, HeldElsewhere
    <3>4. heap'[copies[i].fields] = heap[copies[i].fields]
      BY <1>19, <3>2, <3>3
    <3>5. QED
      BY <1>22, <2>2, <3>1, <3>4 DEF Carried
  <2>3. QED
    BY <2>1, <2>2
<1>24. Carrying(c, g)'
  BY <1>6, <1>20, <1>21, <1>22, <1>23 DEF Carrying, Carried
<1>25. Holds(c)'
  <2>1. \A i \in DOMAIN after : after[i].fields \in {Nil, CopyMap(c, i)}
    BY <1>1, <1>10, <1>11, <1>22 DEF Holds
  <2>2. call'[c].pc \notin Early
    BY <1>6 DEF Early
  <2>3. QED
    BY <1>6, <1>10, <2>1, <2>2 DEF Holds
<1>26. Fielding(c)'
  BY <1>6, <1>7, <1>8, <1>14, <1>24, <1>25 DEF Fielding, Early
<1>27. Writes(p, v)
  BY <1>18 DEF Writes
<1>28. \A d \in Callers : d # c => Fielding(d)'
  BY <1>5, <1>11, <1>27, OthersFields
<1>29. QED
  BY <1>7, <1>10, <1>19, <1>26, <1>28 DEF FieldsInv

LEMMA ProcessesFields ==
    ASSUME IInv, IInv', RouteInv, FieldsInv, NEW c \in Callers, Processes(c)
    PROVE  FieldsInv'
<1>1. ASSUME NEW pc, Goes(c, pc), heap' = heap,
             \/ call[c].pc \in Early /\ pc \in Early
             \/ call[c].pc \in Late /\ pc \in Late
      PROVE  FieldsInv'
  <2>1. /\ call'[c].pc = pc /\ call'[c].fields = call[c].fields
        /\ call'[c].copies = call[c].copies
    BY <1>1 DEF Goes, IInv, CallInv, CallRecord
  <2>2. QED
    BY <1>1, <2>1, QuietFields
<1>2. CASE ReadNames(c)
  <2>1. /\ call[c].pc = "begun" /\ call'[c].pc = "named" /\ call'[c].fields = call[c].fields
        /\ call'[c].copies = call[c].copies /\ heap' = heap
    <3>1. PICK names : call' = [call EXCEPT ![c].pc = "named", ![c].names = names]
      BY <1>2 DEF ReadNames
    <3>2. call[c].pc = "begun" /\ heap' = heap
      BY <1>2 DEF ReadNames
    <3>3. QED
      BY <3>1, <3>2 DEF IInv, CallInv, CallRecord
  <2>2. QED
    BY <1>2, <2>1, QuietFields DEF Early, Processes
<1>3. CASE MergeTags(c)
  <2>1. /\ call[c].pc = "merged" /\ call'[c].pc = "tagged" /\ call'[c].fields = call[c].fields
        /\ call'[c].copies = call[c].copies /\ heap' = heap
    BY <1>3 DEF MergeTags, IInv, CallInv, CallRecord
  <2>2. QED
    BY Processes(c), <2>1, QuietFields DEF Late
<1>4. CASE ReadOutputs(c)
  <2>1. /\ call[c].pc = "tagged" /\ call'[c].pc = "gathering" /\ call'[c].fields = call[c].fields
        /\ call'[c].copies = call[c].copies /\ heap' = heap
    BY <1>4 DEF ReadOutputs, IInv, CallInv, CallRecord
  <2>2. QED
    BY Processes(c), <2>1, QuietFields DEF Late, Iterating
<1>5. CASE Skip(c)
  <2>1. /\ call[c].pc = "gathering" /\ call'[c].pc = "gathering" /\ call'[c].fields = call[c].fields
        /\ call'[c].copies = call[c].copies /\ heap' = heap
    BY <1>5 DEF Skip, IInv, CallInv, CallRecord
  <2>2. QED
    BY Processes(c), <2>1, QuietFields DEF Late, Iterating
<1>6. CASE Gathered(c)
  BY <1>1, <1>6 DEF Gathered, Late, Iterating
<1>7. CASE LoadMatchers(c)
  <2>1. call[c].pc = "loading" /\ heap' = heap /\ \E pc \in {"gathering", "sizing"} : Goes(c, pc)
    BY <1>7 DEF LoadMatchers
  <2>2. QED
    BY <1>1, <2>1 DEF Late, Iterating
<1>8. CASE CheckSize(c)
  <2>1. call[c].pc = "sizing" /\ heap' = heap /\ \E pc \in {"gathering", "storing"} : Goes(c, pc)
    BY <1>8 DEF CheckSize
  <2>2. QED
    BY <1>1, <2>1 DEF Late, Iterating
<1>9. CASE StoreMatchers(c)
  <2>1. call[c].pc = "storing" /\ heap' = heap /\ \E pc \in {"gathering", "counting"} : Goes(c, pc)
    BY <1>9 DEF StoreMatchers
  <2>2. QED
    BY <1>1, <2>1 DEF Late, Iterating
<1>10. CASE CountMatchers(c)
  BY <1>1, <1>10 DEF CountMatchers, Late, Iterating
<1>11. CASE Finish(c)
  BY <1>1, <1>11 DEF Finish, Late, Iterating
<1>12. QED
  BY <1>2, <1>3, <1>4, <1>5, <1>6, <1>7, <1>8, <1>9, <1>10, <1>11, CheckFieldsFields,
     MergeFieldsFields, CopyFields, DecorateFields DEF Processes

LEMMA FieldsStep ==
    ASSUME IInv, IInv', RouteInv, FieldsInv, [Next]_vars
    PROVE  FieldsInv'
<1>1. CASE Configures
  BY <1>1, ConfiguresFields
<1>2. ASSUME NEW c \in Callers, Calls(c)
      PROVE  FieldsInv'
  BY <1>2, PrintFields, OutputFields, AgainFields DEF Calls
<1>3. ASSUME NEW c \in Callers, Processes(c)
      PROVE  FieldsInv'
  BY <1>3, ProcessesFields
<1>4. CASE UNCHANGED vars
  <2>1. UNCHANGED <<asked, call, seen, heap, fieldsOf, tagsOf, outputsOf, arrays>>
    BY <1>4 DEF vars, family, containers
  <2>2. ASSUME NEW c \in Callers PROVE Fielding(c)'
    <3>1. Fielding(c) /\ Routing(c)
      BY DEF FieldsInv, RouteInv
    <3>2. LoggerOf(c)' = LoggerOf(c)
      BY <2>1 DEF LoggerOf, GlobalFields, GlobalTags, ItsOutputs
    <3>3. Grows(c)
      BY <2>1, <3>1, <3>2 DEF Grows, Routing, Running
    <3>4. Untouched(c)
      BY <2>1 DEF Untouched
    <3>5. QED
      BY <2>1, <3>1, <3>3, <3>4, FieldingKept
  <2>3. QED
    BY <2>1, <2>2 DEF FieldsInv
<1>5. QED
  BY <1>1, <1>2, <1>3, <1>4 DEF Next

LEMMA FieldsInit == ASSUME Init PROVE FieldsInv
<1>1. setup.fields \in Contents /\ setup.map \in Contents /\ Empty \in Contents
  BY SetupsAssumption, EmptyShape DEF SetupsAssumption, Init, IsSetup
<1>2. heap \in [Locations -> Maps]
  BY <1>1, ContentsAreMaps DEF Init
<1>3. ASSUME NEW c \in Callers PROVE asked[c].fields = Nil /\ Fielding(c)
  <2>1. call[c].pc = "idle" /\ call[c].fields = Nil /\ call[c].copies = <<>>
        /\ asked[c].fields = Nil
    BY DEF Init, NoCall
  <2>2. QED
    BY <2>1 DEF Fielding, Holds, Early, Late, Iterating, MapsGiven
<1>4. QED
  BY <1>2, <1>3 DEF FieldsInv

LEMMA FieldsRight ==
    ASSUME IInv, FieldsInv, NEW c \in Callers, Gone(c)
    PROVE  RightFields(c)
<1>1. Fielding(c) /\ call[c].pc \in Late
  BY DEF FieldsInv, Gone, Late
<1>2. CASE asked[c].fields = Nil /\ Bare(c)
  BY <1>2 DEF RightFields, Bare
<1>3. ASSUME asked[c].fields # Nil, NEW g \in seen[c], Carrying(c, g)
      PROVE  RightFields(c)
  BY <1>3 DEF RightFields, Carrying, Merged
<1>4. QED
  BY <1>1, <1>2, <1>3 DEF Fielding

\* And with the fields its caller meant, whatever list, map or context they
\* came from, over the global ones of one moment of the call; nobody else's
\* message, option or output shows in them.
THEOREM MessagesAreDelivered == Spec => []Delivered
<1>1. Init => FieldsInv
  BY FieldsInit
<1>2. IInv /\ IInv' /\ RouteInv /\ FieldsInv /\ [Next]_vars => FieldsInv'
  BY FieldsStep
<1>3. IInv /\ FieldsInv /\ Routed => Delivered
  BY FieldsRight DEF Delivered
<1>4. Spec => []RouteInv
  <2>1. IInv /\ IInv' /\ RouteInv /\ [Next]_vars => RouteInv'
    BY LoggersAssumption, RouteStep
  <2>2. QED
    BY RouteInit, <2>1, Inductive, PTL DEF Spec
<1>5. QED
  BY <1>1, <1>2, <1>3, <1>4, Inductive, MessagesReachTheirOutputs, PTL DEF Spec

=============================================================================
