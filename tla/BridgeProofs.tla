---------------------------- MODULE BridgeProofs ----------------------------
(***************************************************************************)
(* What is proved about Bridge: handlers stay apart, the slog side gets    *)
(* each message once and true, and handlers and the fields of records are  *)
(* what their derivations say.  The last is by a recursion over groups,    *)
(* which exists because attributes are finite: what a step of appendAttr   *)
(* takes and what it leaves are together always the same.                  *)
(***************************************************************************)
EXTENDS Bridge, SequenceTheorems, WellFoundedInduction, TLAPS

----------------------------------------------------------------------------
(* Memories and slices, whatever the arrays hold.                          *)

IsMemory(m) == \E S : m \in Seq(S)

Shaped(s) == s = [at |-> s.at, len |-> s.len, cap |-> s.cap]

Seated(m, s) == s.at \in 0..Len(m) /\ (s.len = 0 \/ s.at # 0)

\* The arrays of m, but for one, are those of n.
Keeps(m, n, but) ==
    /\ Len(m) <= Len(n)
    /\ \A i \in 1..Len(m) : i # but => n[i] = m[i]

LEMMA Undisturbed ==
  ASSUME NEW m, IsMemory(m), NEW n, IsMemory(n), NEW s, Seated(m, s),
         NEW but, Keeps(m, n, but), s.at # but \/ s.len = 0
  PROVE  Seated(n, s) /\ Elements(n, s) = Elements(m, s)
<1>1. Len(m) \in Nat /\ Len(n) \in Nat
  BY DEF IsMemory
<1>2. s.len # 0 => n[s.at] = m[s.at]
  BY <1>1 DEF Seated, Keeps
<1>3. Elements(n, s) = Elements(m, s)
  BY <1>2 DEF Elements
<1>4. Seated(n, s)
  BY <1>1 DEF Seated, Keeps
<1>. QED BY <1>3, <1>4

LEMMA AppendMemory ==
  ASSUME NEW m, IsMemory(m), NEW e
  PROVE  /\ IsMemory(Append(m, e)) /\ Len(m) \in Nat
         /\ Len(Append(m, e)) = Len(m) + 1
         /\ \A i \in 1..Len(m) : Append(m, e)[i] = m[i]
         /\ Append(m, e)[Len(m) + 1] = e
<1>1. PICK S : m \in Seq(S)
  BY DEF IsMemory
<1>2. m \in Seq(S \cup {e}) /\ e \in S \cup {e}
  BY <1>1
<1>3. Append(m, e) \in Seq(S \cup {e})
  BY <1>2
<1>. QED BY <1>2, <1>3 DEF IsMemory

LEMMA StoredApart ==
  ASSUME NEW m, IsMemory(m), NEW e, NEW n
  PROVE  /\ IsMemory(Stored(m, e)) /\ Len(Stored(m, e)) = Len(m) + 1
         /\ \A but : Keeps(m, Stored(m, e), but)
         /\ Len(m) \in Nat
         /\ Fresh(m, e, n).at = Len(m) + 1 /\ Shaped(Fresh(m, e, n))
  BY AppendMemory DEF Stored, Fresh, Keeps, Shaped

LEMMA AppendedApart ==
  ASSUME NEW m, IsMemory(m), NEW s, Shaped(s), s.at \in 1..Len(m), NEW v
  PROVE  /\ IsMemory(Appended(m, s, v))
         /\ Keeps(m, Appended(m, s, v), s.at)
         /\ Extended(m, s).at \in {s.at, Len(m) + 1}
         /\ Extended(m, s).at \in 1..Len(Appended(m, s, v))
         /\ Shaped(Extended(m, s))
<1>0. Len(m) \in Nat
  BY DEF IsMemory
<1>1. CASE Room(s)
  <2> DEFINE w == Put(m[s.at], s.len + 1, v)
  <2>1. PICK S : m \in Seq(S)
    BY DEF IsMemory
  <2>2. m \in Seq(S \cup {w}) /\ w \in S \cup {w}
    BY <2>1
  <2>3. Appended(m, s, v) = [m EXCEPT ![s.at] = w]
    BY <1>1 DEF Appended
  <2> HIDE DEF w
  <2>4. /\ [m EXCEPT ![s.at] = w] \in Seq(S \cup {w})
        /\ Len([m EXCEPT ![s.at] = w]) = Len(m)
        /\ \A i \in 1..Len(m) : i # s.at => [m EXCEPT ![s.at] = w][i] = m[i]
    BY <2>2
  <2>5. Extended(m, s) = [at |-> s.at, len |-> s.len + 1, cap |-> s.cap]
    BY <1>1 DEF Extended, Shaped
  <2>. QED BY <1>0, <2>3, <2>4, <2>5 DEF IsMemory, Keeps, Shaped
<1>2. CASE ~Room(s)
  <2>1. Appended(m, s, v) = Append(m, Append(Elements(m, s), v))
    BY <1>2 DEF Appended
  <2>2. Extended(m, s) = [at |-> Len(m) + 1, len |-> s.len + 1,
                          cap |-> IF s.cap = 0 THEN 1 ELSE 2 * s.cap]
    BY <1>2 DEF Extended
  <2>. QED BY <1>0, <2>1, <2>2, AppendMemory DEF Keeps, Shaped
<1>. QED BY <1>1, <1>2

----------------------------------------------------------------------------
(* Handlers stay apart: nobody appends to the slices of a handler, and no  *)
(* two goroutines append to the same array.                                *)

Deriving == {c \in Callers : pc[c] = "deriving"}

Memories ==
    /\ IsMemory(arrays) /\ IsMemory(names) /\ IsMemory(handlers) /\ IsMemory(meant)
    /\ Len(meant) = Len(handlers)
    /\ DOMAIN mine = Callers /\ DOMAIN pc = Callers

Kept ==
    \A h \in 1..Len(handlers) :
        /\ Seated(arrays, handlers[h].attrs) /\ Seated(names, handlers[h].groups)
        /\ AttrsOf(h) = meant[h].attrs /\ GroupsOf(h) = meant[h].groups

Owned ==
    \A c \in Deriving :
        /\ mine[c] = [attrs |-> mine[c].attrs, groups |-> mine[c].groups]
        /\ Shaped(mine[c].attrs)
        /\ mine[c].attrs.at \in 1..Len(arrays) /\ Seated(names, mine[c].groups)
        /\ \A h \in 1..Len(handlers) : handlers[h].attrs.at # mine[c].attrs.at
        /\ \A d \in Deriving : d # c => mine[d].attrs.at # mine[c].attrs.at

ApartInv == Memories /\ Kept /\ Owned

LEMMA ApartInit == Init => ApartInv
<1> SUFFICES ASSUME Init PROVE ApartInv
  OBVIOUS
<1>1. /\ arrays = <<>> /\ names = <<>> /\ handlers = <<NoSlices>>
      /\ meant = <<Means(<<>>, <<>>)>> /\ Deriving = {}
      /\ DOMAIN mine = Callers /\ DOMAIN pc = Callers
  BY DEF Init, Deriving
<1>2. /\ arrays \in Seq({1}) /\ names \in Seq({1}) /\ handlers \in Seq({NoSlices})
      /\ meant \in Seq({Means(<<>>, <<>>)}) /\ Len(meant) = 1 /\ Len(handlers) = 1
  BY <1>1
<1>3. Memories
  BY <1>1, <1>2 DEF Memories, IsMemory
<1>4. Kept
  BY <1>1 DEF Kept, Seated, AttrsOf, GroupsOf, Elements, NoSlices, NilSlice, Means
<1>. QED BY <1>1, <1>3, <1>4 DEF ApartInv, Owned

\* A goroutine that begins gets arrays of its own.
LEMMA WithAttrsApart == ASSUME ApartInv, NEW c \in Callers, WithAttrs(c) PROVE ApartInv'
<1>1. PICK h \in DOMAIN handlers, list \in setup.lists :
         /\ mine' = [mine EXCEPT ![c] = Clone(h, Len(list), 0)]
         /\ arrays' = Stored(arrays, AttrsOf(h)) /\ names' = Stored(names, GroupsOf(h))
  BY DEF WithAttrs, Copied
<1>2. handlers' = handlers /\ meant' = meant /\ pc' = [pc EXCEPT ![c] = "deriving"]
  BY DEF WithAttrs, Goto
<1>3. mine'[c] = [attrs |-> Fresh(arrays, AttrsOf(h), Len(list)),
                  groups |-> Fresh(names, GroupsOf(h), 0)]
  BY <1>1 DEF ApartInv, Memories, Clone
<1>4. \A d \in Callers : d # c => mine'[d] = mine[d]
  BY <1>1 DEF ApartInv, Memories
<1>5. Deriving' = Deriving \cup {c}
  BY <1>2 DEF ApartInv, Memories, Deriving
<1>6. /\ IsMemory(arrays') /\ Len(arrays) \in Nat /\ Len(arrays') = Len(arrays) + 1
      /\ Keeps(arrays, arrays', 0)
      /\ mine'[c].attrs.at = Len(arrays) + 1 /\ Shaped(mine'[c].attrs)
  BY <1>1, <1>3, StoredApart DEF ApartInv, Memories
<1>7. /\ IsMemory(names') /\ Len(names) \in Nat /\ Len(names') = Len(names) + 1
      /\ Keeps(names, names', 0) /\ mine'[c].groups.at = Len(names) + 1
  BY <1>1, <1>3, StoredApart DEF ApartInv, Memories
<1>8. Memories'
  BY <1>1, <1>2, <1>6, <1>7 DEF ApartInv, Memories
<1>9. ASSUME NEW s, Seated(arrays, s)
      PROVE  Seated(arrays', s) /\ Elements(arrays', s) = Elements(arrays, s)
  <2>1. s.at # 0 \/ s.len = 0
    BY <1>9 DEF Seated
  <2>. QED BY <1>6, <1>9, <2>1, Undisturbed DEF ApartInv, Memories
<1>10. ASSUME NEW s, Seated(names, s)
       PROVE  Seated(names', s) /\ Elements(names', s) = Elements(names, s)
  <2>1. s.at # 0 \/ s.len = 0
    BY <1>10 DEF Seated
  <2>. QED BY <1>7, <1>10, <2>1, Undisturbed DEF ApartInv, Memories
<1>11. Kept'
  BY <1>2, <1>9, <1>10 DEF ApartInv, Kept, AttrsOf, GroupsOf
<1>12. ASSUME NEW d \in Deriving', d # c
       PROVE  /\ mine'[d] = mine[d] /\ d \in Deriving
              /\ mine[d].attrs.at \in 1..Len(arrays')
              /\ mine[d].attrs.at # Len(arrays) + 1
              /\ Seated(names', mine[d].groups)
  <2>1. d \in Deriving /\ d \in Callers
    BY <1>5, <1>12 DEF Deriving
  <2>2. mine[d].attrs.at \in 1..Len(arrays) /\ Seated(names, mine[d].groups)
    BY <2>1 DEF ApartInv, Owned
  <2>3. Seated(names', mine[d].groups)
    BY <1>10, <2>2
  <2>. QED BY <1>4, <1>6, <1>12, <2>1, <2>2, <2>3
<1>13. \A k \in 1..Len(handlers) : handlers[k].attrs.at # Len(arrays) + 1
  BY <1>6 DEF ApartInv, Kept, Seated
<1>14. Seated(names', mine'[c].groups)
  BY <1>7 DEF Seated
<1>15. Owned'
  <2> SUFFICES ASSUME NEW d \in Deriving'
      PROVE /\ mine'[d] = [attrs |-> mine'[d].attrs, groups |-> mine'[d].groups]
            /\ Shaped(mine'[d].attrs)
            /\ mine'[d].attrs.at \in 1..Len(arrays') /\ Seated(names', mine'[d].groups)
            /\ \A k \in 1..Len(handlers') : handlers'[k].attrs.at # mine'[d].attrs.at
            /\ \A e \in Deriving' : e # d => mine'[e].attrs.at # mine'[d].attrs.at
    BY DEF Owned
  <2>1. CASE d = c
    BY <1>2, <1>3, <1>6, <1>12, <1>13, <1>14, <2>1
  <2>2. CASE d # c
    <3>1. /\ mine[d] = [attrs |-> mine[d].attrs, groups |-> mine[d].groups]
          /\ Shaped(mine[d].attrs)
          /\ \A k \in 1..Len(handlers) : handlers[k].attrs.at # mine[d].attrs.at
          /\ \A e \in Deriving : e # d => mine[e].attrs.at # mine[d].attrs.at
      BY <1>12, <2>2 DEF ApartInv, Owned
    <3>. QED BY <1>2, <1>6, <1>12, <2>2, <3>1
  <2>. QED BY <2>1, <2>2
<1>. QED BY <1>8, <1>11, <1>15 DEF ApartInv

\* A field is appended to the slice of the handler being made.
LEMMA AppendAttrApart == ASSUME ApartInv, NEW c \in Callers, AppendAttr(c) PROVE ApartInv'
<1>1. /\ names' = names /\ handlers' = handlers /\ meant' = meant /\ pc' = pc
      /\ Deriving' = Deriving
  BY DEF AppendAttr, Deriving
<1>2. CASE UNCHANGED <<arrays, mine>>
  BY <1>1, <1>2 DEF ApartInv, Memories, Kept, Owned, AttrsOf, GroupsOf
<1>3. ASSUME NEW v, c \in Deriving,
             arrays' = Appended(arrays, mine[c].attrs, v),
             mine' = [mine EXCEPT ![c].attrs = Extended(arrays, @)]
      PROVE  ApartInv'
  <2>1. /\ IsMemory(arrays) /\ Shaped(mine[c].attrs) /\ mine[c].attrs.at \in 1..Len(arrays)
        /\ mine[c] = [attrs |-> mine[c].attrs, groups |-> mine[c].groups]
    BY <1>3 DEF ApartInv, Memories, Owned
  <2>2. /\ IsMemory(arrays') /\ Keeps(arrays, arrays', mine[c].attrs.at)
        /\ Extended(arrays, mine[c].attrs).at \in {mine[c].attrs.at, Len(arrays) + 1}
        /\ Extended(arrays, mine[c].attrs).at \in 1..Len(arrays')
        /\ Shaped(Extended(arrays, mine[c].attrs))
    BY <1>3, <2>1, AppendedApart
  <2>3. /\ mine'[c].attrs = Extended(arrays, mine[c].attrs)
        /\ mine'[c].groups = mine[c].groups
        /\ mine'[c] = [attrs |-> mine'[c].attrs, groups |-> mine'[c].groups]
    BY <1>3, <2>1 DEF ApartInv, Memories
  <2>4. \A d \in Callers : d # c => mine'[d] = mine[d]
    BY <1>3 DEF ApartInv, Memories
  <2>5. Memories'
    BY <1>1, <1>3, <2>2 DEF ApartInv, Memories
  <2>6. ASSUME NEW h \in 1..Len(handlers)
        PROVE  /\ Seated(arrays', handlers[h].attrs)
               /\ Elements(arrays', handlers[h].attrs) = Elements(arrays, handlers[h].attrs)
    <3>1. Seated(arrays, handlers[h].attrs) /\ handlers[h].attrs.at # mine[c].attrs.at
      BY <1>3 DEF ApartInv, Kept, Owned
    <3>. QED BY <2>1, <2>2, <3>1, Undisturbed
  <2>7. Kept'
    BY <1>1, <2>6 DEF ApartInv, Kept, AttrsOf, GroupsOf
  <2>8. Len(arrays) \in Nat /\ Len(arrays') \in Nat /\ Len(arrays) <= Len(arrays')
    BY <2>1, <2>2 DEF IsMemory, Keeps
  <2>9. ASSUME NEW d \in Deriving
        PROVE  /\ Seated(names, mine[d].groups) /\ d \in Callers
               /\ mine[d] = [attrs |-> mine[d].attrs, groups |-> mine[d].groups]
               /\ Shaped(mine[d].attrs) /\ mine[d].attrs.at \in 1..Len(arrays)
               /\ \A h \in 1..Len(handlers) : handlers[h].attrs.at # mine[d].attrs.at
               /\ \A e \in Deriving : e # d => mine[e].attrs.at # mine[d].attrs.at
    BY DEF ApartInv, Owned, Deriving
  <2>10. \A h \in 1..Len(handlers) : handlers[h].attrs.at # Len(arrays) + 1
    BY <2>8 DEF ApartInv, Kept, Seated
  <2>11. Owned'
    <3> SUFFICES ASSUME NEW d \in Deriving
        PROVE /\ mine'[d] = [attrs |-> mine'[d].attrs, groups |-> mine'[d].groups]
              /\ Shaped(mine'[d].attrs)
              /\ mine'[d].attrs.at \in 1..Len(arrays') /\ Seated(names, mine'[d].groups)
              /\ \A h \in 1..Len(handlers) : handlers[h].attrs.at # mine'[d].attrs.at
              /\ \A e \in Deriving : e # d => mine'[e].attrs.at # mine'[d].attrs.at
      BY <1>1 DEF Owned
    <3>1. CASE d = c
      <4>1. mine'[c].attrs.at \in {mine[c].attrs.at, Len(arrays) + 1}
        BY <2>2, <2>3
      <4>2. ASSUME NEW e \in Deriving, e # c PROVE mine'[e].attrs.at # mine'[c].attrs.at
        <5>1. /\ mine'[e] = mine[e] /\ mine[e].attrs.at # mine[c].attrs.at
              /\ mine[e].attrs.at \in 1..Len(arrays)
          BY <1>3, <2>4, <2>9, <4>2
        <5>. QED BY <2>8, <4>1, <5>1
      <4>3. \A h \in 1..Len(handlers) : handlers[h].attrs.at # mine'[c].attrs.at
        BY <1>3, <2>9, <2>10, <4>1
      <4>. QED BY <1>3, <2>2, <2>3, <2>9, <3>1, <4>2, <4>3
    <3>2. CASE d # c
      <4>1. mine'[d] = mine[d] /\ mine[d].attrs.at # mine[c].attrs.at
        BY <1>3, <2>4, <2>9, <3>2
      <4>2. mine'[c].attrs.at # mine[d].attrs.at
        <5>1. mine[d].attrs.at \in 1..Len(arrays)
          BY <2>9
        <5>. QED BY <2>2, <2>3, <2>8, <4>1, <5>1
      <4>3. \A e \in Deriving : e # d => mine'[e].attrs.at # mine[d].attrs.at
        BY <2>4, <2>9, <4>2
      <4>. QED BY <2>8, <2>9, <4>1, <4>3
    <3>. QED BY <3>1, <3>2
  <2>. QED BY <2>5, <2>7, <2>11 DEF ApartInv
<1>4. CASE pc[c] = "recording"
  <2>1. UNCHANGED <<arrays, mine>>
    BY <1>4 DEF AppendAttr
  <2>. QED BY <1>2, <2>1
<1>5. CASE pc[c] = "deriving"
  <2>1. UNCHANGED <<arrays, mine>> \/ \E v :
            /\ arrays' = Appended(arrays, mine[c].attrs, v)
            /\ mine' = [mine EXCEPT ![c].attrs = Extended(arrays, @)]
    BY <1>5 DEF AppendAttr
  <2>2. c \in Deriving
    BY <1>5 DEF Deriving
  <2>. QED BY <1>2, <1>3, <2>1, <2>2
<1>. QED BY <1>4, <1>5 DEF AppendAttr, At

\* Nothing is done to slices.
LEMMA QuietApart ==
  ASSUME ApartInv, UNCHANGED <<arrays, names, handlers, meant>>,
         DOMAIN mine' = Callers, DOMAIN pc' = Callers, Deriving' \subseteq Deriving,
         \A d \in Deriving' : mine'[d] = mine[d]
  PROVE  ApartInv'
<1>1. Memories' /\ Kept'
  BY DEF ApartInv, Memories, Kept, AttrsOf, GroupsOf
<1>2. Owned'
  BY DEF ApartInv, Owned
<1>. QED BY <1>1, <1>2 DEF ApartInv

\* The handler that was made is nobody's to append to any more.
LEMMA ReturnedApart == ASSUME ApartInv, NEW c \in Callers, Returned(c) PROVE ApartInv'
<1>1. /\ c \in Deriving /\ handlers' = Append(handlers, mine[c])
      /\ arrays' = arrays /\ names' = names
      /\ meant' = Append(meant, Means(Elements(arrays, mine[c].attrs),
                                      Elements(names, mine[c].groups)))
      /\ pc' = [pc EXCEPT ![c] = "idle"] /\ mine' = [mine EXCEPT ![c] = NoSlices]
  BY DEF Returned, At, Deriving, Leave, Goto
<1>2. /\ IsMemory(handlers') /\ IsMemory(meant')
      /\ Len(handlers) \in Nat /\ Len(handlers') = Len(handlers) + 1
      /\ Len(meant') = Len(handlers) + 1
      /\ \A h \in 1..Len(handlers) : handlers'[h] = handlers[h] /\ meant'[h] = meant[h]
      /\ handlers'[Len(handlers) + 1] = mine[c]
      /\ meant'[Len(handlers) + 1] = Means(Elements(arrays, mine[c].attrs),
                                           Elements(names, mine[c].groups))
  BY <1>1, AppendMemory DEF ApartInv, Memories
<1>3. Deriving' = Deriving \ {c} /\ \A d \in Deriving' : mine'[d] = mine[d]
  BY <1>1 DEF ApartInv, Memories, Deriving
<1>4. Memories'
  BY <1>1, <1>2 DEF ApartInv, Memories
<1>5. /\ IsMemory(arrays) /\ mine[c].attrs.at \in 1..Len(arrays)
      /\ Seated(names, mine[c].groups)
  BY <1>1 DEF ApartInv, Memories, Owned
<1>6. Seated(arrays, mine[c].attrs)
  BY <1>5 DEF Seated, IsMemory
<1>7. Kept'
  <2> SUFFICES ASSUME NEW h \in 1..Len(handlers')
      PROVE /\ Seated(arrays, handlers'[h].attrs) /\ Seated(names, handlers'[h].groups)
            /\ Elements(arrays, handlers'[h].attrs) = meant'[h].attrs
            /\ Elements(names, handlers'[h].groups) = meant'[h].groups
    BY <1>1 DEF Kept, AttrsOf, GroupsOf
  <2>1. CASE h = Len(handlers) + 1
    BY <1>2, <1>5, <1>6, <2>1 DEF Means
  <2>2. CASE h \in 1..Len(handlers)
    BY <1>2, <2>2 DEF ApartInv, Kept, AttrsOf, GroupsOf
  <2>. QED BY <1>2, <2>1, <2>2
<1>8. Owned'
  <2> SUFFICES ASSUME NEW d \in Deriving'
      PROVE /\ mine[d] = [attrs |-> mine[d].attrs, groups |-> mine[d].groups]
            /\ Shaped(mine[d].attrs)
            /\ mine[d].attrs.at \in 1..Len(arrays) /\ Seated(names, mine[d].groups)
            /\ \A h \in 1..Len(handlers') : handlers'[h].attrs.at # mine[d].attrs.at
            /\ \A e \in Deriving' : e # d => mine[e].attrs.at # mine[d].attrs.at
    BY <1>1, <1>3 DEF Owned
  <2>1. d \in Deriving /\ d # c
    BY <1>3
  <2>2. \A h \in 1..Len(handlers') : h \in 1..Len(handlers) \/ h = Len(handlers) + 1
    BY <1>2
  <2>. QED BY <1>1, <1>2, <1>3, <2>1, <2>2 DEF ApartInv, Owned
<1>. QED BY <1>4, <1>7, <1>8 DEF ApartInv

\* The handler of a group has arrays of its own from the beginning.
LEMMA WithGroupApart == ASSUME ApartInv, NEW c \in Callers, WithGroup(c) PROVE ApartInv'
<1>1. PICK h \in DOMAIN handlers, name \in setup.names :
         LET copy == Clone(h, 0, 1)
             stored == Stored(names, GroupsOf(h))
             new == [copy EXCEPT !.groups = Extended(stored, @)]
         IN /\ arrays' = Stored(arrays, AttrsOf(h))
            /\ names' = Appended(stored, copy.groups, name)
            /\ handlers' = Append(handlers, new)
            /\ meant' = Append(meant, Means(Elements(arrays', new.attrs),
                                            Elements(names', new.groups)))
  BY DEF WithGroup, Copied
<1> DEFINE stored == Stored(names, GroupsOf(h))
           ownAttrs == Fresh(arrays, AttrsOf(h), 0)
           copied == Fresh(names, GroupsOf(h), 1)
           ownGroups == Extended(stored, copied)
           new == [attrs |-> ownAttrs, groups |-> ownGroups]
<1>2. /\ arrays' = Stored(arrays, AttrsOf(h)) /\ names' = Appended(stored, copied, name)
      /\ handlers' = Append(handlers, new)
      /\ meant' = Append(meant, Means(Elements(arrays', ownAttrs), Elements(names', ownGroups)))
  <2>1. Clone(h, 0, 1) = [attrs |-> ownAttrs, groups |-> copied]
    BY DEF Clone
  <2>2. [Clone(h, 0, 1) EXCEPT !.groups = Extended(stored, @)] = new
    BY <2>1
  <2>. QED BY <1>1, <2>1, <2>2
<1>3. /\ IsMemory(arrays) /\ IsMemory(names) /\ IsMemory(handlers) /\ IsMemory(meant)
      /\ Len(meant) = Len(handlers)
  BY DEF ApartInv, Memories
<1>4. /\ IsMemory(arrays') /\ Len(arrays) \in Nat /\ Len(arrays') = Len(arrays) + 1
      /\ Keeps(arrays, arrays', 0) /\ ownAttrs.at = Len(arrays) + 1
  BY <1>2, <1>3, StoredApart
<1>5. /\ IsMemory(stored) /\ Len(names) \in Nat /\ Len(stored) = Len(names) + 1
      /\ Keeps(names, stored, 0) /\ copied.at = Len(names) + 1 /\ Shaped(copied)
  BY <1>3, StoredApart
<1> HIDE DEF stored, ownAttrs, copied
<1>6. /\ IsMemory(names') /\ Keeps(stored, names', Len(names) + 1)
      /\ ownGroups.at \in 1..Len(names')
  <2>1. copied.at \in 1..Len(stored)
    BY <1>5
  <2>. QED BY <1>2, <1>5, <2>1, AppendedApart
<1> HIDE DEF ownGroups
<1>7. Keeps(names, names', 0) /\ Len(names') \in Nat
  BY <1>5, <1>6 DEF Keeps, IsMemory
<1>8. /\ IsMemory(handlers') /\ Len(handlers) \in Nat /\ Len(handlers') = Len(handlers) + 1
      /\ \A k \in 1..Len(handlers) : handlers'[k] = handlers[k]
      /\ handlers'[Len(handlers) + 1] = new
  BY <1>2, <1>3, AppendMemory
<1>9. /\ IsMemory(meant') /\ Len(meant') = Len(handlers) + 1
      /\ \A k \in 1..Len(handlers) : meant'[k] = meant[k]
      /\ meant'[Len(handlers) + 1] = Means(Elements(arrays', ownAttrs), Elements(names', ownGroups))
  BY <1>2, <1>3, AppendMemory
<1>10. pc' = pc /\ mine' = mine /\ Deriving' = Deriving
  BY DEF WithGroup, callVars, Deriving
<1>11. Memories'
  BY <1>4, <1>6, <1>8, <1>9, <1>10 DEF ApartInv, Memories
<1>12. ASSUME NEW s, Seated(arrays, s)
       PROVE  Seated(arrays', s) /\ Elements(arrays', s) = Elements(arrays, s)
  <2>1. s.at # 0 \/ s.len = 0
    BY <1>12 DEF Seated
  <2>. QED BY <1>3, <1>4, <1>12, <2>1, Undisturbed
<1>13. ASSUME NEW s, Seated(names, s)
       PROVE  Seated(names', s) /\ Elements(names', s) = Elements(names, s)
  <2>1. s.at # 0 \/ s.len = 0
    BY <1>13 DEF Seated
  <2>. QED BY <1>3, <1>6, <1>7, <1>13, <2>1, Undisturbed
<1>14. Kept'
  <2> SUFFICES ASSUME NEW k \in 1..Len(handlers')
      PROVE /\ Seated(arrays', handlers'[k].attrs) /\ Seated(names', handlers'[k].groups)
            /\ Elements(arrays', handlers'[k].attrs) = meant'[k].attrs
            /\ Elements(names', handlers'[k].groups) = meant'[k].groups
    BY DEF Kept, AttrsOf, GroupsOf
  <2>1. CASE k = Len(handlers) + 1
    <3>1. handlers'[k].attrs = ownAttrs /\ handlers'[k].groups = ownGroups
      BY <1>8, <2>1
    <3>2. Seated(arrays', ownAttrs) /\ Seated(names', ownGroups)
      BY <1>4, <1>6, <1>7 DEF Seated
    <3>. QED BY <1>9, <2>1, <3>1, <3>2 DEF Means
  <2>2. CASE k \in 1..Len(handlers)
    <3>1. /\ Seated(arrays, handlers[k].attrs) /\ Seated(names, handlers[k].groups)
          /\ Elements(arrays, handlers[k].attrs) = meant[k].attrs
          /\ Elements(names, handlers[k].groups) = meant[k].groups
      BY <2>2 DEF ApartInv, Kept, AttrsOf, GroupsOf
    <3>. QED BY <1>8, <1>9, <1>12, <1>13, <2>2, <3>1
  <2>. QED BY <1>8, <2>1, <2>2
<1>15. Owned'
  <2> SUFFICES ASSUME NEW d \in Deriving
      PROVE /\ mine[d] = [attrs |-> mine[d].attrs, groups |-> mine[d].groups]
            /\ Shaped(mine[d].attrs)
            /\ mine[d].attrs.at \in 1..Len(arrays') /\ Seated(names', mine[d].groups)
            /\ \A k \in 1..Len(handlers') : handlers'[k].attrs.at # mine[d].attrs.at
            /\ \A e \in Deriving : e # d => mine[e].attrs.at # mine[d].attrs.at
    BY <1>10 DEF Owned
  <2>1. /\ mine[d] = [attrs |-> mine[d].attrs, groups |-> mine[d].groups]
        /\ Shaped(mine[d].attrs)
        /\ mine[d].attrs.at \in 1..Len(arrays) /\ Seated(names, mine[d].groups)
        /\ \A k \in 1..Len(handlers) : handlers[k].attrs.at # mine[d].attrs.at
        /\ \A e \in Deriving : e # d => mine[e].attrs.at # mine[d].attrs.at
    BY DEF ApartInv, Owned
  <2>2. \A k \in 1..Len(handlers') : handlers'[k].attrs.at # mine[d].attrs.at
    <3>1. new.attrs.at # mine[d].attrs.at
      BY <1>4, <2>1
    <3>2. \A k \in 1..Len(handlers') : k \in 1..Len(handlers) \/ k = Len(handlers) + 1
      BY <1>8
    <3> HIDE DEF new
    <3>. QED BY <1>8, <2>1, <3>1, <3>2
  <2>. QED BY <1>4, <1>13, <2>1, <2>2
<1>. QED BY <1>11, <1>14, <1>15 DEF ApartInv

\* Calls that print or reconfigure neither begin nor end a derivation.
LEMMA PrintingApart ==
  ASSUME ApartInv, NEW c \in Callers,
         \/ Logs(c) \/ \E o \in Outputs : Writes(c, o)
  PROVE  ApartInv'
<1>1. /\ UNCHANGED <<arrays, names, handlers, meant>>
      /\ mine' = mine \/ mine' = [mine EXCEPT ![c] = NoSlices]
      /\ pc[c] # "deriving"
      /\ pc' = pc \/ \E l : l # "deriving" /\ pc' = [pc EXCEPT ![c] = l]
  <2>1. CASE Log(c)
    BY <2>1 DEF Log, At, Goto, handlerVars
  <2>2. CASE LookAtStatus(c)
    BY <2>2 DEF LookAtStatus, At, Goto, handlerVars, Accepted, NextOutput, Leave
  <2>3. CASE LookAtLevel(c)
    BY <2>3 DEF LookAtLevel, At, Goto, handlerVars, Accepted, NextOutput, Leave
  <2>4. CASE Handle(c)
    BY <2>4 DEF Handle, At, Goto, handlerVars
  <2>5. CASE PrintMessage(c)
    BY <2>5 DEF PrintMessage, At, Goto, handlerVars, Dispatch
  <2>6. CASE PrintDirectly(c)
    BY <2>6 DEF PrintDirectly, At, Goto, handlerVars, Dispatch
  <2>7. CASE Printed(c)
    BY <2>7 DEF Printed, At, Goto, handlerVars, Leave
  <2>8. ASSUME NEW o \in Outputs, Writes(c, o)
        PROVE UNCHANGED <<arrays, names, handlers, meant, mine, pc>> /\ pc[c] = "printing"
    BY <2>8 DEF Writes, Write, Forward, Emit, Writing, At, handlerVars, callVars
  <2>. QED BY <2>1, <2>2, <2>3, <2>4, <2>5, <2>6, <2>7, <2>8 DEF Logs
<1>2. DOMAIN mine' = Callers /\ DOMAIN pc' = Callers
  BY <1>1 DEF ApartInv, Memories
<1>3. c \notin Deriving /\ Deriving' = Deriving
  BY <1>1 DEF Deriving, ApartInv, Memories
<1>4. \A d \in Deriving' : mine'[d] = mine[d]
  BY <1>1, <1>3 DEF ApartInv, Memories, Deriving
<1>. QED BY <1>1, <1>2, <1>3, <1>4, QuietApart

LEMMA ApartStep == ASSUME ApartInv, [Next]_vars PROVE ApartInv'
<1>1. CASE UNCHANGED vars
  <2>1. UNCHANGED <<arrays, names, handlers, meant, mine, pc>> /\ Deriving' = Deriving
    BY <1>1 DEF vars, handlerVars, callVars, Deriving
  <2>. QED BY <2>1, QuietApart DEF ApartInv, Memories
<1>2. ASSUME NEW o \in Outputs, Reconfigures(o) PROVE ApartInv'
  <2>1. UNCHANGED <<arrays, names, handlers, meant, mine, pc>> /\ Deriving' = Deriving
    BY <1>2 DEF Reconfigures, SetMaxLevel, SetStatus, SetSlogLevel, Changing,
                handlerVars, callVars, Deriving
  <2>. QED BY <2>1, QuietApart DEF ApartInv, Memories
<1>3. ASSUME NEW c \in Callers, Derives(c) PROVE ApartInv'
  BY <1>3, WithAttrsApart, WithGroupApart, AppendAttrApart, ReturnedApart DEF Derives
<1>4. ASSUME NEW c \in Callers, Logs(c) PROVE ApartInv'
  BY <1>4, PrintingApart
<1>5. ASSUME NEW c \in Callers, NEW o \in Outputs, Writes(c, o) PROVE ApartInv'
  BY <1>5, PrintingApart
<1>. QED BY <1>1, <1>2, <1>3, <1>4, <1>5 DEF Next

\* A handler is never changed by what is derived from it or from a sibling,
\* at the same time or later (syplslog/handler.go:168-182).
THEOREM HandlersStayApart == Spec => []Apart
<1>1. ApartInv => Apart
  BY DEF ApartInv, Memories, IsMemory, Kept, Apart
<1>. QED BY <1>1, ApartInit, ApartStep, PTL DEF Spec

----------------------------------------------------------------------------
(* What the slog side gets.                                                *)

\* A record comes back at the standard level at or below its own.
LEMMA RoundTrip == \A l \in Int : ToSlogLevel(ToSyplLevel(l)) = Standard(l)
<1> SUFFICES ASSUME NEW l \in Int PROVE ToSlogLevel(ToSyplLevel(l)) = Standard(l)
  OBVIOUS
<1> DEFINE S == {-4, 0, 4, 8}
           P(s) == s <= l /\ (s = 8 \/ l < s + 4)
<1>1. CASE l < -4
  BY <1>1 DEF ToSlogLevel, ToSyplLevel, Standard
<1>2. ASSUME NEW v \in S, l >= -4, P(v), \A s \in S : P(s) => s = v
      PROVE  Standard(l) = v
  <2>1. (CHOOSE s \in S : P(s)) = v
    BY <1>2
  <2>. QED BY <1>2, <2>1 DEF Standard
<1>3. CASE -4 <= l /\ l < 0
  <2>1. Standard(l) = -4
    BY <1>2, <1>3
  <2>. QED BY <1>3, <2>1 DEF ToSlogLevel, ToSyplLevel
<1>4. CASE 0 <= l /\ l < 4
  <2>1. Standard(l) = 0
    BY <1>2, <1>4
  <2>. QED BY <1>4, <2>1 DEF ToSlogLevel, ToSyplLevel
<1>5. CASE 4 <= l /\ l < 8
  <2>1. Standard(l) = 4
    BY <1>2, <1>5
  <2>. QED BY <1>5, <2>1 DEF ToSlogLevel, ToSyplLevel
<1>6. CASE 8 <= l
  <2>1. Standard(l) = 8
    BY <1>2, <1>6
  <2>. QED BY <1>6, <2>1 DEF ToSlogLevel, ToSyplLevel
<1>. QED BY <1>1, <1>3, <1>4, <1>5, <1>6

\* No level of slog is Fatal.
LEMMA NeverFatal == \A l \in Int : ToSyplLevel(l) \in 2..6
  BY DEF ToSyplLevel

Domains ==
    /\ setup \in Setups /\ changes \in Nat
    /\ DOMAIN pc = Callers /\ DOMAIN of = Callers /\ DOMAIN rec = Callers
    /\ DOMAIN msg = Callers
    /\ \A v \in {wpc, flag, text, sunk} :
          DOMAIN v = Callers /\ \A c \in Callers : DOMAIN v[c] = Outputs

\* A record on its way: its level, and the level of the message made of it.
OnTheWay(c) ==
    /\ pc[c] \in {"status", "level", "handle", "recording"} => rec[c].level \in Int
    /\ pc[c] = "printing" /\ of[c] # 0 =>
          rec[c].level \in Int /\ msg[c].level = ToSyplLevel(rec[c].level)

Raw(c, o) == flag[c][o] \in Skipping

DueLevel(c, o) == IF Raw(c, o) THEN LevelInfo ELSE Arrives(c)

IsTrue(c, o, r) ==
    /\ r.level = DueLevel(c, o)
    /\ r.fields = IF Raw(c, o) THEN <<>> ELSE msg[c].fields
    /\ r.content = IF Raw(c, o) THEN "raw" ELSE "processed"

Unheard(c, o) == sunk[c][o] = <<>>

Refused(c, o) == changes = 0 => ~(slogLevel[o] <= DueLevel(c, o))

\* What has become of the write of an output, by the place it has come to.
Stage(c, o) ==
    CASE wpc[c][o] \in {"out", "write"} -> Unheard(c, o) /\ text[c][o] = "content"
      [] wpc[c][o] = "format" -> /\ Unheard(c, o) /\ text[c][o] = "content"
                                 /\ ~Raw(c, o) /\ flag[c][o] \notin Muting
      [] wpc[c][o] = "emit" -> /\ flag[c][o] \notin Muting
                               /\ IF Raw(c, o) THEN Unheard(c, o) /\ text[c][o] = "content"
                                  ELSE text[c][o] = "mark" /\ (Unheard(c, o) => Refused(c, o))
      [] OTHER -> Unheard(c, o) => \/ Refused(c, o)
                                   \/ changes = 0 => ~Passes(msg[c].level, flag[c][o], maxLevel[o])

Heard(c, o) ==
    \/ Unheard(c, o)
    \/ flag[c][o] \notin Muting /\ \E r : sunk[c][o] = <<r>> /\ IsTrue(c, o, r)

ForwardInv ==
    /\ Domains
    /\ \A c \in Callers : OnTheWay(c)
    /\ \A c \in Callers, o \in Outputs :
          pc[c] = "printing" => Stage(c, o) /\ Heard(c, o)

LEMMA ForwardInit == Init => ForwardInv
  BY DEF Init, ForwardInv, Domains, OnTheWay

LEMMA Meets == ForwardInv => ForwardedTruly
<1> SUFFICES ASSUME ForwardInv PROVE ForwardedTruly
  OBVIOUS
<1>1. ASSUME NEW c \in Callers, pc[c] = "printing", of[c] # 0 PROVE ~Fatal(c)
  <2>1. msg[c].level = ToSyplLevel(rec[c].level) /\ rec[c].level \in Int
    BY <1>1 DEF ForwardInv, OnTheWay
  <2>2. ToSyplLevel(rec[c].level) \in 2..6
    BY <2>1, NeverFatal
  <2>3. msg[c].level # 1
    BY <2>1, <2>2
  <2>. QED BY <2>3 DEF Fatal
<1>2. ASSUME NEW c \in Callers, NEW o \in Outputs, pc[c] = "printing"
      PROVE  /\ Len(sunk[c][o]) <= 1
             /\ sunk[c][o] # <<>> =>
                  /\ sunk[c][o][1].level = DueLevel(c, o)
                  /\ sunk[c][o][1].fields = IF Raw(c, o) THEN <<>> ELSE msg[c].fields
                  /\ sunk[c][o][1].content = IF Raw(c, o) THEN "raw" ELSE "processed"
                  /\ flag[c][o] \notin Muting
             /\ wpc[c][o] = "done" /\ sunk[c][o] = <<>> /\ changes = 0 =>
                  ~ (Passes(msg[c].level, flag[c][o], maxLevel[o]) /\ slogLevel[o] <= DueLevel(c, o))
  <2>1. Stage(c, o) /\ Heard(c, o)
    BY <1>2 DEF ForwardInv
  <2>2. Len(sunk[c][o]) <= 1
    <3>1. CASE Unheard(c, o)
      BY <3>1 DEF Unheard
    <3>2. CASE ~Unheard(c, o)
      <4>1. PICK r : sunk[c][o] = <<r>>
        BY <2>1, <3>2 DEF Heard
      <4>2. Len(<<r>>) = 1
        OBVIOUS
      <4>. QED BY <4>1, <4>2
    <3>. QED BY <3>1, <3>2
  <2>3. sunk[c][o] # <<>> => flag[c][o] \notin Muting /\ IsTrue(c, o, sunk[c][o][1])
    BY <2>1 DEF Heard, Unheard
  <2>4. wpc[c][o] = "done" /\ sunk[c][o] = <<>> /\ changes = 0 =>
           ~ (Passes(msg[c].level, flag[c][o], maxLevel[o]) /\ slogLevel[o] <= DueLevel(c, o))
    BY <2>1 DEF Stage, Unheard, Refused
  <2>. QED BY <2>2, <2>3, <2>4 DEF IsTrue
<1>. QED BY <1>1, <1>2 DEF ForwardedTruly, DueLevel, Raw

\* A call that a step leaves alone, and the outputs too.
Same(d) ==
    /\ pc'[d] = pc[d] /\ of'[d] = of[d] /\ rec'[d] = rec[d] /\ msg'[d] = msg[d]
    /\ wpc'[d] = wpc[d] /\ flag'[d] = flag[d] /\ text'[d] = text[d] /\ sunk'[d] = sunk[d]
    /\ UNCHANGED outputVars

Follows(c) ==
    OnTheWay(c) /\ \A o \in Outputs : pc[c] = "printing" => Stage(c, o) /\ Heard(c, o)

LEMMA SameFollows ==
  ASSUME NEW d \in Callers, Follows(d), Same(d)
  PROVE  Follows(d)'
<1>1. /\ OnTheWay(d)' /\ Arrives(d)' = Arrives(d)
      /\ maxLevel' = maxLevel /\ slogLevel' = slogLevel /\ changes' = changes
  BY DEF Follows, Same, OnTheWay, Arrives, outputVars
<1>2. ASSUME NEW o \in Outputs, pc'[d] = "printing" PROVE Stage(d, o)' /\ Heard(d, o)'
  <2>1. Stage(d, o) /\ Heard(d, o)
    BY <1>2 DEF Follows, Same
  <2>2. /\ Unheard(d, o)' <=> Unheard(d, o)
        /\ Raw(d, o)' <=> Raw(d, o)
        /\ DueLevel(d, o)' = DueLevel(d, o)
    BY <1>1 DEF Same, Unheard, Raw, DueLevel
  <2>3. Refused(d, o)' <=> Refused(d, o)
    BY <1>1, <2>2 DEF Refused
  <2>4. Stage(d, o)'
    BY <1>1, <2>1, <2>2, <2>3 DEF Stage, Same
  <2>5. Heard(d, o)'
    BY <1>1, <2>1, <2>2 DEF Heard, IsTrue, Same
  <2>. QED BY <2>4, <2>5
<1>. QED BY <1>1, <1>2 DEF Follows

LEMMA OneCall ==
  ASSUME ForwardInv, NEW c \in Callers, Domains', Follows(c)',
         \A d \in Callers : d # c => Same(d)
  PROVE  ForwardInv'
<1>1. \A d \in Callers : Follows(d)
  BY DEF ForwardInv, Follows
<1>2. \A d \in Callers : Follows(d)'
  BY <1>1, SameFollows
<1>. QED BY <1>2 DEF ForwardInv, Follows

\* A call that ends, or derives a handler.
LEMMA LeavesFollows ==
  ASSUME Domains, NEW c \in Callers, Leave(c), UNCHANGED <<setup, outputVars>>
  PROVE  Domains' /\ Follows(c)' /\ \A d \in Callers : d # c => Same(d)
<1>1. Domains'
  BY DEF Domains, Leave, Goto, outputVars
<1>2. pc'[c] = "idle"
  BY DEF Domains, Leave, Goto
<1>3. \A d \in Callers : d # c => Same(d)
  BY DEF Domains, Leave, Goto, Same, outputVars
<1>. QED BY <1>1, <1>2, <1>3 DEF Follows, OnTheWay

LEMMA DerivesForward == ASSUME ForwardInv, NEW c \in Callers, Derives(c) PROVE ForwardInv'
<1>1. Domains
  BY DEF ForwardInv
<1>2. CASE WithAttrs(c)
  <2>1. /\ setup' = setup /\ UNCHANGED <<outputVars, msg, wpc, flag, text, sunk>>
        /\ pc' = [pc EXCEPT ![c] = "deriving"]
        /\ \E h, list : of' = [of EXCEPT ![c] = h] /\ rec' = [rec EXCEPT ![c].attrs = list]
    BY <1>2 DEF WithAttrs, Goto, fixedVars, writeVars
  <2>2. Domains' /\ pc'[c] = "deriving"
    BY <1>1, <2>1 DEF Domains, outputVars
  <2>3. \A d \in Callers : d # c => Same(d)
    BY <1>1, <2>1 DEF Domains, Same
  <2>. QED BY <2>2, <2>3, OneCall DEF Follows, OnTheWay
<1>3. CASE WithGroup(c) \/ AppendAttr(c)
  <2>1. setup' = setup /\ UNCHANGED <<pc, of, rec, outputVars, msg, wpc, flag, text, sunk>>
    BY <1>3 DEF WithGroup, AppendAttr, fixedVars, writeVars, callVars
  <2>2. Domains' /\ \A d \in Callers : Same(d)
    BY <1>1, <2>1 DEF Domains, Same, outputVars
  <2>3. Follows(c)
    BY DEF ForwardInv, Follows
  <2>. QED BY <2>2, <2>3, SameFollows, OneCall
<1>4. CASE Returned(c)
  <2>1. Leave(c) /\ UNCHANGED <<setup, outputVars>>
    BY <1>4 DEF Returned, fixedVars
  <2>. QED BY <1>1, <2>1, LeavesFollows, OneCall
<1>. QED BY <1>2, <1>3, <1>4 DEF Derives

\* The setups, as far as messages go.
LEMMA SetupLevels ==
  ASSUME Domains
  PROVE  /\ \A r \in setup.records : r.level \in Int
         /\ changes \in Nat
<1>1. setup \in Setups /\ changes \in Nat
  BY DEF Domains
<1>2. setup.records \subseteq Records /\ SlogLevels \subseteq Int
  BY <1>1, BridgeAssumption DEF BridgeAssumption
<1>3. \A r \in Records : r.level \in SlogLevels
  BY DEF Records
<1>. QED BY <1>1, <1>2, <1>3

\* A message goes to the outputs: nothing has been heard yet.
LEMMA DispatchFollows ==
  ASSUME Domains, NEW c \in Callers, NEW m, Dispatch(c, m), UNCHANGED <<setup, outputVars, rec>>,
         DOMAIN of' = Callers, \A d \in Callers : d # c => of'[d] = of[d],
         of'[c] # 0 => rec[c].level \in Int /\ m.level = ToSyplLevel(rec[c].level)
  PROVE  Domains' /\ Follows(c)' /\ \A d \in Callers : d # c => Same(d)
<1>1. Domains'
  BY DEF Domains, Dispatch, Goto, outputVars
<1>2. \A d \in Callers : d # c => Same(d)
  BY DEF Domains, Dispatch, Goto, Same, outputVars
<1>3. pc'[c] = "printing" /\ msg'[c] = m
  BY DEF Domains, Dispatch, Goto
<1>4. ASSUME NEW o \in Outputs PROVE Stage(c, o)' /\ Heard(c, o)'
  <2>1. wpc'[c][o] \in {"out", "write"} /\ text'[c][o] = "content" /\ sunk'[c][o] = <<>>
    BY DEF Domains, Dispatch
  <2>. QED BY <2>1 DEF Stage, Heard, Unheard
<1>5. OnTheWay(c)'
  BY <1>3 DEF OnTheWay
<1>. QED BY <1>1, <1>2, <1>4, <1>5 DEF Follows

LEMMA LogsForward == ASSUME ForwardInv, NEW c \in Callers, Logs(c) PROVE ForwardInv'
<1>1. Domains /\ OnTheWay(c)
  BY DEF ForwardInv
<1>2. CASE Log(c)
  <2>1. PICK h \in DOMAIN handlers, r \in setup.records :
          of' = [of EXCEPT ![c] = h] /\ rec' = [rec EXCEPT ![c] = r]
    BY <1>2 DEF Log
  <2>2. /\ setup' = setup /\ UNCHANGED <<outputVars, msg, wpc, flag, text, sunk>>
        /\ pc' = [pc EXCEPT ![c] = "status"]
    BY <1>2 DEF Log, Goto, fixedVars, writeVars
  <2>3. Domains' /\ pc'[c] = "status" /\ rec'[c] = r
    BY <1>1, <2>1, <2>2 DEF Domains, outputVars
  <2>4. \A d \in Callers : d # c => Same(d)
    BY <1>1, <2>1, <2>2 DEF Domains, Same
  <2>5. Follows(c)'
    BY <1>1, <2>3, SetupLevels DEF Follows, OnTheWay
  <2>. QED BY <2>3, <2>4, <2>5, OneCall
<1>3. ASSUME NEW l \in {"status", "level", "handle", "recording"},
             pc[c] \in {"status", "level", "handle", "recording"},
             pc' = [pc EXCEPT ![c] = l],
             UNCHANGED <<setup, of, rec, msg, wpc, flag, text, sunk, outputVars>>
      PROVE  ForwardInv'
  <2>1. Domains' /\ \A d \in Callers : d # c => Same(d)
    BY <1>1, <1>3 DEF Domains, Same, outputVars
  <2>2. pc'[c] = l
    BY <1>1, <1>3 DEF Domains
  <2>3. Follows(c)'
    BY <1>1, <1>3, <2>2 DEF Follows, OnTheWay
  <2>. QED BY <2>1, <2>3, OneCall
<1>4. ASSUME Leave(c), UNCHANGED <<setup, outputVars>> PROVE ForwardInv'
  BY <1>1, <1>4, LeavesFollows, OneCall
<1>5. CASE LookAtStatus(c) \/ LookAtLevel(c)
  <2>1. /\ pc[c] \in {"status", "level"} /\ UNCHANGED <<setup, outputVars>>
        /\ \/ Leave(c)
           \/ /\ UNCHANGED <<of, rec, msg, wpc, flag, text, sunk>>
              /\ \E l \in {"status", "level", "handle"} : pc' = [pc EXCEPT ![c] = l]
    BY <1>5 DEF LookAtStatus, LookAtLevel, Accepted, NextOutput, At, Goto, fixedVars,
                outputVars, writeVars
  <2>. QED BY <1>3, <1>4, <2>1
<1>6. CASE Handle(c)
  BY <1>3, <1>6 DEF Handle, At, Goto, fixedVars, outputVars, writeVars
<1>7. CASE PrintMessage(c)
  <2>1. PICK m : /\ m.level = ToSyplLevel(rec[c].level) /\ Dispatch(c, m)
    BY <1>7 DEF PrintMessage
  <2>2. pc[c] = "recording" /\ UNCHANGED <<setup, outputVars, of, rec>>
    BY <1>7 DEF PrintMessage, At, fixedVars
  <2>3. DOMAIN of' = Callers /\ rec[c].level \in Int
    BY <1>1, <2>2 DEF Domains, OnTheWay
  <2>. QED BY <1>1, <2>1, <2>2, <2>3, DispatchFollows, OneCall
<1>8. CASE PrintDirectly(c)
  <2>1. PICK m : Dispatch(c, m)
    BY <1>8 DEF PrintDirectly
  <2>2. of' = [of EXCEPT ![c] = 0] /\ UNCHANGED <<setup, outputVars, rec>>
    BY <1>8 DEF PrintDirectly, fixedVars
  <2>3. DOMAIN of' = Callers /\ of'[c] = 0 /\ \A d \in Callers : d # c => of'[d] = of[d]
    BY <1>1, <2>2 DEF Domains
  <2>. QED BY <1>1, <2>1, <2>2, <2>3, DispatchFollows, OneCall
<1>9. CASE Printed(c)
  BY <1>4, <1>9 DEF Printed, fixedVars, outputVars
<1>. QED BY <1>2, <1>5, <1>6, <1>7, <1>8, <1>9 DEF Logs

LEMMA ReconfiguresForward ==
  ASSUME ForwardInv, NEW o \in Outputs, Reconfigures(o) PROVE ForwardInv'
<1>1. /\ changes' = changes + 1
      /\ UNCHANGED <<setup, pc, of, rec, msg, wpc, flag, text, sunk>>
  BY DEF Reconfigures, SetMaxLevel, SetStatus, SetSlogLevel, Changing, fixedVars,
         callVars, writeVars
<1>2. Domains' /\ changes' # 0
  BY <1>1 DEF ForwardInv, Domains
<1>3. \A c \in Callers : OnTheWay(c)'
  BY <1>1 DEF ForwardInv, OnTheWay
<1>4. ASSUME NEW c \in Callers, NEW q \in Outputs, pc'[c] = "printing"
      PROVE  Stage(c, q)' /\ Heard(c, q)'
  <2>1. Stage(c, q) /\ Heard(c, q)
    BY <1>1, <1>4 DEF ForwardInv
  <2>2. /\ Unheard(c, q)' <=> Unheard(c, q)
        /\ Raw(c, q)' <=> Raw(c, q)
        /\ DueLevel(c, q)' = DueLevel(c, q)
        /\ Refused(c, q)'
    BY <1>1, <1>2 DEF Unheard, Raw, DueLevel, Arrives, Refused
  <2>3. Stage(c, q)'
    BY <1>1, <2>1, <2>2 DEF Stage
  <2>4. Heard(c, q)'
    BY <1>1, <2>1, <2>2 DEF Heard, IsTrue
  <2>. QED BY <2>3, <2>4
<1>. QED BY <1>2, <1>3, <1>4 DEF ForwardInv

LEMMA WritesForward ==
  ASSUME ForwardInv, NEW c \in Callers, NEW o \in Outputs, Writes(c, o) PROVE ForwardInv'
<1>1. /\ Domains /\ pc[c] = "printing" /\ OnTheWay(c) /\ Stage(c, o) /\ Heard(c, o)
      /\ \A q \in Outputs : Stage(c, q) /\ Heard(c, q)
  BY DEF ForwardInv, Writes, Write, Forward, Emit, Writing, At
<1>2. UNCHANGED <<setup, outputVars, pc, of, rec, msg>>
  BY DEF Writes, Write, Forward, Emit, fixedVars, callVars
<1>3. /\ \E w : wpc' = [wpc EXCEPT ![c][o] = w]
      /\ flag' = flag \/ \E f : flag' = [flag EXCEPT ![c][o] = f]
      /\ text' = text \/ \E t : text' = [text EXCEPT ![c][o] = t]
      /\ sunk' = sunk \/ \E t : sunk' = [sunk EXCEPT ![c][o] = t]
  <2>1. CASE Write(c, o)
    BY <2>1 DEF Write, Step
  <2>2. CASE Forward(c, o)
    BY <2>2 DEF Forward, Step, Told
  <2>3. CASE Emit(c, o)
    BY <2>3 DEF Emit, Step, Told
  <2>. QED BY <2>1, <2>2, <2>3 DEF Writes
<1>4. Domains' /\ \A d \in Callers : d # c => Same(d)
  BY <1>1, <1>2, <1>3 DEF Domains, Same, outputVars
<1>5. \A q \in Outputs : q # o =>
        /\ wpc'[c][q] = wpc[c][q] /\ flag'[c][q] = flag[c][q]
        /\ text'[c][q] = text[c][q] /\ sunk'[c][q] = sunk[c][q]
  BY <1>1, <1>3 DEF Domains
<1>6. Arrives(c)' = Arrives(c) /\ OnTheWay(c)' /\ Arrives(c) = ToSlogLevel(msg[c].level)
  BY <1>1, <1>2, RoundTrip DEF Arrives, OnTheWay
<1>7. ASSUME NEW q \in Outputs, q # o PROVE Stage(c, q)' /\ Heard(c, q)'
  <2>1. /\ Unheard(c, q)' <=> Unheard(c, q)
        /\ Raw(c, q)' <=> Raw(c, q)
        /\ DueLevel(c, q)' = DueLevel(c, q)
    BY <1>5, <1>6, <1>7 DEF Unheard, Raw, DueLevel
  <2>2. Refused(c, q)' <=> Refused(c, q)
    BY <1>2, <2>1 DEF Refused, outputVars
  <2>3. Stage(c, q)'
    BY <1>1, <1>2, <1>5, <1>7, <2>1, <2>2 DEF Stage, outputVars
  <2>4. Heard(c, q)'
    BY <1>1, <1>2, <1>5, <1>7, <2>1 DEF Heard, IsTrue
  <2>. QED BY <2>3, <2>4
<1>8. ASSUME Write(c, o) PROVE Stage(c, o)' /\ Heard(c, o)'
  <2> DEFINE f == FlagOf(flag[c][o], o)
  <2>1. /\ flag' = [flag EXCEPT ![c][o] = f] /\ text' = text /\ sunk' = sunk
        /\ wpc[c][o] = "write"
        /\ wpc' = [wpc EXCEPT ![c][o] =
                     IF ~Passes(msg[c].level, f, maxLevel[o]) THEN "done"
                     ELSE IF f \in Skipping THEN "emit" ELSE "format"]
    BY <1>8 DEF Write, Writing, Step
  <2> HIDE DEF f
  <2>2. /\ flag'[c][o] = f
        /\ wpc'[c][o] = IF ~Passes(msg[c].level, f, maxLevel[o]) THEN "done"
                        ELSE IF f \in Skipping THEN "emit" ELSE "format"
    BY <1>1, <2>1 DEF Domains
  <2>3. Unheard(c, o) /\ text[c][o] = "content"
    BY <1>1, <2>1 DEF Stage
  <2>4. Unheard(c, o)' /\ text'[c][o] = "content"
    BY <2>1, <2>3 DEF Unheard
  <2>5. Passes(msg[c].level, f, maxLevel[o]) => f \notin Muting
    BY DEF Passes, Forcing, Muting
  <2>6. Stage(c, o)'
    BY <1>2, <2>2, <2>4, <2>5 DEF Stage, Raw, outputVars
  <2>. QED BY <2>4, <2>6 DEF Heard
<1>9. ASSUME Forward(c, o) PROVE Stage(c, o)' /\ Heard(c, o)'
  <2>1. wpc[c][o] = "format" /\ flag' = flag
    BY <1>9 DEF Forward, Writing
  <2>2. Unheard(c, o) /\ ~Raw(c, o) /\ flag[c][o] \notin Muting
    BY <1>1, <2>1 DEF Stage
  <2>3. wpc'[c][o] = "emit" /\ text'[c][o] = "mark"
    BY <1>1, <1>9 DEF Forward, Step, Domains
  <2>4. ~Raw(c, o)' /\ DueLevel(c, o) = ToSlogLevel(msg[c].level) /\ DueLevel(c, o)' = DueLevel(c, o)
    BY <1>6, <2>1, <2>2 DEF Raw, DueLevel
  <2>5. CASE slogLevel[o] <= ToSlogLevel(msg[c].level)
    <3>1. PICK ok \in BOOLEAN :
            sunk' = [sunk EXCEPT ![c][o] = Append(@,
                       [level |-> ToSlogLevel(msg[c].level), fields |-> msg[c].fields,
                        content |-> "processed", ok |-> ok])]
      BY <1>9, <2>5 DEF Forward, Told
    <3> DEFINE r == [level |-> ToSlogLevel(msg[c].level), fields |-> msg[c].fields,
                     content |-> "processed", ok |-> ok]
    <3>2. sunk'[c][o] = <<r>>
      BY <1>1, <2>2, <3>1 DEF Domains, Unheard
    <3>3. r.level = DueLevel(c, o) /\ r.fields = msg[c].fields /\ r.content = "processed"
      BY <2>4
    <3> HIDE DEF r
    <3>4. Heard(c, o)'
      BY <1>2, <2>1, <2>2, <2>4, <3>2, <3>3 DEF Heard, IsTrue
    <3>5. ~Unheard(c, o)'
      BY <3>2 DEF Unheard
    <3>6. Stage(c, o)'
      BY <2>1, <2>2, <2>3, <2>4, <3>5 DEF Stage
    <3>. QED BY <3>4, <3>6
  <2>6. CASE ~(slogLevel[o] <= ToSlogLevel(msg[c].level))
    <3>1. sunk' = sunk
      BY <1>9, <2>6 DEF Forward
    <3>2. Refused(c, o)' /\ Unheard(c, o)'
      BY <1>2, <2>2, <2>4, <2>6, <3>1 DEF Refused, Unheard, outputVars
    <3>3. Stage(c, o)'
      BY <2>1, <2>2, <2>3, <2>4, <3>2 DEF Stage
    <3>. QED BY <3>2, <3>3 DEF Heard
  <2>. QED BY <2>5, <2>6
<1>10. ASSUME Emit(c, o) PROVE Stage(c, o)' /\ Heard(c, o)'
  <2>1. wpc[c][o] = "emit" /\ flag' = flag /\ text' = text
    BY <1>10 DEF Emit, Writing
  <2>2. /\ flag[c][o] \notin Muting
        /\ Raw(c, o) => Unheard(c, o) /\ text[c][o] = "content"
        /\ ~Raw(c, o) => text[c][o] = "mark" /\ (Unheard(c, o) => Refused(c, o))
    BY <1>1, <2>1 DEF Stage
  <2>3. wpc'[c][o] = "done"
    BY <1>1, <1>10 DEF Emit, Step, Domains
  <2>4. (Raw(c, o)' <=> Raw(c, o)) /\ DueLevel(c, o)' = DueLevel(c, o)
    BY <1>6, <2>1 DEF Raw, DueLevel
  <2>5. CASE Raw(c, o) /\ slogLevel[o] <= LevelInfo
    <3>1. PICK r : /\ sunk' = [sunk EXCEPT ![c][o] = Append(@, r)]
                   /\ r.level = LevelInfo /\ r.fields = <<>> /\ r.content = "raw"
      <4> DEFINE told(ok) == [level |-> LevelInfo, fields |-> <<>>, content |-> "raw", ok |-> ok]
      <4>1. text[c][o] # "mark" /\ slogLevel[o] <= LevelInfo
        BY <2>2, <2>5
      <4>2. PICK ok \in BOOLEAN : sunk' = [sunk EXCEPT ![c][o] = Append(@, told(ok))]
        BY <1>10, <4>1, Zenon DEF Emit, Told
      <4>3. told(ok).level = LevelInfo /\ told(ok).fields = <<>> /\ told(ok).content = "raw"
        OBVIOUS
      <4> HIDE DEF told
      <4>. QED BY <4>2, <4>3
    <3>2. sunk'[c][o] = <<r>>
      <4>1. sunk[c][o] = <<>>
        BY <2>2, <2>5 DEF Unheard
      <4>2. sunk'[c][o] = Append(sunk[c][o], r)
        BY <1>1, <3>1 DEF Domains
      <4>. QED BY <4>1, <4>2
    <3>3. r.level = DueLevel(c, o) /\ r.fields = <<>> /\ r.content = "raw"
      BY <2>5, <3>1 DEF DueLevel
    <3>4. Heard(c, o)'
      BY <2>1, <2>2, <2>4, <2>5, <3>2, <3>3 DEF Heard, IsTrue
    <3>5. ~Unheard(c, o)'
      BY <3>2 DEF Unheard
    <3>6. Stage(c, o)'
      BY <2>3, <3>5 DEF Stage
    <3>. QED BY <3>4, <3>6
  <2>6. CASE ~(Raw(c, o) /\ slogLevel[o] <= LevelInfo)
    <3>1. sunk' = sunk
      BY <1>10, <2>2, <2>6 DEF Emit
    <3>2. (Unheard(c, o)' <=> Unheard(c, o)) /\ (Refused(c, o)' <=> Refused(c, o))
      BY <1>2, <2>4, <3>1 DEF Refused, Unheard, outputVars
    <3>3. Unheard(c, o) => Refused(c, o)
      BY <2>2, <2>6 DEF Refused, DueLevel
    <3>4. Stage(c, o)'
      BY <2>3, <3>2, <3>3 DEF Stage
    <3>5. Heard(c, o)'
      BY <1>1, <1>2, <2>1, <2>4, <3>1, <3>2 DEF Heard, IsTrue
    <3>. QED BY <3>4, <3>5
  <2>. QED BY <2>5, <2>6
<1>11. Follows(c)'
  BY <1>6, <1>7, <1>8, <1>9, <1>10 DEF Follows, Writes
<1>. QED BY <1>4, <1>11, OneCall

LEMMA ForwardStep == ASSUME ForwardInv, [Next]_vars PROVE ForwardInv'
<1>1. CASE UNCHANGED vars
  BY <1>1 DEF vars, callVars, writeVars, fixedVars, outputVars, ForwardInv, Domains, OnTheWay,
     Stage, Heard, Unheard, Raw, DueLevel, Refused, Arrives, IsTrue
<1>2. ASSUME NEW c \in Callers, Derives(c) \/ Logs(c) PROVE ForwardInv'
  BY <1>2, DerivesForward, LogsForward
<1>3. ASSUME NEW c \in Callers, NEW o \in Outputs, Writes(c, o) PROVE ForwardInv'
  BY <1>3, WritesForward
<1>4. ASSUME NEW o \in Outputs, Reconfigures(o) PROVE ForwardInv'
  BY <1>4, ReconfiguresForward
<1>. QED BY <1>1, <1>2, <1>3, <1>4 DEF Next

\* A message arrives at the slog side once at most, with the level, fields
\* and content it should have, for any levels and any number of outputs, and
\* no record of slog ends the process (syplslog/handler.go:95-130,
\* syplslog/output.go:33-97).
THEOREM ForwardsTruly == Spec => []ForwardedTruly
  BY ForwardInit, ForwardStep, Meets, PTL DEF Spec

----------------------------------------------------------------------------
(* Slices, with the types of what they hold.                               *)

\* The slots of a slice are those of its array.
LEMMA ElementsShape ==
    ASSUME NEW E, NEW m \in Seq(Seq(E)), NEW s, IsSlice(m, s)
    PROVE  /\ Elements(m, s) \in Seq(E)
           /\ Len(Elements(m, s)) = s.len
           /\ \A i \in 1..s.len : Elements(m, s)[i] = m[s.at][i]
<1>1. s.len \in Nat /\ s.cap \in Nat /\ s.at \in Nat /\ s.len <= s.cap
  BY DEF IsSlice, Windows
<1>2. CASE s.len = 0
  BY <1>2 DEF Elements
<1>3. CASE s.len > 0
  <2>1. s.at \in 1..Len(m) /\ s.len <= Len(m[s.at])
    BY <1>1, <1>3 DEF IsSlice
  <2>2. m[s.at] \in Seq(E)
    BY <2>1
  <2>. QED BY <1>1, <1>3, <2>1, <2>2 DEF Elements
<1>. QED BY <1>1, <1>2, <1>3

\* A memory that keeps the first slots of a slice's array keeps the slice.
LEMMA SliceKept ==
    ASSUME NEW E, NEW m \in Seq(Seq(E)), NEW n \in Seq(Seq(E)), NEW s, IsSlice(m, s),
           Len(m) <= Len(n),
           \A b \in 1..Len(m) : Len(m[b]) <= Len(n[b]),
           \A i \in 1..s.len : s.at \in 1..Len(m) => n[s.at][i] = m[s.at][i]
    PROVE  IsSlice(n, s) /\ Elements(n, s) = Elements(m, s)
<1>1. s.len \in Nat /\ s.cap \in Nat /\ s.at \in Nat /\ s.len <= s.cap /\ s.at <= Len(m)
  BY DEF IsSlice, Windows
<1>2. IsSlice(n, s)
  <2>1. CASE s.cap > 0
    <3>1. s.at \in 1..Len(m) /\ s.len <= Len(m[s.at])
      BY <1>1, <2>1 DEF IsSlice
    <3>2. m[s.at] \in Seq(E) /\ n[s.at] \in Seq(E)
      BY <3>1
    <3>3. Len(m[s.at]) \in Nat /\ Len(n[s.at]) \in Nat /\ Len(m[s.at]) <= Len(n[s.at])
      BY <3>1, <3>2
    <3>4. s.at <= Len(n) /\ s.at > 0 /\ s.len <= Len(n[s.at])
      <4>1. ASSUME NEW p \in 1..Len(m), NEW l \in Nat, l <= Len(m[p]), Len(m[p]) <= Len(n[p]),
                   Len(m[p]) \in Nat, Len(n[p]) \in Nat
            PROVE  p <= Len(n) /\ p > 0 /\ l <= Len(n[p])
        BY <4>1
      <4>. QED BY <1>1, <3>1, <3>3, <4>1
    <3>. QED BY <1>1, <3>4 DEF IsSlice
  <2>2. CASE ~(s.cap > 0)
    BY <1>1, <2>2 DEF IsSlice
  <2>. QED BY <2>1, <2>2
<1>3. CASE s.len = 0
  BY <1>2, <1>3 DEF Elements
<1>4. CASE s.len > 0
  <2>1. s.at \in 1..Len(m)
    BY <1>1, <1>4 DEF IsSlice
  <2>2. /\ Elements(m, s) \in Seq(E) /\ Len(Elements(m, s)) = s.len
        /\ \A i \in 1..s.len : Elements(m, s)[i] = m[s.at][i]
    BY m \in Seq(Seq(E)), IsSlice(m, s), ElementsShape
  <2>3. /\ Elements(n, s) \in Seq(E) /\ Len(Elements(n, s)) = s.len
        /\ \A i \in 1..s.len : Elements(n, s)[i] = n[s.at][i]
    BY <1>2, ElementsShape
  <2>4. \A i \in 1..s.len : Elements(n, s)[i] = Elements(m, s)[i]
    BY <2>1, <2>2, <2>3
  <2>5. Elements(n, s) = Elements(m, s)
    BY <2>2, <2>3, <2>4, SeqEqual
  <2>. QED BY <1>2, <2>5
<1>. QED BY <1>1, <1>3, <1>4, <1>2

\* A new array changes no slice, and holds its elements.
LEMMA StoredKeeps ==
    ASSUME NEW E, NEW m \in Seq(Seq(E)), NEW e \in Seq(E), NEW k \in Nat
    PROVE  /\ Stored(m, e) \in Seq(Seq(E))
           /\ Len(Stored(m, e)) = Len(m) + 1
           /\ \A s : IsSlice(m, s) => IsSlice(Stored(m, e), s) /\ Elements(Stored(m, e), s) = Elements(m, s)
           /\ IsSlice(Stored(m, e), Fresh(m, e, k)) /\ Elements(Stored(m, e), Fresh(m, e, k)) = e
           /\ Fresh(m, e, k).at = Len(m) + 1 /\ Fresh(m, e, k).len = Len(e)
<1>1. /\ Stored(m, e) \in Seq(Seq(E)) /\ Len(Stored(m, e)) = Len(m) + 1
      /\ \A i \in 1..Len(m) : Stored(m, e)[i] = m[i]
      /\ Stored(m, e)[Len(m) + 1] = e
  BY DEF Stored
<1>2. ASSUME NEW s, IsSlice(m, s)
      PROVE  IsSlice(Stored(m, e), s) /\ Elements(Stored(m, e), s) = Elements(m, s)
  <2>1. \A i \in 1..Len(m) : Len(m[i]) \in Nat
    OBVIOUS
  <2>2. \A b \in 1..Len(m) : Len(m[b]) <= Len(Stored(m, e)[b])
    BY <1>1, <2>1
  <2>3. \A i \in 1..s.len : s.at \in 1..Len(m) => Stored(m, e)[s.at][i] = m[s.at][i]
    BY <1>1
  <2>4. Len(m) <= Len(Stored(m, e))
    BY <1>1
  <2>. QED BY <1>1, <1>2, <2>2, <2>3, <2>4, SliceKept
<1>3. IsSlice(Stored(m, e), Fresh(m, e, k))
  BY <1>1 DEF IsSlice, Windows, Fresh
<1>4. Elements(Stored(m, e), Fresh(m, e, k)) = e
  <2>1. /\ Elements(Stored(m, e), Fresh(m, e, k)) \in Seq(E)
        /\ Len(Elements(Stored(m, e), Fresh(m, e, k))) = Len(e)
        /\ \A i \in 1..Len(e) : Elements(Stored(m, e), Fresh(m, e, k))[i] = Stored(m, e)[Len(m) + 1][i]
    BY <1>1, <1>3, ElementsShape DEF Fresh
  <2>. QED BY <1>1, <2>1, SeqEqual
<1>. QED BY <1>1, <1>2, <1>3, <1>4 DEF Fresh

LEMMA StoredType ==
    ASSUME NEW E, NEW m \in Seq(Seq(E)), NEW e \in Seq(E)
    PROVE  Stored(m, e) \in Seq(Seq(E)) /\ Len(Stored(m, e)) = Len(m) + 1
  BY StoredKeeps, 0 \in Nat

LEMMA StoredOthers ==
    ASSUME NEW E, NEW m \in Seq(Seq(E)), NEW e \in Seq(E), NEW s, IsSlice(m, s)
    PROVE  IsSlice(Stored(m, e), s) /\ Elements(Stored(m, e), s) = Elements(m, s)
  BY StoredKeeps, 0 \in Nat

LEMMA StoredFresh ==
    ASSUME NEW E, NEW m \in Seq(Seq(E)), NEW e \in Seq(E), NEW k \in Nat
    PROVE  /\ IsSlice(Stored(m, e), Fresh(m, e, k)) /\ Elements(Stored(m, e), Fresh(m, e, k)) = e
           /\ Fresh(m, e, k).at = Len(m) + 1 /\ Fresh(m, e, k).len = Len(e)
  BY StoredKeeps

\* A write to a slot of one array, or after its end, leaves every other slot.
LEMMA WrittenInPlace ==
    ASSUME NEW E, NEW m \in Seq(Seq(E)), NEW p \in 1..Len(m),
           NEW k \in 1..(Len(m[p]) + 1), NEW v \in E
    PROVE  LET n == [m EXCEPT ![p] = Put(@, k, v)]
           IN /\ n \in Seq(Seq(E)) /\ Len(n) = Len(m)
              /\ \A b \in 1..Len(m) : Len(m[b]) <= Len(n[b])
              /\ \A b \in 1..Len(m), j \in Nat \ {0} :
                   (b # p \/ j < k) /\ j <= Len(m[b]) => n[b][j] = m[b][j]
              /\ n[p][k] = v /\ k <= Len(n[p])
<1> DEFINE a == Put(m[p], k, v)
           n == [m EXCEPT ![p] = a]
<1>1. m[p] \in Seq(E) /\ \A b \in 1..Len(m) : Len(m[b]) \in Nat
  OBVIOUS
<1>2. /\ a \in Seq(E) /\ Len(m[p]) <= Len(a) /\ k <= Len(a)
      /\ \A j \in 1..Len(m[p]) : j # k => a[j] = m[p][j]
      /\ a[k] = v
  <2>1. PICK c : c = m[p]
    OBVIOUS
  <2>2. c \in Seq(E) /\ k \in 1..(Len(c) + 1) /\ v \in E
    BY <1>1, <2>1
  <2>3. a = Put(c, k, v)
    BY <2>1
  <2> HIDE DEF a, n
  <2>4. /\ Put(c, k, v) \in Seq(E)
        /\ Len(c) <= Len(Put(c, k, v)) /\ k <= Len(Put(c, k, v))
        /\ \A j \in 1..Len(c) : j # k => Put(c, k, v)[j] = c[j]
        /\ Put(c, k, v)[k] = v
    <3>1. CASE k = Len(c) + 1
      BY <2>2, <3>1 DEF Put
    <3>2. CASE k \in 1..Len(c)
      <4>1. Put(c, k, v) = [c EXCEPT ![k] = v]
        BY <2>2, <3>2 DEF Put
      <4>. QED BY <2>2, <3>2, <4>1
    <3>. QED BY <2>2, <3>1, <3>2
  <2>. QED BY <2>1, <2>3, <2>4
<1>3. /\ n \in Seq(Seq(E)) /\ Len(n) = Len(m) /\ n[p] = a
      /\ \A b \in 1..Len(m) : b # p => n[b] = m[b]
  BY <1>2
<1> HIDE DEF a, n
<1>4. ASSUME NEW b \in 1..Len(m) PROVE Len(m[b]) <= Len(n[b])
  <2>1. CASE b = p
    BY <1>2, <1>3, <2>1
  <2>2. CASE b # p
    BY <1>1, <1>3, <2>2
  <2>. QED BY <2>1, <2>2
<1>5. ASSUME NEW b \in 1..Len(m), NEW j \in Nat \ {0}, b # p \/ j < k, j <= Len(m[b])
      PROVE  n[b][j] = m[b][j]
  <2>1. CASE b = p
    BY <1>1, <1>2, <1>3, <1>5, <2>1
  <2>2. CASE b # p
    BY <1>3, <2>2
  <2>. QED BY <2>1, <2>2
<1>. QED BY <1>2, <1>3, <1>4, <1>5 DEF n, a

\* append: the slice gets its element, and a slice of another array, or one
\* that ends before the slot, is left as it was.
LEMMA AppendedKeeps ==
    ASSUME NEW E, NEW m \in Seq(Seq(E)), NEW s, IsSlice(m, s), NEW v \in E
    PROVE  /\ Appended(m, s, v) \in Seq(Seq(E))
           /\ IsSlice(Appended(m, s, v), Extended(m, s))
           /\ Elements(Appended(m, s, v), Extended(m, s)) = Append(Elements(m, s), v)
           /\ Extended(m, s).len = s.len + 1
           /\ (Extended(m, s).at = s.at /\ s.at > 0) \/ Extended(m, s).at = Len(m) + 1
           /\ \A u : IsSlice(m, u) /\ (u.at # s.at \/ u.len <= s.len)
                => IsSlice(Appended(m, s, v), u) /\ Elements(Appended(m, s, v), u) = Elements(m, u)
<1>1. s.len \in Nat /\ s.cap \in Nat /\ s.at \in Nat /\ s.len <= s.cap /\ s.at <= Len(m)
  BY DEF IsSlice, Windows
<1>e. /\ Elements(m, s) \in Seq(E) /\ Len(Elements(m, s)) = s.len
      /\ \A i \in 1..s.len : Elements(m, s)[i] = m[s.at][i]
  BY ElementsShape
<1>2. CASE Room(s)
  <2> DEFINE p == s.at
             k == s.len + 1
             n == [m EXCEPT ![p] = Put(@, k, v)]
             x == [at |-> p, len |-> k, cap |-> s.cap]
             f == Append(Elements(m, s), v)
  <2>1. p \in 1..Len(m) /\ k \in 1..(Len(m[p]) + 1) /\ k <= s.cap
    <3>1. s.at \in 1..Len(m) /\ s.len <= Len(m[s.at])
      BY <1>1, <1>2 DEF IsSlice, Room
    <3>2. Len(m[s.at]) \in Nat
      BY <3>1
    <3>. QED BY <1>1, <1>2, <3>1, <3>2 DEF Room
  <2>2. /\ n \in Seq(Seq(E)) /\ Len(n) = Len(m)
        /\ \A b \in 1..Len(m) : Len(m[b]) <= Len(n[b])
        /\ \A b \in 1..Len(m), j \in Nat \ {0} :
             (b # p \/ j < k) /\ j <= Len(m[b]) => n[b][j] = m[b][j]
        /\ n[p][k] = v /\ k <= Len(n[p])
    <3>. HIDE DEF p, k
    <3>. QED BY <2>1, WrittenInPlace
  <2>3. Appended(m, s, v) = n /\ Extended(m, s) = x
    BY <1>2 DEF Appended, Extended, IsSlice, Windows
  <2>4. IsSlice(n, x)
    BY <1>1, <2>1, <2>2 DEF IsSlice, Windows
  <2>5. ASSUME NEW u, IsSlice(m, u), u.at # s.at \/ u.len <= s.len
        PROVE  IsSlice(n, u) /\ Elements(n, u) = Elements(m, u)
    <3>1. u.len \in Nat /\ u.at \in Nat /\ u.at <= Len(m)
      BY <2>5 DEF IsSlice, Windows
    <3>2. u.at \in 1..Len(m) => (u.len = 0 \/ u.len <= Len(m[u.at]))
      BY <2>5, <3>1 DEF IsSlice, Windows
    <3>3. \A j \in 1..u.len : u.at \in 1..Len(m) => n[u.at][j] = m[u.at][j]
      <4>1. ASSUME NEW q \in Nat, NEW z \in Nat, q \in 1..Len(m), z = 0 \/ z <= Len(m[q]),
                   q # p \/ z < k, NEW j \in 1..z
            PROVE  n[q][j] = m[q][j]
        <5>1. Len(m[q]) \in Nat
          BY <4>1
        <5>2. p \in Nat /\ k \in Nat
          BY <1>1
        <5>. HIDE DEF n, p, k
        <5>3. j \in Nat \ {0} /\ (q # p \/ j < k) /\ j <= Len(m[q])
          BY <4>1, <5>1, <5>2
        <5>. QED BY <2>2, <4>1, <5>3
      <4>2. u.at # p \/ u.len < k
        BY <1>1, <2>5, <3>1
      <4>. HIDE DEF n, p, k
      <4>. QED BY <3>1, <3>2, <4>1, <4>2
    <3>. HIDE DEF n
    <3>. QED BY m \in Seq(Seq(E)), <2>2, <2>5, <3>3, SliceKept
  <2>6. Elements(n, x) = f
    <3>1. /\ Elements(n, x) \in Seq(E) /\ Len(Elements(n, x)) = k
          /\ \A i \in 1..k : Elements(n, x)[i] = n[p][i]
      <4>1. x.len = k /\ x.at = p
        OBVIOUS
      <4>. HIDE DEF n, x, p, k
      <4>. QED BY <2>2, <2>4, <4>1, ElementsShape
    <3>2. \A i \in 1..s.len : n[p][i] = m[p][i]
      <4>1. Len(m[p]) \in Nat
        BY <2>1
      <4>2. ASSUME NEW i \in 1..s.len
            PROVE  i \in Nat \ {0} /\ i < k /\ i <= Len(m[p])
        BY <1>1, <2>1, <4>1
      <4>. HIDE DEF n, p, k
      <4>. QED BY <2>1, <2>2, <4>2
    <3>3. f \in Seq(E) /\ Len(f) = k /\ f[k] = v /\ \A i \in 1..s.len : f[i] = m[p][i]
      BY <1>1, <1>e
    <3>4. \A i \in 1..k : Elements(n, x)[i] = f[i]
      <4>1. \A i \in 1..k : i = k \/ i \in 1..s.len
        BY <1>1
      <4>. HIDE DEF n, x, f, p
      <4>. QED BY <2>2, <3>1, <3>2, <3>3, <4>1
    <3>. HIDE DEF n, x, f
    <3>. QED BY <3>1, <3>3, <3>4, SeqEqual
  <2>7. x.len = s.len + 1 /\ x.at = s.at /\ s.at > 0
    BY <1>1, <2>1
  <2> HIDE DEF n, x
  <2>. QED BY <2>2, <2>3, <2>4, <2>5, <2>6, <2>7
<1>3. CASE ~Room(s)
  <2> DEFINE e == Append(Elements(m, s), v)
             k == IF s.cap = 0 THEN 0 ELSE s.cap - 1
  <2>1. e \in Seq(E) /\ Len(e) = s.len + 1
    BY <1>e
  <2>2. Appended(m, s, v) = Stored(m, e)
    BY <1>3 DEF Appended, Stored
  <2>3. s.len = s.cap
    BY <1>1, <1>3 DEF Room
  <2>4. k \in Nat
    BY <1>1
  <2>5. Extended(m, s) = Fresh(m, e, k)
    BY <1>1, <1>3, <2>1, <2>3 DEF Extended, Fresh
  <2> HIDE DEF e, k
  <2>6. /\ Stored(m, e) \in Seq(Seq(E))
        /\ \A u : IsSlice(m, u) => IsSlice(Stored(m, e), u) /\ Elements(Stored(m, e), u) = Elements(m, u)
        /\ IsSlice(Stored(m, e), Fresh(m, e, k)) /\ Elements(Stored(m, e), Fresh(m, e, k)) = e
        /\ Fresh(m, e, k).at = Len(m) + 1 /\ Fresh(m, e, k).len = Len(e)
    <3>1. e \in Seq(E) /\ k \in Nat
      BY <2>1, <2>4
    <3>2. Stored(m, e) \in Seq(Seq(E))
      BY <3>1, StoredKeeps
    <3>3. ASSUME NEW u, IsSlice(m, u)
          PROVE  IsSlice(Stored(m, e), u) /\ Elements(Stored(m, e), u) = Elements(m, u)
      BY <3>1, <3>3, StoredKeeps
    <3>4. /\ IsSlice(Stored(m, e), Fresh(m, e, k)) /\ Elements(Stored(m, e), Fresh(m, e, k)) = e
          /\ Fresh(m, e, k).at = Len(m) + 1 /\ Fresh(m, e, k).len = Len(e)
      BY <3>1, StoredKeeps
    <3>. QED BY <3>2, <3>3, <3>4
  <2>. QED BY <1>1, <2>1, <2>2, <2>5, <2>6 DEF e
<1>. QED BY <1>2, <1>3

----------------------------------------------------------------------------
(* The least and the greatest of some numbers.                             *)

\* A non-empty set of naturals has a least one, and a bounded one a greatest.
LEMMA LeastNatural ==
    ASSUME NEW T, T \subseteq Nat, T # {}
    PROVE  \E x \in T : \A y \in T : x <= y
<1>1. \E x \in T : \A y \in T : ~ (<<y, x>> \in OpToRel(<, Nat))
  BY NatLessThanWellFounded, WFMin, Zenon
<1>2. \A x, y \in T : y < x => <<y, x>> \in OpToRel(<, Nat)
  BY Zenon DEF OpToRel
<1>3. \E x \in T : \A y \in T : ~ (y < x)
  BY <1>1, <1>2, Zenon
<1>4. QED
  BY <1>3

LEMMA GreatestNatural ==
    ASSUME NEW n \in Nat, NEW T, T \subseteq 0..n, T # {}
    PROVE  \E x \in T : \A y \in T : y <= x
<1> DEFINE S == {m \in 0..n : n - m \in T}
<1>1. \A y \in T : y \in 0..n /\ n - y \in 0..n /\ n - (n - y) = y
  OBVIOUS
<1>2. \A y \in T : n - y \in S
  BY <1>1
<1>3. S # {} /\ S \subseteq Nat
  <2>1. S \subseteq Nat
    OBVIOUS
  <2>2. PICK y \in T : TRUE
    OBVIOUS
  <2> HIDE DEF S
  <2>3. QED
    BY <1>2, <2>1, <2>2
<1>4. PICK m \in S : \A z \in S : m <= z
  BY <1>3, LeastNatural
<1>5. \A y \in T : y <= n - m
  BY <1>1, <1>2, <1>4
<1>6. QED
  BY <1>4, <1>5

----------------------------------------------------------------------------
(* FlattenSeq, on sequences of any length.                                 *)

FlatStep(s, f, i) == IF i = 1 THEN s[i] ELSE f[i - 1] \o s[i]

\* The loop of FlattenSeq is a function of the place it has come to.
LEMMA FlattenLoop ==
  ASSUME NEW E, NEW s \in Seq(Seq(E))
  PROVE  \E f \in [1..Len(s) -> Seq(E)] : f = [i \in 1..Len(s) |-> FlatStep(s, f, i)]
<1> DEFINE n == Len(s)
           Good(m) == \E f \in [1..m -> Seq(E)] : f = [i \in 1..m |-> FlatStep(s, f, i)]
           T == {m \in 0..n : ~Good(m)}
<1>1. n \in Nat /\ \A i \in 1..n : s[i] \in Seq(E)
  OBVIOUS
<1>2. Good(0)
  <2>1. 1..0 = {}
    OBVIOUS
  <2>2. [i \in {} |-> 0] \in [1..0 -> Seq(E)]
    BY <2>1
  <2>3. [i \in {} |-> 0] = [i \in 1..0 |-> FlatStep(s, [j \in {} |-> 0], i)]
    BY <2>1
  <2>. QED BY <2>2, <2>3
<1>3. ASSUME NEW m \in 0..(n - 1), Good(m) PROVE Good(m + 1)
  <2>1. PICK f \in [1..m -> Seq(E)] : f = [i \in 1..m |-> FlatStep(s, f, i)]
    BY <1>3
  <2> DEFINE g == [i \in 1..(m + 1) |-> IF i = m + 1 THEN FlatStep(s, f, i) ELSE f[i]]
  <2>2. m \in Nat /\ m + 1 \in 1..n /\ \A i \in 1..(m + 1) : i = m + 1 \/ i \in 1..m
    BY <1>1
  <2>3. \A i \in 1..m : g[i] = f[i]
    BY <2>2
  <2>4. FlatStep(s, f, m + 1) \in Seq(E)
    <3>1. m # 0 => f[(m + 1) - 1] \in Seq(E)
      BY <2>2
    <3>2. m + 1 = 1 <=> m = 0
      BY <2>2
    <3>. QED BY <1>1, <2>2, <3>1, <3>2 DEF FlatStep
  <2>5. g \in [1..(m + 1) -> Seq(E)]
    BY <2>2, <2>4
  <2>6. g = [i \in 1..(m + 1) |-> g[i]] /\ g[m + 1] = FlatStep(s, f, m + 1)
    BY <2>2
  <2> HIDE DEF g
  <2>7. \A i \in 1..(m + 1) : FlatStep(s, g, i) = FlatStep(s, f, i)
    <3>1. \A i \in 1..(m + 1) : i # 1 => i - 1 \in 1..m
      BY <2>2
    <3>. QED BY <2>3, <3>1 DEF FlatStep
  <2>8. \A i \in 1..m : f[i] = FlatStep(s, f, i)
    BY <2>1
  <2>9. \A i \in 1..(m + 1) : g[i] = FlatStep(s, g, i)
    BY <2>2, <2>3, <2>6, <2>7, <2>8
  <2>10. g = [i \in 1..(m + 1) |-> FlatStep(s, g, i)]
    BY <2>6, <2>9, Zenon
  <2>. QED BY <2>5, <2>10
<1> HIDE DEF Good
<1>4. T = {}
  <2> SUFFICES ASSUME T # {} PROVE FALSE
    OBVIOUS
  <2>0. T \subseteq Nat
    BY <1>1
  <2>1. PICK x \in T : \A y \in T : x <= y
    <3> HIDE DEF T
    <3>. QED BY <2>0, LeastNatural
  <2>2. x # 0 /\ x - 1 \in 0..(n - 1) /\ x \in 0..n /\ x - 1 \notin T
    BY <1>1, <1>2, <2>1
  <2>3. Good(x - 1)
    BY <1>1, <2>2
  <2>4. Good((x - 1) + 1)
    BY <1>3, <2>2, <2>3
  <2>. QED BY <2>1, <2>2, <2>4
<1>5. Good(n)
  BY <1>1, <1>4
<1>. QED BY <1>5 DEF Good

LEMMA FlattenIs ==
  ASSUME NEW E, NEW s \in Seq(Seq(E)), s # <<>>
  PROVE  \E f \in [1..Len(s) -> Seq(E)] :
            /\ \A i \in 1..Len(s) : f[i] = FlatStep(s, f, i)
            /\ FlattenSeq(s) = f[Len(s)]
<1> DEFINE f == CHOOSE f : f = [i \in 1..Len(s) |-> FlatStep(s, f, i)]
<1>1. f = [i \in 1..Len(s) |-> FlatStep(s, f, i)]
  <2>1. \E g : g = [i \in 1..Len(s) |-> FlatStep(s, g, i)]
    BY FlattenLoop
  <2>. QED BY <2>1
<1>2. FlattenSeq(s) = f[Len(s)]
  BY DEF FlattenSeq, FlatStep
<1> HIDE DEF f
<1>3. \A i \in 1..Len(s) : f[i] = FlatStep(s, f, i)
  BY <1>1
<1>4. PICK g \in [1..Len(s) -> Seq(E)] : g = [i \in 1..Len(s) |-> FlatStep(s, g, i)]
  BY FlattenLoop
<1>5. \A i \in 1..Len(s) : g[i] = FlatStep(s, g, i)
  BY <1>4
<1> DEFINE T == {i \in 1..Len(s) : f[i] # g[i]}
<1>6. T = {}
  <2> SUFFICES ASSUME T # {} PROVE FALSE
    OBVIOUS
  <2>0. T \subseteq Nat
    OBVIOUS
  <2>1. PICK x \in T : \A y \in T : x <= y
    <3> HIDE DEF T
    <3>. QED BY <2>0, LeastNatural
  <2>2. x \in 1..Len(s) /\ (x # 1 => x - 1 \in 1..Len(s)) /\ x - 1 \notin T
    BY <2>1
  <2>3. x # 1 => f[x - 1] = g[x - 1]
    BY <2>2
  <2>4. FlatStep(s, f, x) = FlatStep(s, g, x)
    BY <2>3 DEF FlatStep
  <2>. QED BY <1>3, <1>5, <2>1, <2>2, <2>4
<1>7. f = g
  BY <1>1, <1>6
<1>. QED BY <1>2, <1>3, <1>7

LEMMA SequenceOf ==
  ASSUME NEW E, NEW n \in Nat, NEW s, s = [i \in 1..n |-> s[i]], \A i \in 1..n : s[i] \in E
  PROVE  s \in Seq(E) /\ Len(s) = n /\ DOMAIN s = 1..n
<1>1. s \in [1..n -> E]
  OBVIOUS
<1>2. s \in Seq(E) /\ DOMAIN s = 1..n
  BY <1>1
<1>. QED BY <1>2

LEMMA FlattenNone == FlattenSeq(<<>>) = <<>>
  BY DEF FlattenSeq

LEMMA FlattenType ==
  ASSUME NEW E, NEW s \in Seq(Seq(E))
  PROVE  FlattenSeq(s) \in Seq(E)
<1>1. CASE s = <<>>
  <2>1. <<>> \in Seq(E)
    OBVIOUS
  <2>. QED BY <1>1, <2>1, FlattenNone
<1>2. CASE s # <<>>
  <2>1. PICK f \in [1..Len(s) -> Seq(E)] : FlattenSeq(s) = f[Len(s)]
    BY <1>2, FlattenIs
  <2>2. Len(s) \in 1..Len(s)
    BY <1>2
  <2>. QED BY <2>1, <2>2
<1>. QED BY <1>1, <1>2

LEMMA FlattenAppend ==
  ASSUME NEW E, NEW s \in Seq(Seq(E)), NEW t \in Seq(E)
  PROVE  FlattenSeq(Append(s, t)) = FlattenSeq(s) \o t
<1> DEFINE u == Append(s, t)
           n == Len(s)
<1>1. /\ u \in Seq(Seq(E)) /\ u # <<>> /\ n \in Nat /\ Len(u) = n + 1
      /\ u[n + 1] = t /\ \A i \in 1..n : u[i] = s[i]
  <2>1. u \in Seq(Seq(E)) /\ n \in Nat
    OBVIOUS
  <2>2. Len(u) = n + 1 /\ u[n + 1] = t /\ \A i \in 1..n : u[i] = s[i]
    BY AppendMemory DEF IsMemory
  <2>3. u # <<>>
    <3>1. Len(u) # Len(<<>>)
      BY <2>1, <2>2
    <3>. QED BY <3>1
  <2>. QED BY <2>1, <2>2, <2>3
<1> HIDE DEF u
<1>2. PICK f \in [1..Len(u) -> Seq(E)] : /\ \A i \in 1..Len(u) : f[i] = FlatStep(u, f, i)
                                         /\ FlattenSeq(u) = f[Len(u)]
  BY <1>1, FlattenIs
<1>3. CASE n = 0
  <2>1. s = <<>>
    BY <1>3
  <2>2. FlattenSeq(u) = t
    BY <1>1, <1>2, <1>3 DEF FlatStep
  <2>. QED BY <2>1, <2>2, FlattenNone DEF u
<1>4. CASE n # 0
  <2>1. s # <<>> /\ n \in 1..n
    BY <1>1, <1>4
  <2>2. PICK g \in [1..n -> Seq(E)] : /\ \A i \in 1..n : g[i] = FlatStep(s, g, i)
                                      /\ FlattenSeq(s) = g[n]
    BY <2>1, FlattenIs
  <2>3. \A i \in 1..n : f[i] = FlatStep(u, f, i)
    BY <1>1, <1>2
  <2>4. \A i \in 1..n : f[i] = g[i]
    <3> DEFINE T == {i \in 1..n : f[i] # g[i]}
    <3>1. T \subseteq Nat
      OBVIOUS
    <3>2. ASSUME T # {} PROVE FALSE
      <4>1. PICK x \in T : \A y \in T : x <= y
        <5> HIDE DEF T
        <5>. QED BY <3>1, <3>2, LeastNatural
      <4>2. x \in 1..n /\ (x # 1 => x - 1 \in 1..n) /\ x - 1 \notin T
        <5>1. x \in 1..n
          BY <4>1
        <5>2. ASSUME x - 1 \in T PROVE FALSE
          <6>1. x <= x - 1
            BY <4>1, <5>2
          <6>. QED BY <5>1, <6>1
        <5>3. x # 1 => x - 1 \in 1..n
          <6> HIDE DEF n
          <6>. QED BY <1>1, <5>1
        <5>. QED BY <5>1, <5>2, <5>3
      <4>3. x # 1 => f[x - 1] = g[x - 1]
        BY <4>2
      <4>4. FlatStep(u, f, x) = FlatStep(s, g, x)
        <5>1. u[x] = s[x]
          BY <1>1, <4>2
        <5>. QED BY <4>3, <5>1 DEF FlatStep
      <4>. QED BY <2>2, <2>3, <4>1, <4>2, <4>4
    <3>. QED BY <3>2
  <2>5. f[n + 1] = FlatStep(u, f, n + 1) /\ FlattenSeq(u) = f[n + 1]
    BY <1>1, <1>2
  <2>6. n + 1 # 1 /\ (n + 1) - 1 = n
    BY <1>1, <1>4
  <2>7. FlattenSeq(u) = f[n] \o t
    BY <1>1, <2>5, <2>6 DEF FlatStep
  <2>. QED BY <2>1, <2>2, <2>4, <2>7 DEF u
<1>. QED BY <1>3, <1>4

\* Any sequence is empty, or one with an element appended.
LEMMA LastOff ==
  ASSUME NEW E, NEW t \in Seq(E), t # <<>>
  PROVE  \E u \in Seq(E), x \in E : t = Append(u, x) /\ Len(t) = Len(u) + 1
<1> DEFINE n == Len(t)
           u == [i \in 1..(n - 1) |-> t[i]]
<1>1. n \in Nat \ {0} /\ n - 1 \in Nat /\ \A i \in 1..n : t[i] \in E
  OBVIOUS
<1>2. u \in Seq(E) /\ Len(u) = n - 1
  BY <1>1
<1>3. Append(u, t[n]) \in Seq(E) /\ Len(Append(u, t[n])) = n
  BY <1>1, <1>2
<1>4. \A i \in 1..n : Append(u, t[n])[i] = t[i]
  <2>1. \A i \in 1..n : i = n \/ i \in 1..(n - 1)
    BY <1>1
  <2>2. /\ \A i \in 1..(n - 1) : Append(u, t[n])[i] = u[i]
        /\ Append(u, t[n])[n] = t[n]
    <3> HIDE DEF u, n
    <3>1. Len(u) + 1 = n
      BY <1>1, <1>2
    <3>. QED BY <1>1, <1>2, <3>1, AppendMemory DEF IsMemory
  <2>. QED BY <1>1, <2>1, <2>2
<1> HIDE DEF u
<1>5. Append(u, t[n]) = t
  BY <1>3, <1>4, SeqEqual
<1>. QED BY <1>1, <1>2, <1>5

LEMMA AppendLater ==
  ASSUME NEW E, NEW s \in Seq(E), NEW t \in Seq(E), NEW x \in E
  PROVE  s \o Append(t, x) = Append(s \o t, x)
<1> DEFINE a == s \o Append(t, x)
           b == Append(s \o t, x)
<1>1. a \in Seq(E) /\ b \in Seq(E) /\ Len(a) = Len(b)
  OBVIOUS
<1>2. \A i \in 1..Len(a) : a[i] = b[i]
  OBVIOUS
<1> HIDE DEF a, b
<1>3. a = b
  BY <1>1, <1>2, SeqEqual
<1>. QED BY <1>3 DEF a, b

LEMMA ConcatLater ==
  ASSUME NEW E, NEW s \in Seq(E), NEW t \in Seq(E), NEW u \in Seq(E)
  PROVE  (s \o t) \o u = s \o (t \o u)
<1> DEFINE a == (s \o t) \o u
           b == s \o (t \o u)
<1>1. a \in Seq(E) /\ b \in Seq(E) /\ Len(a) = Len(b)
  OBVIOUS
<1>2. \A i \in 1..Len(a) : a[i] = b[i]
  OBVIOUS
<1> HIDE DEF a, b
<1>3. a = b
  BY <1>1, <1>2, SeqEqual
<1>. QED BY <1>3 DEF a, b

LEMMA ConcatShape ==
  ASSUME NEW E, NEW s \in Seq(E), NEW t \in Seq(E)
  PROVE  /\ s \o t \in Seq(E) /\ Len(s \o t) = Len(s) + Len(t)
         /\ \A i \in 1..Len(s) : (s \o t)[i] = s[i]
         /\ \A i \in 1..Len(t) : (s \o t)[Len(s) + i] = t[i]
  OBVIOUS

LEMMA ConcatNone == ASSUME NEW E, NEW s \in Seq(E) PROVE s \o <<>> = s /\ <<>> \o s = s
  OBVIOUS

LEMMA FlattenConcat ==
  ASSUME NEW E, NEW s \in Seq(Seq(E)), NEW t \in Seq(Seq(E))
  PROVE  FlattenSeq(s \o t) = FlattenSeq(s) \o FlattenSeq(t)
<1> DEFINE Good(v) == FlattenSeq(s \o v) = FlattenSeq(s) \o FlattenSeq(v)
           T == {m \in Nat : \E v \in Seq(Seq(E)) : Len(v) = m /\ ~Good(v)}
<1>0. \A p, q, r \in Seq(E) : (p \o q) \o r = p \o (q \o r)
  BY ConcatLater
<1> HIDE DEF Good
<1>1. T = {}
  <2> SUFFICES ASSUME T # {} PROVE FALSE
    OBVIOUS
  <2>0. T \subseteq Nat
    OBVIOUS
  <2>1. PICK m \in T : \A y \in T : m <= y
    <3> HIDE DEF T
    <3>. QED BY <2>0, LeastNatural
  <2>2. PICK v \in Seq(Seq(E)) : Len(v) = m /\ ~Good(v)
    BY <2>1
  <2>3. v # <<>>
    <3>1. FlattenSeq(s) \in Seq(E)
      BY FlattenType
    <3>2. Good(<<>>)
      BY <3>1, FlattenNone, ConcatNone DEF Good
    <3>. QED BY <2>2, <3>2
  <2>4. PICK w \in Seq(Seq(E)), x \in Seq(E) : v = Append(w, x) /\ Len(v) = Len(w) + 1
    BY <2>3, LastOff
  <2>5. Good(w)
    <3>1. Len(w) \in Nat /\ ~(m <= Len(w))
      BY <2>2, <2>4
    <3>2. Len(w) \notin T
      BY <2>1, <3>1
    <3>. QED BY <3>1, <3>2
  <2>6. FlattenSeq(s \o v) = FlattenSeq(s \o w) \o x
    <3>1. s \o v = Append(s \o w, x) /\ s \o w \in Seq(Seq(E))
      BY <2>4, AppendLater
    <3>. QED BY <3>1, FlattenAppend
  <2>7. FlattenSeq(v) = FlattenSeq(w) \o x
    BY <2>4, FlattenAppend
  <2>8. FlattenSeq(s) \in Seq(E) /\ FlattenSeq(w) \in Seq(E)
    BY FlattenType
  <2>9. (FlattenSeq(s) \o FlattenSeq(w)) \o x = FlattenSeq(s) \o (FlattenSeq(w) \o x)
    <3>1. x \in Seq(E)
      BY <2>4
    <3>. QED BY <1>0, <2>8, <3>1
  <2>10. Good(v)
    BY <2>5, <2>6, <2>7, <2>9 DEF Good
  <2>. QED BY <2>2, <2>10
<1>2. Len(t) \in Nat
  OBVIOUS
<1>3. Good(t)
  BY <1>1, <1>2
<1>. QED BY <1>3 DEF Good

----------------------------------------------------------------------------
(* Flatten: its recursion over the groups is well-founded.                 *)

Inner(x) == IF x.attr.key = Blank THEN x.prefix ELSE joinKey(x.prefix, x.attr.key)

Single(x) ==
    IF x.attr.key = Blank /\ x.attr.value = NoValue THEN <<>>
    ELSE <<[key |-> joinKey(x.prefix, x.attr.key), value |-> x.attr.value]>>

FlattenMembers(f, x) ==
    FlattenSeq([i \in DOMAIN x.attr.members |->
                  f[[prefix |-> Inner(x), attr |-> x.attr.members[i]]]])

\* What Flatten is at x, given what it is inside.
FlattenBody(f, x) ==
    CASE x.attr.members # <<>> -> FlattenMembers(f, x)
      [] x.attr.group /\ x.attr.members = <<>> -> <<>>
      [] OTHER -> Single(x)

\* Sets of attributes with all that is in their groups.
Whole(D) ==
    D \subseteq Attrs /\ \A a \in D : \A i \in DOMAIN a.members : a.members[i] \in D

TasksOf(D) == {x \in Tasks : x.attr \in D}

Solves(D, f) == f = [x \in TasksOf(D) |-> FlattenBody(f, x)]

LEMMA Outermost ==
  ASSUME NEW S \in SUBSET Attrs, S # {}
  PROVE  \E a \in S : \A i \in DOMAIN a.members : a.members[i] \notin S
  BY BridgeAssumption DEF BridgeAssumption

LEMMA AttrShape ==
  ASSUME NEW a \in Attrs
  PROVE  /\ a.key \in Texts /\ a.value \in Values /\ a.group \in BOOLEAN
         /\ a.members \in Seq(Attrs)
         /\ a.members # <<>> => a.group
  BY BridgeAssumption DEF BridgeAssumption

LEMMA JoinType == ASSUME NEW p \in Texts, NEW k \in Texts PROVE joinKey(p, k) \in Texts
<1>1. ASSUME NEW E, NEW s \in Seq(E), NEW t \in Seq(E) PROVE s \o t \in Seq(E)
  OBVIOUS
<1>2. p \o k \in Texts
  BY <1>1 DEF Texts
<1>. QED BY <1>2 DEF joinKey

LEMMA TaskShape ==
  ASSUME NEW x \in Tasks
  PROVE  /\ x.attr \in Attrs /\ x.prefix \in Texts /\ Inner(x) \in Texts
         /\ Single(x) \in Seq(Fields)
         /\ \A i \in DOMAIN x.attr.members :
               /\ x.attr.members[i] \in Attrs
               /\ [prefix |-> Inner(x), attr |-> x.attr.members[i]] \in Tasks
<1>1. x.attr \in Attrs /\ x.prefix \in Texts
  BY DEF Tasks
<1>2. x.attr.key \in Texts /\ x.attr.value \in Values /\ x.attr.members \in Seq(Attrs)
  BY <1>1, AttrShape
<1>3. joinKey(x.prefix, x.attr.key) \in Texts
  BY <1>1, <1>2, JoinType
<1>4. Inner(x) \in Texts
  BY <1>1, <1>3 DEF Inner
<1>5. [key |-> joinKey(x.prefix, x.attr.key), value |-> x.attr.value] \in Fields
  BY <1>2, <1>3 DEF Fields
<1>6. Single(x) \in Seq(Fields)
  BY <1>5 DEF Single
<1>7. \A i \in DOMAIN x.attr.members : x.attr.members[i] \in Attrs
  BY <1>2
<1>. QED BY <1>1, <1>4, <1>6, <1>7 DEF Tasks

\* Only what is inside counts.
LEMMA BodySame ==
  ASSUME NEW x \in Tasks, NEW f, NEW g,
         \A i \in DOMAIN x.attr.members :
            f[[prefix |-> Inner(x), attr |-> x.attr.members[i]]]
              = g[[prefix |-> Inner(x), attr |-> x.attr.members[i]]]
  PROVE  FlattenBody(f, x) = FlattenBody(g, x)
<1>1. FlattenMembers(f, x) = FlattenMembers(g, x)
  <2>1. [i \in DOMAIN x.attr.members |-> f[[prefix |-> Inner(x), attr |-> x.attr.members[i]]]]
          = [i \in DOMAIN x.attr.members |-> g[[prefix |-> Inner(x), attr |-> x.attr.members[i]]]]
    OBVIOUS
  <2>. QED BY <2>1 DEF FlattenMembers
<1>. QED BY <1>1 DEF FlattenBody

\* Solutions agree where they are both defined.
LEMMA SolutionsAgree ==
  ASSUME NEW D, Whole(D), NEW f, Solves(D, f), NEW E, Whole(E), NEW g, Solves(E, g)
  PROVE  \A x \in Tasks : x.attr \in D /\ x.attr \in E => f[x] = g[x]
<1> DEFINE S == {a \in D \cap E : \E x \in Tasks : x.attr = a /\ f[x] # g[x]}
<1>1. S \in SUBSET Attrs
  BY DEF Whole
<1>2. ASSUME S # {} PROVE FALSE
  <2>1. PICK a \in S : \A i \in DOMAIN a.members : a.members[i] \notin S
    <3> HIDE DEF S
    <3>. QED BY <1>1, <1>2, Outermost
  <2>2. PICK x \in Tasks : x.attr = a /\ f[x] # g[x]
    BY <2>1
  <2>3. a \in D /\ a \in E
    BY <2>1
  <2>4. ASSUME NEW i \in DOMAIN x.attr.members
        PROVE  f[[prefix |-> Inner(x), attr |-> x.attr.members[i]]]
                 = g[[prefix |-> Inner(x), attr |-> x.attr.members[i]]]
    <3>1. [prefix |-> Inner(x), attr |-> x.attr.members[i]] \in Tasks
      BY TaskShape
    <3>2. x.attr.members[i] \in D \cap E /\ x.attr.members[i] \notin S
      BY <2>1, <2>2, <2>3 DEF Whole
    <3> DEFINE y == [prefix |-> Inner(x), attr |-> x.attr.members[i]]
    <3>3. y \in Tasks /\ y.attr = x.attr.members[i]
      BY <3>1
    <3> HIDE DEF y
    <3>4. f[y] = g[y]
      BY <3>2, <3>3
    <3>. QED BY <3>4 DEF y
  <2>5. FlattenBody(f, x) = FlattenBody(g, x)
    BY <2>4, BodySame
  <2>6. x \in TasksOf(D) /\ x \in TasksOf(E)
    BY <2>2, <2>3 DEF TasksOf
  <2>7. f[x] = FlattenBody(f, x) /\ g[x] = FlattenBody(g, x)
    BY <2>6 DEF Solves
  <2>. QED BY <2>2, <2>5, <2>7
<1>. QED BY <1>2

LEMMA FlattenExists == \E f : f = [x \in Tasks |-> FlattenBody(f, x)]
<1> DEFINE Solved(a, D, f) == Whole(D) /\ a \in D /\ Solves(D, f)
           G == {a \in Attrs : \E D, f : Solved(a, D, f)}
           Is(x, v) == \E D, f : Solved(x.attr, D, f) /\ v = f[x]
           F == [x \in TasksOf(G) |-> CHOOSE v : Is(x, v)]
<1>1. ASSUME NEW x \in Tasks, NEW D, NEW f, Solved(x.attr, D, f)
      PROVE  x \in TasksOf(G) /\ F[x] = f[x]
  <2>1. x.attr \in G /\ x.attr \in Attrs
    BY <1>1, TaskShape
  <2>2. x \in TasksOf(G)
    BY <2>1 DEF TasksOf
  <2>3. Is(x, f[x])
    BY <1>1
  <2>4. \A v : Is(x, v) => v = f[x]
    <3>1. ASSUME NEW E, NEW g, Solved(x.attr, E, g) PROVE g[x] = f[x]
      BY <1>1, <3>1, SolutionsAgree
    <3>. QED BY <3>1
  <2>5. (CHOOSE v : Is(x, v)) = f[x]
    <3> HIDE DEF Is
    <3>. QED BY <2>3, <2>4
  <2> HIDE DEF Is, G
  <2>. QED BY <2>2, <2>5
<1>2. Whole(G)
  <2>1. ASSUME NEW a \in G, NEW i \in DOMAIN a.members PROVE a.members[i] \in G
    <3>1. PICK D, f : Solved(a, D, f)
      BY <2>1
    <3>2. a.members[i] \in D /\ a.members[i] \in Attrs
      BY <3>1 DEF Whole
    <3>3. Solved(a.members[i], D, f)
      BY <3>1, <3>2
    <3> HIDE DEF Solved
    <3>. QED BY <3>2, <3>3
  <2>2. G \subseteq Attrs
    OBVIOUS
  <2> HIDE DEF G
  <2>. QED BY <2>1, <2>2 DEF Whole
<1>3. Solves(G, F)
  <2>1. ASSUME NEW x \in TasksOf(G) PROVE F[x] = FlattenBody(F, x)
    <3>1. x \in Tasks /\ x.attr \in G
      BY DEF TasksOf
    <3>2. PICK D, f : Solved(x.attr, D, f)
      BY <3>1
    <3>3. F[x] = f[x]
      <4> HIDE DEF F, G, Solved
      <4>. QED BY <1>1, <3>1, <3>2
    <3>4. x \in TasksOf(D)
      BY <3>1, <3>2 DEF TasksOf
    <3>5. f[x] = FlattenBody(f, x)
      BY <3>2, <3>4 DEF Solves
    <3>6. ASSUME NEW i \in DOMAIN x.attr.members
          PROVE  F[[prefix |-> Inner(x), attr |-> x.attr.members[i]]]
                   = f[[prefix |-> Inner(x), attr |-> x.attr.members[i]]]
      <4> DEFINE y == [prefix |-> Inner(x), attr |-> x.attr.members[i]]
      <4>1. y \in Tasks /\ y.attr = x.attr.members[i]
        BY <3>1, TaskShape
      <4>2. x.attr.members[i] \in D
        BY <3>2 DEF Whole
      <4>3. Solved(y.attr, D, f)
        BY <3>2, <4>1, <4>2
      <4> HIDE DEF y, F, G, Solved
      <4>4. F[y] = f[y]
        BY <1>1, <4>1, <4>3
      <4>. QED BY <4>4 DEF y
    <3> HIDE DEF F
    <3>7. FlattenBody(F, x) = FlattenBody(f, x)
      BY <3>1, <3>6, BodySame
    <3>. QED BY <3>3, <3>5, <3>7
  <2>2. F = [x \in TasksOf(G) |-> F[x]]
    OBVIOUS
  <2> HIDE DEF F, G
  <2>3. F = [x \in TasksOf(G) |-> FlattenBody(F, x)]
    BY <2>1, <2>2, Zenon
  <2>. QED BY <2>3 DEF Solves
<1>4. ASSUME Attrs \ G # {} PROVE FALSE
  <2>1. PICK a \in Attrs \ G : \A i \in DOMAIN a.members : a.members[i] \notin Attrs \ G
    <3> HIDE DEF G
    <3>. QED BY <1>4, Outermost
  <2> DEFINE E == G \cup {a}
             H == [x \in TasksOf(E) |-> IF x.attr \in G THEN F[x] ELSE FlattenBody(F, x)]
  <2>2. \A i \in DOMAIN a.members : a.members[i] \in G
    <3> HIDE DEF G
    <3>1. \A i \in DOMAIN a.members : a.members[i] \in Attrs
      BY <2>1, AttrShape
    <3>. QED BY <2>1, <3>1
  <2> HIDE DEF F, G
  <2>3. Whole(E)
    BY <1>2, <2>1, <2>2 DEF Whole
  <2>4. \A x \in TasksOf(E) : H[x] = IF x.attr \in G THEN F[x] ELSE FlattenBody(F, x)
    OBVIOUS
  <2>5. \A x \in TasksOf(G) : F[x] = FlattenBody(F, x)
    BY <1>3 DEF Solves
  <2>6. ASSUME NEW x \in TasksOf(E) PROVE H[x] = FlattenBody(F, x)
    <3>1. x \in Tasks
      BY DEF TasksOf
    <3>2. x.attr \in G => x \in TasksOf(G)
      BY <3>1 DEF TasksOf
    <3> HIDE DEF H, E
    <3>. QED BY <2>4, <2>5, <3>2
  <2>7. ASSUME NEW x \in TasksOf(E) PROVE FlattenBody(H, x) = FlattenBody(F, x)
    <3>1. x \in Tasks /\ x.attr \in E
      BY DEF TasksOf
    <3>2. \A i \in DOMAIN x.attr.members : x.attr.members[i] \in G
      BY <1>2, <2>2, <3>1 DEF Whole
    <3>3. ASSUME NEW i \in DOMAIN x.attr.members
          PROVE  H[[prefix |-> Inner(x), attr |-> x.attr.members[i]]]
                   = F[[prefix |-> Inner(x), attr |-> x.attr.members[i]]]
      <4> DEFINE y == [prefix |-> Inner(x), attr |-> x.attr.members[i]]
      <4>1. y \in Tasks /\ y.attr \in G
        BY <3>1, <3>2, TaskShape
      <4>2. y \in TasksOf(E)
        BY <4>1 DEF TasksOf
      <4> HIDE DEF y, H, E
      <4>3. H[y] = F[y]
        BY <2>4, <4>1, <4>2
      <4>. QED BY <4>3 DEF y
    <3> HIDE DEF H
    <3>. QED BY <3>1, <3>3, BodySame
  <2>8. H = [x \in TasksOf(E) |-> H[x]]
    OBVIOUS
  <2>9. a \in E
    OBVIOUS
  <2> HIDE DEF H, E
  <2>10. H = [x \in TasksOf(E) |-> FlattenBody(H, x)]
    BY <2>6, <2>7, <2>8, Zenon
  <2>11. Solved(a, E, H)
    BY <2>3, <2>9, <2>10 DEF Solves
  <2> HIDE DEF Solved
  <2>12. a \in G
    BY <2>1, <2>11 DEF G
  <2>. QED BY <2>1, <2>12
<1>5. TasksOf(G) = Tasks
  <2> HIDE DEF G
  <2>1. \A x \in Tasks : x.attr \in G
    BY <1>4, TaskShape
  <2>. QED BY <2>1 DEF TasksOf
<1> HIDE DEF F, G
<1>6. F = [x \in Tasks |-> FlattenBody(F, x)]
  BY <1>3, <1>5 DEF Solves
<1>. QED BY <1>6

LEMMA FlattenIsBody == \A x \in Tasks : Flatten[x] = FlattenBody(Flatten, x)
<1>1. Flatten = CHOOSE f : f = [x \in Tasks |-> FlattenBody(f, x)]
  BY DEF Flatten, FlattenBody, FlattenMembers, Inner, Single
<1>2. Flatten = [x \in Tasks |-> FlattenBody(Flatten, x)]
  BY <1>1, FlattenExists
<1>. QED BY <1>2

\* Attributes become fields.
LEMMA FlattenFields == \A x \in Tasks : Flatten[x] \in Seq(Fields)
<1> DEFINE S == {a \in Attrs : \E x \in Tasks : x.attr = a /\ Flatten[x] \notin Seq(Fields)}
<1>1. ASSUME S # {} PROVE FALSE
  <2>1. PICK a \in S : \A i \in DOMAIN a.members : a.members[i] \notin S
    <3>1. S \in SUBSET Attrs
      OBVIOUS
    <3> HIDE DEF S
    <3>. QED BY <1>1, <3>1, Outermost
  <2>2. PICK x \in Tasks : x.attr = a /\ Flatten[x] \notin Seq(Fields)
    BY <2>1
  <2>3. ASSUME NEW i \in DOMAIN x.attr.members
        PROVE  Flatten[[prefix |-> Inner(x), attr |-> x.attr.members[i]]] \in Seq(Fields)
    <3> DEFINE y == [prefix |-> Inner(x), attr |-> x.attr.members[i]]
    <3>1. y \in Tasks /\ y.attr = x.attr.members[i] /\ y.attr \in Attrs
      BY TaskShape
    <3>2. y.attr \notin S
      BY <2>1, <2>2, <3>1
    <3> HIDE DEF y
    <3>3. Flatten[y] \in Seq(Fields)
      BY <3>1, <3>2
    <3>. QED BY <3>3 DEF y
  <2>4. FlattenMembers(Flatten, x) \in Seq(Fields)
    <3> DEFINE s == [i \in DOMAIN x.attr.members |->
                       Flatten[[prefix |-> Inner(x), attr |-> x.attr.members[i]]]]
    <3>1. x.attr.members \in Seq(Attrs)
      BY TaskShape, AttrShape
    <3>2. s \in Seq(Seq(Fields))
      <4>1. DOMAIN x.attr.members = 1..Len(x.attr.members) /\ Len(x.attr.members) \in Nat
        BY <3>1
      <4>2. \A i \in DOMAIN x.attr.members : s[i] \in Seq(Fields)
        BY <2>3
      <4>3. s = [i \in DOMAIN x.attr.members |-> s[i]]
        OBVIOUS
      <4> HIDE DEF s
      <4>. QED BY <4>1, <4>2, <4>3, SequenceOf
    <3> HIDE DEF s
    <3>3. FlattenSeq(s) \in Seq(Fields)
      BY <3>2, FlattenType
    <3>. QED BY <3>3 DEF s, FlattenMembers
  <2>5. Single(x) \in Seq(Fields)
    BY TaskShape
  <2>6. FlattenBody(Flatten, x) \in Seq(Fields)
    <3>1. <<>> \in Seq(Fields)
      OBVIOUS
    <3>. QED BY <2>4, <2>5, <3>1 DEF FlattenBody
  <2>. QED BY <2>2, <2>6, FlattenIsBody
<1>. QED BY <1>1, TaskShape

----------------------------------------------------------------------------
(* What attributes still to be appended will say.                          *)

All(ts) == FlattenSeq([i \in DOMAIN ts |-> Flatten[ts[i]]])

LEMMA AllShape ==
  ASSUME NEW ts \in Seq(Tasks)
  PROVE  /\ [i \in DOMAIN ts |-> Flatten[ts[i]]] \in Seq(Seq(Fields))
         /\ Len([i \in DOMAIN ts |-> Flatten[ts[i]]]) = Len(ts)
         /\ All(ts) \in Seq(Fields)
<1> DEFINE s == [i \in DOMAIN ts |-> Flatten[ts[i]]]
<1>1. DOMAIN ts = 1..Len(ts) /\ Len(ts) \in Nat /\ \A i \in DOMAIN ts : ts[i] \in Tasks
  OBVIOUS
<1>2. \A i \in DOMAIN ts : s[i] \in Seq(Fields)
  BY <1>1, FlattenFields
<1>3. s = [i \in DOMAIN ts |-> s[i]]
  OBVIOUS
<1> HIDE DEF s
<1>4. s \in Seq(Seq(Fields)) /\ Len(s) = Len(ts)
  BY <1>1, <1>2, <1>3, SequenceOf
<1>5. FlattenSeq(s) \in Seq(Fields)
  BY <1>4, FlattenType
<1>. QED BY <1>4, <1>5 DEF s, All

LEMMA AllConcat ==
  ASSUME NEW s \in Seq(Tasks), NEW t \in Seq(Tasks)
  PROVE  All(s \o t) = All(s) \o All(t)
<1> DEFINE map(u) == [i \in DOMAIN u |-> Flatten[u[i]]]
           a == map(s)
           b == map(t)
           c == map(s \o t)
<1>1. s \o t \in Seq(Tasks) /\ Len(s \o t) = Len(s) + Len(t)
  OBVIOUS
<1>2. /\ a \in Seq(Seq(Fields)) /\ Len(a) = Len(s)
      /\ b \in Seq(Seq(Fields)) /\ Len(b) = Len(t)
      /\ c \in Seq(Seq(Fields)) /\ Len(c) = Len(s) + Len(t)
  BY <1>1, AllShape
<1>3. /\ \A i \in 1..Len(s) : a[i] = Flatten[s[i]]
      /\ \A i \in 1..Len(t) : b[i] = Flatten[t[i]]
      /\ \A i \in 1..(Len(s) + Len(t)) :
            c[i] = Flatten[IF i <= Len(s) THEN s[i] ELSE t[i - Len(s)]]
  OBVIOUS
<1>4. Len(s) \in Nat /\ Len(t) \in Nat
  OBVIOUS
<1> HIDE DEF a, b, c
<1>5. /\ a \o b \in Seq(Seq(Fields)) /\ Len(a \o b) = Len(c)
      /\ \A i \in 1..Len(a) : (a \o b)[i] = a[i]
      /\ \A i \in 1..Len(b) : (a \o b)[Len(a) + i] = b[i]
  <2>1. a \in Seq(Seq(Fields)) /\ b \in Seq(Seq(Fields)) /\ Len(c) = Len(a) + Len(b)
    BY <1>2
  <2>2. a \o b \in Seq(Seq(Fields)) /\ Len(a \o b) = Len(a) + Len(b)
    BY <2>1, ConcatShape
  <2>3. \A i \in 1..Len(a) : (a \o b)[i] = a[i]
    BY <2>1, ConcatShape
  <2>4. \A i \in 1..Len(b) : (a \o b)[Len(a) + i] = b[i]
    BY <2>1, ConcatShape
  <2>. QED BY <2>1, <2>2, <2>3, <2>4
<1>6. \A i \in 1..Len(c) : (a \o b)[i] = c[i]
  <2> SUFFICES ASSUME NEW i \in 1..Len(c) PROVE (a \o b)[i] = c[i]
    OBVIOUS
  <2>1. CASE i <= Len(s)
    <3>1. i \in 1..Len(s) /\ i \in 1..(Len(s) + Len(t))
      BY <1>2, <1>4, <2>1
    <3>. QED BY <1>2, <1>3, <1>5, <2>1, <3>1
  <2>2. CASE ~(i <= Len(s))
    <3>1. PICK j \in 1..Len(t) : i = Len(s) + j /\ i - Len(s) = j
      <4>1. i - Len(s) \in 1..Len(t) /\ i = Len(s) + (i - Len(s))
        BY <1>2, <1>4, <2>2
      <4>. QED BY <4>1
    <3>2. i \in 1..(Len(s) + Len(t))
      BY <1>2
    <3>3. c[i] = Flatten[t[j]]
      BY <1>3, <2>2, <3>1, <3>2
    <3>4. (a \o b)[i] = b[j]
      BY <1>2, <1>5, <3>1
    <3>. QED BY <1>3, <3>3, <3>4
  <2>. QED BY <2>1, <2>2
<1>7. a \o b = c
  BY <1>2, <1>5, <1>6, SeqEqual
<1>8. FlattenSeq(a \o b) = FlattenSeq(a) \o FlattenSeq(b)
  BY <1>2, FlattenConcat
<1>. QED BY <1>7, <1>8 DEF a, b, c, All

LEMMA AllNone == All(<<>>) = <<>>
<1>1. [i \in DOMAIN <<>> |-> Flatten[<<>>[i]]] = <<>>
  OBVIOUS
<1>. QED BY <1>1, FlattenNone DEF All

LEMMA AllOne == ASSUME NEW x \in Tasks PROVE All(<<x>>) = Flatten[x]
<1> DEFINE s == [i \in DOMAIN <<x>> |-> Flatten[<<x>>[i]]]
<1>1. s = <<Flatten[x]>>
  OBVIOUS
<1>2. Append(<<>>, Flatten[x]) = <<Flatten[x]>> /\ <<>> \in Seq(Seq(Fields))
  OBVIOUS
<1>3. Flatten[x] \in Seq(Fields)
  BY FlattenFields
<1> HIDE DEF s
<1>4. FlattenSeq(s) = FlattenSeq(<<>>) \o Flatten[x]
  BY <1>1, <1>2, <1>3, FlattenAppend
<1>5. FlattenSeq(s) = Flatten[x]
  BY <1>3, <1>4, FlattenNone, ConcatNone
<1>. QED BY <1>5 DEF s, All

LEMMA AllHead ==
  ASSUME NEW ts \in Seq(Tasks), ts # <<>>
  PROVE  /\ Head(ts) \in Tasks /\ Tail(ts) \in Seq(Tasks)
         /\ All(ts) = Flatten[Head(ts)] \o All(Tail(ts))
<1>1. Head(ts) \in Tasks /\ Tail(ts) \in Seq(Tasks) /\ <<Head(ts)>> \in Seq(Tasks)
  OBVIOUS
<1>2. ts = <<Head(ts)>> \o Tail(ts)
  OBVIOUS
<1> DEFINE h == Head(ts)
           t == Tail(ts)
<1> HIDE DEF h, t
<1>3. All(<<h>> \o t) = All(<<h>>) \o All(t)
  BY <1>1, AllConcat DEF h, t
<1>4. All(<<h>>) = Flatten[h]
  BY <1>1, AllOne DEF h
<1>. QED BY <1>1, <1>2, <1>3, <1>4 DEF h, t

LEMMA UnderShape ==
  ASSUME NEW p \in Texts, NEW list \in Seq(Attrs)
  PROVE  /\ Under(p, list) \in Seq(Tasks) /\ FlattenAll(p, list) = All(Under(p, list))
         /\ FlattenAll(p, list) \in Seq(Fields)
<1>0. DOMAIN list = 1..Len(list) /\ Len(list) \in Nat /\ \A i \in DOMAIN list : list[i] \in Attrs
  OBVIOUS
<1> DEFINE u == Under(p, list)
<1>1. /\ DOMAIN list = 1..Len(list) /\ Len(list) \in Nat /\ DOMAIN u = DOMAIN list
      /\ u = [i \in DOMAIN list |-> u[i]]
      /\ \A i \in DOMAIN list : u[i] \in Tasks
  <2>2. u = [i \in DOMAIN list |-> [prefix |-> p, attr |-> list[i]]]
    BY DEF Under
  <2>3. \A i \in DOMAIN list : [prefix |-> p, attr |-> list[i]] \in Tasks
    BY <1>0 DEF Tasks
  <2>. QED BY <1>0, <2>2, <2>3
<1> HIDE DEF u
<1>2. u \in Seq(Tasks)
  BY <1>1, SequenceOf
<1>3. FlattenAll(p, list) = All(u)
  BY <1>1 DEF FlattenAll, All, u
<1>. QED BY <1>2, <1>3, AllShape DEF u

\* What appendAttr does with one attribute is what it says, a group being
\* replaced by what is in it.
LEMMA Unfold ==
  ASSUME NEW x \in Tasks
  PROVE  LET ignored == x.attr.group \/ (x.attr.key = Blank /\ x.attr.value = NoValue)
             new == [key |-> joinKey(x.prefix, x.attr.key), value |-> x.attr.value]
         IN /\ Under(Inner(x), x.attr.members) \in Seq(Tasks)
            /\ ignored => Flatten[x] = All(Under(Inner(x), x.attr.members))
            /\ ~ignored => /\ Flatten[x] = <<new>> /\ new \in Fields
                           /\ Under(Inner(x), x.attr.members) = <<>>
<1> DEFINE a == x.attr
           ts == Under(Inner(x), a.members)
           ignored == a.group \/ (a.key = Blank /\ a.value = NoValue)
           new == [key |-> joinKey(x.prefix, a.key), value |-> a.value]
<1>1. /\ a.members \in Seq(Attrs) /\ Inner(x) \in Texts
      /\ a.members # <<>> => a.group
      /\ x.prefix \in Texts /\ a.key \in Texts /\ a.value \in Values
  BY TaskShape, AttrShape
<1>2. ts \in Seq(Tasks)
  <2> HIDE DEF a
  <2>. QED BY <1>1, UnderShape
<1>3. Flatten[x] = FlattenBody(Flatten, x)
  BY FlattenIsBody
<1>4. CASE a.members # <<>>
  <2>1. Flatten[x] = FlattenMembers(Flatten, x)
    BY <1>3, <1>4 DEF FlattenBody
  <2>2. FlattenMembers(Flatten, x) = All(ts)
    BY DEF FlattenMembers, All, Under
  <2>3. ignored
    BY <1>1, <1>4
  <2> HIDE DEF ts, ignored, new
  <2>4. ts \in Seq(Tasks) /\ ignored /\ Flatten[x] = All(ts)
    BY <1>2, <2>1, <2>2, <2>3
  <2>. QED BY <2>4 DEF ts, ignored, new
<1>5. CASE a.members = <<>>
  <2>1. ts = <<>>
    BY <1>5 DEF Under
  <2>2. All(ts) = <<>>
    BY <2>1, AllNone
  <2>3. a.group => Flatten[x] = <<>>
    BY <1>3, <1>5 DEF FlattenBody
  <2>4. ~a.group => Flatten[x] = IF a.key = Blank /\ a.value = NoValue THEN <<>> ELSE <<new>>
    BY <1>3, <1>5 DEF FlattenBody, Single
  <2>5. new \in Fields
    BY <1>1, JoinType DEF Fields
  <2> HIDE DEF ts, new
  <2>. QED BY <1>2, <2>1, <2>2, <2>3, <2>4, <2>5 DEF ts, new
<1>. QED BY <1>4, <1>5

LEMMA PrefixType == ASSUME NEW groups \in Seq(Texts) PROVE Prefix(groups) \in Texts
<1>1. FlattenSeq(groups) \in Seq(Parts)
  BY FlattenType DEF Texts
<1>2. Blank \in Texts
  <2>1. ASSUME NEW E, NEW e \in E PROVE <<e>> \in Seq(E)
    OBVIOUS
  <2>2. "" \in Parts
    BY BridgeAssumption DEF BridgeAssumption
  <2>. QED BY <2>1, <2>2 DEF Blank, Texts
<1>. QED BY <1>1, <1>2 DEF Prefix, Texts

----------------------------------------------------------------------------
(* What derivations mean, one after the other.                             *)

Steps == [op : {"group"}, with : Texts] \cup [op : {"attrs"}, with : Seq(Attrs)]

Names(steps, n) == [j \in 1..n |-> IF steps[j].op = "group" THEN <<steps[j].with>> ELSE <<>>]

LEMMA StepKinds ==
  ASSUME NEW s \in Steps
  PROVE  \/ s.op = "group" /\ s.with \in Texts
         \/ s.op = "attrs" /\ s.with \in Seq(Attrs)
  BY DEF Steps

LEMMA OpenedShape ==
  ASSUME NEW steps \in Seq(Steps), NEW n \in 0..Len(steps)
  PROVE  /\ Names(steps, n) \in Seq(Seq(Texts)) /\ Len(Names(steps, n)) = n
         /\ Opened(steps, n) \in Seq(Texts)
<1> DEFINE s == Names(steps, n)
<1>1. \A j \in 1..n : steps[j] \in Steps
  OBVIOUS
<1>2. \A j \in 1..n : s[j] \in Seq(Texts)
  <2>1. ASSUME NEW t \in Texts PROVE <<t>> \in Seq(Texts) /\ <<>> \in Seq(Texts)
    OBVIOUS
  <2>2. \A j \in 1..n : s[j] = IF steps[j].op = "group" THEN <<steps[j].with>> ELSE <<>>
    BY DEF Names
  <2>3. <<>> \in Seq(Texts)
    OBVIOUS
  <2>4. \A j \in 1..n : steps[j].op = "group" => steps[j].with \in Texts
    BY <1>1, StepKinds
  <2> HIDE DEF s
  <2>. QED BY <2>1, <2>2, <2>3, <2>4
<1>3. s = [j \in 1..n |-> s[j]] /\ n \in Nat
  BY DEF Names
<1> HIDE DEF s
<1>4. s \in Seq(Seq(Texts)) /\ Len(s) = n
  BY <1>2, <1>3, SequenceOf
<1>5. FlattenSeq(s) \in Seq(Texts)
  BY <1>4, FlattenType
<1>. QED BY <1>4, <1>5 DEF s, Opened, Names

Adds(steps) == [i \in DOMAIN steps |-> Added(steps, i)]

LEMMA AddedShape ==
  ASSUME NEW steps \in Seq(Steps)
  PROVE  /\ Adds(steps) \in Seq(Seq(Fields)) /\ Len(Adds(steps)) = Len(steps)
         /\ Meaning(steps).attrs = FlattenSeq(Adds(steps))
         /\ Meaning(steps).groups = Opened(steps, Len(steps))
         /\ Meaning(steps).attrs \in Seq(Fields) /\ Meaning(steps).groups \in Seq(Texts)
         /\ Meaning(steps) = Means(Meaning(steps).attrs, Meaning(steps).groups)
<1> DEFINE s == Adds(steps)
<1>1. DOMAIN steps = 1..Len(steps) /\ Len(steps) \in Nat
  OBVIOUS
<1>2. ASSUME NEW i \in DOMAIN steps PROVE Added(steps, i) \in Seq(Fields)
  <2>1. i - 1 \in 0..Len(steps) /\ steps[i] \in Steps
    BY <1>1
  <2>2. Prefix(Opened(steps, i - 1)) \in Texts
    BY <2>1, OpenedShape, PrefixType
  <2>3. steps[i].op = "attrs" => steps[i].with \in Seq(Attrs)
    BY <2>1, StepKinds
  <2>4. steps[i].op = "attrs" =>
           FlattenAll(Prefix(Opened(steps, i - 1)), steps[i].with) \in Seq(Fields)
    BY <2>2, <2>3, UnderShape
  <2>5. <<>> \in Seq(Fields)
    OBVIOUS
  <2>. QED BY <2>4, <2>5 DEF Added
<1>3. s = [i \in DOMAIN steps |-> s[i]] /\ \A i \in DOMAIN steps : s[i] = Added(steps, i)
  BY DEF Adds
<1> HIDE DEF s
<1>4. s \in Seq(Seq(Fields)) /\ Len(s) = Len(steps)
  BY <1>1, <1>2, <1>3, SequenceOf
<1>5. FlattenSeq(s) \in Seq(Fields)
  BY <1>4, FlattenType
<1>6. Opened(steps, Len(steps)) \in Seq(Texts)
  <2>1. Len(steps) \in 0..Len(steps)
    BY <1>1
  <2>. QED BY <2>1, OpenedShape
<1>7. Meaning(steps) = Means(FlattenSeq(s), Opened(steps, Len(steps)))
  BY DEF Meaning, s, Adds
<1>. QED BY <1>4, <1>5, <1>6, <1>7 DEF Means, s

LEMMA OpenedEarlier ==
  ASSUME NEW steps \in Seq(Steps), NEW s \in Steps, NEW n \in 0..Len(steps)
  PROVE  Opened(Append(steps, s), n) = Opened(steps, n)
<1>1. \A j \in 1..n : Append(steps, s)[j] = steps[j]
  OBVIOUS
<1> DEFINE u == Append(steps, s)
<1> HIDE DEF u
<1>2. Names(u, n) = Names(steps, n)
  BY <1>1 DEF Names, u
<1>. QED BY <1>2 DEF Opened, Names, u

LEMMA OpenedMore ==
  ASSUME NEW steps \in Seq(Steps), NEW s \in Steps
  PROVE  Opened(Append(steps, s), Len(steps) + 1)
           = IF s.op = "group" THEN Append(Opened(steps, Len(steps)), s.with)
             ELSE Opened(steps, Len(steps))
<1> DEFINE n == Len(steps)
           u == Append(steps, s)
           last == IF s.op = "group" THEN <<s.with>> ELSE <<>>
<1>1. /\ u \in Seq(Steps) /\ n \in Nat /\ Len(u) = n + 1 /\ n \in 0..Len(steps)
      /\ n + 1 \in 0..Len(u)
      /\ \A j \in 1..n : u[j] = steps[j] /\ u[n + 1] = s
  OBVIOUS
<1>2. s.op = "group" => s.with \in Texts
  BY StepKinds
<1>3. last \in Seq(Texts)
  BY <1>2
<1>4. u[n + 1] = s
  OBVIOUS
<1> HIDE DEF u, n
<1>5. /\ Names(steps, n) \in Seq(Seq(Texts)) /\ Len(Names(steps, n)) = n
      /\ Names(u, n + 1) \in Seq(Seq(Texts)) /\ Len(Names(u, n + 1)) = n + 1
      /\ Opened(steps, n) \in Seq(Texts)
  BY <1>1, OpenedShape
<1>6. /\ \A j \in 1..n : Names(u, n + 1)[j] = Names(steps, n)[j]
      /\ Names(u, n + 1)[n + 1] = last
  BY <1>1, <1>4 DEF Names
<1> DEFINE a == Names(steps, n)
           b == Names(u, n + 1)
<1> HIDE DEF a, b, last
<1>7. b = Append(a, last)
  <2>1. /\ Append(a, last) \in Seq(Seq(Texts)) /\ Len(Append(a, last)) = n + 1
        /\ \A j \in 1..n : Append(a, last)[j] = a[j]
        /\ Append(a, last)[n + 1] = last
    <3>1. a \in Seq(Seq(Texts)) /\ Len(a) = n
      BY <1>5 DEF a
    <3>. QED BY <1>3, <3>1, AppendMemory DEF IsMemory
  <2>2. \A j \in 1..(n + 1) : j \in 1..n \/ j = n + 1
    BY <1>1
  <2>3. \A j \in 1..(n + 1) : b[j] = Append(a, last)[j]
    BY <1>6, <2>1, <2>2 DEF a, b
  <2>4. b \in Seq(Seq(Texts)) /\ Len(b) = n + 1
    BY <1>5 DEF b
  <2>. QED BY <2>1, <2>3, <2>4, SeqEqual
<1>8. FlattenSeq(b) = FlattenSeq(a) \o last
  BY <1>3, <1>5, <1>7, FlattenAppend DEF a
<1>9. Opened(u, n + 1) = Opened(steps, n) \o last
  BY <1>8 DEF a, b, Opened, Names
<1>10. s.op = "group" => Opened(steps, n) \o last = Append(Opened(steps, n), s.with)
  BY <1>2, <1>5 DEF last
<1>11. s.op # "group" => Opened(steps, n) \o last = Opened(steps, n)
  BY <1>5, ConcatNone DEF last
<1>. QED BY <1>9, <1>10, <1>11 DEF u, n

LEMMA AddedMore ==
  ASSUME NEW steps \in Seq(Steps), NEW s \in Steps
  PROVE  Meaning(Append(steps, s)).attrs
           = IF s.op = "attrs"
             THEN Meaning(steps).attrs \o FlattenAll(Prefix(Meaning(steps).groups), s.with)
             ELSE Meaning(steps).attrs
<1> DEFINE n == Len(steps)
           u == Append(steps, s)
           last == Added(u, n + 1)
<1>1. /\ u \in Seq(Steps) /\ n \in Nat /\ Len(u) = n + 1
      /\ u[n + 1] = s /\ \A j \in 1..n : u[j] = steps[j] /\ j - 1 \in 0..Len(steps)
      /\ DOMAIN u = 1..(n + 1) /\ DOMAIN steps = 1..n /\ n \in 0..Len(steps)
      /\ (n + 1) - 1 = n
  OBVIOUS
<1>2. /\ \A j \in 0..n : Opened(u, j) = Opened(steps, j)
      /\ Meaning(steps).groups = Opened(steps, n)
      /\ Meaning(steps).attrs \in Seq(Fields)
  BY OpenedEarlier, AddedShape
<1> DEFINE a == Adds(steps)
           b == Adds(u)
<1> HIDE DEF u, n, last
<1>3. /\ a \in Seq(Seq(Fields)) /\ Len(a) = n /\ Meaning(steps).attrs = FlattenSeq(a)
      /\ b \in Seq(Seq(Fields)) /\ Len(b) = n + 1 /\ Meaning(u).attrs = FlattenSeq(b)
  BY <1>1, AddedShape DEF n
<1>4. b[n + 1] = last /\ \A j \in 1..n : b[j] = a[j]
  <2>1. b[n + 1] = last
    BY <1>1 DEF Adds, last
  <2>2. ASSUME NEW j \in 1..n PROVE b[j] = a[j]
    <3>1. j \in DOMAIN u /\ j \in DOMAIN steps /\ j - 1 \in 0..n
      BY <1>1
    <3>2. Added(u, j) = Added(steps, j)
      BY <1>1, <1>2, <3>1 DEF Added
    <3>. QED BY <3>1, <3>2 DEF Adds
  <2>. QED BY <2>1, <2>2
<1> HIDE DEF a, b
<1>5. n + 1 \in 1..(n + 1) /\ \A j \in 1..(n + 1) : j \in 1..n \/ j = n + 1
  BY <1>1
<1>6. last \in Seq(Fields)
  BY <1>3, <1>4, <1>5
<1>7. b = Append(a, last)
  <2>1. /\ Append(a, last) \in Seq(Seq(Fields)) /\ Len(Append(a, last)) = n + 1
        /\ \A j \in 1..n : Append(a, last)[j] = a[j]
        /\ Append(a, last)[n + 1] = last
    BY <1>3, <1>6, AppendMemory DEF IsMemory
  <2>2. \A j \in 1..(n + 1) : b[j] = Append(a, last)[j]
    BY <1>4, <1>5, <2>1
  <2>. QED BY <1>3, <2>1, <2>2, SeqEqual
<1>8. FlattenSeq(b) = FlattenSeq(a) \o last
  BY <1>3, <1>6, <1>7, FlattenAppend
<1>9. last = IF s.op = "attrs" THEN FlattenAll(Prefix(Meaning(steps).groups), s.with) ELSE <<>>
  <2>1. Opened(u, n) = Meaning(steps).groups
    BY <1>1, <1>2
  <2>. QED BY <1>1, <2>1 DEF last, Added
<1>10. s.op # "attrs" => FlattenSeq(a) \o last = FlattenSeq(a)
  BY <1>2, <1>3, <1>9, ConcatNone
<1>. QED BY <1>3, <1>8, <1>9, <1>10 DEF u

\* Attributes go into the groups that are open, groups into the last one.
LEMMA MeaningMore ==
  ASSUME NEW steps \in Seq(Steps)
  PROVE  /\ \A list \in Seq(Attrs) :
              Meaning(Append(steps, [op |-> "attrs", with |-> list]))
                = Means(Meaning(steps).attrs \o FlattenAll(Prefix(Meaning(steps).groups), list),
                        Meaning(steps).groups)
         /\ \A name \in Texts :
              Meaning(Append(steps, [op |-> "group", with |-> name]))
                = Means(Meaning(steps).attrs, Append(Meaning(steps).groups, name))
<1>1. ASSUME NEW s \in Steps
      PROVE  LET m == Meaning(Append(steps, s)) IN
             /\ m = Means(m.attrs, m.groups)
             /\ m.groups = IF s.op = "group" THEN Append(Meaning(steps).groups, s.with)
                           ELSE Meaning(steps).groups
  <2>1. Append(steps, s) \in Seq(Steps) /\ Len(Append(steps, s)) = Len(steps) + 1
    OBVIOUS
  <2> DEFINE u == Append(steps, s)
  <2> HIDE DEF u
  <2>2. Meaning(u) = Means(Meaning(u).attrs, Meaning(u).groups)
        /\ Meaning(u).groups = Opened(u, Len(u))
    BY <2>1, AddedShape DEF u
  <2>3. Meaning(steps).groups = Opened(steps, Len(steps))
    BY AddedShape
  <2>4. Opened(u, Len(steps) + 1)
           = IF s.op = "group" THEN Append(Opened(steps, Len(steps)), s.with)
             ELSE Opened(steps, Len(steps))
    BY OpenedMore DEF u
  <2>. QED BY <2>1, <2>2, <2>3, <2>4 DEF u
<1>2. ASSUME NEW list \in Seq(Attrs)
      PROVE  Meaning(Append(steps, [op |-> "attrs", with |-> list]))
                = Means(Meaning(steps).attrs \o FlattenAll(Prefix(Meaning(steps).groups), list),
                        Meaning(steps).groups)
  <2> DEFINE s == [op |-> "attrs", with |-> list]
  <2>1. s \in Steps /\ s.op = "attrs" /\ s.with = list
    BY DEF Steps
  <2> HIDE DEF s
  <2>2. Meaning(Append(steps, s)).attrs
          = Meaning(steps).attrs \o FlattenAll(Prefix(Meaning(steps).groups), list)
    BY <2>1, AddedMore
  <2>3. Meaning(Append(steps, s)).groups = Meaning(steps).groups
    BY <1>1, <2>1
  <2>4. Meaning(Append(steps, s)) = Means(Meaning(Append(steps, s)).attrs,
                                          Meaning(Append(steps, s)).groups)
    BY <1>1, <2>1
  <2>. QED BY <2>2, <2>3, <2>4 DEF s
<1>3. ASSUME NEW name \in Texts
      PROVE  Meaning(Append(steps, [op |-> "group", with |-> name]))
                = Means(Meaning(steps).attrs, Append(Meaning(steps).groups, name))
  <2> DEFINE s == [op |-> "group", with |-> name]
  <2>1. s \in Steps /\ s.op = "group" /\ s.with = name
    BY DEF Steps
  <2> HIDE DEF s
  <2>2. Meaning(Append(steps, s)).attrs = Meaning(steps).attrs
    BY <2>1, AddedMore
  <2>3. Meaning(Append(steps, s)).groups = Append(Meaning(steps).groups, name)
    BY <1>1, <2>1
  <2>4. Meaning(Append(steps, s)) = Means(Meaning(Append(steps, s)).attrs,
                                          Meaning(Append(steps, s)).groups)
    BY <1>1, <2>1
  <2>. QED BY <2>2, <2>3, <2>4 DEF s
<1>. QED BY <1>2, <1>3

LEMMA MeaningNone == Meaning(<<>>) = Means(<<>>, <<>>)
<1>1. [i \in DOMAIN <<>> |-> Added(<<>>, i)] = <<>>
  OBVIOUS
<1>2. Len(<<>>) = 0 /\ 1..0 = {}
  OBVIOUS
<1>3. Opened(<<>>, 0) = <<>>
  <2>1. Names(<<>>, 0) = <<>>
    BY <1>2 DEF Names
  <2>. QED BY <2>1, FlattenNone DEF Opened, Names
<1>. QED BY <1>1, <1>2, <1>3, FlattenNone DEF Meaning

\* Fields become a map.
LEMMA AsMapShape == ASSUME NEW fs \in Seq(Fields) PROVE IsMap(AsMap(fs))
<1> DEFINE K == {fs[i].key : i \in DOMAIN fs}
           last(k) == CHOOSE i \in DOMAIN fs :
                         /\ fs[i].key = k
                         /\ \A j \in DOMAIN fs : fs[j].key = k => j <= i
<1>1. \A i \in DOMAIN fs : fs[i] \in Fields /\ i \in 0..Len(fs)
  OBVIOUS
<1>2. ASSUME NEW k \in K PROVE last(k) \in DOMAIN fs
  <2> DEFINE T == {i \in DOMAIN fs : fs[i].key = k}
  <2>1. T # {} /\ T \subseteq 0..Len(fs) /\ Len(fs) \in Nat
    BY <1>1
  <2> HIDE DEF T
  <2>2. \E x \in T : \A y \in T : y <= x
    BY <2>1, GreatestNatural
  <2>3. \E i \in DOMAIN fs : /\ fs[i].key = k
                             /\ \A j \in DOMAIN fs : fs[j].key = k => j <= i
    BY <2>2 DEF T
  <2>. QED BY <2>3
<1>3. AsMap(fs) = [k \in K |-> fs[last(k)].value]
  BY DEF AsMap
<1>4. K \subseteq Texts
  BY <1>1 DEF Fields
<1>5. \A k \in K : fs[last(k)].value \in Values
  BY <1>1, <1>2 DEF Fields
<1> HIDE DEF K, last
<1>6. AsMap(fs) = [k \in DOMAIN AsMap(fs) |-> AsMap(fs)[k]] /\ DOMAIN AsMap(fs) = K
  BY <1>3
<1>7. \A k \in K : AsMap(fs)[k] = fs[last(k)].value
  BY <1>3
<1>. QED BY <1>4, <1>5, <1>6, <1>7 DEF IsMap

----------------------------------------------------------------------------
(* The types, with what keeps them: the slices of handlers.                *)

Pairs == [attrs : Windows, groups : Windows]

Seen(p) == IsSlice(arrays, p.attrs) /\ IsSlice(names, p.groups)

SlicesOK ==
    /\ arrays \in Seq(Seq(Fields)) /\ names \in Seq(Seq(Texts))
    /\ handlers \in Seq(Pairs) /\ mine \in [Callers -> Pairs]
    /\ \A h \in 1..Len(handlers) : Seen(handlers[h])
    /\ \A c \in Callers : Seen(mine[c])
    /\ \A c \in Callers : pc[c] # "deriving" => mine[c] = NoSlices

\* What the slices of p show is not changed by a step.
Shows(p) ==
    /\ Elements(arrays', p.attrs) = Elements(arrays, p.attrs)
    /\ Elements(names', p.groups) = Elements(names, p.groups)

LEMMA HandlerShape ==
  ASSUME SlicesOK, NEW h \in DOMAIN handlers
  PROVE  /\ h \in 1..Len(handlers) /\ Seen(handlers[h])
         /\ AttrsOf(h) \in Seq(Fields) /\ GroupsOf(h) \in Seq(Texts)
<1>0. h \in 1..Len(handlers)
  <2>1. ASSUME NEW E, NEW s \in Seq(E) PROVE DOMAIN s = 1..Len(s)
    OBVIOUS
  <2>. QED BY <2>1 DEF SlicesOK
<1>1. /\ h \in 1..Len(handlers) /\ arrays \in Seq(Seq(Fields)) /\ names \in Seq(Seq(Texts))
      /\ Seen(handlers[h])
  BY <1>0 DEF SlicesOK
<1>2. AttrsOf(h) \in Seq(Fields)
  BY <1>1, ElementsShape DEF AttrsOf, Seen
<1>3. GroupsOf(h) \in Seq(Texts)
  BY <1>1, ElementsShape DEF GroupsOf, Seen
<1>. QED BY <1>1, <1>2, <1>3

LEMMA NoSlicesShape ==
  /\ NoSlices \in Pairs
  /\ SlicesOK => Seen(NoSlices)
<1>1. NilSlice \in Windows
  BY DEF NilSlice, Windows
<1>2. NoSlices \in Pairs
  BY <1>1 DEF NoSlices, Pairs
<1>3. ASSUME SlicesOK PROVE Seen(NoSlices)
  BY <1>1, <1>3 DEF SlicesOK, Seen, NoSlices, IsSlice, NilSlice
<1>. QED BY <1>2, <1>3

\* New arrays for a copy of the slices of a handler.
LEMMA CopySlices ==
  ASSUME SlicesOK, NEW h \in DOMAIN handlers, NEW n \in Nat, NEW k \in Nat,
         NEW as1, as1 = Stored(arrays, AttrsOf(h)), NEW ns1, ns1 = Stored(names, GroupsOf(h))
  PROVE  /\ as1 \in Seq(Seq(Fields)) /\ ns1 \in Seq(Seq(Texts))
         /\ \A s : IsSlice(arrays, s) => IsSlice(as1, s) /\ Elements(as1, s) = Elements(arrays, s)
         /\ \A s : IsSlice(names, s) => IsSlice(ns1, s) /\ Elements(ns1, s) = Elements(names, s)
         /\ IsSlice(as1, Fresh(arrays, AttrsOf(h), n))
         /\ Elements(as1, Fresh(arrays, AttrsOf(h), n)) = AttrsOf(h)
         /\ IsSlice(ns1, Fresh(names, GroupsOf(h), k))
         /\ Elements(ns1, Fresh(names, GroupsOf(h), k)) = GroupsOf(h)
         /\ Fresh(names, GroupsOf(h), k).at = Len(names) + 1
<1>1. /\ arrays \in Seq(Seq(Fields)) /\ names \in Seq(Seq(Texts))
      /\ AttrsOf(h) \in Seq(Fields) /\ GroupsOf(h) \in Seq(Texts)
  BY HandlerShape DEF SlicesOK
<1>2. as1 \in Seq(Seq(Fields)) /\ ns1 \in Seq(Seq(Texts))
  BY <1>1, StoredType
<1>3. \A s : IsSlice(arrays, s) => IsSlice(as1, s) /\ Elements(as1, s) = Elements(arrays, s)
  BY <1>1, StoredOthers
<1>4. \A s : IsSlice(names, s) => IsSlice(ns1, s) /\ Elements(ns1, s) = Elements(names, s)
  BY <1>1, StoredOthers
<1>5. /\ IsSlice(as1, Fresh(arrays, AttrsOf(h), n))
      /\ Elements(as1, Fresh(arrays, AttrsOf(h), n)) = AttrsOf(h)
  BY <1>1, StoredFresh
<1>6. /\ IsSlice(ns1, Fresh(names, GroupsOf(h), k))
      /\ Elements(ns1, Fresh(names, GroupsOf(h), k)) = GroupsOf(h)
      /\ Fresh(names, GroupsOf(h), k).at = Len(names) + 1
  BY <1>1, StoredFresh
<1>. QED BY <1>2, <1>3, <1>4, <1>5, <1>6

LEMMA WithAttrsSlices ==
  ASSUME SlicesOK, NEW c \in Callers, WithAttrs(c), DOMAIN pc = Callers,
         \A s \in Setups : \A list \in s.lists : list \in Seq(Attrs), setup \in Setups
  PROVE  /\ SlicesOK'
         /\ \A d \in Callers : d # c => mine'[d] = mine[d] /\ Shows(mine[d])
         /\ \E h \in DOMAIN handlers, list \in setup.lists :
               /\ list \in Seq(Attrs) /\ of' = [of EXCEPT ![c] = h]
               /\ rec' = [rec EXCEPT ![c].attrs = list]
               /\ todo' = [todo EXCEPT ![c] = Under(Prefix(GroupsOf(h)), list)]
               /\ Elements(arrays', mine'[c].attrs) = AttrsOf(h)
               /\ Elements(names', mine'[c].groups) = GroupsOf(h)
<1>1. PICK h \in DOMAIN handlers, list \in setup.lists :
         /\ of' = [of EXCEPT ![c] = h] /\ rec' = [rec EXCEPT ![c].attrs = list]
         /\ todo' = [todo EXCEPT ![c] = Under(Prefix(GroupsOf(h)), list)]
         /\ mine' = [mine EXCEPT ![c] = Clone(h, Len(list), 0)]
         /\ arrays' = Stored(arrays, AttrsOf(h)) /\ names' = Stored(names, GroupsOf(h))
  BY DEF WithAttrs, Copied
<1>2. handlers' = handlers /\ pc' = [pc EXCEPT ![c] = "deriving"]
  BY DEF WithAttrs, Goto
<1>3. list \in Seq(Attrs) /\ Len(list) \in Nat
  <2>1. list \in Seq(Attrs)
    OBVIOUS
  <2>. QED BY <2>1
<1> DEFINE p == [attrs |-> Fresh(arrays, AttrsOf(h), Len(list)),
                 groups |-> Fresh(names, GroupsOf(h), 0)]
<1>4. mine \in [Callers -> Pairs] /\ mine' = [mine EXCEPT ![c] = p]
  BY <1>1 DEF Clone, SlicesOK
<1>5. PICK as1, ns1 : as1 = Stored(arrays, AttrsOf(h)) /\ ns1 = Stored(names, GroupsOf(h))
  OBVIOUS
<1>6. arrays' = as1 /\ names' = ns1
  BY <1>1, <1>5
<1>7. /\ as1 \in Seq(Seq(Fields)) /\ ns1 \in Seq(Seq(Texts))
      /\ \A s : IsSlice(arrays, s) => IsSlice(as1, s) /\ Elements(as1, s) = Elements(arrays, s)
      /\ \A s : IsSlice(names, s) => IsSlice(ns1, s) /\ Elements(ns1, s) = Elements(names, s)
      /\ IsSlice(as1, p.attrs) /\ Elements(as1, p.attrs) = AttrsOf(h)
      /\ IsSlice(ns1, p.groups) /\ Elements(ns1, p.groups) = GroupsOf(h)
  BY <1>3, <1>5, CopySlices, 0 \in Nat
<1>8. p \in Pairs
  BY <1>7 DEF Pairs, IsSlice
<1> HIDE DEF p
<1>9. /\ mine' \in [Callers -> Pairs] /\ mine'[c] = p
      /\ \A d \in Callers : d # c => mine'[d] = mine[d]
  BY <1>4, <1>8
<1>11. \A q : Seen(q) => IsSlice(arrays', q.attrs) /\ IsSlice(names', q.groups) /\ Shows(q)
  BY <1>6, <1>7 DEF Seen, Shows
<1>12. \A d \in Callers : Seen(mine[d])
  BY DEF SlicesOK
<1>13. \A d \in Callers : IsSlice(arrays', mine'[d].attrs) /\ IsSlice(names', mine'[d].groups)
  BY <1>6, <1>7, <1>9, <1>11, <1>12
<1>14. \A i \in 1..Len(handlers) : IsSlice(arrays', handlers[i].attrs) /\ IsSlice(names', handlers[i].groups)
  BY <1>11 DEF SlicesOK
<1>15. \A d \in Callers : pc'[d] # "deriving" => mine'[d] = NoSlices
  BY <1>2, <1>9 DEF SlicesOK
<1>16. SlicesOK'
  BY <1>2, <1>6, <1>7, <1>9, <1>13, <1>14, <1>15 DEF SlicesOK, Seen
<1>17. \A d \in Callers : d # c => mine'[d] = mine[d] /\ Shows(mine[d])
  BY <1>9, <1>11, <1>12
<1>18. Elements(arrays', mine'[c].attrs) = AttrsOf(h) /\ Elements(names', mine'[c].groups) = GroupsOf(h)
  BY <1>6, <1>7, <1>9
<1>. QED BY <1>1, <1>3, <1>16, <1>17, <1>18

\* The handler of a group: its names are those of the old one, and the new.
LEMMA WithGroupSlices ==
  ASSUME SlicesOK, NEW c \in Callers, WithGroup(c),
         \A s \in Setups : \A name \in s.names : name \in Texts, setup \in Setups
  PROVE  /\ SlicesOK' /\ mine' = mine /\ \A d \in Callers : Shows(mine[d])
         /\ \E h \in DOMAIN handlers, name \in Texts, new \in Pairs :
               /\ handlers' = Append(handlers, new)
               /\ made' = Append(made, Append(made[h], [op |-> "group", with |-> name]))
               /\ meant' = Append(meant, Means(AttrsOf(h), Append(GroupsOf(h), name)))
<1>1. PICK h \in DOMAIN handlers, name \in setup.names :
         LET copy == Clone(h, 0, 1)
             stored == Stored(names, GroupsOf(h))
             new == [copy EXCEPT !.groups = Extended(stored, @)]
         IN /\ arrays' = Stored(arrays, AttrsOf(h))
            /\ names' = Appended(stored, copy.groups, name)
            /\ handlers' = Append(handlers, new)
            /\ meant' = Append(meant, Means(Elements(arrays', new.attrs),
                                            Elements(names', new.groups)))
            /\ made' = Append(made, Append(made[h], [op |-> "group", with |-> name]))
  BY DEF WithGroup, Copied
<1>2. pc' = pc /\ mine' = mine /\ name \in Texts
  BY DEF WithGroup, callVars
<1> DEFINE stored == Stored(names, GroupsOf(h))
           ownAttrs == Fresh(arrays, AttrsOf(h), 0)
           copied == Fresh(names, GroupsOf(h), 1)
           ownGroups == Extended(stored, copied)
           new == [attrs |-> ownAttrs, groups |-> ownGroups]
<1>3. /\ arrays' = Stored(arrays, AttrsOf(h)) /\ names' = Appended(stored, copied, name)
      /\ handlers' = Append(handlers, new)
      /\ meant' = Append(meant, Means(Elements(arrays', ownAttrs), Elements(names', ownGroups)))
  <2>1. Clone(h, 0, 1) = [attrs |-> ownAttrs, groups |-> copied]
    BY DEF Clone
  <2>2. [Clone(h, 0, 1) EXCEPT !.groups = Extended(stored, @)] = new
    BY <2>1
  <2>. QED BY <1>1, <2>1, <2>2
<1>4. PICK as1, ns1 : as1 = Stored(arrays, AttrsOf(h)) /\ ns1 = stored
  OBVIOUS
<1>5. /\ as1 \in Seq(Seq(Fields)) /\ ns1 \in Seq(Seq(Texts))
      /\ \A s : IsSlice(arrays, s) => IsSlice(as1, s) /\ Elements(as1, s) = Elements(arrays, s)
      /\ \A s : IsSlice(names, s) => IsSlice(ns1, s) /\ Elements(ns1, s) = Elements(names, s)
      /\ IsSlice(as1, ownAttrs) /\ Elements(as1, ownAttrs) = AttrsOf(h)
      /\ IsSlice(ns1, copied) /\ Elements(ns1, copied) = GroupsOf(h)
      /\ copied.at = Len(names) + 1
  BY <1>4, CopySlices, 0 \in Nat, 1 \in Nat
<1> HIDE DEF stored, ownAttrs, copied
<1>6. PICK ns2 : ns2 = Appended(ns1, copied, name)
  OBVIOUS
<1>7. /\ ns2 \in Seq(Seq(Texts)) /\ IsSlice(ns2, ownGroups)
      /\ Elements(ns2, ownGroups) = Append(GroupsOf(h), name)
      /\ \A s : IsSlice(ns1, s) /\ s.at # copied.at
            => IsSlice(ns2, s) /\ Elements(ns2, s) = Elements(ns1, s)
  <2>1. /\ Appended(ns1, copied, name) \in Seq(Seq(Texts))
        /\ IsSlice(Appended(ns1, copied, name), Extended(ns1, copied))
        /\ Elements(Appended(ns1, copied, name), Extended(ns1, copied))
              = Append(Elements(ns1, copied), name)
        /\ \A s : IsSlice(ns1, s) /\ (s.at # copied.at \/ s.len <= copied.len)
              => /\ IsSlice(Appended(ns1, copied, name), s)
                 /\ Elements(Appended(ns1, copied, name), s) = Elements(ns1, s)
    BY <1>2, <1>5, AppendedKeeps
  <2>. QED BY <1>4, <1>5, <1>6, <2>1
<1> HIDE DEF ownGroups
<1>8. arrays' = as1 /\ names' = ns2
  BY <1>3, <1>4, <1>6
<1>9. \A s : IsSlice(names, s) => IsSlice(ns2, s) /\ Elements(ns2, s) = Elements(names, s)
  <2>1. \A s : IsSlice(names, s) => s.at # Len(names) + 1
    <3>1. Len(names) \in Nat
      BY DEF SlicesOK
    <3>. QED BY <3>1 DEF IsSlice, Windows
  <2>. QED BY <1>5, <1>7, <2>1
<1>10. \A q : Seen(q) => IsSlice(as1, q.attrs) /\ IsSlice(ns2, q.groups) /\ Shows(q)
  BY <1>5, <1>8, <1>9 DEF Seen, Shows
<1>11. /\ new \in Pairs /\ new.attrs = ownAttrs /\ new.groups = ownGroups
  BY <1>5, <1>7 DEF Pairs, IsSlice
<1> HIDE DEF new
<1>12. /\ handlers' \in Seq(Pairs) /\ Len(handlers') = Len(handlers) + 1 /\ Len(handlers) \in Nat
       /\ \A i \in 1..Len(handlers) : handlers'[i] = handlers[i]
       /\ handlers'[Len(handlers) + 1] = new
  BY <1>3, <1>11 DEF SlicesOK
<1>13. \A i \in 1..Len(handlers') : IsSlice(as1, handlers'[i].attrs) /\ IsSlice(ns2, handlers'[i].groups)
  <2>1. \A i \in 1..Len(handlers) : Seen(handlers[i])
    BY DEF SlicesOK
  <2>2. \A i \in 1..Len(handlers') : i \in 1..Len(handlers) \/ i = Len(handlers) + 1
    BY <1>12
  <2>. QED BY <1>5, <1>7, <1>10, <1>11, <1>12, <2>1, <2>2
<1>14. \A d \in Callers : Seen(mine[d])
  BY DEF SlicesOK
<1>15. \A d \in Callers : IsSlice(as1, mine[d].attrs) /\ IsSlice(ns2, mine[d].groups) /\ Shows(mine[d])
  BY <1>10, <1>14
<1>16. SlicesOK'
  BY <1>2, <1>5, <1>7, <1>8, <1>12, <1>13, <1>15 DEF SlicesOK, Seen
<1>17. meant' = Append(meant, Means(AttrsOf(h), Append(GroupsOf(h), name)))
  BY <1>3, <1>5, <1>7, <1>8
<1>18. made' = Append(made, Append(made[h], [op |-> "group", with |-> name]))
  BY <1>1
<1>. QED BY <1>2, <1>3, <1>11, <1>15, <1>16, <1>17, <1>18

\* What is said so far and what is still to be said, after one step.
LEMMA StepSays ==
  ASSUME NEW ts \in Seq(Tasks), ts # <<>>, NEW acc \in Seq(Fields),
         NEW x, x = Head(ts)
  PROVE  LET ignored == x.attr.group \/ (x.attr.key = Blank /\ x.attr.value = NoValue)
             new == [key |-> joinKey(x.prefix, x.attr.key), value |-> x.attr.value]
             left == Under(Inner(x), x.attr.members) \o Tail(ts)
         IN /\ left \in Seq(Tasks)
            /\ ignored => acc \o All(left) = acc \o All(ts)
            /\ ~ignored => new \in Fields /\ Append(acc, new) \o All(left) = acc \o All(ts)
<1> DEFINE ignored == x.attr.group \/ (x.attr.key = Blank /\ x.attr.value = NoValue)
           new == [key |-> joinKey(x.prefix, x.attr.key), value |-> x.attr.value]
           first == Under(Inner(x), x.attr.members)
           rest == Tail(ts)
<1>1. /\ x \in Tasks /\ rest \in Seq(Tasks) /\ All(ts) = Flatten[x] \o All(rest)
  BY AllHead
<1>2. /\ first \in Seq(Tasks)
      /\ ignored => Flatten[x] = All(first)
      /\ ~ignored => Flatten[x] = <<new>> /\ new \in Fields /\ first = <<>>
  BY <1>1, Unfold
<1> HIDE DEF ignored, new, first, rest
<1>3. first \o rest \in Seq(Tasks) /\ All(first \o rest) = All(first) \o All(rest)
  BY <1>1, <1>2, AllConcat, ConcatShape
<1>4. All(rest) \in Seq(Fields)
  BY <1>1, AllShape
<1>5. ASSUME ignored PROVE acc \o All(first \o rest) = acc \o All(ts)
  BY <1>1, <1>2, <1>3, <1>5
<1>6. ASSUME ~ignored
      PROVE  new \in Fields /\ Append(acc, new) \o All(first \o rest) = acc \o All(ts)
  <2>1. new \in Fields /\ Flatten[x] = <<new>> /\ first = <<>>
    BY <1>2, <1>6
  <2>2. <<new>> \in Seq(Fields) /\ Append(acc, new) = acc \o <<new>>
    BY <2>1
  <2>3. (acc \o <<new>>) \o All(rest) = acc \o (<<new>> \o All(rest))
    BY <1>4, <2>2, ConcatLater
  <2>4. first \o rest = rest
    BY <1>1, <2>1, ConcatNone
  <2>. QED BY <1>1, <2>1, <2>2, <2>3, <2>4
<1>. QED BY <1>3, <1>5, <1>6 DEF ignored, new, first, rest

\* A field is appended to the slice of one goroutine, and changes no other.
LEMMA AppendAttrSlices ==
  ASSUME SlicesOK, Owned, NEW c \in Callers, pc[c] = "deriving", NEW v \in Fields,
         arrays' = Appended(arrays, mine[c].attrs, v),
         mine' = [mine EXCEPT ![c].attrs = Extended(arrays, @)],
         UNCHANGED <<names, handlers, pc>>
  PROVE  /\ SlicesOK'
         /\ \A d \in Callers : d # c => mine'[d] = mine[d] /\ Shows(mine[d])
         /\ Elements(arrays', mine'[c].attrs) = Append(Elements(arrays, mine[c].attrs), v)
         /\ Elements(names', mine'[c].groups) = Elements(names, mine[c].groups)
<1> DEFINE s == mine[c].attrs
           p == [attrs |-> Extended(arrays, s), groups |-> mine[c].groups]
<1>1. /\ arrays \in Seq(Seq(Fields)) /\ mine \in [Callers -> Pairs]
      /\ mine[c] \in Pairs /\ IsSlice(arrays, s) /\ IsSlice(names, mine[c].groups)
  BY DEF SlicesOK, Seen
<1>2. c \in Deriving
  BY DEF Deriving
<1>3. mine' = [mine EXCEPT ![c] = p]
  <2>1. mine[c] = [attrs |-> mine[c].attrs, groups |-> mine[c].groups]
    BY <1>2 DEF Owned
  <2>2. [mine[c] EXCEPT !.attrs = Extended(arrays, mine[c].attrs)] = p
    BY <2>1
  <2> HIDE DEF p, s
  <2>. QED BY <2>2
<1> HIDE DEF s
<1>4. PICK as1 : as1 = Appended(arrays, s, v)
  OBVIOUS
<1>5. /\ as1 \in Seq(Seq(Fields)) /\ IsSlice(as1, Extended(arrays, s))
      /\ Elements(as1, Extended(arrays, s)) = Append(Elements(arrays, s), v)
      /\ \A u : IsSlice(arrays, u) /\ (u.at # s.at \/ u.len <= s.len)
            => IsSlice(as1, u) /\ Elements(as1, u) = Elements(arrays, u)
  BY <1>1, <1>4, AppendedKeeps
<1>6. arrays' = as1
  BY <1>4 DEF s
<1>7. p \in Pairs /\ p.attrs = Extended(arrays, s) /\ p.groups = mine[c].groups
  BY <1>1, <1>5 DEF Pairs, IsSlice
<1> HIDE DEF p
<1>8. /\ mine' \in [Callers -> Pairs] /\ mine'[c] = p
      /\ \A d \in Callers : d # c => mine'[d] = mine[d]
  BY <1>1, <1>3, <1>7
<1>9. s.at \in Nat \ {0}
  <2>1. mine[c].attrs.at \in 1..Len(arrays)
    BY <1>2 DEF Owned
  <2>2. Len(arrays) \in Nat
    BY <1>1
  <2>. QED BY <2>1, <2>2 DEF s
<1>10. ASSUME NEW d \in Callers, d # c
       PROVE  /\ IsSlice(arrays, mine[d].attrs) /\ mine[d].attrs.at # s.at
              /\ IsSlice(names, mine[d].groups)
  <2>1. Seen(mine[d]) /\ (pc[d] # "deriving" => mine[d] = NoSlices)
    BY DEF SlicesOK
  <2>2. CASE pc[d] = "deriving"
    BY <1>2, <1>10, <2>1, <2>2 DEF Owned, Deriving, Seen, s
  <2>3. CASE pc[d] # "deriving"
    BY <1>9, <2>1, <2>3 DEF Seen, NoSlices, NilSlice
  <2>. QED BY <2>2, <2>3
<1>11. \A d \in Callers : d # c =>
          IsSlice(as1, mine[d].attrs) /\ IsSlice(names, mine[d].groups) /\ Shows(mine[d])
  BY <1>5, <1>6, <1>10 DEF Shows
<1>12. ASSUME NEW h \in 1..Len(handlers)
       PROVE  IsSlice(as1, handlers[h].attrs) /\ IsSlice(names, handlers[h].groups)
  <2>1. Seen(handlers[h]) /\ handlers[h].attrs.at # s.at
    BY <1>2 DEF SlicesOK, Owned, s
  <2>. QED BY <1>5, <2>1 DEF Seen
<1>13. SlicesOK'
  <2>1. \A d \in Callers : IsSlice(as1, mine'[d].attrs) /\ IsSlice(names, mine'[d].groups)
    BY <1>1, <1>5, <1>7, <1>8, <1>11
  <2>2. \A d \in Callers : pc'[d] # "deriving" => mine'[d] = NoSlices
    BY <1>8 DEF SlicesOK
  <2>. QED BY <1>5, <1>6, <1>8, <1>12, <2>1, <2>2 DEF SlicesOK, Seen
<1>14. /\ Elements(arrays', mine'[c].attrs) = Append(Elements(arrays, s), v)
       /\ Elements(names', mine'[c].groups) = Elements(names, mine[c].groups)
  BY <1>5, <1>6, <1>7, <1>8
<1>. QED BY <1>8, <1>11, <1>13, <1>14 DEF s

\* The memories stay as they are.
LEMMA QuietSlices ==
  ASSUME SlicesOK, UNCHANGED <<arrays, names>>, handlers' \in Seq(Pairs),
         \A h \in 1..Len(handlers') : Seen(handlers'[h]),
         mine' = mine \/ \E c \in Callers : mine' = [mine EXCEPT ![c] = NoSlices],
         \A c \in Callers : pc'[c] # "deriving" => mine'[c] = NoSlices
  PROVE  SlicesOK'
<1>1. mine \in [Callers -> Pairs] /\ \A c \in Callers : Seen(mine[c])
  BY DEF SlicesOK
<1>2. mine' \in [Callers -> Pairs] /\ \A c \in Callers : Seen(mine'[c])
  <2>1. CASE mine' = mine
    BY <1>1, <2>1
  <2>2. ASSUME NEW c \in Callers, mine' = [mine EXCEPT ![c] = NoSlices]
        PROVE  mine' \in [Callers -> Pairs] /\ \A d \in Callers : Seen(mine'[d])
    <3>1. NoSlices \in Pairs /\ Seen(NoSlices)
      BY NoSlicesShape
    <3> HIDE DEF NoSlices
    <3>. QED BY <1>1, <2>2, <3>1
  <2>. QED BY <2>1, <2>2
<1>. QED BY <1>2 DEF SlicesOK, Seen

LEMMA SlicesInit == Init => SlicesOK
<1> SUFFICES ASSUME Init PROVE SlicesOK
  OBVIOUS
<1>1. /\ arrays = <<>> /\ names = <<>> /\ handlers = <<NoSlices>>
      /\ mine = [c \in Callers |-> NoSlices]
  BY DEF Init
<1>2. NilSlice \in Windows
  BY DEF NilSlice, Windows
<1>3. NoSlices \in Pairs /\ NoSlices.attrs = NilSlice /\ NoSlices.groups = NilSlice
  BY NoSlicesShape DEF NoSlices
<1>4. /\ arrays \in Seq(Seq(Fields)) /\ names \in Seq(Seq(Texts)) /\ handlers \in Seq(Pairs)
      /\ Len(handlers) = 1 /\ handlers[1] = NoSlices
  BY <1>1, <1>3
<1>5. Seen(NoSlices)
  BY <1>1, <1>2, <1>3 DEF Seen, IsSlice, NilSlice
<1> HIDE DEF NoSlices
<1>6. mine \in [Callers -> Pairs] /\ \A c \in Callers : mine[c] = NoSlices
  BY <1>1, <1>3
<1>. QED BY <1>4, <1>5, <1>6 DEF SlicesOK

----------------------------------------------------------------------------
(* The types of the calls and of the outputs.                              *)

Labels == {"idle", "deriving", "status", "level", "handle", "recording", "printing"}

\* A call that has a handler.
Using == {"deriving", "status", "level", "handle", "recording"}

PlacesOK ==
    /\ pc \in [Callers -> Labels] /\ of \in [Callers -> 0..Len(handlers)]
    /\ \A c \in Callers : pc[c] \in Using => of[c] # 0

DataOK ==
    /\ rec \in [Callers -> Records] /\ flat \in [Callers -> Seq(Fields)]
    /\ todo \in [Callers -> Seq(Tasks)] /\ at \in [Callers -> Outputs]
    /\ DOMAIN msg = Callers /\ \A c \in Callers : IsMessage(msg[c])

HistoryOK ==
    /\ made \in Seq(Seq(Steps))
    /\ Len(made) = Len(handlers) /\ Len(meant) = Len(handlers)

WritesOK ==
    /\ wpc \in [Callers -> [Outputs -> {"out", "write", "format", "emit", "done"}]]
    /\ flag \in [Callers -> [Outputs -> Flags]]
    /\ text \in [Callers -> [Outputs -> {"content", "mark"}]]

OutputsOK ==
    /\ setup \in Setups /\ floor \in SlogLevels
    /\ maxLevel \in [Outputs -> Levels] /\ slogLevel \in [Outputs -> SlogLevels]
    /\ enabled \in [Outputs -> BOOLEAN] /\ marks \in [Outputs -> Flags]
    /\ exited \in BOOLEAN /\ changes \in 0..setup.changes

Typed == PlacesOK /\ DataOK /\ HistoryOK /\ WritesOK /\ OutputsOK

LEMMA SetupShape ==
  ASSUME setup \in Setups
  PROVE  /\ \A list \in setup.lists : list \in Seq(Attrs)
         /\ \A name \in setup.names : name \in Texts
         /\ \A r \in setup.records : r \in Records
         /\ \A m \in setup.messages : IsMessage(m)
         /\ setup.floors \subseteq SlogLevels /\ setup.maxLevels \subseteq Levels
         /\ setup.flags \subseteq Flags /\ setup.slogLevels \subseteq SlogLevels
         /\ setup.changes \in Nat
  BY BridgeAssumption DEF BridgeAssumption

LEMMA NothingShape ==
  NoRecord \in Records /\ IsMessage(NoMessage) /\ 1 \in Outputs
<1>1. NoRecord \in Records
  <2>1. <<>> \in Seq(Attrs)
    OBVIOUS
  <2>. QED BY <2>1, BridgeAssumption DEF BridgeAssumption, NoRecord, Records
<1>2. IsMap(<<>>)
  BY DEF IsMap
<1>3. IsMessage(NoMessage)
  BY <1>2 DEF IsMessage, NoMessage, Levels, Flags
<1>4. 1 \in Outputs
  <2>1. NumOutputs \in Nat \ {0}
    BY BridgeAssumption DEF BridgeAssumption
  <2>. QED BY <2>1 DEF Outputs
<1>. QED BY <1>1, <1>3, <1>4

\* More handlers, or as many.
LEMMA MoreHandlers ==
  ASSUME PlacesOK, Len(handlers) \in Nat, Len(handlers') \in Nat, Len(handlers) <= Len(handlers')
  PROVE  of \in [Callers -> 0..Len(handlers')]
<1>1. 0..Len(handlers) \subseteq 0..Len(handlers')
  OBVIOUS
<1>. QED BY <1>1 DEF PlacesOK

\* The end of a call.
LEMMA LeavesTyped ==
  ASSUME Typed, NEW c \in Callers, Leave(c), UNCHANGED <<flat, todo>>,
         of \in [Callers -> 0..Len(handlers')], Len(handlers') \in Nat
  PROVE  PlacesOK' /\ DataOK' /\ WritesOK'
<1>1. PlacesOK'
  <2>1. pc' = [pc EXCEPT ![c] = "idle"] /\ of' = [of EXCEPT ![c] = 0] /\ 0 \in 0..Len(handlers')
    BY DEF Leave, Goto
  <2>2. pc' \in [Callers -> Labels] /\ of' \in [Callers -> 0..Len(handlers')]
    BY <2>1 DEF Typed, PlacesOK, Labels
  <2>3. \A d \in Callers : pc'[d] \in Using => of'[d] # 0
    BY <2>1 DEF Typed, PlacesOK, Using
  <2>. QED BY <2>2, <2>3 DEF PlacesOK
<1>2. DataOK'
  <2>1. /\ rec' = [rec EXCEPT ![c] = NoRecord] /\ at' = [at EXCEPT ![c] = 1]
        /\ msg' = [msg EXCEPT ![c] = NoMessage]
    BY DEF Leave
  <2>2. rec' \in [Callers -> Records] /\ at' \in [Callers -> Outputs]
    BY <2>1, NothingShape DEF Typed, DataOK
  <2>3. DOMAIN msg' = Callers /\ \A d \in Callers : msg'[d] = NoMessage \/ msg'[d] = msg[d]
    BY <2>1 DEF Typed, DataOK
  <2>4. \A d \in Callers : IsMessage(msg'[d])
    BY <2>3, NothingShape DEF Typed, DataOK
  <2>. QED BY <2>2, <2>3, <2>4 DEF Typed, DataOK
<1>3. WritesOK'
  <2>1. /\ wpc' = [wpc EXCEPT ![c] = [o \in Outputs |-> "done"]]
        /\ flag' = [flag EXCEPT ![c] = [o \in Outputs |-> "None"]]
        /\ text' = [text EXCEPT ![c] = [o \in Outputs |-> "content"]]
    BY DEF Leave
  <2>. QED BY <2>1 DEF Typed, WritesOK, Flags
<1>. QED BY <1>1, <1>2, <1>3

\* One more handler in the history.
LEMMA HistoryMore ==
  ASSUME HistoryOK, Memories, NEW h, NEW m, NEW steps \in Seq(Steps),
         handlers' = Append(handlers, h), meant' = Append(meant, m),
         made' = Append(made, steps)
  PROVE  /\ HistoryOK' /\ Len(handlers) \in Nat /\ Len(handlers') = Len(handlers) + 1
         /\ \A i \in 1..Len(handlers) : meant'[i] = meant[i] /\ made'[i] = made[i]
         /\ meant'[Len(handlers) + 1] = m /\ made'[Len(handlers) + 1] = steps
<1>1. IsMemory(handlers) /\ IsMemory(meant) /\ IsMemory(made) /\ made \in Seq(Seq(Steps))
  BY DEF Memories, HistoryOK, IsMemory
<1>2. made' \in Seq(Seq(Steps))
  BY <1>1
<1>3. /\ Len(handlers) \in Nat /\ Len(handlers') = Len(handlers) + 1
      /\ Len(meant') = Len(meant) + 1 /\ Len(made') = Len(made) + 1
      /\ \A i \in 1..Len(meant) : meant'[i] = meant[i]
      /\ \A i \in 1..Len(made) : made'[i] = made[i]
      /\ meant'[Len(meant) + 1] = m /\ made'[Len(made) + 1] = steps
  BY <1>1, AppendMemory
<1>. QED BY <1>2, <1>3 DEF HistoryOK

LEMMA StepShape ==
  /\ \A list \in Seq(Attrs) : [op |-> "attrs", with |-> list] \in Steps
  /\ \A name \in Texts : [op |-> "group", with |-> name] \in Steps
  BY DEF Steps

\* The derivations of a handler.
LEMMA MadeShape ==
  ASSUME HistoryOK, NEW h \in 1..Len(handlers), NEW s \in Steps
  PROVE  made[h] \in Seq(Steps) /\ Append(made[h], s) \in Seq(Steps)
<1>1. made[h] \in Seq(Steps)
  BY DEF HistoryOK
<1>2. ASSUME NEW u \in Seq(Steps) PROVE Append(u, s) \in Seq(Steps)
  OBVIOUS
<1>. QED BY <1>1, <1>2

----------------------------------------------------------------------------
(* What is said so far, in a handler or a record being made, and what is   *)
(* still to be said, is what its derivation says.                          *)

Said(c) == meant[of[c]].attrs \o FlattenAll(Prefix(meant[of[c]].groups), rec[c].attrs)

Holds(c) ==
    /\ pc[c] = "deriving" =>
          /\ Elements(arrays, mine[c].attrs) \o All(todo[c]) = Said(c)
          /\ Elements(names, mine[c].groups) = meant[of[c]].groups
    /\ pc[c] = "recording" => flat[c] \o All(todo[c]) = Said(c)
    /\ pc[c] = "printing" /\ of[c] # 0 => msg[c].fields = AsMap(Said(c))

Held ==
    /\ \A h \in 1..Len(handlers) : meant[h] = Meaning(made[h])
    /\ \A c \in Callers : Holds(c)

HoldsInv == ApartInv /\ SlicesOK /\ Typed /\ Held

\* Nothing changes for d.
Alike(d) ==
    /\ pc'[d] = pc[d] /\ of'[d] = of[d] /\ rec'[d] = rec[d] /\ flat'[d] = flat[d]
    /\ todo'[d] = todo[d] /\ msg'[d] = msg[d] /\ mine'[d] = mine[d] /\ Shows(mine[d])

LEMMA AlikeHolds ==
  ASSUME PlacesOK, NEW d \in Callers, Holds(d), Alike(d),
         \A h \in 1..Len(handlers) : meant'[h] = meant[h], Len(handlers) \in Nat
  PROVE  Holds(d)'
<1>1. of[d] # 0 => of[d] \in 1..Len(handlers)
  BY DEF PlacesOK
<1>2. of[d] # 0 => Said(d)' = Said(d) /\ meant'[of'[d]].groups = meant[of[d]].groups
  BY <1>1 DEF Said, Alike
<1>3. pc[d] \in {"deriving", "recording"} => of[d] # 0
  BY DEF PlacesOK, Using
<1>4. ASSUME pc[d] = "deriving"
      PROVE  /\ Elements(arrays', mine'[d].attrs) \o All(todo'[d]) = Said(d)'
             /\ Elements(names', mine'[d].groups) = meant'[of'[d]].groups
  <2>1. /\ Elements(arrays, mine[d].attrs) \o All(todo[d]) = Said(d)
        /\ Elements(names, mine[d].groups) = meant[of[d]].groups
    BY <1>4 DEF Holds
  <2>2. of[d] # 0
    BY <1>3, <1>4
  <2>. QED BY <1>2, <2>1, <2>2 DEF Alike, Shows
<1>5. ASSUME pc[d] = "recording" PROVE flat'[d] \o All(todo'[d]) = Said(d)'
  <2>1. flat[d] \o All(todo[d]) = Said(d) /\ of[d] # 0
    BY <1>3, <1>5 DEF Holds
  <2>. QED BY <1>2, <2>1 DEF Alike
<1>6. ASSUME pc[d] = "printing", of[d] # 0 PROVE msg'[d].fields = AsMap(Said(d)')
  <2>1. msg[d].fields = AsMap(Said(d))
    BY <1>6 DEF Holds
  <2>. QED BY <1>2, <1>6, <2>1 DEF Alike
<1>7. pc'[d] = pc[d] /\ of'[d] = of[d]
  BY DEF Alike
<1>. QED BY <1>4, <1>5, <1>6, <1>7 DEF Holds

\* What a handler shows is what was meant, and its parts have their types.
LEMMA HandlerMeans ==
  ASSUME HoldsInv, NEW h \in DOMAIN handlers
  PROVE  /\ h \in 1..Len(handlers) /\ Len(handlers) \in Nat
         /\ AttrsOf(h) = meant[h].attrs /\ GroupsOf(h) = meant[h].groups
         /\ AttrsOf(h) \in Seq(Fields) /\ GroupsOf(h) \in Seq(Texts)
         /\ Prefix(GroupsOf(h)) \in Texts
<1>1. /\ h \in 1..Len(handlers) /\ AttrsOf(h) \in Seq(Fields) /\ GroupsOf(h) \in Seq(Texts)
  BY HandlerShape DEF HoldsInv
<1>2. AttrsOf(h) = meant[h].attrs /\ GroupsOf(h) = meant[h].groups
  BY <1>1 DEF HoldsInv, ApartInv, Kept
<1>3. Len(handlers) \in Nat
  BY DEF HoldsInv, SlicesOK
<1>. QED BY <1>1, <1>2, <1>3, PrefixType

\* One goroutine steps, and no handler is added.
LEMMA OneHolds ==
  ASSUME HoldsInv, NEW c \in Callers, UNCHANGED <<handlers, meant, made>>,
         \A d \in Callers : d # c => Alike(d), Holds(c)'
  PROVE  Held' /\ HistoryOK'
<1>1. Len(handlers) \in Nat /\ PlacesOK
  BY DEF HoldsInv, SlicesOK, Typed
<1>2. ASSUME NEW d \in Callers, d # c PROVE Holds(d)'
  BY <1>1, <1>2, AlikeHolds DEF HoldsInv, Held
<1>3. \A h \in 1..Len(handlers') : meant'[h] = Meaning(made'[h])
  BY DEF HoldsInv, Held
<1>4. HistoryOK'
  BY DEF HoldsInv, Typed, HistoryOK
<1>. QED BY <1>2, <1>3, <1>4 DEF Held

LEMMA WithAttrsHolds ==
  ASSUME HoldsInv, NEW c \in Callers, WithAttrs(c) PROVE SlicesOK' /\ Typed' /\ Held'
<1>1. /\ SlicesOK /\ Typed /\ setup \in Setups /\ DOMAIN pc = Callers
      /\ of \in [Callers -> 0..Len(handlers)] /\ pc \in [Callers -> Labels]
      /\ rec \in [Callers -> Records] /\ todo \in [Callers -> Seq(Tasks)]
      /\ flat \in [Callers -> Seq(Fields)] /\ DOMAIN msg = Callers
  BY DEF HoldsInv, Typed, OutputsOK, PlacesOK, DataOK
<1>2. \A s \in Setups : \A list \in s.lists : list \in Seq(Attrs)
  BY BridgeAssumption DEF BridgeAssumption
<1>3. /\ SlicesOK'
      /\ \A d \in Callers : d # c => mine'[d] = mine[d] /\ Shows(mine[d])
      /\ \E h \in DOMAIN handlers, list \in setup.lists :
            /\ list \in Seq(Attrs) /\ of' = [of EXCEPT ![c] = h]
            /\ rec' = [rec EXCEPT ![c].attrs = list]
            /\ todo' = [todo EXCEPT ![c] = Under(Prefix(GroupsOf(h)), list)]
            /\ Elements(arrays', mine'[c].attrs) = AttrsOf(h)
            /\ Elements(names', mine'[c].groups) = GroupsOf(h)
  BY <1>1, <1>2, WithAttrsSlices
<1>4. PICK h \in DOMAIN handlers, list \in Seq(Attrs) :
         /\ of' = [of EXCEPT ![c] = h]
         /\ rec' = [rec EXCEPT ![c].attrs = list]
         /\ todo' = [todo EXCEPT ![c] = Under(Prefix(GroupsOf(h)), list)]
         /\ Elements(arrays', mine'[c].attrs) = AttrsOf(h)
         /\ Elements(names', mine'[c].groups) = GroupsOf(h)
  BY <1>3
<1>5. /\ pc' = [pc EXCEPT ![c] = "deriving"]
      /\ UNCHANGED <<handlers, meant, made, flat, at, msg, exited>>
      /\ UNCHANGED <<outputVars, fixedVars>> /\ UNCHANGED writeVars
  BY DEF WithAttrs, Goto
<1>6. /\ h \in 1..Len(handlers) /\ Len(handlers) \in Nat
      /\ AttrsOf(h) = meant[h].attrs /\ GroupsOf(h) = meant[h].groups
      /\ Prefix(GroupsOf(h)) \in Texts
  BY HandlerMeans
<1> DEFINE ts == Under(Prefix(GroupsOf(h)), list)
<1>7. ts \in Seq(Tasks) /\ FlattenAll(Prefix(GroupsOf(h)), list) = All(ts)
  BY <1>6, UnderShape
<1>8. /\ of'[c] = h /\ rec'[c].attrs = list /\ todo'[c] = ts /\ pc'[c] = "deriving"
      /\ \A d \in Callers : d # c => /\ of'[d] = of[d] /\ rec'[d] = rec[d]
                                     /\ todo'[d] = todo[d] /\ pc'[d] = pc[d]
  BY <1>1, <1>4, <1>5 DEF Records
<1>9. rec' \in [Callers -> Records]
  BY <1>1, <1>4 DEF Records
<1>10. PlacesOK'
  BY <1>1, <1>4, <1>5, <1>6, <1>8 DEF Typed, PlacesOK, Labels, Using
<1>11. DataOK'
  BY <1>1, <1>4, <1>5, <1>7, <1>9 DEF Typed, DataOK
<1>12. WritesOK' /\ OutputsOK'
  BY <1>1, <1>5 DEF Typed, WritesOK, OutputsOK, outputVars, fixedVars, writeVars
<1>13. \A d \in Callers : d # c => Alike(d)
  BY <1>3, <1>5, <1>8 DEF Alike
<1>14. Holds(c)'
  BY <1>4, <1>5, <1>6, <1>7, <1>8 DEF Holds, Said
<1>15. Held' /\ HistoryOK'
  BY <1>5, <1>13, <1>14, OneHolds
<1>. QED BY <1>3, <1>10, <1>11, <1>12, <1>15 DEF Typed

LEMMA AppendAttrHolds ==
  ASSUME HoldsInv, NEW c \in Callers, AppendAttr(c) PROVE SlicesOK' /\ Typed' /\ Held'
<1> DEFINE x == Head(todo[c])
           ignored == x.attr.group \/ (x.attr.key = Blank /\ x.attr.value = NoValue)
           new == [key |-> joinKey(x.prefix, x.attr.key), value |-> x.attr.value]
           left == Under(Inner(x), x.attr.members) \o Tail(todo[c])
<1>1. /\ SlicesOK /\ Typed /\ Owned /\ todo[c] # <<>> /\ pc[c] \in {"deriving", "recording"}
      /\ of \in [Callers -> 0..Len(handlers)] /\ pc \in [Callers -> Labels]
      /\ todo \in [Callers -> Seq(Tasks)] /\ flat \in [Callers -> Seq(Fields)]
      /\ todo[c] \in Seq(Tasks) /\ flat[c] \in Seq(Fields)
  BY DEF HoldsInv, ApartInv, Typed, PlacesOK, DataOK, AppendAttr, At
<1>2. /\ todo' = [todo EXCEPT ![c] = left]
      /\ ignored => UNCHANGED <<arrays, mine, flat>>
      /\ ~ignored => \/ /\ pc[c] = "deriving"
                        /\ arrays' = Appended(arrays, mine[c].attrs, new)
                        /\ mine' = [mine EXCEPT ![c].attrs = Extended(arrays, @)]
                        /\ UNCHANGED flat
                     \/ /\ pc[c] = "recording"
                        /\ flat' = [flat EXCEPT ![c] = Append(@, new)]
                        /\ UNCHANGED <<arrays, mine>>
  BY DEF AppendAttr, Inner
<1>3. /\ UNCHANGED <<names, handlers, meant, made, pc, of, rec, at, msg, exited>>
      /\ UNCHANGED <<outputVars, fixedVars>> /\ UNCHANGED writeVars
  BY DEF AppendAttr
<1>4. /\ left \in Seq(Tasks)
      /\ \A acc \in Seq(Fields) :
            /\ ignored => acc \o All(left) = acc \o All(todo[c])
            /\ ~ignored => new \in Fields /\ Append(acc, new) \o All(left) = acc \o All(todo[c])
  BY <1>1, StepSays
<1>5. ~ignored => new \in Fields
  BY <1>1, <1>4
<1> HIDE DEF x, ignored, new, left
<1>6. /\ todo' \in [Callers -> Seq(Tasks)] /\ todo'[c] = left
      /\ \A d \in Callers : d # c => todo'[d] = todo[d]
  BY <1>1, <1>2, <1>4
<1>7. /\ flat' \in [Callers -> Seq(Fields)]
      /\ \A d \in Callers : d # c => flat'[d] = flat[d]
  <2>1. \A acc \in Seq(Fields) : ~ignored => Append(acc, new) \in Seq(Fields)
    BY <1>5
  <2>2. CASE flat' = flat
    BY <1>1, <2>2
  <2>3. CASE ~ignored /\ flat' = [flat EXCEPT ![c] = Append(@, new)]
    BY <1>1, <2>1, <2>3
  <2>. QED BY <1>2, <2>2, <2>3
<1>8. \/ UNCHANGED <<arrays, mine>>
      \/ /\ pc[c] = "deriving" /\ ~ignored
         /\ arrays' = Appended(arrays, mine[c].attrs, new)
         /\ mine' = [mine EXCEPT ![c].attrs = Extended(arrays, @)]
  BY <1>2
<1>9. /\ SlicesOK'
      /\ \A d \in Callers : d # c => mine'[d] = mine[d] /\ Shows(mine[d])
      /\ Elements(names', mine'[c].groups) = Elements(names, mine[c].groups)
  <2>1. CASE UNCHANGED <<arrays, mine>>
    BY <1>1, <1>3, <2>1 DEF SlicesOK, Seen, Shows
  <2>2. CASE /\ pc[c] = "deriving" /\ ~ignored
             /\ arrays' = Appended(arrays, mine[c].attrs, new)
             /\ mine' = [mine EXCEPT ![c].attrs = Extended(arrays, @)]
    BY <1>1, <1>3, <1>5, <2>2, AppendAttrSlices
  <2>. QED BY <1>8, <2>1, <2>2
<1>10. \A d \in Callers : d # c => Alike(d)
  BY <1>3, <1>6, <1>7, <1>9 DEF Alike
<1>11. Said(c)' = Said(c) /\ meant'[of'[c]] = meant[of[c]]
  BY <1>3 DEF Said
<1>12. ASSUME pc[c] = "deriving"
       PROVE  /\ Elements(arrays', mine'[c].attrs) \o All(left) = Said(c)
              /\ Elements(names', mine'[c].groups) = meant[of[c]].groups
  <2>1. /\ Elements(arrays, mine[c].attrs) \o All(todo[c]) = Said(c)
        /\ Elements(names, mine[c].groups) = meant[of[c]].groups
    BY <1>12 DEF HoldsInv, Held, Holds
  <2>2. Elements(arrays, mine[c].attrs) \in Seq(Fields)
    BY <1>1, ElementsShape DEF SlicesOK, Seen
  <2>3. CASE ignored
    BY <1>2, <1>4, <1>9, <2>1, <2>2, <2>3
  <2>4. CASE ~ignored
    <3>1. /\ arrays' = Appended(arrays, mine[c].attrs, new)
          /\ mine' = [mine EXCEPT ![c].attrs = Extended(arrays, @)]
      BY <1>2, <1>12, <2>4
    <3>2. Elements(arrays', mine'[c].attrs) = Append(Elements(arrays, mine[c].attrs), new)
      BY <1>1, <1>3, <1>5, <1>12, <2>4, <3>1, AppendAttrSlices
    <3>. QED BY <1>4, <1>9, <2>1, <2>2, <2>4, <3>2
  <2>. QED BY <2>3, <2>4
<1>13. ASSUME pc[c] = "recording" PROVE flat'[c] \o All(left) = Said(c)
  <2>1. flat[c] \o All(todo[c]) = Said(c)
    BY <1>13 DEF HoldsInv, Held, Holds
  <2>2. CASE ignored
    BY <1>1, <1>2, <1>4, <2>1, <2>2
  <2>3. CASE ~ignored
    <3>1. flat'[c] = Append(flat[c], new)
      BY <1>1, <1>2, <1>13, <2>3
    <3>. QED BY <1>1, <1>4, <2>1, <2>3, <3>1
  <2>. QED BY <2>2, <2>3
<1>14. Holds(c)'
  BY <1>1, <1>3, <1>6, <1>11, <1>12, <1>13 DEF Holds
<1>15. Held' /\ HistoryOK'
  BY <1>3, <1>10, <1>14, OneHolds
<1>16. PlacesOK'
  BY <1>1, <1>3 DEF Typed, PlacesOK
<1>17. DataOK'
  BY <1>1, <1>3, <1>6, <1>7 DEF Typed, DataOK
<1>18. WritesOK' /\ OutputsOK'
  BY <1>1, <1>3 DEF Typed, WritesOK, OutputsOK, outputVars, fixedVars, writeVars
<1>. QED BY <1>9, <1>15, <1>16, <1>17, <1>18 DEF Typed

\* A handler is returned that means what its derivation says.
LEMMA MoreHolds ==
  ASSUME HoldsInv, NEW new, NEW steps \in Seq(Steps),
         handlers' = Append(handlers, new), meant' = Append(meant, Meaning(steps)),
         made' = Append(made, steps),
         \A d \in Callers : Alike(d) \/ Holds(d)'
  PROVE  /\ Held' /\ HistoryOK'
         /\ Len(handlers) \in Nat /\ Len(handlers') = Len(handlers) + 1
<1>1. PlacesOK /\ HistoryOK /\ Memories /\ \A d \in Callers : Holds(d)
  BY DEF HoldsInv, Typed, ApartInv, Held
<1>2. /\ HistoryOK' /\ Len(handlers) \in Nat /\ Len(handlers') = Len(handlers) + 1
      /\ \A i \in 1..Len(handlers) : meant'[i] = meant[i] /\ made'[i] = made[i]
      /\ meant'[Len(handlers) + 1] = Meaning(steps) /\ made'[Len(handlers) + 1] = steps
  BY <1>1, HistoryMore
<1>3. \A d \in Callers : Holds(d)'
  BY <1>1, <1>2, AlikeHolds
<1>4. ASSUME NEW h \in 1..Len(handlers') PROVE meant'[h] = Meaning(made'[h])
  <2>1. h \in 1..Len(handlers) \/ h = Len(handlers) + 1
    BY <1>2
  <2>. QED BY <1>2, <2>1 DEF HoldsInv, Held
<1>. QED BY <1>2, <1>3, <1>4 DEF Held

LEMMA ReturnedHolds ==
  ASSUME HoldsInv, NEW c \in Callers, Returned(c) PROVE SlicesOK' /\ Typed' /\ Held'
<1> DEFINE m == Means(Elements(arrays, mine[c].attrs), Elements(names, mine[c].groups))
           s == [op |-> "attrs", with |-> rec[c].attrs]
           h == of[c]
           steps == Append(made[h], s)
<1>1. /\ pc[c] = "deriving" /\ todo[c] = <<>>
      /\ handlers' = Append(handlers, mine[c]) /\ meant' = Append(meant, m)
      /\ made' = Append(made, steps) /\ Leave(c)
      /\ UNCHANGED <<arrays, names, flat, todo, exited>>
      /\ UNCHANGED <<outputVars, fixedVars>>
  BY DEF Returned, At
<1>2. /\ SlicesOK /\ Typed /\ PlacesOK /\ DataOK /\ HistoryOK /\ Holds(c)
      /\ \A i \in 1..Len(handlers) : meant[i] = Meaning(made[i])
      /\ Len(handlers) \in Nat /\ handlers \in Seq(Pairs) /\ mine \in [Callers -> Pairs]
      /\ \A d \in Callers : Seen(mine[d])
      /\ \A i \in 1..Len(handlers) : Seen(handlers[i])
  BY DEF HoldsInv, Typed, Held, SlicesOK
<1>3. h \in 1..Len(handlers) /\ rec[c].attrs \in Seq(Attrs)
  BY <1>1, <1>2 DEF PlacesOK, DataOK, Records, Using
<1>4. s \in Steps /\ steps \in Seq(Steps) /\ made[h] \in Seq(Steps)
  BY <1>2, <1>3, StepShape, MadeShape
<1>5. m = Meaning(steps)
  <2>1. /\ Elements(arrays, mine[c].attrs) \o All(todo[c]) = Said(c)
        /\ Elements(names, mine[c].groups) = meant[h].groups
    BY <1>1, <1>2 DEF Holds
  <2>2. Elements(arrays, mine[c].attrs) \in Seq(Fields)
    BY <1>2, ElementsShape DEF SlicesOK, Seen
  <2>3. Elements(arrays, mine[c].attrs) = Said(c)
    BY <1>1, <2>1, <2>2, AllNone, ConcatNone
  <2>4. meant[h] = Meaning(made[h])
    BY <1>2, <1>3
  <2>5. Meaning(steps) = Means(Meaning(made[h]).attrs
                                 \o FlattenAll(Prefix(Meaning(made[h]).groups), rec[c].attrs),
                               Meaning(made[h]).groups)
    BY <1>3, <1>4, MeaningMore
  <2>. QED BY <2>1, <2>3, <2>4, <2>5 DEF Said
<1> HIDE DEF m, s, steps
<1>6. /\ pc' = [pc EXCEPT ![c] = "idle"] /\ of' = [of EXCEPT ![c] = 0]
      /\ rec' = [rec EXCEPT ![c] = NoRecord] /\ msg' = [msg EXCEPT ![c] = NoMessage]
      /\ mine' = [mine EXCEPT ![c] = NoSlices]
  BY <1>1 DEF Leave, Goto
<1>7. pc'[c] = "idle" /\ \A d \in Callers : d # c => Alike(d)
  BY <1>1, <1>2, <1>6 DEF PlacesOK, DataOK, Alike, Shows
<1>8. Holds(c)'
  BY <1>7 DEF Holds
<1>9. /\ Held' /\ HistoryOK' /\ Len(handlers') = Len(handlers) + 1
  BY <1>1, <1>4, <1>5, <1>7, <1>8, MoreHolds
<1>10. handlers' \in Seq(Pairs) /\ \A i \in 1..Len(handlers') : Seen(handlers'[i])
  <2>1. mine[c] \in Pairs
    BY <1>2
  <2>2. /\ handlers' \in Seq(Pairs) /\ handlers'[Len(handlers) + 1] = mine[c]
        /\ \A i \in 1..Len(handlers) : handlers'[i] = handlers[i]
    BY <1>1, <1>2, <2>1
  <2>3. \A i \in 1..Len(handlers') : i \in 1..Len(handlers) \/ i = Len(handlers) + 1
    BY <1>2, <1>9
  <2>. QED BY <1>2, <2>2, <2>3
<1>11. \A d \in Callers : pc'[d] # "deriving" => mine'[d] = NoSlices
  BY <1>2, <1>6 DEF PlacesOK, SlicesOK
<1>12. SlicesOK'
  BY <1>1, <1>2, <1>6, <1>10, <1>11, QuietSlices
<1>13. of \in [Callers -> 0..Len(handlers')] /\ Len(handlers') \in Nat
  BY <1>2, <1>9, MoreHandlers
<1>14. PlacesOK' /\ DataOK' /\ WritesOK'
  BY <1>1, <1>2, <1>13, LeavesTyped
<1>15. OutputsOK'
  BY <1>1, <1>2 DEF Typed, OutputsOK, outputVars, fixedVars
<1>. QED BY <1>9, <1>12, <1>14, <1>15 DEF Typed

LEMMA WithGroupHolds ==
  ASSUME HoldsInv, NEW c \in Callers, WithGroup(c) PROVE SlicesOK' /\ Typed' /\ Held'
<1>1. /\ SlicesOK /\ Typed /\ HistoryOK /\ PlacesOK /\ setup \in Setups
      /\ \A i \in 1..Len(handlers) : meant[i] = Meaning(made[i])
  BY DEF HoldsInv, Typed, OutputsOK, Held
<1>2. \A s \in Setups : \A name \in s.names : name \in Texts
  BY BridgeAssumption DEF BridgeAssumption
<1>3. /\ SlicesOK' /\ mine' = mine /\ \A d \in Callers : Shows(mine[d])
      /\ \E h \in DOMAIN handlers, name \in Texts, new \in Pairs :
            /\ handlers' = Append(handlers, new)
            /\ made' = Append(made, Append(made[h], [op |-> "group", with |-> name]))
            /\ meant' = Append(meant, Means(AttrsOf(h), Append(GroupsOf(h), name)))
  BY <1>1, <1>2, WithGroupSlices
<1>4. PICK h \in DOMAIN handlers, name \in Texts, new \in Pairs :
         /\ handlers' = Append(handlers, new)
         /\ made' = Append(made, Append(made[h], [op |-> "group", with |-> name]))
         /\ meant' = Append(meant, Means(AttrsOf(h), Append(GroupsOf(h), name)))
  BY <1>3
<1>5. /\ UNCHANGED <<pc, of, mine, rec, flat, todo, at, msg, exited>>
      /\ UNCHANGED <<outputVars, fixedVars>> /\ UNCHANGED writeVars
  BY DEF WithGroup, callVars
<1>6. /\ h \in 1..Len(handlers)
      /\ AttrsOf(h) = meant[h].attrs /\ GroupsOf(h) = meant[h].groups
  BY HandlerMeans
<1> DEFINE s == [op |-> "group", with |-> name]
           steps == Append(made[h], s)
<1>7. s \in Steps /\ steps \in Seq(Steps) /\ made[h] \in Seq(Steps)
  BY <1>1, <1>6, StepShape, MadeShape
<1>8. Means(AttrsOf(h), Append(GroupsOf(h), name)) = Meaning(steps)
  <2>1. meant[h] = Meaning(made[h])
    BY <1>1, <1>6
  <2>2. Meaning(steps) = Means(Meaning(made[h]).attrs, Append(Meaning(made[h]).groups, name))
    BY <1>7, MeaningMore
  <2>. QED BY <1>6, <2>1, <2>2
<1>9. \A d \in Callers : Alike(d)
  BY <1>3, <1>5 DEF Alike
<1> HIDE DEF s, steps
<1>10. made' = Append(made, steps) /\ meant' = Append(meant, Meaning(steps))
  BY <1>4, <1>8 DEF s, steps
<1>11. /\ Held' /\ HistoryOK' /\ Len(handlers) \in Nat /\ Len(handlers') = Len(handlers) + 1
  BY <1>4, <1>7, <1>9, <1>10, MoreHolds
<1>12. of \in [Callers -> 0..Len(handlers')]
  BY <1>1, <1>11, MoreHandlers
<1>13. PlacesOK'
  BY <1>1, <1>5, <1>12 DEF PlacesOK
<1>14. DataOK' /\ WritesOK' /\ OutputsOK'
  BY <1>1, <1>5 DEF Typed, DataOK, WritesOK, OutputsOK, outputVars, fixedVars, writeVars
<1>. QED BY <1>3, <1>11, <1>13, <1>14 DEF Typed

\* A step of a goroutine that logs.
LEMMA LoggingHolds ==
  ASSUME HoldsInv, NEW c \in Callers, UNCHANGED <<arrays, names, handlers, meant, made>>,
         mine' = mine \/ mine' = [mine EXCEPT ![c] = NoSlices],
         pc[c] # "deriving", NEW l, l # "deriving", pc' = [pc EXCEPT ![c] = l],
         \A d \in Callers : d # c =>
            /\ of'[d] = of[d] /\ rec'[d] = rec[d] /\ flat'[d] = flat[d]
            /\ todo'[d] = todo[d] /\ msg'[d] = msg[d],
         l = "recording" => flat'[c] \o All(todo'[c]) = Said(c)',
         l = "printing" /\ of'[c] # 0 => msg'[c].fields = AsMap(Said(c)')
  PROVE  SlicesOK' /\ Held' /\ HistoryOK'
<1>1. /\ SlicesOK /\ DOMAIN pc = Callers /\ mine \in [Callers -> Pairs]
      /\ handlers \in Seq(Pairs) /\ \A i \in 1..Len(handlers) : Seen(handlers[i])
      /\ \A d \in Callers : pc[d] # "deriving" => mine[d] = NoSlices
  BY DEF HoldsInv, Typed, PlacesOK, SlicesOK
<1>2. pc'[c] = l /\ \A d \in Callers : d # c => pc'[d] = pc[d] /\ mine'[d] = mine[d]
  BY <1>1
<1>3. \A d \in Callers : d # c => Alike(d)
  BY <1>2 DEF Alike, Shows
<1>4. Holds(c)'
  BY <1>2 DEF Holds
<1>5. Held' /\ HistoryOK'
  BY <1>3, <1>4, OneHolds
<1>6. \A d \in Callers : pc'[d] # "deriving" => mine'[d] = NoSlices
  BY <1>1, <1>2
<1>7. SlicesOK'
  BY <1>1, <1>6, QuietSlices
<1>. QED BY <1>5, <1>7

\* The message of a record, or of the application.
LEMMA DispatchTyped ==
  ASSUME Typed, NEW c \in Callers, NEW m, IsMessage(m), Dispatch(c, m)
  PROVE  /\ WritesOK' /\ DOMAIN msg' = Callers /\ \A d \in Callers : IsMessage(msg'[d])
         /\ msg'[c] = m /\ \A d \in Callers : d # c => msg'[d] = msg[d]
<1>1. /\ msg' = [msg EXCEPT ![c] = m]
      /\ wpc' = [wpc EXCEPT ![c] = [o \in Outputs |->
                   IF enabled[o] /\ m.flag # "SkipAndMute" THEN "write" ELSE "out"]]
      /\ flag' = [flag EXCEPT ![c] = [o \in Outputs |-> m.flag]]
      /\ text' = [text EXCEPT ![c] = [o \in Outputs |-> "content"]]
  BY DEF Dispatch
<1>2. m.flag \in Flags
  BY DEF IsMessage
<1>3. WritesOK'
  BY <1>1, <1>2 DEF Typed, WritesOK
<1>4. /\ DOMAIN msg' = Callers /\ msg'[c] = m
      /\ \A d \in Callers : d # c => msg'[d] = msg[d]
  BY <1>1 DEF Typed, DataOK
<1>5. \A d \in Callers : IsMessage(msg'[d])
  BY <1>4 DEF Typed, DataOK
<1>. QED BY <1>3, <1>4, <1>5

LEMMA LogHolds ==
  ASSUME HoldsInv, NEW c \in Callers, Log(c) PROVE SlicesOK' /\ Typed' /\ Held'
<1>1. PICK h \in DOMAIN handlers, r \in setup.records :
         of' = [of EXCEPT ![c] = h] /\ rec' = [rec EXCEPT ![c] = r]
  BY DEF Log
<1>2. /\ pc[c] = "idle" /\ pc' = [pc EXCEPT ![c] = "status"] /\ at' = [at EXCEPT ![c] = 1]
      /\ UNCHANGED <<arrays, names, handlers, meant, made, mine, flat, todo, msg, exited>>
      /\ UNCHANGED <<outputVars, fixedVars>> /\ UNCHANGED writeVars
  BY DEF Log, At, Goto, handlerVars
<1>3. /\ Typed /\ PlacesOK /\ DataOK /\ setup \in Setups
  BY DEF HoldsInv, Typed, OutputsOK
<1>4. h \in 1..Len(handlers) /\ Len(handlers) \in Nat /\ r \in Records
  BY <1>3, HandlerMeans, SetupShape
<1>5. PlacesOK'
  BY <1>1, <1>2, <1>3, <1>4 DEF PlacesOK, Labels, Using
<1>6. DataOK'
  BY <1>1, <1>2, <1>3, <1>4, NothingShape DEF DataOK
<1>7. WritesOK' /\ OutputsOK'
  BY <1>2, <1>3 DEF Typed, WritesOK, OutputsOK, outputVars, fixedVars, writeVars
<1>8. \A d \in Callers : d # c => of'[d] = of[d] /\ rec'[d] = rec[d]
  BY <1>1, <1>3 DEF PlacesOK, DataOK
<1>9. SlicesOK' /\ Held' /\ HistoryOK'
  BY <1>2, <1>8, LoggingHolds
<1>. QED BY <1>5, <1>6, <1>7, <1>9 DEF Typed

\* A call that returns, of those that log.
LEMMA LeaveHolds ==
  ASSUME HoldsInv, NEW c \in Callers, pc[c] # "deriving", Leave(c),
         UNCHANGED <<arrays, names, handlers, meant, made, flat, todo>>, OutputsOK'
  PROVE  SlicesOK' /\ Typed' /\ Held'
<1>1. /\ pc' = [pc EXCEPT ![c] = "idle"] /\ of' = [of EXCEPT ![c] = 0]
      /\ rec' = [rec EXCEPT ![c] = NoRecord] /\ msg' = [msg EXCEPT ![c] = NoMessage]
      /\ mine' = [mine EXCEPT ![c] = NoSlices]
  BY DEF Leave, Goto
<1>2. Typed /\ PlacesOK /\ DataOK /\ Len(handlers) \in Nat
  BY DEF HoldsInv, Typed, SlicesOK
<1>3. PlacesOK' /\ DataOK' /\ WritesOK'
  BY <1>2, LeavesTyped DEF PlacesOK
<1>4. \A d \in Callers : d # c => of'[d] = of[d] /\ rec'[d] = rec[d] /\ msg'[d] = msg[d]
  BY <1>1, <1>2 DEF PlacesOK, DataOK
<1>5. SlicesOK' /\ Held' /\ HistoryOK'
  BY <1>1, <1>4, LoggingHolds
<1>. QED BY <1>3, <1>5 DEF Typed

LEMMA LookHolds ==
  ASSUME HoldsInv, NEW c \in Callers, LookAtStatus(c) \/ LookAtLevel(c)
  PROVE  SlicesOK' /\ Typed' /\ Held'
<1>1. /\ pc[c] \in {"status", "level"}
      /\ UNCHANGED <<arrays, names, handlers, meant, made, flat, todo, exited>>
      /\ UNCHANGED <<outputVars, fixedVars>>
      /\ \/ Leave(c)
         \/ /\ UNCHANGED <<of, mine, rec, msg>> /\ UNCHANGED writeVars
            /\ at' = at \/ (at[c] < NumOutputs /\ at' = [at EXCEPT ![c] = @ + 1])
            /\ \E l \in {"status", "level", "handle"} : pc' = [pc EXCEPT ![c] = l]
  BY DEF LookAtStatus, LookAtLevel, Accepted, NextOutput, At, Goto, handlerVars
<1>2. Typed /\ PlacesOK /\ DataOK
  BY DEF HoldsInv, Typed
<1>3. OutputsOK'
  BY <1>1, <1>2 DEF Typed, OutputsOK, outputVars, fixedVars
<1>4. CASE Leave(c)
  BY <1>1, <1>3, <1>4, LeaveHolds
<1>5. ASSUME NEW l \in {"status", "level", "handle"}, pc' = [pc EXCEPT ![c] = l],
             UNCHANGED <<of, mine, rec, msg>>, UNCHANGED writeVars,
             at' = at \/ (at[c] < NumOutputs /\ at' = [at EXCEPT ![c] = @ + 1])
      PROVE  SlicesOK' /\ Typed' /\ Held'
  <2>1. PlacesOK'
    BY <1>1, <1>2, <1>5 DEF PlacesOK, Labels, Using
  <2>2. at' \in [Callers -> Outputs]
    <3>1. NumOutputs \in Nat /\ at \in [Callers -> Outputs]
      BY <1>2, BridgeAssumption DEF BridgeAssumption, DataOK
    <3>2. at[c] \in 1..NumOutputs
      BY <3>1 DEF Outputs
    <3>3. at[c] < NumOutputs => at[c] + 1 \in Outputs
      BY <3>1, <3>2 DEF Outputs
    <3>. QED BY <1>5, <3>1, <3>3
  <2>3. DataOK'
    BY <1>1, <1>2, <1>5, <2>2 DEF DataOK
  <2>4. WritesOK'
    BY <1>2, <1>5 DEF Typed, WritesOK, writeVars
  <2>5. SlicesOK' /\ Held' /\ HistoryOK'
    BY <1>1, <1>5, LoggingHolds
  <2>. QED BY <1>3, <2>1, <2>3, <2>4, <2>5 DEF Typed
<1>. QED BY <1>1, <1>4, <1>5

LEMMA HandleHolds ==
  ASSUME HoldsInv, NEW c \in Callers, Handle(c) PROVE SlicesOK' /\ Typed' /\ Held'
<1> DEFINE h == of[c]
           ts == Under(Prefix(GroupsOf(h)), rec[c].attrs)
<1>1. /\ pc[c] = "handle" /\ pc' = [pc EXCEPT ![c] = "recording"]
      /\ flat' = [flat EXCEPT ![c] = AttrsOf(h)] /\ todo' = [todo EXCEPT ![c] = ts]
      /\ UNCHANGED <<arrays, names, handlers, meant, made, of, mine, rec, at, msg, exited>>
      /\ UNCHANGED <<outputVars, fixedVars>> /\ UNCHANGED writeVars
  BY DEF Handle, At, Goto, handlerVars
<1>2. Typed /\ PlacesOK /\ DataOK /\ handlers \in Seq(Pairs)
  BY DEF HoldsInv, Typed, SlicesOK
<1>3. h \in DOMAIN handlers /\ rec[c].attrs \in Seq(Attrs)
  <2>1. h \in 1..Len(handlers)
    BY <1>1, <1>2 DEF PlacesOK, Using
  <2>2. ASSUME NEW E, NEW u \in Seq(E) PROVE DOMAIN u = 1..Len(u)
    OBVIOUS
  <2>3. DOMAIN handlers = 1..Len(handlers)
    BY <1>2, <2>2
  <2>. QED BY <1>2, <2>1, <2>3 DEF DataOK, Records
<1>4. /\ AttrsOf(h) = meant[h].attrs /\ GroupsOf(h) = meant[h].groups
      /\ AttrsOf(h) \in Seq(Fields) /\ Prefix(GroupsOf(h)) \in Texts
  BY <1>3, HandlerMeans
<1>5. ts \in Seq(Tasks) /\ FlattenAll(Prefix(GroupsOf(h)), rec[c].attrs) = All(ts)
  BY <1>3, <1>4, UnderShape
<1> HIDE DEF ts
<1>6. /\ flat'[c] = AttrsOf(h) /\ todo'[c] = ts
      /\ \A d \in Callers : d # c => flat'[d] = flat[d] /\ todo'[d] = todo[d]
  BY <1>1, <1>2 DEF DataOK
<1>7. flat'[c] \o All(todo'[c]) = Said(c)'
  BY <1>1, <1>4, <1>5, <1>6 DEF Said
<1>8. PlacesOK'
  BY <1>1, <1>2 DEF PlacesOK, Labels, Using
<1>9. DataOK'
  BY <1>1, <1>2, <1>4, <1>5 DEF DataOK
<1>10. WritesOK' /\ OutputsOK'
  BY <1>1, <1>2 DEF Typed, WritesOK, OutputsOK, outputVars, fixedVars, writeVars
<1>11. SlicesOK' /\ Held' /\ HistoryOK'
  BY <1>1, <1>6, <1>7, LoggingHolds
<1>. QED BY <1>8, <1>9, <1>10, <1>11 DEF Typed

LEMMA PrintMessageHolds ==
  ASSUME HoldsInv, NEW c \in Callers, PrintMessage(c) PROVE SlicesOK' /\ Typed' /\ Held'
<1> DEFINE m == [level |-> ToSyplLevel(rec[c].level), flag |-> "None", fields |-> AsMap(flat[c])]
<1>1. /\ pc[c] = "recording" /\ todo[c] = <<>> /\ Dispatch(c, m)
      /\ flat' = [flat EXCEPT ![c] = <<>>] /\ pc' = [pc EXCEPT ![c] = "printing"]
      /\ UNCHANGED <<arrays, names, handlers, meant, made, of, mine, rec, todo, at, exited>>
      /\ UNCHANGED <<outputVars, fixedVars>>
  BY DEF PrintMessage, At, Dispatch, Goto, handlerVars
<1>2. Typed /\ PlacesOK /\ DataOK /\ Holds(c)
  BY DEF HoldsInv, Typed, Held
<1>3. flat[c] \in Seq(Fields) /\ rec[c].level \in Int
  <2>1. SlogLevels \subseteq Int
    BY BridgeAssumption DEF BridgeAssumption
  <2>. QED BY <1>2, <2>1 DEF DataOK, Records
<1>4. m.level \in Levels /\ m.flag \in Flags /\ IsMap(m.fields) /\ m.fields = AsMap(flat[c])
  <2>1. ToSyplLevel(rec[c].level) \in Levels
    BY <1>3, NeverFatal DEF Levels
  <2>2. IsMap(AsMap(flat[c]))
    BY <1>3, AsMapShape
  <2>3. "None" \in Flags
    BY DEF Flags
  <2>. QED BY <2>1, <2>2, <2>3
<1> HIDE DEF m
<1>5. IsMessage(m)
  BY <1>4 DEF IsMessage
<1>6. /\ WritesOK' /\ DOMAIN msg' = Callers /\ \A d \in Callers : IsMessage(msg'[d])
      /\ msg'[c] = m /\ \A d \in Callers : d # c => msg'[d] = msg[d]
  BY <1>1, <1>2, <1>5, DispatchTyped
<1>7. flat[c] = Said(c)
  BY <1>1, <1>2, <1>3, AllNone, ConcatNone DEF Holds
<1>8. msg'[c].fields = AsMap(Said(c)')
  BY <1>1, <1>4, <1>6, <1>7 DEF Said
<1>9. PlacesOK'
  BY <1>1, <1>2 DEF PlacesOK, Labels, Using
<1>10. flat' \in [Callers -> Seq(Fields)] /\ \A d \in Callers : d # c => flat'[d] = flat[d]
  <2>1. <<>> \in Seq(Fields)
    OBVIOUS
  <2>. QED BY <1>1, <1>2, <2>1 DEF DataOK
<1>11. DataOK'
  BY <1>1, <1>2, <1>6, <1>10 DEF DataOK
<1>12. OutputsOK'
  BY <1>1, <1>2 DEF Typed, OutputsOK, outputVars, fixedVars
<1>13. SlicesOK' /\ Held' /\ HistoryOK'
  BY <1>1, <1>6, <1>8, <1>10, LoggingHolds
<1>. QED BY <1>6, <1>9, <1>11, <1>12, <1>13 DEF Typed

LEMMA PrintDirectlyHolds ==
  ASSUME HoldsInv, NEW c \in Callers, PrintDirectly(c) PROVE SlicesOK' /\ Typed' /\ Held'
<1>1. PICK m \in setup.messages : Dispatch(c, m)
  BY DEF PrintDirectly
<1>2. /\ pc[c] = "idle" /\ of' = [of EXCEPT ![c] = 0] /\ pc' = [pc EXCEPT ![c] = "printing"]
      /\ UNCHANGED <<arrays, names, handlers, meant, made, mine, rec, flat, todo, at, exited>>
      /\ UNCHANGED <<outputVars, fixedVars>>
  BY <1>1 DEF PrintDirectly, At, Dispatch, Goto, handlerVars
<1>3. Typed /\ PlacesOK /\ DataOK /\ setup \in Setups /\ Len(handlers) \in Nat
  BY DEF HoldsInv, Typed, OutputsOK, SlicesOK
<1>4. IsMessage(m)
  BY <1>3, SetupShape
<1>5. /\ WritesOK' /\ DOMAIN msg' = Callers /\ \A d \in Callers : IsMessage(msg'[d])
      /\ \A d \in Callers : d # c => msg'[d] = msg[d]
  BY <1>1, <1>3, <1>4, DispatchTyped
<1>6. of'[c] = 0 /\ \A d \in Callers : d # c => of'[d] = of[d]
  BY <1>2, <1>3 DEF PlacesOK
<1>7. PlacesOK'
  BY <1>2, <1>3 DEF PlacesOK, Labels, Using
<1>8. DataOK'
  BY <1>2, <1>3, <1>5 DEF DataOK
<1>9. OutputsOK'
  BY <1>2, <1>3 DEF Typed, OutputsOK, outputVars, fixedVars
<1>10. SlicesOK' /\ Held' /\ HistoryOK'
  BY <1>2, <1>5, <1>6, LoggingHolds
<1>. QED BY <1>5, <1>7, <1>8, <1>9, <1>10 DEF Typed

LEMMA LogsHold ==
  ASSUME HoldsInv, NEW c \in Callers, Logs(c) PROVE SlicesOK' /\ Typed' /\ Held'
<1>1. CASE Printed(c)
  <2>1. /\ pc[c] = "printing" /\ Leave(c) /\ exited' \in BOOLEAN
        /\ UNCHANGED <<arrays, names, handlers, meant, made, flat, todo>>
        /\ UNCHANGED <<outputVars, fixedVars>>
    BY <1>1 DEF Printed, At, Fatal, handlerVars
  <2>2. OutputsOK'
    BY <2>1 DEF HoldsInv, Typed, OutputsOK, outputVars, fixedVars
  <2>. QED BY <2>1, <2>2, LeaveHolds
<1>. QED BY <1>1, LogHolds, LookHolds, HandleHolds, PrintMessageHolds, PrintDirectlyHolds
     DEF Logs

\* A step of a write, or a reconfiguration, which change no call.
LEMMA OutputHolds ==
  ASSUME HoldsInv,
         UNCHANGED <<handlerVars, callVars>>, WritesOK', OutputsOK'
  PROVE  SlicesOK' /\ Typed' /\ Held'
<1>1. /\ UNCHANGED <<arrays, names, handlers, meant, made>>
      /\ UNCHANGED <<pc, of, mine, rec, flat, todo, at, msg>>
  BY DEF handlerVars, callVars
<1>2. SlicesOK'
  BY <1>1 DEF HoldsInv, SlicesOK, Seen
<1>3. PlacesOK' /\ DataOK' /\ HistoryOK'
  BY <1>1 DEF HoldsInv, Typed, PlacesOK, DataOK, HistoryOK
<1>4. Held'
  <2>1. \A c \in Callers : Holds(c)' <=> Holds(c)
    BY <1>1 DEF Holds, Said
  <2>. QED BY <1>1, <2>1 DEF HoldsInv, Held
<1>. QED BY <1>2, <1>3, <1>4 DEF Typed

LEMMA OneWrite ==
  ASSUME NEW S, NEW f \in [Callers -> [Outputs -> S]], NEW g,
         NEW c \in Callers, NEW o \in Outputs, NEW v \in S, g = [f EXCEPT ![c][o] = v]
  PROVE  g \in [Callers -> [Outputs -> S]]
  OBVIOUS

LEMMA WritesHold ==
  ASSUME HoldsInv, NEW c \in Callers, NEW o \in Outputs, Writes(c, o)
  PROVE  SlicesOK' /\ Typed' /\ Held'
<1>1. /\ UNCHANGED <<handlerVars, callVars, exited>> /\ UNCHANGED <<outputVars, fixedVars>>
  BY DEF Writes, Write, Forward, Emit
<1>2. Typed /\ WritesOK
  BY DEF HoldsInv, Typed
<1>3. OutputsOK'
  BY <1>1, <1>2 DEF Typed, OutputsOK, outputVars, fixedVars
<1> DEFINE P == {"out", "write", "format", "emit", "done"}
           T == {"content", "mark"}
<1>4. /\ wpc \in [Callers -> [Outputs -> P]] /\ flag \in [Callers -> [Outputs -> Flags]]
      /\ text \in [Callers -> [Outputs -> T]]
  BY <1>2 DEF WritesOK
<1>5. \E w \in P : wpc' = [wpc EXCEPT ![c][o] = w]
  BY DEF Writes, Write, Forward, Emit, Step
<1>6. flag' = flag \/ \E f \in Flags : flag' = [flag EXCEPT ![c][o] = f]
  <2>1. ASSUME Write(c, o) PROVE \E f \in Flags : flag' = [flag EXCEPT ![c][o] = f]
    <3>1. flag' = [flag EXCEPT ![c][o] = FlagOf(flag[c][o], o)]
      BY <2>1 DEF Write
    <3>2. FlagOf(flag[c][o], o) \in Flags
      BY <1>2, <1>4 DEF Typed, OutputsOK, FlagOf
    <3>. QED BY <3>1, <3>2
  <2>2. ASSUME Forward(c, o) \/ Emit(c, o) PROVE flag' = flag
    BY <2>2 DEF Forward, Emit
  <2>. QED BY <2>1, <2>2 DEF Writes
<1>7. text' = text \/ \E t \in T : text' = [text EXCEPT ![c][o] = t]
  BY DEF Writes, Write, Forward, Emit
<1> HIDE DEF P, T
<1>8. wpc' \in [Callers -> [Outputs -> P]]
  BY <1>4, <1>5, OneWrite
<1>9. flag' \in [Callers -> [Outputs -> Flags]]
  BY <1>4, <1>6, OneWrite
<1>10. text' \in [Callers -> [Outputs -> T]]
  BY <1>4, <1>7, OneWrite
<1>11. WritesOK'
  BY <1>8, <1>9, <1>10 DEF WritesOK, P, T
<1>. QED BY <1>1, <1>3, <1>11, OutputHolds

LEMMA ReconfiguresHold ==
  ASSUME HoldsInv, NEW o \in Outputs, Reconfigures(o) PROVE SlicesOK' /\ Typed' /\ Held'
<1>1. /\ UNCHANGED <<handlerVars, callVars, exited>> /\ UNCHANGED fixedVars
      /\ UNCHANGED writeVars
      /\ changes < setup.changes /\ changes' = changes + 1
  BY DEF Reconfigures, SetMaxLevel, SetStatus, SetSlogLevel, Changing
<1>2. /\ Typed /\ setup \in Setups /\ setup.changes \in Nat
      /\ setup.maxLevels \subseteq Levels /\ setup.slogLevels \subseteq SlogLevels
  BY SetupShape DEF HoldsInv, Typed, OutputsOK
<1>3. WritesOK'
  BY <1>1, <1>2 DEF Typed, WritesOK, writeVars
<1>4. changes' \in 0..setup.changes
  BY <1>1, <1>2 DEF Typed, OutputsOK
<1>5. /\ maxLevel' \in [Outputs -> Levels] /\ slogLevel' \in [Outputs -> SlogLevels]
      /\ enabled' \in [Outputs -> BOOLEAN]
  BY <1>2 DEF Typed, OutputsOK, Reconfigures, SetMaxLevel, SetStatus, SetSlogLevel
<1>6. OutputsOK'
  BY <1>1, <1>2, <1>4, <1>5 DEF Typed, OutputsOK, fixedVars
<1>. QED BY <1>1, <1>3, <1>6, OutputHolds

LEMMA HoldsInit == Init => HoldsInv
<1> SUFFICES ASSUME Init PROVE HoldsInv
  OBVIOUS
<1>1. ApartInv /\ SlicesOK
  BY ApartInit, SlicesInit
<1>2. /\ setup \in Setups /\ handlers = <<NoSlices>> /\ made = <<<<>>>>
      /\ meant = <<Means(<<>>, <<>>)>>
      /\ pc = [c \in Callers |-> "idle"] /\ of = [c \in Callers |-> 0]
  BY DEF Init
<1>3. Len(handlers) = 1 /\ Len(made) = 1 /\ Len(meant) = 1
  BY <1>2
<1>4. PlacesOK
  BY <1>2, <1>3 DEF PlacesOK, Labels, Using
<1>5. DataOK
  <2>1. /\ rec = [c \in Callers |-> NoRecord] /\ flat = [c \in Callers |-> <<>>]
        /\ todo = [c \in Callers |-> <<>>] /\ at = [c \in Callers |-> 1]
        /\ msg = [c \in Callers |-> NoMessage]
    BY DEF Init
  <2>2. <<>> \in Seq(Fields) /\ <<>> \in Seq(Tasks)
    OBVIOUS
  <2>3. rec \in [Callers -> Records] /\ at \in [Callers -> Outputs]
    BY <2>1, NothingShape
  <2>4. DOMAIN msg = Callers /\ \A c \in Callers : IsMessage(msg[c])
    BY <2>1, NothingShape
  <2>5. flat \in [Callers -> Seq(Fields)] /\ todo \in [Callers -> Seq(Tasks)]
    BY <2>1, <2>2
  <2>. QED BY <2>3, <2>4, <2>5 DEF DataOK
<1>6. HistoryOK
  <2>1. <<>> \in Seq(Steps)
    OBVIOUS
  <2>2. made \in Seq(Seq(Steps))
    BY <1>2, <2>1
  <2>. QED BY <1>3, <2>2 DEF HistoryOK
<1>7. WritesOK
  BY DEF Init, WritesOK, Flags
<1>8. OutputsOK
  <2>1. /\ setup.floors \subseteq SlogLevels /\ setup.maxLevels \subseteq Levels
        /\ setup.flags \subseteq Flags /\ setup.slogLevels \subseteq SlogLevels
        /\ setup.changes \in Nat
    BY <1>2, SetupShape
  <2>2. /\ floor \in setup.floors /\ maxLevel \in [Outputs -> setup.maxLevels]
        /\ marks \in [Outputs -> setup.flags] /\ slogLevel \in [Outputs -> setup.slogLevels]
        /\ enabled = [o \in Outputs |-> o \in setup.enabled]
        /\ exited = FALSE /\ changes = 0
    BY DEF Init
  <2>3. changes \in 0..setup.changes
    <3>1. changes = 0 /\ setup.changes \in Nat
      BY <2>1, <2>2
    <3>. QED BY <3>1
  <2>4. exited \in BOOLEAN
    BY <2>2
  <2>6. enabled \in [Outputs -> BOOLEAN]
    BY <2>2
  <2>5. /\ maxLevel \in [Outputs -> Levels] /\ marks \in [Outputs -> Flags]
        /\ slogLevel \in [Outputs -> SlogLevels] /\ floor \in SlogLevels
    BY <2>1, <2>2
  <2>. QED BY <1>2, <2>3, <2>4, <2>5, <2>6 DEF OutputsOK
<1>9. Held
  <2>1. meant[1] = Means(<<>>, <<>>) /\ made[1] = <<>>
    BY <1>2
  <2>2. \A h \in 1..Len(handlers) : meant[h] = Meaning(made[h])
    BY <1>3, <2>1, MeaningNone
  <2>3. \A c \in Callers : Holds(c)
    BY <1>2 DEF Holds
  <2>. QED BY <2>2, <2>3 DEF Held
<1>. QED BY <1>1, <1>4, <1>5, <1>6, <1>7, <1>8, <1>9 DEF HoldsInv, Typed

LEMMA HoldsStep == ASSUME HoldsInv, [Next]_vars PROVE HoldsInv'
<1>1. ApartInv'
  BY ApartStep DEF HoldsInv
<1>2. CASE UNCHANGED vars
  <2>1. UNCHANGED <<handlerVars, callVars>> /\ UNCHANGED <<outputVars, fixedVars, writeVars, exited>>
    BY <1>2 DEF vars
  <2>2. WritesOK' /\ OutputsOK'
    BY <2>1 DEF HoldsInv, Typed, WritesOK, OutputsOK, outputVars, fixedVars, writeVars
  <2>. QED BY <1>1, <2>1, <2>2, OutputHolds DEF HoldsInv
<1>3. ASSUME NEW c \in Callers, Derives(c) PROVE SlicesOK' /\ Typed' /\ Held'
  BY <1>3, WithAttrsHolds, WithGroupHolds, AppendAttrHolds, ReturnedHolds DEF Derives
<1>4. CASE Next
  <2>1. SlicesOK' /\ Typed' /\ Held'
    BY <1>3, <1>4, LogsHold, WritesHold, ReconfiguresHold DEF Next
  <2>. QED BY <1>1, <2>1 DEF HoldsInv
<1>. QED BY <1>2, <1>4

LEMMA HoldsTypes == HoldsInv => TypeOK
<1> SUFFICES ASSUME HoldsInv PROVE TypeOK
  OBVIOUS
<1>1. /\ arrays \in Seq(Seq(Fields)) /\ names \in Seq(Seq(Texts))
      /\ \A c \in Callers : Seen(mine[c])
  BY DEF HoldsInv, SlicesOK
<1>2. \A h \in DOMAIN handlers : Seen(handlers[h])
  BY HandlerShape DEF HoldsInv
<1>3. PlacesOK /\ DataOK /\ HistoryOK /\ WritesOK /\ OutputsOK
  BY DEF HoldsInv, Typed
<1>. QED BY <1>1, <1>2, <1>3 DEF TypeOK, Seen, PlacesOK, Labels, DataOK, HistoryOK, WritesOK,
             OutputsOK

LEMMA HoldsMeaning == HoldsInv => HandlersHold
<1> SUFFICES ASSUME HoldsInv PROVE HandlersHold
  OBVIOUS
<1>1. \A h \in DOMAIN handlers :
         /\ h \in 1..Len(handlers)
         /\ AttrsOf(h) = meant[h].attrs /\ GroupsOf(h) = meant[h].groups
  BY HandlerMeans
<1>2. \A h \in 1..Len(handlers) : meant[h] = Meaning(made[h])
  BY DEF HoldsInv, Held
<1>3. ASSUME NEW c \in Callers, pc[c] = "printing", of[c] # 0
      PROVE  msg[c].fields = Due(of[c], rec[c])
  <2>0. Holds(c) /\ of[c] \in 0..Len(handlers)
    BY DEF HoldsInv, Held, Typed, PlacesOK
  <2>1. msg[c].fields = AsMap(Said(c)) /\ of[c] \in 1..Len(handlers)
    BY <1>3, <2>0 DEF Holds
  <2>2. meant[of[c]] = Meaning(made[of[c]])
    BY <1>2, <2>1
  <2>. QED BY <2>1, <2>2 DEF Due, Said
<1>. QED BY <1>1, <1>2, <1>3 DEF HandlersHold, Apart

\* Every variable has its type: in particular the slices of handlers, and of
\* those being made, are windows on what is in the memory, whichever of them
\* share an array (syplslog/handler.go:137-222).
THEOREM TypeCorrect == Spec => []TypeOK
  BY HoldsInit, HoldsStep, HoldsTypes, PTL DEF Spec

\* A handler is what the list of its derivations means, attributes being put
\* into the groups that were open before them, and the message of a record has
\* the fields of its handler and its own, flattened as the recursion over
\* groups says, whatever else is derived and logged meanwhile: for any
\* goroutines, any attributes that are finite, and any number of handlers
\* (syplslog/handler.go:96-222).
THEOREM HandlersHoldAlways == Spec => []HandlersHold
  BY HoldsInit, HoldsStep, HoldsMeaning, PTL DEF Spec
=============================================================================
