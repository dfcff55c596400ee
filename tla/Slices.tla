------------------------------- MODULE Slices -------------------------------
(***************************************************************************)
(* Slices of Go over a memory of arrays.  The memory is the sequence of    *)
(* the arrays allocated so far; an array is the sequence of its written    *)
(* slots; a slice is a window on the first slots of an array, and several  *)
(* slices may look at the same one.                                        *)
(***************************************************************************)
EXTENDS Naturals, Sequences

NilSlice == [at |-> 0, len |-> 0, cap |-> 0]

Windows == [at : Nat, len : Nat, cap : Nat]

IsSlice(m, s) ==
    /\ s \in Windows /\ s.at <= Len(m)
    /\ s.len <= s.cap
    /\ s.cap > 0 => s.at > 0 /\ s.len <= Len(m[s.at])

Elements(m, s) == IF s.len = 0 THEN <<>> ELSE SubSeq(m[s.at], 1, s.len)

Put(a, i, v) == IF i > Len(a) THEN Append(a, v) ELSE [a EXCEPT ![i] = v]

Room(s) == s.len < s.cap

\* append(s, v): into the spare slot of the array when there is one, else
\* into a new array of twice the capacity.
Appended(m, s, v) ==
    IF Room(s) THEN [m EXCEPT ![s.at] = Put(@, s.len + 1, v)]
               ELSE Append(m, Append(Elements(m, s), v))

Extended(m, s) ==
    IF Room(s) THEN [s EXCEPT !.len = @ + 1]
               ELSE [at |-> Len(m) + 1, len |-> s.len + 1,
                     cap |-> IF s.cap = 0 THEN 1 ELSE 2 * s.cap]

\* A copy of e in an array of its own, with n spare slots: slices.Clone, or
\* make and copy.
Stored(m, e) == Append(m, e)

Fresh(m, e, n) == [at |-> Len(m) + 1, len |-> Len(e), cap |-> Len(e) + n]
=============================================================================
