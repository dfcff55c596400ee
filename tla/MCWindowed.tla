----------------------------- MODULE MCWindowed -----------------------------
(***************************************************************************)
(* A small instance of Windowed for TLC: as many runs as it takes to pass, *)
(* be muted, be evicted and report, with two keys and room for one.        *)
(***************************************************************************)
EXTENDS Windowed, TLC

CONSTANTS r1, r2, r3, r4, k1, k2

FourRuns == {r1, r2, r3, r4}

TwoKeys == {k1, k2}

\* The runs are interchangeable, and so are the keys.
Interchangeable == Permutations(FourRuns) \cup Permutations(TwoKeys)
=============================================================================
