--------------------------- MODULE MCAsyncOutput ---------------------------
(***************************************************************************)
(* Small instances of AsyncOutput for TLC: a few goroutines of each kind.  *)
(***************************************************************************)
EXTENDS AsyncOutput, TLC

CONSTANTS w1, w2, f1, c1, c2

TwoWriters == {w1, w2}

OneFlusher == {f1}

TwoClosers == {c1, c2}

OneCloser == {c1}

\* Goroutines of one kind are interchangeable in the safety runs.
Interchangeable == Permutations(TwoWriters) \cup Permutations(TwoClosers)
=============================================================================
