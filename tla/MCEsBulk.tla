------------------------------ MODULE MCEsBulk ------------------------------
(***************************************************************************)
(* A small instance of EsBulk for TLC: two goroutines, and indexers with   *)
(* room for one item besides the one being sent.                           *)
(***************************************************************************)
EXTENDS EsBulk

CONSTANTS t1, t2

TwoThreads == {t1, t2}
=============================================================================
