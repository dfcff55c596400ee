-------------------------- MODULE MCRotatingFile --------------------------
(***************************************************************************)
(* A small instance of RotatingFile for TLC: files of two bytes, messages  *)
(* of one byte and of three (longer than a whole file).                    *)
(***************************************************************************)
EXTENDS RotatingFile

ShortAndLong == {1, 3}
=============================================================================
