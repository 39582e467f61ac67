-------------------------------- MODULE Sums --------------------------------
(***************************************************************************)
(* The sum of what a function gives on a finite set: a column added up     *)
(* over some of its rows.                                                  *)
(***************************************************************************)
EXTENDS Integers, FiniteSetsExt

SumOver(f, S) == MapThenSumSet(LAMBDA x : f[x], S)
=============================================================================
