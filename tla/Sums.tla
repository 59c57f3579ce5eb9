-------------------------------- MODULE Sums --------------------------------
(***************************************************************************)
(* Sums over the rows of a table.                                          *)
(***************************************************************************)
EXTENDS Integers, FiniteSetsExt

(* What the column of adds up to over the rows.                            *)
Total(rows, of) == MapThenSumSet(LAMBDA a : of[a], rows)
=============================================================================
