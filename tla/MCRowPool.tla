----------------------------- MODULE MCRowPool -----------------------------
(***************************************************************************)
(* TLC instance of RowPool.  Counts straddles SerialBelow, so both paths   *)
(* of row_store_lookup run; the larger count is one less than the threads  *)
(* that may ask for a ticket at once.                                      *)
(***************************************************************************)
EXTENDS RowPool

CONSTANTS c1, c2, w1, w2

MCCallers == {c1, c2}
MCWorkers == {w1, w2}
MCCounts  == {1, 2}
=============================================================================
