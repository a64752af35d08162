----------------------------- MODULE MCRowStore -----------------------------
(***************************************************************************)
(* TLC instance of RowStore: two threads, two sets of two ways, one lock   *)
(* shared by both sets, more owned rows per set than it has ways.          *)
(***************************************************************************)
EXTENDS RowStore, TLC

CONSTANTS t1, t2

MCThreads == {t1, t2}

Symmetry == Permutations(MCThreads)
=============================================================================
