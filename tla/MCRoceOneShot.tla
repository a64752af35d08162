--------------------------- MODULE MCRoceOneShot ---------------------------
(***************************************************************************)
(* TLC instances of RoceOneShot.  The sequence wraps after three           *)
(* operations: each slot is used twice before the wrap guard stops them.   *)
(***************************************************************************)
EXTENDS RoceOneShot

\* One block for every operation.
OneBlock == [s \in Seqs |-> 1]

\* Operations of one and of two blocks.
MixedGrid == [s \in Seqs |-> IF s = 2 THEN 2 ELSE 1]

NoStops == [r \in Ranks |-> 0]

\* Rank 0's proxy is stopped once.
FirstStops == [NoStops EXCEPT ![0] = 1]
=============================================================================
