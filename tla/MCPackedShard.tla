--------------------------- MODULE MCPackedShard ---------------------------
(***************************************************************************)
(* TLC instance of PackedShard: three checkpoints, two of the same size,   *)
(* packed in two writes, the other in one.                                 *)
(***************************************************************************)
EXTENDS PackedShard

MCVersions == 1 .. 3
MCRows     == [v \in MCVersions |-> IF v = 3 THEN 2 ELSE 3]
=============================================================================
