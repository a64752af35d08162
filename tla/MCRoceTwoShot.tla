--------------------------- MODULE MCRoceTwoShot ---------------------------
(***************************************************************************)
(* TLC instances of RoceTwoShot.                                           *)
(***************************************************************************)
EXTENDS RoceTwoShot

OneBlock == [s \in Seqs |-> 1]

\* Once a rank, where the plan lets its proxy be stopped at all.
OneStop == [r \in Ranks |-> 1]

Plan(a, b, c, ops) ==
    [packs |-> [s \in Seqs |-> <<a, b, c, 0>>[IF s = 0 THEN 4 ELSE s]],
     pipe_blocks |-> 1, ops |-> ops, faulty |-> FALSE, stopped |-> {}]

\* Four packs and then three: shards of two chunks that move, and a shard that
\* is short of its second chunk.  Two packs and then one: the smallest messages
\* whose shards move, with faults.  A slot used by both kinds, with two blocks.
MixedPlans ==
    {[Plan(2, 1, 0, 2) EXCEPT !.faulty = TRUE],
     [Plan(4, 3, 0, 2) EXCEPT !.pipe_blocks = 2],
     [Plan(2, 0, 0, 3) EXCEPT !.pipe_blocks = 2]}

\* Only one-shot operations, and moving shards; rank 0's proxy is stopped.
StopPlans ==
    {[p EXCEPT !.stopped = {0}] : p \in {Plan(0, 0, 0, 3), Plan(2, 1, 0, 2)}}
=============================================================================
