---------------------------- MODULE PackedShard ----------------------------
(***************************************************************************)
(* One packed Engram shard on a node's disk: scripts/pack_engram.py writes *)
(* it beside the previous one and renames it into place, and the server's  *)
(* row_store_attach_packed checks it and serves from it.  The packer can   *)
(* be killed and the node can lose power between any two steps, a write    *)
(* can come short, and the checkpoint can be replaced by another of any    *)
(* size.                                                                   *)
(*                                                                         *)
(* A file is measured in units, the grain at which a write may be cut (a   *)
(* byte, in the code).  It is its header and its body; a unit of the body  *)
(* is the checkpoint version whose bytes it has, the version whose offsets *)
(* they were read at, and its place among this rank's rows (Lost: what a   *)
(* power loss leaves of data that was not on disk).                        *)
(***************************************************************************)
EXTENDS Integers, Sequences

CONSTANTS
    Versions,   \* versions of the checkpoint
    Rows,       \* Rows[v]: units of rows this rank owns in version v
    ChunkRows,  \* --chunk-rows: units that one write is given
    MaxFaults   \* bound: kills, power losses, short reads and short writes

ASSUME PackedShardAssumption ==
    /\ Versions \subseteq Nat \ {0} /\ Versions # {}
    /\ Rows \in [Versions -> Nat \ {0}]
    /\ ChunkRows \in Nat \ {0} /\ MaxFaults \in Nat

VARIABLES
    ckpt,     \* the checkpoint version under DSV41_SOURCE
    pc,       \* the packer: "idle", "open", "write", "sync", "rename"
    ver,      \* the version whose header gave the packer its offsets, or 0
    src,      \* the version the packer has open, or 0
    start,    \* units of rows the packer's loop has gone through
    partial,  \* the .partial file
    target,   \* the shard as the running system sees it
    durable,  \* the shard a power loss may bring back
    served,   \* the shard the server has attached, or Absent
    faults

packer == <<pc, ver, src, start>>
vars   == <<ckpt, packer, partial, target, durable, served, faults>>

\* A file: what its header says and has (0: cut short), its body, and whether
\* it is on disk.
Lost   == <<0, 0, 0>>
Absent == [rows |-> 0, header |-> 0, body |-> <<>>, synced |-> 1]
Size(f) == f.header + Len(f.body)

Init ==
    /\ ckpt \in Versions
    /\ pc = "idle" /\ ver = 0 /\ src = 0 /\ start = 0
    /\ partial = Absent /\ target = Absent /\ durable = Absent
    /\ served = Absent /\ faults = 0

-----------------------------------------------------------------------------
(* pack_layer. *)

\* A fault happens, within the bound.
Fault == faults < MaxFaults /\ faults' = faults + 1

\* pack_layer returns, or the packer ends.
Ended == pc' = "idle" /\ ver' = 0 /\ src' = 0 /\ start' = 0

\* The size that is expected of a shard of version v.
Complete(f, v) == Size(f) = 1 + Rows[v]

\* Mutant of StartPack: any shard that is there will do.
StartPackOnce ==
    /\ pc = "idle" /\ target = Absent
    /\ ver' = ckpt
    /\ pc' = "open"
    /\ UNCHANGED <<ckpt, src, start, partial, target, durable, served, faults>>

\* tensor_span opens the checkpoint for its header and closes it; a shard of
\* the expected size is kept.
StartPack ==
    /\ pc = "idle" /\ ~Complete(target, ckpt)
    /\ ver' = ckpt
    /\ pc' = "open"
    /\ UNCHANGED <<ckpt, src, start, partial, target, durable, served, faults>>

\* The checkpoint is opened again, for its rows, and a fresh .partial gets its
\* header, by a raw write whose count is not looked at.
OpenFiles ==
    /\ pc = "open"
    /\ src' = ckpt /\ start' = 0
    /\ \E h \in {0, 1} :
         /\ partial' = [rows |-> Rows[ver], header |-> h, body |-> <<>>, synced |-> 0]
         /\ IF h = 0 THEN Fault ELSE UNCHANGED faults
    /\ pc' = "write"
    /\ UNCHANGED <<ckpt, ver, target, durable, served>>

stop == IF start + ChunkRows < Rows[ver] THEN start + ChunkRows ELSE Rows[ver]

\* Mutant of ReadFrom: the checkpoint is opened for every chunk.
ReadFromPath == ckpt

\* The file that is read: the one that was opened.
ReadFrom == src

\* The next n units of rows, in the place and of the version they are read.
Block(n) == [i \in 1 .. n |-> <<ReadFrom, ver, start + i>>]

\* One turn of the loop: a raw write of a chunk, which may be cut short, and
\* its count is not looked at.
WriteChunk ==
    /\ pc = "write"
    /\ \E n \in 0 .. stop - start :
         /\ partial' = [partial EXCEPT !.body = @ \o Block(n)]
         /\ IF n < stop - start THEN Fault ELSE UNCHANGED faults
    /\ start' = stop
    /\ pc' = IF stop = Rows[ver] THEN "sync" ELSE "write"
    /\ UNCHANGED <<ckpt, ver, src, target, durable, served>>

\* Mutant of Sync: no fsync before the rename.
NoSync ==
    /\ pc = "sync"
    /\ pc' = "rename"
    /\ UNCHANGED <<ckpt, ver, src, start, partial, target, durable, served, faults>>

Sync ==
    /\ pc = "sync"
    /\ partial' = [partial EXCEPT !.synced = 1]
    /\ pc' = "rename"
    /\ UNCHANGED <<ckpt, ver, src, start, target, durable, served, faults>>

\* The .partial gets the shard's name, whatever its size.
Rename ==
    /\ pc = "rename"
    /\ target' = partial /\ partial' = Absent
    /\ Ended
    /\ UNCHANGED <<ckpt, durable, served, faults>>

\* A short read from the checkpoint ends the packer; .partial stays.  A file
\* that is not the one whose header was read may well end too early.
ShortRead ==
    /\ pc = "write"
    /\ IF src # ver THEN UNCHANGED faults ELSE Fault
    /\ Ended
    /\ UNCHANGED <<ckpt, partial, target, durable, served>>

-----------------------------------------------------------------------------
(* The environment. *)

\* The operator puts another checkpoint in place (files that are open stay what
\* they are); the server is down.
Replace ==
    /\ served = Absent
    /\ \E v \in Versions \ {ckpt} : ckpt' = v
    /\ UNCHANGED <<packer, partial, target, durable, served, faults>>

\* The file system commits the rename.
Commit ==
    /\ durable # target
    /\ durable' = target
    /\ UNCHANGED <<ckpt, packer, partial, target, served, faults>>

\* The packer's container is killed, or it cannot open, write or sync a file.
Kill ==
    /\ pc # "idle" /\ Fault
    /\ Ended
    /\ UNCHANGED <<ckpt, partial, target, durable, served>>

\* What may be left of a file: all of it once synced, else any of its units.
Remains(f) ==
    {[f EXCEPT !.synced = 1,
               !.body = [i \in DOMAIN f.body |-> IF i \in gone THEN Lost ELSE f.body[i]]] :
       gone \in IF f.synced = 1 THEN {{}} ELSE SUBSET DOMAIN f.body}

\* The node loses power; the shard is the renamed file or the one before it.
PowerLoss ==
    /\ Fault
    /\ \E f \in {target, durable} : \E g \in Remains(f) :
         target' = g /\ durable' = g
    /\ Ended /\ partial' = Absent /\ served' = Absent
    /\ UNCHANGED ckpt

-----------------------------------------------------------------------------
(* The server. *)

\* Mutant of Fits: the length is not looked at.
FitsByHeader(f, v) == f.rows = Rows[v]

\* Header and length fit the checkpoint's geometry.
Fits(f, v) == f.rows = Rows[v] /\ Size(f) >= 1 + Rows[v]

\* row_store_attach_packed, which aborts if what is there does not fit.
Attach ==
    /\ served = Absent /\ target # Absent
    /\ Fits(target, ckpt)
    /\ served' = target
    /\ UNCHANGED <<ckpt, packer, partial, target, durable, faults>>

Shutdown ==
    /\ served # Absent
    /\ served' = Absent
    /\ UNCHANGED <<ckpt, packer, partial, target, durable, faults>>

Next ==
    \/ StartPack \/ OpenFiles \/ WriteChunk \/ Sync \/ Rename \/ ShortRead
    \/ Replace \/ Commit \/ Kill \/ PowerLoss
    \/ Attach \/ Shutdown

Spec == Init /\ [][Next]_vars

\* The packer runs when it is started again after every fault.
FairSpec ==
    Spec /\ WF_vars(StartPack) /\ WF_vars(OpenFiles) /\ WF_vars(WriteChunk)
         /\ WF_vars(Sync) /\ WF_vars(Rename)

-----------------------------------------------------------------------------
(* Properties. *)

\* All that a file has was read by one run of the packer: from one file, at the
\* offsets of one header.
OfOnePack(f) ==
    \E v, w \in Versions : \A i \in 1 .. Len(f.body) :
        f.body[i][1] = v /\ f.body[i][2] = w

\* A file is whole when it has its header and every unit the header promises,
\* in its place, of one pack.
Whole(f) ==
    f = Absent \/
      /\ f.header = 1 /\ Len(f.body) = f.rows
      /\ OfOnePack(f)
      /\ \A i \in 1 .. Len(f.body) : f.body[i][3] = i

\* "Present but wrong must never be served": whatever the packer and the node
\* were interrupted in, and whichever writes came short, a shard the server
\* attached is whole.
ServedWhole == Whole(served)

\* Nothing but a write that came short tears the file under the shard's name,
\* now or after a power loss: it is on disk, has nothing but what one pack
\* read, and if any of that is missing it is shorter than its header says,
\* which the packer's and the server's check of the size can see.
TornIsShort ==
    \A f \in {target, durable} :
        /\ f.synced = 1 /\ OfOnePack(f)
        /\ Whole(f) \/ Size(f) <= f.rows

\* The packer, rerun after every interruption, ends with a shard of the
\* checkpoint's size, once the checkpoint is no longer replaced.
PackCompletes == <>[][ckpt' = ckpt]_vars => []<>Complete(target, ckpt)

\* "Present but wrong is a repack bug and must never be served": the rows
\* served are the checkpoint's own.
ServedCurrent ==
    \A i \in 1 .. Len(served.body) : served.body[i] = <<ckpt, ckpt, i>>

=============================================================================
