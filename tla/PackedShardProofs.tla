------------------------- MODULE PackedShardProofs -------------------------
(***************************************************************************)
(* TLAPS proofs about PackedShard, for any checkpoints, sizes, chunk size  *)
(* and number of kills, power losses, short reads and short writes: the    *)
(* inductive invariant ShardInv, that the file under the shard's name is   *)
(* torn only by a short write, and that no torn shard is ever served.      *)
(***************************************************************************)
EXTENDS PackedShard, SequenceTheorems, TLAPS

\* The inductive invariant: a named file is on disk, and whole or visibly
\* short; what the packer has written is what it read, and of the size the
\* loop has reached only if no write came short.
Unit     == Versions \X Versions \X (Nat \ {0})
FileType == [rows : Nat, header : {0, 1}, body : Seq(Unit), synced : {0, 1}]

InPlace(f) == \A i \in 1 .. Len(f.body) : f.body[i][3] = i

\* Whole for files that may be without rows.
Exact(f) == Size(f) = 1 + f.rows => f.header = 1 /\ InPlace(f)
Sound(f) == OfOnePack(f) /\ Exact(f) /\ Size(f) <= 1 + f.rows

ShardTypes ==
    /\ ckpt \in Versions /\ faults \in Nat
    /\ pc \in {"idle", "open", "write", "sync", "rename"}
    /\ pc # "idle" => ver \in Versions
    /\ pc \in {"write", "sync", "rename"} => src \in Versions /\ start \in Nat
    /\ partial \in FileType /\ target \in FileType
    /\ durable \in FileType /\ served \in FileType

NamedFiles ==
    /\ Sound(target) /\ Sound(durable)
    /\ target.synced = 1 /\ durable.synced = 1
    /\ Whole(served)

PartialFile ==
    /\ pc \in {"write", "sync", "rename"} =>
         /\ partial.rows = Rows[ver] /\ start <= Rows[ver]
         /\ \A i \in 1 .. Len(partial.body) :
              partial.body[i][1] = src /\ partial.body[i][2] = ver
         /\ Size(partial) <= 1 + start
         /\ Size(partial) = 1 + start => partial.header = 1 /\ InPlace(partial)
    /\ pc \in {"sync", "rename"} => start = Rows[ver]
    /\ pc = "rename" => partial.synced = 1

ShardInv == ShardTypes /\ NamedFiles /\ PartialFile

-----------------------------------------------------------------------------

LEMMA RowsAreNat == ASSUME NEW v \in Versions PROVE Rows[v] \in Nat /\ Rows[v] > 0
BY PackedShardAssumption

LEMMA FileSize ==
    ASSUME NEW f \in FileType
    PROVE  /\ Len(f.body) \in Nat /\ Size(f) \in Nat /\ Size(f) = f.header + Len(f.body)
           /\ f.body \in Seq(Unit) /\ f.header \in {0, 1} /\ f.rows \in Nat
BY LenProperties DEF FileType, Size

\* The empty file, and what is there before the first shard.
LEMMA AbsentFile == Absent \in FileType /\ Sound(Absent) /\ Whole(Absent)
<1>1. <<>> \in Seq(Unit) /\ Len(<<>>) = 0
  BY EmptySeq
<1>2. Absent \in FileType
  BY <1>1 DEF Absent, FileType
<1>3. PICK v : v \in Versions
  BY PackedShardAssumption
<1>4. OfOnePack(Absent)
  BY <1>1, <1>3 DEF Absent, OfOnePack
<1>5. Size(Absent) = 0 /\ Absent.rows = 0
  BY <1>1 DEF Size, Absent
<1> QED
  BY <1>2, <1>4, <1>5 DEF Sound, Exact, Whole

\* A sound file is whole, or shorter than its header says.
LEMMA SoundIsWholeOrShort ==
    ASSUME NEW f \in FileType, Sound(f)
    PROVE  Whole(f) \/ Size(f) <= f.rows
<1>1. /\ Len(f.body) \in Nat /\ Size(f) \in Nat /\ f.rows \in Nat
      /\ Size(f) = f.header + Len(f.body)
  BY FileSize
<1>2. CASE Size(f) = 1 + f.rows
  <2>1. f.header = 1 /\ InPlace(f) /\ OfOnePack(f)
    BY <1>2 DEF Sound, Exact
  <2>2. Len(f.body) = f.rows
    BY <1>1, <1>2, <2>1
  <2> QED
    BY <2>1, <2>2 DEF Whole, InPlace
<1>3. CASE Size(f) # 1 + f.rows
  BY <1>1, <1>3 DEF Sound
<1> QED
  BY <1>2, <1>3

\* A power loss leaves of a synced file exactly what was in it.
LEMMA RemainsOfSynced ==
    ASSUME NEW f \in FileType, f.synced = 1, NEW g \in Remains(f)
    PROVE  g = f
<1>1. g = [f EXCEPT !.synced = 1,
                    !.body = [i \in DOMAIN f.body |-> IF i \in {} THEN Lost ELSE f.body[i]]]
  BY DEF Remains
<1>2. [i \in DOMAIN f.body |-> IF i \in {} THEN Lost ELSE f.body[i]] = f.body
  <2>1. f.body \in [1 .. Len(f.body) -> Unit]
    BY LenProperties DEF FileType
  <2> QED
    BY <2>1
<1> QED
  BY <1>1, <1>2 DEF FileType

\* A step that leaves the named files alone, or .partial and the packer.
LEMMA NamedFrame ==
    ASSUME NamedFiles, UNCHANGED <<target, durable, served>>
    PROVE  NamedFiles'
BY DEF NamedFiles, Sound, Exact, OfOnePack, InPlace, Size, Whole

LEMMA PartialFrame ==
    ASSUME PartialFile, pc' = "idle" \/ UNCHANGED <<packer, partial>>
    PROVE  PartialFile'
BY DEF PartialFile, packer, InPlace, Size

LEMMA ShardInit == Init => ShardInv
BY AbsentFile DEF Init, ShardInv, ShardTypes, NamedFiles, PartialFile, Absent

\* The packer's steps.

LEMMA StartPackInv == ShardInv /\ StartPack => ShardInv'
<1> SUFFICES ASSUME ShardInv, StartPack PROVE ShardInv'
  OBVIOUS
<1>1. NamedFiles'
  BY NamedFrame DEF StartPack, ShardInv
<1>2. PartialFile'
  BY DEF StartPack, PartialFile
<1> QED
  BY <1>1, <1>2 DEF StartPack, ShardInv, ShardTypes

LEMMA OpenFilesInv == ShardInv /\ OpenFiles => ShardInv'
<1> SUFFICES ASSUME ShardInv, OpenFiles PROVE ShardInv'
  OBVIOUS
<1>1. PICK h \in {0, 1} :
         /\ partial' = [rows |-> Rows[ver], header |-> h, body |-> <<>>, synced |-> 0]
         /\ IF h = 0 THEN Fault ELSE UNCHANGED faults
  BY DEF OpenFiles
<1>2. <<>> \in Seq(Unit) /\ Len(<<>>) = 0
  BY EmptySeq
<1>3. /\ ver \in Versions /\ Rows[ver] \in Nat /\ pc' = "write" /\ ver' = ver
      /\ src' = ckpt /\ start' = 0 /\ ckpt' = ckpt
      /\ UNCHANGED <<target, durable, served>>
  BY RowsAreNat DEF OpenFiles, ShardInv, ShardTypes
<1>4. partial' \in FileType
  BY <1>1, <1>2, <1>3 DEF FileType
<1>5. PartialFile'
  <2>1. partial'.rows = Rows[ver'] /\ partial'.body = <<>> /\ partial'.header = h
    BY <1>1, <1>3
  <2>2. Size(partial') = h
    BY <1>2, <2>1 DEF Size
  <2>3. Size(partial)' = h
    BY <2>2 DEF Size
  <2> QED
    BY <1>2, <1>3, <2>1, <2>3 DEF PartialFile, InPlace
<1>6. NamedFiles'
  BY <1>3, NamedFrame DEF ShardInv
<1>7. faults' \in Nat
  BY <1>1 DEF Fault, ShardInv, ShardTypes
<1> QED
  BY <1>3, <1>4, <1>5, <1>6, <1>7 DEF ShardInv, ShardTypes

\* A turn of the loop: the file has what was read so far, and its size says so
\* unless a write came short.
LEMMA WriteChunkInv == ShardInv /\ WriteChunk => ShardInv'
<1> SUFFICES ASSUME ShardInv, WriteChunk PROVE ShardInv'
  OBVIOUS
<1>1. PICK n \in 0 .. stop - start :
         /\ partial' = [partial EXCEPT !.body = @ \o Block(n)]
         /\ IF n < stop - start THEN Fault ELSE UNCHANGED faults
  BY DEF WriteChunk
<1>0. PICK m : m = Len(partial.body)
  OBVIOUS
<1>2. /\ ver \in Versions /\ src \in Versions /\ start \in Nat /\ start <= Rows[ver]
      /\ Rows[ver] \in Nat /\ partial \in FileType /\ pc = "write"
  BY RowsAreNat DEF WriteChunk, ShardInv, ShardTypes, PartialFile
<1>3. stop \in Nat /\ start <= stop /\ stop <= Rows[ver]
  BY <1>2, PackedShardAssumption DEF stop
<1>4. n \in Nat /\ n <= stop - start
  BY <1>2, <1>3
<1>5. /\ Block(n) \in Seq(Unit) /\ Len(Block(n)) = n
      /\ \A i \in 1 .. n : Block(n)[i] = <<src, ver, start + i>>
  <2>1. Block(n) \in [1 .. n -> Unit]
    BY <1>2, <1>4 DEF Block, ReadFrom, Unit
  <2>2. Block(n) \in Seq(Unit)
    BY <1>4, <2>1
  <2>3. Len(Block(n)) = n
    BY <1>4, <2>1, <2>2, LenProperties
  <2> QED
    BY <1>4, <2>2, <2>3 DEF Block, ReadFrom
<1>6. /\ m \in Nat /\ Size(partial) = partial.header + m /\ partial.header \in {0, 1}
      /\ partial.body \in Seq(Unit)
  BY <1>0, <1>2, FileSize
<1>7. /\ partial' \in FileType /\ partial'.body = partial.body \o Block(n)
      /\ partial'.rows = partial.rows /\ partial'.header = partial.header
  <2>1. partial.body \o Block(n) \in Seq(Unit)
    BY <1>5, <1>6, ConcatProperties
  <2> QED
    BY <1>1, <1>2, <2>1 DEF FileType
<1>8. /\ Len(partial'.body) = m + n
      /\ \A i \in 1 .. m : partial'.body[i] = partial.body[i]
      /\ \A i \in m + 1 .. m + n : partial'.body[i] = <<src, ver, start + (i - m)>>
  <2>1. PICK B : B = Block(n)
    OBVIOUS
  <2>2. B \in Seq(Unit) /\ Len(B) = n /\ partial.body \in Seq(Unit) /\ Len(partial.body) = m
    BY <1>0, <1>5, <1>6, <2>1
  <2>3. /\ Len(partial.body \o B) = m + n
        /\ \A i \in 1 .. m + n : (partial.body \o B)[i] =
              IF i <= m THEN partial.body[i] ELSE B[i - m]
    BY <2>2, ConcatProperties
  <2>4. \A i \in 1 .. m : (partial.body \o B)[i] = partial.body[i]
    BY <1>4, <1>6, <2>3
  <2>5. ASSUME NEW i \in m + 1 .. m + n
        PROVE  (partial.body \o B)[i] = <<src, ver, start + (i - m)>>
    <3>1. i - m \in 1 .. n /\ i \in 1 .. m + n /\ ~(i <= m)
      BY <1>4, <1>6
    <3> QED
      BY <1>5, <2>1, <2>3, <3>1
  <2> QED
    BY <1>7, <2>1, <2>3, <2>4, <2>5
<1>9. /\ src' = src /\ ver' = ver /\ start' = stop /\ ckpt' = ckpt
      /\ pc' = IF stop = Rows[ver] THEN "sync" ELSE "write"
      /\ UNCHANGED <<target, durable, served>>
  BY DEF WriteChunk
<1>10. Size(partial)' = Size(partial) + n
  <2>1. Size(partial)' = partial'.header + Len(partial'.body)
    BY DEF Size
  <2> QED
    BY <1>4, <1>6, <1>7, <1>8, <2>1
<1>11. \A i \in 1 .. Len(partial'.body) :
          partial'.body[i][1] = src /\ partial'.body[i][2] = ver
  <2> SUFFICES ASSUME NEW i \in 1 .. Len(partial'.body)
               PROVE  partial'.body[i][1] = src /\ partial'.body[i][2] = ver
    OBVIOUS
  <2>1. i \in 1 .. m \/ i \in m + 1 .. m + n
    BY <1>4, <1>6, <1>8
  <2>2. \A j \in 1 .. m : partial.body[j][1] = src /\ partial.body[j][2] = ver
    BY <1>0, <1>2 DEF ShardInv, PartialFile
  <2>3. CASE i \in 1 .. m
    BY <1>8, <2>2, <2>3
  <2>4. CASE i \in m + 1 .. m + n
    BY <1>8, <2>4
  <2> QED
    BY <2>1, <2>3, <2>4
<1>12. Size(partial) <= 1 + start
  BY <1>2 DEF ShardInv, PartialFile
<1>13. ASSUME Size(partial)' = 1 + stop
       PROVE  partial'.header = 1 /\ \A i \in 1 .. Len(partial'.body) : partial'.body[i][3] = i
  <2>1. Size(partial) = 1 + start
    BY <1>2, <1>3, <1>4, <1>6, <1>10, <1>12, <1>13
  <2>2. partial.header = 1 /\ InPlace(partial)
    BY <1>2, <2>1 DEF ShardInv, PartialFile
  <2>3. m = start
    BY <1>2, <1>6, <2>1, <2>2
  <2>4. ASSUME NEW i \in 1 .. Len(partial'.body) PROVE partial'.body[i][3] = i
    <3>1. i \in 1 .. m \/ i \in m + 1 .. m + n
      BY <1>4, <1>6, <1>8
    <3>2. CASE i \in 1 .. m
      BY <1>0, <1>8, <2>2, <3>2 DEF InPlace
    <3>3. CASE i \in m + 1 .. m + n
      <4>1. partial'.body[i] = <<src, ver, start + (i - m)>>
        BY <1>8, <3>3
      <4>2. start + (i - m) = i
        BY <1>2, <1>4, <1>6, <2>3, <3>3
      <4> QED
        BY <4>1, <4>2
    <3> QED
      BY <3>1, <3>2, <3>3
  <2> QED
    BY <1>7, <2>2, <2>4
<1>14. PartialFile'
  <2>1. partial'.rows = Rows[ver]
    BY <1>2, <1>7 DEF ShardInv, PartialFile
  <2>2. Size(partial)' <= 1 + stop
    BY <1>2, <1>3, <1>4, <1>6, <1>10, <1>12
  <2> QED
    BY <1>3, <1>9, <1>11, <1>13, <2>1, <2>2 DEF PartialFile, InPlace
<1>15. NamedFiles'
  BY <1>9, NamedFrame DEF ShardInv
<1>16. faults' \in Nat
  BY <1>1 DEF Fault, ShardInv, ShardTypes
<1> QED
  BY <1>2, <1>3, <1>7, <1>9, <1>14, <1>15, <1>16 DEF ShardInv, ShardTypes

LEMMA SyncInv == ShardInv /\ Sync => ShardInv'
<1> SUFFICES ASSUME ShardInv, Sync PROVE ShardInv'
  OBVIOUS
<1>1. /\ partial' \in FileType /\ partial'.synced = 1 /\ partial'.header = partial.header
      /\ partial'.rows = partial.rows /\ partial'.body = partial.body
  BY DEF Sync, ShardInv, ShardTypes, FileType
<1>2. PartialFile'
  BY <1>1 DEF Sync, ShardInv, PartialFile, InPlace, Size
<1>3. NamedFiles'
  BY NamedFrame DEF Sync, ShardInv
<1> QED
  BY <1>1, <1>2, <1>3 DEF Sync, ShardInv, ShardTypes

\* What is renamed is of one pack, on disk, and whole or visibly short.
LEMMA RenameInv == ShardInv /\ Rename => ShardInv'
<1> SUFFICES ASSUME ShardInv, Rename PROVE ShardInv'
  OBVIOUS
<1>1. /\ pc = "rename" /\ ver \in Versions /\ src \in Versions
      /\ start = Rows[ver] /\ partial.rows = Rows[ver] /\ partial.synced = 1
  BY DEF Rename, ShardInv, ShardTypes, PartialFile
<1>2. OfOnePack(partial)
  BY <1>1 DEF ShardInv, PartialFile, OfOnePack
<1>3. Size(partial) <= 1 + partial.rows /\ Exact(partial)
  BY <1>1 DEF ShardInv, PartialFile, Exact
<1>4. Sound(partial)
  BY <1>2, <1>3 DEF Sound
<1>5. /\ target' = partial /\ partial' = Absent /\ pc' = "idle"
      /\ UNCHANGED <<ckpt, durable, served, faults>>
  BY DEF Rename, Ended
<1>6. Sound(target)'
  BY <1>4, <1>5 DEF Sound, Exact, OfOnePack, InPlace, Size
<1>7. NamedFiles'
  BY <1>1, <1>5, <1>6
     DEF ShardInv, NamedFiles, Sound, Exact, OfOnePack, InPlace, Size, Whole
<1>8. PartialFile'
  BY <1>5 DEF PartialFile
<1> QED
  BY <1>5, <1>7, <1>8, AbsentFile DEF ShardInv, ShardTypes

LEMMA StopInv == ShardInv /\ (ShortRead \/ Kill) => ShardInv'
BY NamedFrame, PartialFrame DEF ShortRead, Kill, Ended, Fault, ShardInv, ShardTypes

\* The environment and the server.

LEMMA ReplaceInv == ShardInv /\ Replace => ShardInv'
BY NamedFrame, PartialFrame DEF Replace, packer, ShardInv, ShardTypes

LEMMA CommitInv == ShardInv /\ Commit => ShardInv'
<1> SUFFICES ASSUME ShardInv, Commit PROVE ShardInv'
  OBVIOUS
<1>1. PartialFile'
  BY PartialFrame DEF Commit, ShardInv
<1>2. NamedFiles'
  BY DEF Commit, ShardInv, NamedFiles, Sound, Exact, OfOnePack, InPlace, Size, Whole
<1> QED
  BY <1>1, <1>2 DEF Commit, packer, ShardInv, ShardTypes

LEMMA PowerLossInv == ShardInv /\ PowerLoss => ShardInv'
<1> SUFFICES ASSUME ShardInv, PowerLoss PROVE ShardInv'
  OBVIOUS
<1>1. PICK f \in {target, durable} : \E g \in Remains(f) : target' = g /\ durable' = g
  BY DEF PowerLoss
<1>2. f \in FileType /\ f.synced = 1 /\ Sound(f)
  BY DEF ShardInv, ShardTypes, NamedFiles
<1>3. target' = f /\ durable' = f
  BY <1>1, <1>2, RemainsOfSynced
<1>4. pc' = "idle" /\ partial' = Absent /\ served' = Absent /\ ckpt' = ckpt /\ faults' \in Nat
  BY DEF PowerLoss, Ended, Fault, ShardInv, ShardTypes
<1>5. Sound(target)' /\ Sound(durable)'
  BY <1>2, <1>3 DEF Sound, Exact, OfOnePack, InPlace, Size
<1>6. NamedFiles'
  BY <1>2, <1>3, <1>4, <1>5 DEF NamedFiles, Whole
<1>7. PartialFile'
  BY <1>4 DEF PartialFile
<1> QED
  BY <1>2, <1>3, <1>4, <1>6, <1>7, AbsentFile DEF ShardInv, ShardTypes

\* A file that fits is not short, so it is whole.
LEMMA ServerInv == ShardInv /\ (Attach \/ Shutdown) => ShardInv'
<1> SUFFICES ASSUME ShardInv, Attach \/ Shutdown PROVE ShardInv'
  OBVIOUS
<1>1. PartialFile'
  BY PartialFrame DEF Attach, Shutdown, ShardInv
<1>2. Whole(served)' /\ served' \in FileType
  <2>1. CASE Attach
    <3>1. target \in FileType /\ Sound(target) /\ ckpt \in Versions
      BY DEF ShardInv, ShardTypes, NamedFiles
    <3>2. Size(target) \in Nat /\ target.rows = Rows[ckpt] /\ Size(target) >= 1 + Rows[ckpt]
      BY <2>1, <3>1, FileSize DEF Attach, Fits
    <3>3. Whole(target)
      BY <3>1, <3>2, RowsAreNat, SoundIsWholeOrShort
    <3> QED
      BY <2>1, <3>1, <3>3 DEF Attach, Whole, OfOnePack
  <2>2. CASE Shutdown
    BY <2>2, AbsentFile DEF Shutdown, Whole
  <2> QED
    BY <2>1, <2>2
<1>3. UNCHANGED <<ckpt, packer, partial, target, durable, faults>>
  BY DEF Attach, Shutdown
<1>4. NamedFiles'
  BY <1>2, <1>3 DEF ShardInv, NamedFiles, Sound, Exact, OfOnePack, InPlace, Size
<1> QED
  BY <1>1, <1>2, <1>3, <1>4 DEF packer, ShardInv, ShardTypes

\* ShardInv is inductive: every step of the packer, of the node's faults and
\* of the server keeps it.
THEOREM ShardInvariant == Spec => []ShardInv
<1>1. ShardInv /\ [Next]_vars => ShardInv'
  <2> SUFFICES ASSUME ShardInv, [Next]_vars PROVE ShardInv'
    OBVIOUS
  <2>1. CASE UNCHANGED vars
    BY <2>1, NamedFrame, PartialFrame DEF vars, packer, ShardInv, ShardTypes
  <2>2. CASE Next
    BY <2>2, StartPackInv, OpenFilesInv, WriteChunkInv, SyncInv, RenameInv,
       StopInv, ReplaceInv, CommitInv, PowerLossInv, ServerInv DEF Next
  <2> QED
    BY <2>1, <2>2
<1> QED
  BY <1>1, ShardInit, PTL DEF Spec

\* For any checkpoints, sizes and number of faults: what stands under the
\* shard's name, now or after a power loss, is on disk, of one pack, and whole
\* or shorter than its header says; neither a kill nor a power loss tears it
\* (pack_engram.py syncs before it renames), only the count of a raw write
\* that nobody looks at.
THEOREM TornOnlyByShortWrite == Spec => []TornIsShort
<1>1. ShardInv => TornIsShort
  <2> SUFFICES ASSUME ShardInv, NEW f \in {target, durable}
               PROVE  f.synced = 1 /\ OfOnePack(f) /\ (Whole(f) \/ Size(f) <= f.rows)
    BY DEF TornIsShort
  <2>1. f \in FileType /\ Sound(f) /\ f.synced = 1
    BY DEF ShardInv, ShardTypes, NamedFiles
  <2> QED
    BY <2>1, SoundIsWholeOrShort DEF Sound
<1> QED
  BY <1>1, ShardInvariant, PTL

\* And every shard that row_store_attach_packed attached is whole: its check of
\* the length refuses what a short write left.
THEOREM ServesWholeShards == Spec => []ServedWhole
<1>1. ShardInv => ServedWhole
  BY DEF ShardInv, NamedFiles, ServedWhole
<1> QED
  BY <1>1, ShardInvariant, PTL

=============================================================================
