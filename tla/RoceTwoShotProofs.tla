------------------------- MODULE RoceTwoShotProofs -------------------------
(***************************************************************************)
(* Proofs about RoceTwoShot, for any ranks, HCAs, blocks and grids, any    *)
(* plan of operations of both kinds and any sizes of messages and chunks,  *)
(* with spins that expire, queue pairs that break and proxies that are     *)
(* stopped and restarted.  The arithmetic of sequences, slots and counters *)
(* is that of RoceOneShotProofs; as there, a send queue is assumed to hold *)
(* two operations.                                                         *)
(***************************************************************************)
EXTENDS RoceTwoShot, RoceOneShotProofs

(* The inductive invariant, in three layers. *)

(* The first: what a rank's kernel has done of the operation after the epoch. *)

\* Whether that operation is a two-shot one, and the blocks of either kind.
PipeCur(r)    == IsPipe(Succ(epoch[r]))
CurBlocks(r)  == IF PipeCur(r) THEN 1 .. plan.pipe_blocks ELSE CurGrid(r)
PipeBlocks    == 1 .. plan.pipe_blocks

OneShotPlaces == {"stage", "arrive", "ring", "wait", "reduce", "tail"}
PipePlaces    == {"stage", "rs", "sum", "ag", "copy", "tail", "release"}
LoopPlaces    == {"stage", "rs", "sum", "ag", "copy"}

KernelTypes ==
    /\ plan \in Plans
    /\ epoch \in [Ranks -> Seqs] /\ seq \in [Ranks -> Seqs]
    /\ poison \in [Ranks -> Seqs] /\ error \in [Ranks -> Seqs]
    /\ stage \in [Ranks -> [Blocks -> 0 .. MaxBlocks - 1]]
    /\ tail \in [Ranks -> [Blocks -> 0 .. MaxBlocks - 1]]
    /\ nbytes \in [Ranks -> [SlotIds -> Nat]]
    /\ kind \in [Ranks -> [SlotIds -> {0, 1}]]
    /\ send \in [Ranks -> [SlotIds -> [Blocks -> Seqs]]]
    /\ pc \in [Ranks -> [Blocks -> {"done", "start"} \cup OneShotPlaces \cup PipePlaces]]
    /\ op \in [Ranks -> [Blocks -> Seqs]]
    /\ DOMAIN stored = Ranks
    /\ DOMAIN pipe_send = Ranks /\ \A r \in Ranks : DOMAIN pipe_send[r] = Packs
    /\ ready \in [Ranks -> [Phases -> [Chunks -> Seqs]]]
    /\ arrived \in [Ranks -> [Phases -> [Chunks -> 0 .. MaxBlocks - 1]]]
    /\ pipe_tail \in [Ranks -> 0 .. MaxBlocks - 1]
    /\ chunk \in [Ranks -> [Blocks -> Nat]]

\* The record of operation s, and what a one-shot operation staged.
Record(r, s) ==
    /\ nbytes[r][SlotOf(s)] = IF IsPipe(s) THEN packs(s) ELSE Grid[s]
    /\ kind[r][SlotOf(s)] = IF IsPipe(s) THEN 1 ELSE 0

Launched(r, s) ==
    Record(r, s) /\ (IsPipe(s) \/ \A b \in 1 .. Grid[s] : send[r][SlotOf(s)][b] = s)

\* Where a block may be.
PlaceInv(r, b) ==
    /\ pc[r][b] # "done" => b \in CurBlocks(r) /\ epoch[r] < plan.ops
    /\ pc[r][b] \notin {"done", "start"} => op[r][b] = Cur(r)
    /\ PipeCur(r) => pc[r][b] \in {"done", "start"} \cup PipePlaces
    /\ ~PipeCur(r) => pc[r][b] \in {"done", "start"} \cup OneShotPlaces
    /\ PipeCur(r) /\ pc[r][b] \in LoopPlaces => chunk[r][b] < chunks(Cur(r))
    /\ pc[r][b] = "release" =>
          error[r] = 0 /\ \A d \in Blocks \ {b} : pc[r][d] = "done"
    /\ \A k \in SlotIds : send[r][k][b] <= Cur(r)
    /\ error[r] = 0 /\ Finished(r) => ~Staged(r, b)

\* A block of a one-shot kernel.
StagedInv(r, b) ==
    /\ pc[r][b] = "stage" => ~Staged(r, b)
    /\ pc[r][b] \in OneShotPlaces \ {"stage"} => Staged(r, b)
    /\ error[r] = 0 /\ pc[r][b] = "start" => ~Staged(r, b)
    /\ pc[r][b] = "ring" => Counted(r) = CurGrid(r) /\ Record(r, Cur(r))

OneShotInv(r) ==
    ~PipeCur(r) =>
        /\ \A b \in Blocks : StagedInv(r, b)
        /\ seq[r] = Cur(r) => Counted(r) = CurGrid(r)
        /\ Counted(r) = CurGrid(r) =>
              seq[r] = Cur(r) \/ \E b \in Blocks : pc[r][b] = "ring"
        /\ error[r] = 0 /\ ~Finished(r) => \A b \in Retired(r) : Staged(r, b)

\* Modulo a grid size, the never-reset counters count the current operation's
\* arrivals if it is a one-shot operation of that size, and are 0 otherwise.
MixedCounts(counter, r, S) ==
    \A g \in GridSizes :
        counter[r][g] % g =
            IF g = CurSize(r) /\ ~PipeCur(r) THEN Cardinality(S) % g ELSE 0

CounterInv(r) ==
    /\ MixedCounts(stage, r, Counted(r))
    /\ error[r] = 0 => MixedCounts(tail, r, Retired(r))

\* Block b has arrived at chunk c in a phase, or has copied it.
Beyond(r, b, ph, c) ==
    IF ph = RS
    THEN pc[r][b] \notin {"start", "stage"} \/ (pc[r][b] = "stage" /\ c < chunk[r][b])
    ELSE \/ pc[r][b] \in {"ag", "copy", "tail", "release", "done"}
         \/ pc[r][b] \in {"rs", "sum"} /\ c < chunk[r][b]

Copied(r, b, c) ==
    \/ pc[r][b] \in {"tail", "release", "done"}
    \/ pc[r][b] \in {"ag", "copy"} /\ c < chunk[r][b]

Working(r)     == PipeCur(r) /\ ~Finished(r)
Past(r, ph, c) == {b \in PipeBlocks : Beyond(r, b, ph, c)}
Left(r)        == {b \in PipeBlocks : pc[r][b] \in {"release", "done"}}

\* What is in pipe_send when a chunk is released to the proxy.
Filled(r, ph, c) ==
    IF ph = RS
    THEN \A j \in Peers(r) : \A x \in ChunkOf(Cur(r), j, c) : pipe_send[r][x] = In(Cur(r))
    ELSE \A x \in ChunkOf(Cur(r), r, c) : pipe_send[r][x] = Sum(Cur(r))

\* What a block has put there, and stored.
ShareInv(r, b, c) ==
    /\ Beyond(r, b, RS, c) => \A j \in Peers(r) : \A x \in Share(Cur(r), j, c, b) :
                                 pipe_send[r][x] = In(Cur(r))
    /\ Beyond(r, b, AG, c) => \A x \in Share(Cur(r), r, c, b) :
                                 pipe_send[r][x] = Sum(Cur(r)) /\ x \in stored[r]
    /\ Copied(r, b, c) => \A j \in Peers(r) : Share(Cur(r), j, c, b) \subseteq stored[r]

\* On a rank without an error the chunk counters count the blocks that arrived.
PipeInv(r) ==
    error[r] = 0 =>
        /\ \A ph \in Phases, c \in Chunks : arrived[r][ph][c] =
              IF Working(r) /\ c < chunks(Cur(r))
              THEN Cardinality(Past(r, ph, c)) % plan.pipe_blocks ELSE 0
        /\ pipe_tail[r] = IF Working(r) THEN Cardinality(Left(r)) % plan.pipe_blocks
                          ELSE 0
        /\ Working(r) =>
              /\ seq[r] = Cur(r) \/ pc[r][1] \in {"start", "stage"}
              /\ stored[r] \subseteq 0 .. packs(Cur(r)) - 1
              /\ \A b \in PipeBlocks, c \in 0 .. chunks(Cur(r)) - 1 : ShareInv(r, b, c)
        /\ Finished(r) /\ IsPipe(epoch[r]) => stored[r] = 0 .. packs(epoch[r]) - 1

\* A ready word of the current operation was set over a full chunk.
ReadyInv(r) ==
    \A ph \in Phases, c \in Chunks :
        /\ ready[r][ph][c] <= Cur(r)
        /\ ready[r][ph][c] = Cur(r) =>
              /\ PipeCur(r) /\ c < chunks(Cur(r)) /\ Filled(r, ph, c)
              /\ \A b \in PipeBlocks : Beyond(r, b, ph, c)
              /\ Finished(r) => error[r] # 0

RungInv(r) ==
    /\ error[r] = poison[r]
    /\ seq[r] \in {epoch[r], Cur(r)} /\ seq[r] <= plan.ops /\ epoch[r] <= plan.ops
    /\ Finished(r) /\ error[r] = 0 => seq[r] = epoch[r]
    /\ \A s \in epoch[r] .. seq[r] : s > 0 => Launched(r, s)

RankKernel(r) ==
    /\ RungInv(r) /\ (\A b \in Blocks : PlaceInv(r, b)) /\ OneShotInv(r)
    /\ CounterInv(r) /\ PipeInv(r) /\ ReadyInv(r)

KernelLayer == KernelTypes /\ \A r \in Ranks : RankKernel(r)

(* The second: what was posted and what was seen. *)

FlagsTyped ==
    /\ flag \in [Ranks -> [Ranks -> [SlotIds -> [Hcas -> Seqs]]]]
    /\ pipe_flag \in [Ranks -> [Ranks -> [Phases -> [Hcas -> [Chunks -> Seqs]]]]]

OrderTypes ==
    /\ FlagsTyped
    /\ pipe_done \in [Ranks -> Seqs]
    /\ last_seq \in [Ranks -> Seqs] /\ upto \in [Ranks -> Seqs]
    /\ DOMAIN cur = Ranks /\ DOMAIN bytes = Ranks
    /\ posted \in [Ranks -> [Phases -> Nat]]
    /\ piece \in [Ranks -> [ph : Phases, c : Chunks, left : SUBSET (Ranks \X Hcas)]]
    /\ DOMAIN todo = Ranks /\ DOMAIN broken = Ranks
    /\ DOMAIN qp = Ranks /\ DOMAIN written = Ranks
    /\ \A r \in Ranks :
         /\ todo[r] \subseteq Links(r) /\ broken[r] \subseteq Links(r)
         /\ DOMAIN qp[r] = Links(r) /\ DOMAIN written[r] = Links(r)
         /\ \A l \in Links(r) :
              /\ qp[r][l] \in Seq([s : Seqs, n : Nat] \cup
                                  [s : Seqs, n : Nat, ph : Phases, c : Chunks])
              /\ written[r][l] \in {0, 1}
              /\ written[r][l] = 1 => qp[r][l] # <<>>

\* The flag words of rank r on a link.
FlagWords(r, l) ==
    {flag[l[1]][r][k][l[2]] : k \in SlotIds}
      \cup UNION {{pipe_flag[l[1]][r][ph][l[2]][c] : c \in Chunks} : ph \in Phases}

Reached(r, l, s) ==
    /\ s <= seq[r] /\ s <= last_seq[r] + 1
    /\ s = last_seq[r] + 1 =>
          IsPipe(s) \/ broken[r] # {} \/ (Posting(r) /\ l \notin todo[r])

InOrder(r, s, t) ==
    s < t \/ (s = t /\ t = last_seq[r] + 1 /\ (IsPipe(t) \/ broken[r] # {}))

WriteInv(r, l, w) ==
    /\ pipe_done[r] < w.s /\ Reached(r, l, w.s)
    /\ \A f \in FlagWords(r, l) : InOrder(r, f, w.s)
    /\ IsPipe(w.s) => /\ w.ph \in Phases /\ w.c \in Chunks /\ w.c < chunks(w.s)
                      /\ ready[r][w.ph][w.c] >= w.s

PostedInv(r, l) ==
    /\ \A i \in 1 .. Len(qp[r][l]) : WriteInv(r, l, qp[r][l][i])
    /\ \A i, j \in 1 .. Len(qp[r][l]) :
          i < j => InOrder(r, qp[r][l][i].s, qp[r][l][j].s)
    /\ l \in broken[r] => qp[r][l] # <<>>
    /\ \A f \in FlagWords(r, l) : Reached(r, l, f)
    /\ \A ph \in Phases, c \in Chunks :
          LET f == pipe_flag[l[1]][r][ph][l[2]][c]
          IN  f > 0 => IsPipe(f) /\ c < chunks(f) /\ f <= ready[r][ph][c]

OpenInv(r) ==
    /\ last_seq[r] <= upto[r] /\ upto[r] <= seq[r]
    /\ todo[r] # {} => Posting(r)
    /\ Posting(r) =>
          LET s == last_seq[r] + 1
          IN  /\ cur[r] = IF IsPipe(s) THEN 1 ELSE 0
              /\ bytes[r] = IF IsPipe(s) THEN packs(s) ELSE Grid[s]
              /\ IsPipe(s) /\ todo[r] # {} =>
                    /\ todo[r] = Links(r) /\ piece[r].left \subseteq Links(r)
                    /\ piece[r].left # {} =>
                          /\ piece[r].c < chunks(s)
                          /\ s <= ready[r][piece[r].ph][piece[r].c]

DoneInv(r) ==
    /\ pipe_done[r] <= last_seq[r] + 1
    /\ pipe_done[r] = last_seq[r] + 1 =>
          Posting(r) /\ todo[r] = {} /\ NoneOutstanding(r)
    /\ Posting(r) /\ todo[r] = {} /\ IsPipe(last_seq[r] + 1) => pipe_done[r] = last_seq[r] + 1
    /\ \A s \in 1 .. epoch[r] : IsPipe(s) => s <= pipe_done[r]

Got(r, s) ==
    \A l \in Links(r) :
        IF IsPipe(s)
        THEN \A ph \in Phases, c \in 0 .. chunks(s) - 1 : pipe_flag[r][l[1]][ph][l[2]][c] >= s
        ELSE flag[r][l[1]][SlotOf(s)][l[2]] >= s

BrokenInv(r) ==
    broken[r] # {} =>
        \/ last_seq[r] + 1 \in Seqs /\ IsPipe(last_seq[r] + 1)
        \/ \E l \in broken[r] : \A f \in FlagWords(r, l) : f <= last_seq[r]

ChunkGot(r, ph, c) == \A l \in Links(r) : pipe_flag[r][l[1]][ph][l[2]][c] >= Cur(r)

\* What the kernel's place says of the flags.
AwaitedInv(r) ==
    /\ \A b \in Blocks :
         /\ pc[r][b] = "reduce" => AllFlags(r)
         /\ pc[r][b] = "sum" => ChunkGot(r, RS, chunk[r][b])
         /\ pc[r][b] = "copy" => ChunkGot(r, AG, chunk[r][b])
    /\ error[r] = 0 /\ ~PipeCur(r) /\ ~Finished(r) =>
         \A b \in CurGrid(r) : pc[r][b] \in {"tail", "done"} => AllFlags(r)
    /\ error[r] = 0 /\ Working(r) =>
         \A b \in PipeBlocks, c \in 0 .. chunks(Cur(r)) - 1 :
            /\ Beyond(r, b, AG, c) => ChunkGot(r, RS, c)
            /\ Copied(r, b, c) => ChunkGot(r, AG, c)
    /\ \A c \in Chunks : ready[r][AG][c] = Cur(r) => ChunkGot(r, RS, c)

RankOrder(r) ==
    /\ OpenInv(r) /\ DoneInv(r) /\ (\A l \in Links(r) : PostedInv(r, l))
    /\ Got(r, epoch[r]) /\ BrokenInv(r) /\ AwaitedInv(r)

OrderLayer == OrderTypes /\ \A r \in Ranks : RankOrder(r)

(* The third: what is in the receive buffers. *)

ReceiveTypes ==
    /\ DOMAIN pipe_recv = Ranks
    /\ \A r \in Ranks : DOMAIN pipe_recv[r] = Ranks
    /\ \A r, p \in Ranks : DOMAIN pipe_recv[r][p] = Phases
    /\ \A r, p \in Ranks, ph \in Phases : DOMAIN pipe_recv[r][p][ph] = Hcas

\* The shard that link l of rank r carries in a phase.
ShardOn(r, l, ph) == IF ph = RS THEN l[1] ELSE r

Delivered(r, l, ph, s, c) ==
    \A x \in ChunkOf(s, ShardOn(r, l, ph), c) :
        pipe_recv[l[1]][r][ph][l[2]][x - shard_start(ShardOn(r, l, ph), s)]
          = IF ph = RS THEN In(s) ELSE Sum(s)

\* The flag t on a link of rank r is of a chunk that the receiver may still read.
Unread(r, l, ph, d, t) ==
    /\ t = pipe_flag[l[1]][r][ph][l[2]][d] /\ t >= Cur(l[1])
    /\ ph = RS => ready[l[1]][AG][d] # t

\* Such a chunk is there.
LinkData(r, l) ==
    /\ written[r][l] = 1 /\ PipeHead(r, l) =>
         LET w == Head(qp[r][l]) IN Delivered(r, l, w.ph, w.s, w.c)
    /\ \A ph \in Phases, c \in Chunks : \A t \in Seqs :
          Unread(r, l, ph, c, t) => Delivered(r, l, ph, t, c)

DataLayer == ReceiveTypes /\ \A r \in Ranks : \A l \in Links(r) : LinkData(r, l)

-----------------------------------------------------------------------------
(* The geometry of shards, chunks and shares. *)

\* A quotient and its remainder.
LEMMA DivFacts ==
    ASSUME NEW n \in Nat \ {0}, NEW a \in Nat
    PROVE  a \div n \in Nat /\ n * (a \div n) <= a /\ a < n * (a \div n) + n
OBVIOUS

\* Division is monotone.
LEMMA DivMono ==
    ASSUME NEW n \in Nat \ {0}, NEW a \in Nat, NEW b \in Nat, a <= b
    PROVE  a \div n <= b \div n
<1> DEFINE p == a \div n
           q == b \div n
<1>1. p \in Nat /\ q \in Nat /\ n * p <= a /\ b < n * q + n
  BY DivFacts
<1> HIDE DEF p, q
<1>2. n * p < n * q + n
  BY <1>1, n * p \in Nat, n * q \in Nat
<1>3. ASSUME q < p PROVE FALSE
  <2>1. q + 1 <= p /\ p - (q + 1) \in Nat
    BY <1>1, <1>3
  <2>2. n * p = n * q + n + n * (p - (q + 1))
    BY <1>1
  <2>3. n * (p - (q + 1)) \in Nat /\ n * p \in Nat /\ n * q \in Nat
    BY <1>1, <2>1
  <2> QED
    BY <1>2, <2>2, <2>3
<1> QED
  BY <1>1, <1>3 DEF p, q

\* A multiple is below, or not below, what it is compared with.
LEMMA DivBounds ==
    ASSUME NEW n \in Nat \ {0}, NEW a \in Nat, NEW m \in Nat
    PROVE  /\ n * m <= a => m <= a \div n
           /\ a < n * m => a \div n < m
<1> DEFINE q == a \div n
<1>1. q \in Nat /\ n * q <= a /\ a < n * q + n
  BY DivFacts
<1> HIDE DEF q
<1>2. ASSUME n * m <= a, q < m PROVE FALSE
  <2>1. m - (q + 1) \in Nat /\ n * m = n * q + n + n * (m - (q + 1))
    BY <1>1, <1>2
  <2>2. n * (m - (q + 1)) \in Nat /\ n * m \in Nat /\ n * q \in Nat
    BY <1>1, <2>1
  <2> QED
    BY <1>1, <1>2, <2>1, <2>2
<1>3. ASSUME a < n * m, m <= q PROVE FALSE
  <2>1. q - m \in Nat /\ n * q = n * m + n * (q - m)
    BY <1>1, <1>3
  <2>2. n * (q - m) \in Nat /\ n * m \in Nat /\ n * q \in Nat
    BY <1>1, <2>1
  <2> QED
    BY <1>1, <1>3, <2>1, <2>2
<1> QED
  BY <1>1, <1>2, <1>3 DEF q

\* CeilDiv is the least bound.
LEMMA CeilFacts ==
    ASSUME NEW a \in Nat, NEW n \in Nat \ {0}
    PROVE  /\ CeilDiv(a, n) \in Nat /\ a <= n * CeilDiv(a, n)
           /\ a > 0 => CeilDiv(a, n) > 0
           /\ \A m \in Nat : a <= n * m => CeilDiv(a, n) <= m
<1> DEFINE q == CeilDiv(a, n)
<1>1. a + n - 1 \in Nat
  OBVIOUS
<1>2. q \in Nat /\ n * q <= a + n - 1 /\ a + n - 1 < n * q + n
  BY <1>1, DivFacts DEF CeilDiv
<1>3. a <= n * q
  BY <1>1, <1>2, n * q \in Nat
<1>4. a > 0 => q > 0
  BY <1>2, <1>3
<1>5. ASSUME NEW m \in Nat, a <= n * m PROVE q <= m
  <2>1. m + 1 \in Nat /\ n * (m + 1) = n * m + n /\ n * m \in Nat
    OBVIOUS
  <2>2. a + n - 1 < n * (m + 1)
    BY <1>5, <2>1
  <2>3. (a + n - 1) \div n < m + 1
    BY <1>1, <2>1, <2>2, DivBounds
  <2> QED
    BY <1>2, <2>3 DEF CeilDiv
<1> QED
  BY <1>2, <1>3, <1>4, <1>5

\* A plan's operations, blocks and bound, and the sizes of the runtime.
LEMMA PlanFacts ==
    ASSUME plan \in Plans
    PROVE  /\ \A s \in Seqs : packs(s) \in 0 .. MaxPacks
           /\ packs(0) = 0 /\ plan.pipe_blocks \in Blocks /\ plan.ops \in Seqs
           /\ PipeBlocks \subseteq Blocks /\ 1 \in PipeBlocks
           /\ plan.pipe_blocks \in Nat \ {0} /\ plan.pipe_blocks <= MaxBlocks
           /\ MaxPacks \in Nat /\ ChunkMin \in Nat \ {0} /\ MaxChunks \in Nat \ {0}
<1>1. plan \in PlanType /\ plan.packs[0] = 0
  BY PipeAssumption
<1>2. plan.pipe_blocks \in Blocks /\ plan.ops \in Seqs /\ plan.packs \in [Seqs -> 0 .. MaxPacks]
  BY <1>1 DEF PlanType
<1>3. MaxBlocks \in Nat \ {0}
  BY Consts
<1>4. plan.pipe_blocks \in Nat \ {0} /\ plan.pipe_blocks <= MaxBlocks
  BY <1>2, <1>3 DEF Blocks
<1>5. PipeBlocks \subseteq Blocks /\ 1 \in PipeBlocks
  BY <1>3, <1>4 DEF Blocks, PipeBlocks
<1> QED
  BY <1>1, <1>2, <1>4, <1>5, PipeAssumption DEF packs

\* The chunks of a shard are no more than MaxChunks, and cover the widest shard.
LEMMA ChunkCount ==
    ASSUME plan \in Plans, NEW s \in Seqs, IsPipe(s)
    PROVE  /\ packs(s) \in Nat \ {0} /\ packs(s) <= MaxPacks
           /\ WidestShard(s) \in Nat \ {0} /\ packs(s) <= World * WidestShard(s)
           /\ chunk_packs(s) \in Nat \ {0} /\ chunks(s) \in Nat \ {0}
           /\ chunks(s) <= MaxChunks /\ WidestShard(s) <= chunk_packs(s) * chunks(s)
<1>1. packs(s) \in Nat \ {0} /\ packs(s) <= MaxPacks
  BY PlanFacts DEF IsPipe
<1>2. /\ World \in Nat \ {0} /\ MaxChunks \in Nat \ {0} /\ ChunkMin \in Nat \ {0}
  BY Consts, PlanFacts
<1>3. WidestShard(s) \in Nat \ {0} /\ packs(s) <= World * WidestShard(s)
  BY <1>1, <1>2, CeilFacts DEF WidestShard
<1> DEFINE w == WidestShard(s)
           least == CeilDiv(w, MaxChunks)
           cp == chunk_packs(s)
<1> HIDE DEF w
<1>4. w \in Nat /\ w > 0
  BY <1>3 DEF w
<1>5. least \in Nat /\ least > 0 /\ w <= MaxChunks * least
  BY <1>2, <1>4, CeilFacts
<1> HIDE DEF least
<1>6. cp = IF least > ChunkMin THEN least ELSE ChunkMin
  BY DEF chunk_packs, least, w
<1>7. cp \in Nat \ {0} /\ least <= cp
  BY <1>2, <1>5, <1>6
<1>8. chunks(s) = CeilDiv(w, cp)
  BY DEF chunks, w
<1> HIDE DEF cp
<1>9. CeilDiv(w, cp) \in Nat /\ CeilDiv(w, cp) > 0 /\ w <= cp * CeilDiv(w, cp)
  BY <1>4, <1>7, CeilFacts
<1>10. w <= cp * MaxChunks
  <2>1. cp - least \in Nat /\ cp * MaxChunks = MaxChunks * least + MaxChunks * (cp - least)
    BY <1>2, <1>5, <1>7
  <2>2. MaxChunks * (cp - least) \in Nat /\ MaxChunks * least \in Nat
    BY <1>2, <1>5, <2>1
  <2> QED
    BY <1>4, <1>5, <2>1, <2>2
<1>11. CeilDiv(w, cp) <= MaxChunks
  BY <1>2, <1>4, <1>7, <1>10, CeilFacts
<1> QED
  BY <1>1, <1>3, <1>7, <1>8, <1>9, <1>11 DEF cp, w

\* Shards follow one another, from the first pack to the last.
LEMMA ShardFacts ==
    ASSUME plan \in Plans, NEW s \in Seqs, IsPipe(s)
    PROVE  /\ \A j \in Nat : shard_start(j, s) \in Nat
           /\ \A i, j \in Nat : i <= j => shard_start(i, s) <= shard_start(j, s)
           /\ shard_start(World, s) = packs(s)
           /\ \A j \in Nat : shard_start(j + 1, s) <= shard_start(j, s) + WidestShard(s)
<1> DEFINE P == packs(s)
           W == WidestShard(s)
<1>1. P \in Nat \ {0} /\ W \in Nat \ {0} /\ P <= World * W /\ World \in Nat \ {0}
  BY ChunkCount, Consts
<1> HIDE DEF P, W
<1>2. \A j : shard_start(j, s) = (j * P) \div World
  BY DEF shard_start, P
<1>3. ASSUME NEW j \in Nat PROVE shard_start(j, s) \in Nat
  <2>1. j * P \in Nat
    BY <1>1
  <2> QED
    BY <1>1, <1>2, <2>1, DivFacts
<1>4. ASSUME NEW i \in Nat, NEW j \in Nat, i <= j
      PROVE  shard_start(i, s) <= shard_start(j, s)
  <2>1. j - i \in Nat /\ j * P = i * P + (j - i) * P
    BY <1>1, <1>4
  <2>2. i * P \in Nat /\ j * P \in Nat /\ (j - i) * P \in Nat
    BY <1>1, <2>1
  <2>3. i * P <= j * P
    BY <2>1, <2>2
  <2> QED
    BY <1>1, <1>2, <2>2, <2>3, DivMono
<1>5. shard_start(World, s) = P
  <2> DEFINE q == (World * P) \div World
  <2>1. World * P \in Nat /\ World * (P + 1) = World * P + World
    BY <1>1
  <2>2. World * P < World * (P + 1) /\ P + 1 \in Nat
    BY <1>1, <2>1
  <2>3. P <= q /\ q < P + 1 /\ q \in Nat
    BY <1>1, <2>1, <2>2, DivBounds, DivFacts
  <2> HIDE DEF q
  <2>4. q = P
    BY <1>1, <2>3
  <2> QED
    BY <1>2, <2>4 DEF q
<1>6. ASSUME NEW j \in Nat PROVE shard_start(j + 1, s) <= shard_start(j, s) + W
  <2> DEFINE a == (j * P) \div World
             d == ((j + 1) * P) \div World
  <2>1. j * P \in Nat /\ (j + 1) * P = j * P + P /\ (j + 1) * P \in Nat
    BY <1>1
  <2>2. a \in Nat /\ j * P < World * a + World
    BY <1>1, <2>1, DivFacts
  <2>3. d \in Nat /\ World * d <= (j + 1) * P
    BY <1>1, <2>1, DivFacts
  <2> HIDE DEF a, d
  <2>4. World * (a + W + 1) = World * a + World + World * W /\ a + W + 1 \in Nat
    BY <1>1, <2>2
  <2>5. World * a \in Nat /\ World * W \in Nat
    BY <1>1, <2>2
  <2>6. (j + 1) * P < World * (a + W + 1)
    BY <1>1, <2>1, <2>2, <2>4, <2>5
  <2>7. d < a + W + 1
    BY <1>1, <2>1, <2>4, <2>6, DivBounds DEF d
  <2> QED
    BY <1>1, <1>2, <2>2, <2>3, <2>7 DEF a, d
<1> QED
  BY <1>3, <1>4, <1>5, <1>6 DEF P, W

\* Ranks and phases are numbers.
LEMMA RankFacts ==
    /\ Ranks \subseteq Nat /\ \A j \in Ranks : j + 1 \in Nat /\ j + 1 <= World
    /\ World \in Nat /\ 0 \in Phases /\ 1 \in Phases /\ Phases = {0, 1}
BY Consts DEF Ranks, Phases, RS, AG

\* No pack belongs to two chunks.
LEMMA ChunksApart ==
    ASSUME plan \in Plans, NEW s \in Seqs, IsPipe(s),
           NEW i \in Ranks, NEW j \in Ranks, NEW c \in Nat, NEW d \in Nat,
           NEW x \in ChunkOf(s, i, c), x \in ChunkOf(s, j, d)
    PROVE  i = j /\ c = d
<1> DEFINE S(k) == shard_start(k, s)
           cp == chunk_packs(s)
<1>1. /\ x \in Packs
      /\ S(i) + c * cp <= x /\ x < S(i) + (c + 1) * cp /\ x < S(i + 1)
      /\ S(j) + d * cp <= x /\ x < S(j) + (d + 1) * cp /\ x < S(j + 1)
  BY DEF ChunkOf
<1>2. /\ i \in Nat /\ j \in Nat /\ i + 1 \in Nat /\ j + 1 \in Nat /\ cp \in Nat \ {0}
      /\ S(i) \in Nat /\ S(j) \in Nat /\ S(i + 1) \in Nat /\ S(j + 1) \in Nat
      /\ i + 1 <= j => S(i + 1) <= S(j)
      /\ j + 1 <= i => S(j + 1) <= S(i)
  BY RankFacts, ShardFacts, ChunkCount
<1>3. x \in Nat
  BY <1>1, PlanFacts DEF Packs
<1> HIDE DEF S, cp
<1>4. c * cp \in Nat /\ d * cp \in Nat
  BY <1>2
<1>5. i = j
  BY <1>1, <1>2, <1>3, <1>4
<1>6. ASSUME NEW m \in Nat, NEW n \in Nat, m < n PROVE (m + 1) * cp <= n * cp
  <2>1. n - (m + 1) \in Nat /\ n * cp = (m + 1) * cp + (n - (m + 1)) * cp
    BY <1>2, <1>6
  <2>2. (n - (m + 1)) * cp \in Nat /\ (m + 1) * cp \in Nat /\ n * cp \in Nat
    BY <1>2, <2>1
  <2> QED
    BY <2>1, <2>2
<1>7. (c + 1) * cp \in Nat /\ (d + 1) * cp \in Nat
  BY <1>2
<1>8. c = d
  BY <1>1, <1>2, <1>3, <1>4, <1>5, <1>6, <1>7
<1> QED
  BY <1>5, <1>8

\* A chunk lies in the message, and in its place in a receive buffer.
LEMMA ChunkInside ==
    ASSUME plan \in Plans, NEW s \in Seqs, IsPipe(s), NEW j \in Ranks, NEW c \in Nat,
           NEW x \in ChunkOf(s, j, c)
    PROVE  /\ x \in 0 .. packs(s) - 1 /\ x \in Packs
           /\ x - shard_start(j, s) \in Packs
           /\ shard_start(j, s) \in Nat
<1>1. x \in Packs /\ shard_start(j, s) + c * chunk_packs(s) <= x /\ x < shard_start(j + 1, s)
  BY DEF ChunkOf
<1>2. /\ shard_start(j, s) \in Nat /\ shard_start(j + 1, s) \in Nat
      /\ shard_start(j + 1, s) <= packs(s)
  BY RankFacts, ShardFacts
<1>3. x \in Nat /\ x < MaxPacks /\ MaxPacks \in Nat
  BY <1>1, PlanFacts DEF Packs
<1>4. c * chunk_packs(s) \in Nat /\ packs(s) \in Nat
  BY ChunkCount
<1>5. x - shard_start(j, s) \in 0 .. MaxPacks - 1 /\ x \in 0 .. packs(s) - 1
  BY <1>1, <1>2, <1>3, <1>4
<1> QED
  BY <1>1, <1>2, <1>5 DEF Packs

\* The grid's shares make up a chunk.
LEMMA Shares ==
    ASSUME plan \in Plans, NEW s \in Seqs, IsPipe(s), NEW j \in Ranks, NEW c \in Nat
    PROVE  /\ \A b : Share(s, j, c, b) \subseteq ChunkOf(s, j, c)
           /\ \A x \in ChunkOf(s, j, c) : \E b \in PipeBlocks : x \in Share(s, j, c, b)
<1>1. \A b : Share(s, j, c, b) \subseteq ChunkOf(s, j, c)
  BY DEF Share
<1>2. ASSUME NEW x \in ChunkOf(s, j, c)
      PROVE  \E b \in PipeBlocks : x \in Share(s, j, c, b)
  <2> DEFINE y == x - shard_start(j, s) - c * chunk_packs(s)
             n == plan.pipe_blocks
             b == (y % n) + 1
  <2>1. n \in Nat \ {0}
    BY PlanFacts
  <2>2. y \in Int
    BY ChunkInside, ChunkCount DEF Packs
  <2>3. y % n \in 0 .. n - 1
    BY <2>1, <2>2, ModType
  <2> HIDE DEF y
  <2>4. b \in PipeBlocks /\ y % n = b - 1
    BY <2>1, <2>3 DEF PipeBlocks
  <2>5. x \in Share(s, j, c, b)
    BY <2>4 DEF Share, y
  <2> QED
    BY <2>4, <2>5
<1> QED
  BY <1>1, <1>2

\* Every pack of the message is in a chunk.
LEMMA EveryPack ==
    ASSUME plan \in Plans, NEW s \in Seqs, IsPipe(s), NEW x \in 0 .. packs(s) - 1
    PROVE  \E j \in Ranks, c \in 0 .. chunks(s) - 1 : x \in ChunkOf(s, j, c)
<1> DEFINE P == packs(s)
           cp == chunk_packs(s)
           a == (x + 1) * World - 1
           j == a \div P
           S(k) == shard_start(k, s)
<1>1. P \in Nat \ {0} /\ World \in Nat \ {0} /\ x \in Nat /\ x < P /\ P <= MaxPacks
  BY ChunkCount, Consts
<1>2. MaxPacks \in Nat /\ x \in Packs
  BY <1>1, PlanFacts DEF Packs
<1> HIDE DEF P
<1>3. a \in Nat /\ (x + 1) * World = a + 1 /\ (x + 1) * World \in Nat
  BY <1>1
<1> HIDE DEF a
<1>4. j \in Nat /\ P * j <= a /\ a < P * j + P
  BY <1>1, <1>3, DivFacts
<1>5. j \in Ranks
  <2>1. P - (x + 1) \in Nat /\ P * World = (x + 1) * World + (P - (x + 1)) * World
    BY <1>1
  <2>2. (P - (x + 1)) * World \in Nat
    BY <1>1, <2>1
  <2>3. a < P * World
    BY <1>1, <1>3, <2>1, <2>2
  <2>4. j < World
    BY <1>1, <1>3, <2>3, DivBounds
  <2> QED
    BY <1>1, <1>4, <2>4 DEF Ranks
<1> HIDE DEF j
<1>6. S(j) = (j * P) \div World /\ S(j + 1) = ((j + 1) * P) \div World
  BY DEF shard_start, P
<1>7. S(j) <= x
  <2>1. j * P \in Nat /\ j * P < World * (x + 1) /\ x + 1 \in Nat
    BY <1>1, <1>3, <1>4
  <2>2. (j * P) \div World < x + 1 /\ (j * P) \div World \in Nat
    BY <1>1, <2>1, DivBounds, DivFacts
  <2> QED
    BY <1>1, <1>6, <2>2
<1>8. x < S(j + 1)
  <2>1. (j + 1) * P \in Nat /\ World * (x + 1) <= (j + 1) * P /\ x + 1 \in Nat
    BY <1>1, <1>3, <1>4
  <2>2. x + 1 <= ((j + 1) * P) \div World /\ ((j + 1) * P) \div World \in Nat
    BY <1>1, <2>1, DivBounds, DivFacts
  <2> QED
    BY <1>1, <1>6, <2>2
<1>9. S(j) \in Nat /\ S(j + 1) <= S(j) + WidestShard(s) /\ S(j + 1) \in Nat
  BY <1>4, ShardFacts
<1> DEFINE y == x - S(j)
           c == y \div cp
<1>10. cp \in Nat \ {0} /\ chunks(s) \in Nat \ {0} /\ WidestShard(s) \in Nat
       /\ WidestShard(s) <= cp * chunks(s)
  BY ChunkCount
<1> HIDE DEF S, cp
<1>11. y \in Nat /\ y < cp * chunks(s)
  BY <1>1, <1>7, <1>8, <1>9, <1>10, cp * chunks(s) \in Nat
<1> HIDE DEF y
<1>12. c \in Nat /\ cp * c <= y /\ y < cp * c + cp /\ c < chunks(s)
  BY <1>10, <1>11, DivFacts, DivBounds
<1> HIDE DEF c
<1>13. c * cp = cp * c /\ (c + 1) * cp = cp * c + cp /\ cp * c \in Nat
  BY <1>10, <1>12
<1>14. S(j) + c * cp <= x /\ x < S(j) + (c + 1) * cp
  BY <1>1, <1>9, <1>10, <1>11, <1>12, <1>13 DEF y
<1>15. x \in ChunkOf(s, j, c)
  BY <1>2, <1>8, <1>14 DEF ChunkOf, S, cp
<1>16. c \in 0 .. chunks(s) - 1
  BY <1>10, <1>12
<1> QED
  BY <1>5, <1>15, <1>16

\* The chunk numbers of an operation are chunk numbers.
LEMMA ChunkIds ==
    ASSUME plan \in Plans, NEW s \in Seqs, IsPipe(s)
    PROVE  /\ chunks(s) \in Nat \ {0} /\ 0 \in 0 .. chunks(s) - 1
           /\ 0 .. chunks(s) - 1 \subseteq Chunks
           /\ \A c \in Nat : c < chunks(s) <=> c \in 0 .. chunks(s) - 1
           /\ Chunks \subseteq Nat
BY ChunkCount, PlanFacts DEF Chunks

-----------------------------------------------------------------------------
(* The first layer: what leaves a rank's part of it as it was. *)

\* The geometry depends on the plan only.
LEMMA PlanFrame ==
    ASSUME plan' = plan
    PROVE  /\ \A s : /\ packs(s)' = packs(s) /\ IsPipe(s)' = IsPipe(s)
                     /\ chunks(s)' = chunks(s)
           /\ \A s, j : shard_start(j, s)' = shard_start(j, s)
           /\ \A s, j, c : ChunkOf(s, j, c)' = ChunkOf(s, j, c)
           /\ \A s, j, c, b : Share(s, j, c, b)' = Share(s, j, c, b)
           /\ PipeBlocks' = PipeBlocks
<1>1. \A s : packs(s)' = packs(s)
  BY DEF packs
<1>2. \A s : IsPipe(s)' = IsPipe(s) /\ WidestShard(s)' = WidestShard(s)
  BY <1>1 DEF IsPipe, WidestShard, CeilDiv
<1>3. \A s : chunk_packs(s)' = chunk_packs(s)
  BY <1>2 DEF chunk_packs, CeilDiv
<1>4. \A s : chunks(s)' = chunks(s)
  BY <1>2, <1>3 DEF chunks, CeilDiv
<1>5. \A s, j : shard_start(j, s)' = shard_start(j, s)
  BY <1>1 DEF shard_start
<1>6. \A s, j, c : ChunkOf(s, j, c)' = ChunkOf(s, j, c)
  BY <1>3, <1>5 DEF ChunkOf
<1>7. \A s, j, c, b : Share(s, j, c, b)' = Share(s, j, c, b)
  BY <1>3, <1>5, <1>6 DEF Share
<1> QED
  BY <1>1, <1>2, <1>4, <1>5, <1>6, <1>7 DEF PipeBlocks

\* The operation in flight depends on the plan and the epoch only.
LEMMA CurFrame ==
    ASSUME plan' = plan, NEW q \in Ranks, epoch'[q] = epoch[q]
    PROVE  /\ Cur(q)' = Cur(q) /\ CurSize(q)' = CurSize(q) /\ CurGrid(q)' = CurGrid(q)
           /\ PipeCur(q)' = PipeCur(q) /\ CurBlocks(q)' = CurBlocks(q)
           /\ IsPipe(epoch[q])' = IsPipe(epoch[q])
           /\ packs(epoch[q])' = packs(epoch[q])
<1>1. Cur(q)' = Cur(q) /\ CurSize(q)' = CurSize(q) /\ CurGrid(q)' = CurGrid(q)
  BY DEF Cur, CurSize, CurGrid
<1>2. PipeCur(q)' = PipeCur(q)
  BY DEF PipeCur, IsPipe, packs
<1> QED
  BY <1>1, <1>2 DEF CurBlocks, IsPipe, packs

\* A rank of which no kernel variable has changed.
Still(q) ==
    /\ epoch'[q] = epoch[q] /\ poison'[q] = poison[q] /\ stage'[q] = stage[q]
    /\ tail'[q] = tail[q] /\ seq'[q] = seq[q] /\ nbytes'[q] = nbytes[q]
    /\ error'[q] = error[q] /\ send'[q] = send[q] /\ pc'[q] = pc[q]
    /\ op'[q] = op[q] /\ stored'[q] = stored[q] /\ kind'[q] = kind[q]
    /\ pipe_send'[q] = pipe_send[q] /\ ready'[q] = ready[q]
    /\ arrived'[q] = arrived[q] /\ pipe_tail'[q] = pipe_tail[q]
    /\ chunk'[q] = chunk[q]

\* What the first layer says of a rank depends on its kernel's variables only.
LEMMA StillFrame ==
    ASSUME plan' = plan, NEW q \in Ranks, Still(q), RankKernel(q)
    PROVE  RankKernel(q)'
<1> USE DEF Still
<1>1. /\ \A s : /\ packs(s)' = packs(s) /\ IsPipe(s)' = IsPipe(s)
                /\ chunks(s)' = chunks(s)
      /\ \A s, j, c : ChunkOf(s, j, c)' = ChunkOf(s, j, c)
      /\ \A s, j, c, b : Share(s, j, c, b)' = Share(s, j, c, b)
      /\ PipeBlocks' = PipeBlocks
  BY PlanFrame
<1>2. /\ Cur(q)' = Cur(q) /\ CurSize(q)' = CurSize(q) /\ CurGrid(q)' = CurGrid(q)
      /\ PipeCur(q)' = PipeCur(q) /\ CurBlocks(q)' = CurBlocks(q)
      /\ IsPipe(epoch[q])' = IsPipe(epoch[q]) /\ packs(epoch[q])' = packs(epoch[q])
  BY CurFrame
<1>3. /\ Finished(q)' = Finished(q)
      /\ \A b : Staged(q, b)' = Staged(q, b)
      /\ \A b, ph, c : Beyond(q, b, ph, c)' = Beyond(q, b, ph, c)
      /\ \A b, c : Copied(q, b, c)' = Copied(q, b, c)
      /\ \A s : Record(q, s)' = Record(q, s) /\ Launched(q, s)' = Launched(q, s)
  BY <1>1, <1>2 DEF Finished, Staged, Beyond, Copied, Record, Launched
<1>4. /\ Counted(q)' = Counted(q) /\ Retired(q)' = Retired(q) /\ Left(q)' = Left(q)
      /\ Working(q)' = Working(q) /\ \A ph, c : Past(q, ph, c)' = Past(q, ph, c)
  BY <1>1, <1>2, <1>3 DEF Counted, Retired, Left, Working, Past
<1>5. /\ \A ph, c : Filled(q, ph, c)' = Filled(q, ph, c)
      /\ \A b, c : ShareInv(q, b, c)' = ShareInv(q, b, c)
  BY <1>1, <1>2, <1>3 DEF Filled, ShareInv
<1>6. Record(q, Cur(q))' = Record(q, Cur(q))
  BY <1>2 DEF Record, IsPipe, packs
<1>7. chunks(Cur(q))' = chunks(Cur(q)) /\ packs(Cur(q))' = packs(Cur(q))
  BY <1>1, <1>2
<1>8. RungInv(q)'
  BY <1>2, <1>3 DEF RankKernel, RungInv
<1>9. ASSUME NEW b \in Blocks PROVE PlaceInv(q, b)'
  BY <1>2, <1>3, <1>7 DEF RankKernel, PlaceInv
<1>10. OneShotInv(q)'
  BY <1>2, <1>3, <1>4, <1>6 DEF RankKernel, OneShotInv, StagedInv
<1>11. CounterInv(q)'
  BY <1>2, <1>4 DEF RankKernel, CounterInv, MixedCounts
<1>12. PipeInv(q)'
  BY <1>1, <1>2, <1>3, <1>4, <1>5, <1>7 DEF RankKernel, PipeInv
<1>13. ReadyInv(q)'
  BY <1>1, <1>2, <1>3, <1>5, <1>7 DEF RankKernel, ReadyInv
<1> QED
  BY <1>8, <1>9, <1>10, <1>11, <1>12, <1>13 DEF RankKernel

kernelVars == <<epoch, poison, stage, tail, seq, nbytes, error, send, pc, op, stored,
                kind, pipe_send, ready, arrived, pipe_tail, chunk, plan>>

\* A step of the proxy, the network or the host.
LEMMA KernelStill ==
    ASSUME KernelLayer, UNCHANGED kernelVars
    PROVE  KernelLayer'
<1>1. KernelTypes'
  BY DEF KernelLayer, KernelTypes, kernelVars
<1>2. ASSUME NEW q \in Ranks PROVE RankKernel(q)'
  <2>1. Still(q) /\ plan' = plan
    BY DEF Still, kernelVars
  <2> QED
    BY <2>1, StillFrame DEF KernelLayer
<1> QED
  BY <1>1, <1>2 DEF KernelLayer

\* A step of one rank's kernel.
LEMMA KernelOf ==
    ASSUME KernelLayer, KernelTypes', plan' = plan, NEW r \in Ranks,
           \A q \in Ranks \ {r} : Still(q), RankKernel(r)'
    PROVE  KernelLayer'
BY StillFrame DEF KernelLayer

-----------------------------------------------------------------------------
(* The first layer: what it says of a state. *)

\* The words of a rank and the operation in flight.
LEMMA KernelWords ==
    ASSUME KernelLayer, NEW r \in Ranks
    PROVE  /\ plan \in Plans /\ epoch[r] \in Seqs /\ seq[r] \in Seqs /\ Seqs \subseteq Nat
           /\ Cur(r) \in Nat \ {0} /\ Cur(r) = epoch[r] + 1
           /\ Succ(epoch[r]) \in Seqs
           /\ CurSize(r) \in Nat \ {0} /\ CurSize(r) \in GridSizes /\ CurSize(r) \in Blocks
           /\ CurGrid(r) \subseteq Blocks /\ 1 \in CurGrid(r) /\ Blocks \subseteq Nat
           /\ CurBlocks(r) \subseteq Blocks /\ 1 \in CurBlocks(r)
           /\ PipeBlocks \subseteq Blocks /\ 1 \in PipeBlocks
           /\ (PipeCur(r) => CurBlocks(r) = PipeBlocks)
           /\ (~PipeCur(r) => CurBlocks(r) = CurGrid(r))
           /\ RankKernel(r) /\ SlotOf(Cur(r)) \in SlotIds
           /\ SlotOf(epoch[r]) # SlotOf(Cur(r)) /\ SlotOf(epoch[r]) \in SlotIds
<1>1. plan \in Plans /\ epoch[r] \in Seqs /\ seq[r] \in Seqs /\ Seqs \subseteq Nat
  BY DEF KernelLayer, KernelTypes, Seqs
<1>2. Cur(r) \in Nat \ {0} /\ Cur(r) = epoch[r] + 1
  BY <1>1, epoch[r] \in Nat DEF Cur
<1>3. Succ(epoch[r]) \in Seqs
  BY <1>1, SuccFacts
<1>4. CurSize(r) \in Nat \ {0} /\ CurSize(r) \in GridSizes /\ CurSize(r) \in Blocks
  BY <1>3, Consts DEF CurSize, Blocks
<1>5. CurGrid(r) \subseteq Blocks /\ Blocks \subseteq Nat /\ 1 \in CurGrid(r)
  BY <1>4, Consts DEF CurGrid, Blocks
<1>6. PipeBlocks \subseteq Blocks /\ 1 \in PipeBlocks
  BY <1>1, PlanFacts
<1>7. /\ (PipeCur(r) => CurBlocks(r) = PipeBlocks)
      /\ (~PipeCur(r) => CurBlocks(r) = CurGrid(r))
  BY DEF CurBlocks, PipeBlocks
<1>8. RankKernel(r)
  BY DEF KernelLayer
<1>9. /\ SlotOf(Cur(r)) \in SlotIds /\ SlotOf(epoch[r]) # SlotOf(Cur(r))
      /\ SlotOf(epoch[r]) \in SlotIds
  BY <1>1, <1>2, SlotFacts
<1> QED
  BY <1>1, <1>2, <1>3, <1>4, <1>5, <1>6, <1>7, <1>8, <1>9

\* A rank with an operation in flight.
LEMMA InFlight ==
    ASSUME KernelLayer, NEW r \in Ranks, epoch[r] < plan.ops
    PROVE  /\ Cur(r) \in Seqs /\ Succ(epoch[r]) = Cur(r) /\ Cur(r) <= plan.ops
           /\ (PipeCur(r) <=> IsPipe(Cur(r))) /\ CurSize(r) = Grid[Cur(r)]
<1>1. epoch[r] \in Nat /\ epoch[r] \in Seqs /\ plan.ops \in Seqs /\ Cur(r) = epoch[r] + 1
  BY KernelWords, PlanFacts
<1>2. Cur(r) \in Seqs /\ Cur(r) <= plan.ops
  BY <1>1, Consts DEF Seqs
<1>3. Succ(epoch[r]) = Cur(r)
  BY <1>1, <1>2, SuccFacts
<1> QED
  BY <1>2, <1>3 DEF PipeCur, CurSize

\* A block that is not done runs the operation in flight.
LEMMA ActiveBlock ==
    ASSUME KernelLayer, NEW r \in Ranks, NEW b \in Blocks, pc[r][b] # "done"
    PROVE  /\ Cur(r) \in Seqs /\ Succ(epoch[r]) = Cur(r) /\ Cur(r) <= plan.ops
           /\ epoch[r] < plan.ops
           /\ (PipeCur(r) <=> IsPipe(Cur(r))) /\ CurSize(r) = Grid[Cur(r)]
           /\ b \in CurBlocks(r) /\ ~Finished(r) /\ PlaceInv(r, b)
           /\ pc[r][b] # "start" => op[r][b] = Cur(r)
<1>1. PlaceInv(r, b)
  BY KernelWords DEF RankKernel
<1>2. epoch[r] < plan.ops /\ b \in CurBlocks(r) /\ (pc[r][b] # "start" => op[r][b] = Cur(r))
  BY <1>1 DEF PlaceInv
<1>3. ~Finished(r)
  BY DEF Finished
<1> QED
  BY <1>1, <1>2, <1>3, InFlight

\* A block moves.
LEMMA MoveFacts ==
    ASSUME KernelTypes, NEW r \in Ranks, NEW b \in Blocks,
           NEW w \in {"done", "start"} \cup OneShotPlaces \cup PipePlaces,
           Goto(r, b, w)
    PROVE  /\ pc' \in [Ranks -> [Blocks -> {"done", "start"} \cup OneShotPlaces \cup PipePlaces]]
           /\ pc'[r][b] = w
           /\ \A q \in Ranks \ {r} : pc'[q] = pc[q]
           /\ \A d \in Blocks \ {b} : pc'[r][d] = pc[r][d]
BY DEF KernelTypes, Goto

\* One more arrival at a counter that counts the blocks of S.
LEMMA MixedArrivals ==
    ASSUME KernelLayer, NEW r \in Ranks, ~PipeCur(r),
           NEW counter \in [Ranks -> [Blocks -> 0 .. MaxBlocks - 1]],
           NEW S \in SUBSET CurGrid(r), NEW b \in CurGrid(r), b \notin S,
           MixedCounts(counter, r, S)
    PROVE  /\ IsLast(counter, r, CurSize(r)) <=> S \cup {b} = CurGrid(r)
           /\ Arrival(counter, r, CurSize(r)) \in [Ranks -> [Blocks -> 0 .. MaxBlocks - 1]]
           /\ \A q \in Ranks \ {r} : Arrival(counter, r, CurSize(r))[q] = counter[q]
           /\ MixedCounts(Arrival(counter, r, CurSize(r)), r, S \cup {b})
           /\ S \cup {b} = CurGrid(r) => \A g \in GridSizes :
                 Arrival(counter, r, CurSize(r))[r][g] % g = 0
<1> DEFINE g == CurSize(r)
           c == counter[r][g]
           n == Cardinality(S)
<1>1. g \in GridSizes /\ g \in Nat \ {0} /\ g \in Blocks
  BY KernelWords
<1>2. CurGrid(r) = 1 .. g
  BY DEF CurGrid
<1> HIDE DEF g
<1>3. /\ n \in Nat /\ Cardinality(S \cup {b}) = n + 1
      /\ Cardinality(S \cup {b}) % g = 0 <=> S \cup {b} = CurGrid(r)
  BY <1>1, <1>2, WholeGrid
<1>4. c \in 0 .. MaxBlocks - 1 /\ c % g = n % g
  BY <1>1 DEF MixedCounts, g
<1> HIDE DEF c, n
<1>5. ((c + 1) % MaxBlocks) % g = (n + 1) % g /\ (c + 1) % g = (n + 1) % g
  BY <1>1, <1>3, <1>4, CounterStep
<1>6. IsLast(counter, r, g) <=> S \cup {b} = CurGrid(r)
  BY <1>3, <1>5 DEF IsLast, CounterClass, c
<1>7. (c + 1) % MaxBlocks \in 0 .. MaxBlocks - 1
  BY <1>4, Consts, ModType
<1>8. Arrival(counter, r, g) = [counter EXCEPT ![r][g] = (c + 1) % MaxBlocks]
  BY <1>1 DEF Arrival, CounterClass, c
<1> DEFINE next == Arrival(counter, r, g)
<1>9. /\ next \in [Ranks -> [Blocks -> 0 .. MaxBlocks - 1]]
      /\ \A q \in Ranks \ {r} : next[q] = counter[q]
      /\ next[r][g] = (c + 1) % MaxBlocks
      /\ \A h \in Blocks \ {g} : next[r][h] = counter[r][h]
  BY <1>1, <1>7, <1>8
<1>10. \A h \in GridSizes : h \in Blocks
  BY Consts DEF GridSizes, Blocks
<1> HIDE DEF next
<1>11. MixedCounts(next, r, S \cup {b})
  BY <1>3, <1>5, <1>9, <1>10 DEF MixedCounts, g
<1>12. S \cup {b} = CurGrid(r) => \A h \in GridSizes : next[r][h] % h = 0
  BY <1>3, <1>11 DEF MixedCounts, g
<1> QED
  BY <1>6, <1>9, <1>11, <1>12 DEF g, next

\* Steps of a one-shot kernel leave the two-shot part of its rank.
LEMMA PipeQuiet ==
    ASSUME plan' = plan, NEW r \in Ranks, RankKernel(r), ~PipeCur(r),
           epoch'[r] = epoch[r], arrived'[r] = arrived[r], pipe_tail'[r] = pipe_tail[r],
           ready'[r] = ready[r], error'[r] = 0 => error[r] = 0 /\ ~Finished(r)'
    PROVE  PipeInv(r)' /\ ReadyInv(r)'
<1>1. Cur(r)' = Cur(r) /\ ~PipeCur(r)'
  BY CurFrame
<1>2. ~Working(r) /\ ~Working(r)'
  BY <1>1 DEF Working
<1>3. PipeInv(r)'
  BY <1>2 DEF RankKernel, PipeInv
<1>4. ReadyInv(r)'
  BY <1>1 DEF RankKernel, ReadyInv
<1> QED
  BY <1>3, <1>4

-----------------------------------------------------------------------------
(* The first layer: the steps of a one-shot kernel. *)

\* A block moves on; nobody arrives at a counter and the doorbell is left alone.
LEMMA OneShotMove ==
    ASSUME KernelLayer, plan' = plan, NEW r \in Ranks, NEW b \in Blocks,
           ~PipeCur(r), pc[r][b] # "done",
           epoch'[r] = epoch[r], seq'[r] = seq[r], nbytes'[r] = nbytes[r],
           kind'[r] = kind[r], send'[r] = send[r], stage'[r] = stage[r],
           tail'[r] = tail[r], arrived'[r] = arrived[r],
           pipe_tail'[r] = pipe_tail[r], ready'[r] = ready[r],
           error'[r] = poison'[r], error'[r] = 0 => error[r] = 0,
           \A d \in Blocks \ {b} : pc'[r][d] = pc[r][d] /\ op'[r][d] = op[r][d],
           pc[r][b] \notin {"arrive", "ring"},
           pc'[r][b] \in {"done", "stage", "reduce", "tail"},
           pc'[r][b] = "done" => error'[r] # 0,
           pc'[r][b] # "done" => op'[r][b] = Cur(r),
           pc'[r][b] = "stage" => ~Staged(r, b),
           pc'[r][b] \in {"reduce", "tail"} => Staged(r, b)
    PROVE  RankKernel(r)'
<1>1. /\ RankKernel(r) /\ b \in CurGrid(r) /\ epoch[r] < plan.ops /\ CurBlocks(r) = CurGrid(r)
      /\ CurGrid(r) \subseteq Blocks /\ ~Finished(r) /\ PlaceInv(r, b)
  BY KernelWords, ActiveBlock
<1>2. /\ Cur(r)' = Cur(r) /\ CurSize(r)' = CurSize(r) /\ CurGrid(r)' = CurGrid(r)
      /\ PipeCur(r)' = PipeCur(r) /\ CurBlocks(r)' = CurBlocks(r)
  BY CurFrame
<1>3. /\ \A s : IsPipe(s)' = IsPipe(s) /\ packs(s)' = packs(s)
  BY PlanFrame
<1>4. /\ \A d : Staged(r, d)' = Staged(r, d)
      /\ \A s : Record(r, s)' = Record(r, s) /\ Launched(r, s)' = Launched(r, s)
      /\ Record(r, Cur(r))' = Record(r, Cur(r))
  BY <1>2, <1>3 DEF Staged, Record, Launched, IsPipe, packs
<1>5. ~(error'[r] = 0 /\ Finished(r)')
  BY DEF Finished
<1>6. RungInv(r)'
  BY <1>1, <1>2, <1>4, <1>5 DEF RankKernel, RungInv
<1>7. ASSUME NEW d \in Blocks PROVE PlaceInv(r, d)'
  <2>1. PlaceInv(r, d)
    BY <1>1 DEF RankKernel
  <2>2. CASE d = b
    BY <1>1, <1>2, <1>5, <2>1, <2>2 DEF PlaceInv, OneShotPlaces
  <2>3. CASE d # b
    <3>1. pc'[r][d] # "release"
      BY <1>1, <2>1, <2>3 DEF PlaceInv, OneShotPlaces
    <3> QED
      BY <1>1, <1>2, <1>5, <2>1, <2>3, <3>1 DEF PlaceInv
  <2> QED
    BY <2>2, <2>3
<1>8. Counted(r)' = Counted(r)
  BY <1>1, <1>2, <1>4 DEF Counted
<1>9. OneShotInv(r)'
  <2>1. ASSUME NEW d \in Blocks PROVE StagedInv(r, d)'
    <3>1. StagedInv(r, d)
      BY <1>1 DEF RankKernel, OneShotInv
    <3>2. CASE d = b
      BY <1>2, <1>4, <1>8, <3>1, <3>2 DEF StagedInv, OneShotPlaces
    <3>3. CASE d # b
      BY <1>2, <1>4, <1>8, <3>1, <3>3 DEF StagedInv
    <3> QED
      BY <3>2, <3>3
  <2>2. error'[r] = 0 => Retired(r)' = Retired(r)
    BY <1>1, <1>2 DEF Retired
  <2>3. Counted(r)' = CurGrid(r)' =>
          seq'[r] = Cur(r)' \/ \E d \in Blocks : pc'[r][d] = "ring"
    BY <1>1, <1>2, <1>8 DEF RankKernel, OneShotInv
  <2> QED
    BY <1>1, <1>2, <1>4, <1>8, <2>1, <2>2, <2>3 DEF RankKernel, OneShotInv
<1>10. CounterInv(r)'
  <2>1. error'[r] = 0 => Retired(r)' = Retired(r)
    BY <1>1, <1>2 DEF Retired
  <2>2. MixedCounts(stage, r, Counted(r))'
    BY <1>1, <1>2, <1>8 DEF RankKernel, CounterInv, MixedCounts
  <2>3. error'[r] = 0 => MixedCounts(tail, r, Retired(r))'
    BY <1>1, <1>2, <2>1 DEF RankKernel, CounterInv, MixedCounts
  <2> QED
    BY <2>2, <2>3 DEF CounterInv
<1>11. PipeInv(r)' /\ ReadyInv(r)'
  BY <1>1, <1>5, PipeQuiet
<1> QED
  BY <1>6, <1>7, <1>9, <1>10, <1>11 DEF RankKernel

LEMMA KStartBlock ==
    ASSUME KernelLayer, plan' = plan, NEW r \in Ranks, NEW b \in Blocks,
           ~IsPipe(Succ(epoch[r])), StartBlock(r, b), UNCHANGED pipe
    PROVE  KernelLayer'
<1>1. pc[r][b] = "start" /\ ~PipeCur(r)
  BY DEF StartBlock, PipeCur
<1>2. /\ Succ(epoch[r]) = Cur(r) /\ Cur(r) \in Seqs /\ b \in CurBlocks(r) /\ Cur(r) # 0
      /\ Cur(r) \in Nat
  BY <1>1, ActiveBlock, KernelWords
<1> DEFINE w == IF poison[r] # 0 THEN "done" ELSE "stage"
<1>3. /\ op' = [op EXCEPT ![r][b] = Cur(r)] /\ UNCHANGED <<error, poison>> /\ Goto(r, b, w)
      /\ UNCHANGED <<epoch, stage, tail, seq, nbytes, send, stored>>
      /\ UNCHANGED <<kind, pipe_send, ready, arrived, pipe_tail, chunk>>
  BY <1>2 DEF StartBlock, pipe
<1>4. w \in {"done", "start"} \cup OneShotPlaces \cup PipePlaces
  BY DEF OneShotPlaces
<1>5. /\ pc' \in [Ranks -> [Blocks -> {"done", "start"} \cup OneShotPlaces \cup PipePlaces]]
      /\ pc'[r][b] = w
      /\ \A q \in Ranks \ {r} : pc'[q] = pc[q]
      /\ \A d \in Blocks \ {b} : pc'[r][d] = pc[r][d]
  BY <1>3, <1>4, MoveFacts DEF KernelLayer
<1>6. /\ op' \in [Ranks -> [Blocks -> Seqs]] /\ op'[r][b] = Cur(r)
      /\ \A q \in Ranks \ {r} : op'[q] = op[q]
      /\ \A d \in Blocks \ {b} : op'[r][d] = op[r][d]
  BY <1>2, <1>3 DEF KernelLayer, KernelTypes
<1>7. KernelTypes'
  BY <1>3, <1>5, <1>6 DEF KernelLayer, KernelTypes
<1>8. \A q \in Ranks \ {r} : Still(q)
  BY <1>3, <1>5, <1>6 DEF Still
<1>9. error[r] = poison[r] /\ StagedInv(r, b)
  BY <1>1, KernelWords DEF RankKernel, RungInv, OneShotInv
<1>10. pc'[r][b] \in {"done", "stage", "reduce", "tail"} /\ pc[r][b] \notin {"arrive", "ring", "done"}
  BY <1>1, <1>5
<1>11. pc'[r][b] = "done" => error'[r] # 0
  BY <1>3, <1>5, <1>9
<1>12. pc'[r][b] = "stage" => ~Staged(r, b)
  BY <1>1, <1>5, <1>9 DEF StagedInv
<1>13. pc'[r][b] \notin {"reduce", "tail"}
  BY <1>5
<1>14. RankKernel(r)'
  BY <1>1, <1>3, <1>5, <1>6, <1>9, <1>10, <1>11, <1>12, <1>13, OneShotMove
<1> QED
  BY <1>7, <1>8, <1>14, KernelOf

\* The facts on a block of a one-shot kernel.
LEMMA OneShotBlockFacts ==
    ASSUME KernelLayer, NEW r \in Ranks, NEW b \in Blocks,
           pc[r][b] \notin {"done", "start"}, ~IsPipe(op[r][b])
    PROVE  /\ op[r][b] = Cur(r) /\ ~PipeCur(r) /\ Cur(r) \in Seqs /\ ~Finished(r)
           /\ b \in CurGrid(r) /\ CurGrid(r) \subseteq Blocks /\ StagedInv(r, b)
           /\ RankKernel(r) /\ error[r] = poison[r] /\ CurSize(r) = Grid[Cur(r)]
           /\ epoch[r] < plan.ops /\ Cur(r) \in Nat \ {0}
<1>1. op[r][b] = Cur(r) /\ Cur(r) \in Seqs /\ b \in CurBlocks(r) /\ ~Finished(r)
      /\ (PipeCur(r) <=> IsPipe(Cur(r))) /\ epoch[r] < plan.ops /\ CurSize(r) = Grid[Cur(r)]
  BY ActiveBlock
<1>2. ~PipeCur(r) /\ RankKernel(r) /\ CurBlocks(r) = CurGrid(r) /\ CurGrid(r) \subseteq Blocks
      /\ Cur(r) \in Nat \ {0}
  BY <1>1, KernelWords
<1> QED
  BY <1>1, <1>2 DEF RankKernel, RungInv, OneShotInv

LEMMA KWait ==
    ASSUME KernelLayer, plan' = plan, NEW r \in Ranks, NEW b \in Blocks,
           ~IsPipe(op[r][b]), Wait(r, b), UNCHANGED pipe
    PROVE  KernelLayer'
<1> DEFINE w == IF poison[r] = 0 THEN "reduce" ELSE "tail"
<1>1. /\ pc[r][b] = "wait" /\ Goto(r, b, w)
      /\ UNCHANGED <<epoch, poison, stage, tail, seq, nbytes, error, send, op, stored>>
      /\ UNCHANGED <<kind, pipe_send, ready, arrived, pipe_tail, chunk>>
  BY DEF Wait, pipe, device, region
<1>2. w \in {"done", "start"} \cup OneShotPlaces \cup PipePlaces
  BY DEF OneShotPlaces
<1>3. /\ pc' \in [Ranks -> [Blocks -> {"done", "start"} \cup OneShotPlaces \cup PipePlaces]]
      /\ pc'[r][b] = w
      /\ \A q \in Ranks \ {r} : pc'[q] = pc[q]
      /\ \A d \in Blocks \ {b} : pc'[r][d] = pc[r][d]
  BY <1>1, <1>2, MoveFacts DEF KernelLayer
<1>4. KernelTypes'
  BY <1>1, <1>3 DEF KernelLayer, KernelTypes
<1>5. \A q \in Ranks \ {r} : Still(q)
  BY <1>1, <1>3 DEF Still
<1>6. op[r][b] = Cur(r) /\ ~PipeCur(r) /\ StagedInv(r, b) /\ error[r] = poison[r]
  BY <1>1, OneShotBlockFacts
<1>7. Staged(r, b) /\ pc'[r][b] \in {"reduce", "tail"}
  BY <1>1, <1>3, <1>6 DEF StagedInv, OneShotPlaces
<1>8. pc[r][b] \notin {"arrive", "ring", "done"} /\ pc'[r][b] \in {"done", "stage", "reduce", "tail"}
      /\ pc'[r][b] \notin {"done", "stage"}
  BY <1>1, <1>7
<1>9. RankKernel(r)'
  BY <1>1, <1>3, <1>6, <1>7, <1>8, OneShotMove
<1> QED
  BY <1>4, <1>5, <1>9, KernelOf

LEMMA KReduce ==
    ASSUME KernelLayer, plan' = plan, NEW r \in Ranks, NEW b \in Blocks,
           ~IsPipe(op[r][b]), Reduce(r, b), UNCHANGED pipe
    PROVE  KernelLayer'
<1>1. /\ pc[r][b] = "reduce" /\ Goto(r, b, "tail")
      /\ stored' = [stored EXCEPT ![r] = @ \cup {b}]
      /\ UNCHANGED <<epoch, poison, stage, tail, seq, nbytes, error, send, op>>
      /\ UNCHANGED <<kind, pipe_send, ready, arrived, pipe_tail, chunk>>
  BY DEF Reduce, pipe, device, region
<1>2. /\ pc' \in [Ranks -> [Blocks -> {"done", "start"} \cup OneShotPlaces \cup PipePlaces]]
      /\ pc'[r][b] = "tail"
      /\ \A q \in Ranks \ {r} : pc'[q] = pc[q]
      /\ \A d \in Blocks \ {b} : pc'[r][d] = pc[r][d]
  BY <1>1, MoveFacts DEF KernelLayer, OneShotPlaces
<1>3. KernelTypes'
  BY <1>1, <1>2 DEF KernelLayer, KernelTypes
<1>4. \A q \in Ranks \ {r} : Still(q)
  BY <1>1, <1>2 DEF Still, KernelLayer, KernelTypes
<1>5. op[r][b] = Cur(r) /\ ~PipeCur(r) /\ StagedInv(r, b) /\ error[r] = poison[r]
  BY <1>1, OneShotBlockFacts
<1>6. Staged(r, b)
  BY <1>1, <1>5 DEF StagedInv, OneShotPlaces
<1>7. pc[r][b] \notin {"arrive", "ring", "done"} /\ pc'[r][b] \in {"done", "stage", "reduce", "tail"}
      /\ pc'[r][b] \notin {"done", "stage"}
  BY <1>1, <1>2
<1>8. RankKernel(r)'
  BY <1>1, <1>2, <1>5, <1>6, <1>7, OneShotMove
<1> QED
  BY <1>3, <1>4, <1>8, KernelOf

LEMMA KTimeOut ==
    ASSUME KernelLayer, plan' = plan, NEW r \in Ranks, NEW b \in Blocks,
           ~IsPipe(op[r][b]), TimeOut(r, b), UNCHANGED pipe
    PROVE  KernelLayer'
<1>1. /\ pc[r][b] = "wait" /\ Goto(r, b, "tail")
      /\ error' = [error EXCEPT ![r] = op[r][b]]
      /\ poison' = [poison EXCEPT ![r] = op[r][b]]
      /\ UNCHANGED <<epoch, stage, tail, seq, nbytes, send, op, stored>>
      /\ UNCHANGED <<kind, pipe_send, ready, arrived, pipe_tail, chunk>>
  BY DEF TimeOut, Report, pipe
<1>2. /\ pc' \in [Ranks -> [Blocks -> {"done", "start"} \cup OneShotPlaces \cup PipePlaces]]
      /\ pc'[r][b] = "tail"
      /\ \A q \in Ranks \ {r} : pc'[q] = pc[q]
      /\ \A d \in Blocks \ {b} : pc'[r][d] = pc[r][d]
  BY <1>1, MoveFacts DEF KernelLayer, OneShotPlaces
<1>3. /\ op[r][b] = Cur(r) /\ ~PipeCur(r) /\ StagedInv(r, b) /\ Cur(r) \in Seqs
      /\ Cur(r) # 0
  BY <1>1, OneShotBlockFacts
<1>4. /\ error' \in [Ranks -> Seqs] /\ poison' \in [Ranks -> Seqs]
      /\ error'[r] = Cur(r) /\ poison'[r] = Cur(r)
      /\ \A q \in Ranks \ {r} : error'[q] = error[q] /\ poison'[q] = poison[q]
  BY <1>1, <1>3 DEF KernelLayer, KernelTypes
<1>5. KernelTypes'
  BY <1>1, <1>2, <1>4 DEF KernelLayer, KernelTypes
<1>6. \A q \in Ranks \ {r} : Still(q)
  BY <1>1, <1>2, <1>4 DEF Still
<1>7. Staged(r, b)
  BY <1>1, <1>3 DEF StagedInv, OneShotPlaces
<1>8. pc[r][b] \notin {"arrive", "ring", "done"} /\ pc'[r][b] \in {"done", "stage", "reduce", "tail"}
      /\ pc'[r][b] \notin {"done", "stage"}
  BY <1>1, <1>2
<1>9. RankKernel(r)'
  BY <1>1, <1>2, <1>3, <1>4, <1>7, <1>8, OneShotMove
<1> QED
  BY <1>5, <1>6, <1>9, KernelOf

-----------------------------------------------------------------------------
(* The first layer: the launches. *)

\* The blocks of a launched kernel are at its start.
LEMMA LaunchBlocks ==
    ASSUME KernelLayer, plan' = plan, NEW r \in Ranks, Finished(r), poison[r] = 0,
           epoch[r] < plan.ops,
           \A b \in Blocks : pc'[r][b] = IF b \in CurBlocks(r) THEN "start" ELSE "done",
           stored'[r] = {}, epoch'[r] = epoch[r], poison'[r] = poison[r],
           stage'[r] = stage[r], tail'[r] = tail[r], seq'[r] = seq[r],
           nbytes'[r] = nbytes[r], error'[r] = error[r], send'[r] = send[r],
           kind'[r] = kind[r], ready'[r] = ready[r], arrived'[r] = arrived[r],
           pipe_tail'[r] = pipe_tail[r]
    PROVE  RankKernel(r)'
<1>1. /\ RankKernel(r) /\ plan \in Plans /\ CurBlocks(r) \subseteq Blocks /\ 1 \in CurBlocks(r)
      /\ CurGrid(r) \subseteq Blocks /\ 1 \in CurGrid(r) /\ 1 \in PipeBlocks
      /\ PipeBlocks \subseteq Blocks /\ CurSize(r) \in Nat \ {0}
      /\ (PipeCur(r) => CurBlocks(r) = PipeBlocks)
      /\ (~PipeCur(r) => CurBlocks(r) = CurGrid(r))
      /\ epoch[r] \in Nat /\ Cur(r) = epoch[r] + 1 /\ plan.pipe_blocks \in Nat \ {0}
  BY KernelWords, PlanFacts
<1>2. error[r] = 0 /\ seq[r] = epoch[r]
  BY <1>1 DEF RankKernel, RungInv
<1>3. /\ Cur(r)' = Cur(r) /\ CurSize(r)' = CurSize(r) /\ CurGrid(r)' = CurGrid(r)
      /\ PipeCur(r)' = PipeCur(r) /\ CurBlocks(r)' = CurBlocks(r)
  BY CurFrame
<1>4. /\ \A s : IsPipe(s)' = IsPipe(s) /\ packs(s)' = packs(s) /\ chunks(s)' = chunks(s)
      /\ PipeBlocks' = PipeBlocks
  BY PlanFrame
<1>5. /\ \A d : Staged(r, d)' = Staged(r, d)
      /\ \A s : Record(r, s)' = Record(r, s) /\ Launched(r, s)' = Launched(r, s)
  BY <1>3, <1>4 DEF Staged, Record, Launched
<1>6. ~Finished(r)' /\ \A d \in Blocks : pc'[r][d] \in {"start", "done"}
  BY <1>1 DEF Finished
<1>7. \A d \in Blocks : ~Staged(r, d)
  BY <1>1, <1>2 DEF RankKernel, PlaceInv
<1>8. RungInv(r)'
  BY <1>1, <1>2, <1>3, <1>5, <1>6 DEF RankKernel, RungInv
<1>9. ASSUME NEW d \in Blocks PROVE PlaceInv(r, d)'
  <2>1. PlaceInv(r, d)
    BY <1>1 DEF RankKernel
  <2>2. pc'[r][d] # "done" => d \in CurBlocks(r)
    OBVIOUS
  <2>3. pc'[r][d] \in {"start", "done"} /\ pc'[r][d] \notin LoopPlaces
    BY <1>6 DEF LoopPlaces
  <2> QED
    BY <1>3, <1>6, <2>1, <2>2, <2>3 DEF PlaceInv
<1>10. Counted(r) = {} /\ Counted(r)' = {}
  BY <1>1, <1>3, <1>5, <1>7 DEF Counted
<1>11. OneShotInv(r)'
  <2>1. ASSUME NEW d \in Blocks PROVE StagedInv(r, d)'
    BY <1>5, <1>6, <1>7 DEF StagedInv, OneShotPlaces
  <2>2. seq'[r] # Cur(r)' /\ Counted(r)' # CurGrid(r)'
    BY <1>1, <1>2, <1>3, <1>10
  <2>3. ~PipeCur(r) => Retired(r)' = {}
    BY <1>1, <1>3 DEF Retired
  <2> QED
    BY <1>3, <2>1, <2>2, <2>3 DEF OneShotInv
<1>12. CounterInv(r)'
  <2>1. MixedCounts(stage, r, Counted(r))'
    BY <1>1, <1>3, <1>10 DEF RankKernel, CounterInv, MixedCounts
  <2>2. MixedCounts(tail, r, Retired(r))
    BY <1>1, <1>2 DEF RankKernel, CounterInv
  <2>3. CASE PipeCur(r)
    <3>1. MixedCounts(tail, r, Retired(r))'
      BY <1>3, <2>2, <2>3 DEF MixedCounts
    <3> QED
      BY <2>1, <3>1 DEF CounterInv
  <2>4. CASE ~PipeCur(r)
    <3>1. Retired(r) = CurGrid(r) /\ Retired(r)' = {}
      BY <1>1, <1>3, <2>4 DEF Retired, Finished
    <3>2. Cardinality(Retired(r)) = CurSize(r) /\ Cardinality(Retired(r)') = 0
      <4>1. \A n \in Nat \ {0} : Cardinality(1 .. n) = n
        BY FS_Interval
      <4>2. CurGrid(r) = 1 .. CurSize(r)
        BY DEF CurGrid
      <4> QED
        BY <1>1, <3>1, <4>1, <4>2, FS_EmptySet
    <3>3. CurSize(r) % CurSize(r) = 0 /\ 0 % CurSize(r) = 0
      BY <1>1, ModSelf
    <3>4. MixedCounts(tail, r, Retired(r))'
      BY <1>3, <2>2, <2>4, <3>2, <3>3 DEF MixedCounts
    <3> QED
      BY <2>1, <3>4 DEF CounterInv
  <2> QED
    BY <2>3, <2>4
<1>13. PipeInv(r)'
  <2>1. /\ \A ph \in Phases, c \in Chunks : arrived[r][ph][c] = 0
        /\ pipe_tail[r] = 0
    BY <1>1, <1>2 DEF RankKernel, PipeInv, Working
  <2>2. CASE ~PipeCur(r)
    <3>1. ~Working(r)' /\ ~Finished(r)'
      BY <1>3, <1>6, <2>2 DEF Working
    <3> QED
      BY <2>1, <3>1 DEF PipeInv
  <2>3. CASE PipeCur(r)
    <3>1. \A d \in PipeBlocks : pc'[r][d] = "start"
      BY <1>1, <2>3
    <3>2. /\ \A ph \in Phases, c \in Chunks : Past(r, ph, c)' = {}
          /\ Left(r)' = {}
          /\ \A d \in PipeBlocks : \A ph, c : ~Beyond(r, d, ph, c)' /\ ~Copied(r, d, c)'
      BY <1>4, <3>1 DEF Past, Left, Beyond, Copied
    <3>3. Cardinality({}) % plan.pipe_blocks = 0
      BY <1>1, FS_EmptySet
    <3>4. \A d \in PipeBlocks : \A c : ShareInv(r, d, c)'
      BY <3>2 DEF ShareInv
    <3>5. pc'[r][1] = "start"
      BY <1>1, <3>1
    <3> QED
      BY ZenonT(30), <1>4, <1>6, <2>1, <3>2, <3>3, <3>4, <3>5 DEF PipeInv
  <2> QED
    BY <2>2, <2>3
<1>14. ReadyInv(r)'
  <2>1. \A ph \in Phases, c \in Chunks : ready[r][ph][c] <= Cur(r) /\ ready[r][ph][c] # Cur(r)
    BY <1>1, <1>2 DEF RankKernel, ReadyInv
  <2> QED
    BY <1>3, <2>1 DEF ReadyInv
<1> QED
  BY <1>8, <1>9, <1>11, <1>12, <1>13, <1>14 DEF RankKernel

LEMMA KLaunch ==
    ASSUME KernelLayer, plan' = plan, NEW r \in Ranks, epoch[r] < plan.ops, poison[r] = 0,
           \/ PipeLaunch(r)
           \/ ~IsPipe(Succ(epoch[r])) /\ Launch(r) /\ UNCHANGED pipe
    PROVE  KernelLayer'
<1>1. /\ Finished(r) /\ stored' = [stored EXCEPT ![r] = {}]
      /\ UNCHANGED <<epoch, poison, stage, tail, seq, nbytes, error, send, op>>
      /\ UNCHANGED <<kind, pipe_send, ready, arrived, pipe_tail, chunk>>
  BY DEF PipeLaunch, Launch, device, region, pipe
<1>2. /\ CurBlocks(r) \subseteq Blocks /\ CurSize(r) \in Nat /\ plan.pipe_blocks \in Nat
      /\ Blocks \subseteq Nat /\ \A b \in Blocks : b >= 1
  BY KernelWords, PlanFacts DEF Blocks
<1>3. pc' = [pc EXCEPT ![r] = [b \in Blocks |-> IF b \in CurBlocks(r) THEN "start" ELSE "done"]]
  <2>1. CASE PipeLaunch(r)
    <3>1. PipeCur(r)
      BY <2>1 DEF PipeLaunch, PipeCur
    <3>2. \A b \in Blocks : b <= plan.pipe_blocks <=> b \in CurBlocks(r)
      <4>1. CurBlocks(r) = 1 .. plan.pipe_blocks
        BY <3>1 DEF CurBlocks
      <4>2. \A n \in Nat : \A b \in Nat : b >= 1 => (b <= n <=> b \in 1 .. n)
        OBVIOUS
      <4> QED
        BY <1>2, <4>1, <4>2
    <3> QED
      BY <2>1, <3>2 DEF PipeLaunch
  <2>2. CASE ~IsPipe(Succ(epoch[r])) /\ Launch(r)
    <3>1. ~PipeCur(r)
      BY <2>2 DEF PipeCur
    <3>2. \A b \in Blocks : b <= CurSize(r) <=> b \in CurBlocks(r)
      <4>1. CurBlocks(r) = 1 .. CurSize(r)
        BY <3>1 DEF CurBlocks, CurGrid
      <4>2. \A n \in Nat : \A b \in Nat : b >= 1 => (b <= n <=> b \in 1 .. n)
        OBVIOUS
      <4> QED
        BY <1>2, <4>1, <4>2
    <3> QED
      BY <2>2, <3>2 DEF Launch, CurSize
  <2> QED
    BY <2>1, <2>2
<1>4. /\ pc' \in [Ranks -> [Blocks -> {"done", "start"} \cup OneShotPlaces \cup PipePlaces]]
      /\ \A b \in Blocks : pc'[r][b] = IF b \in CurBlocks(r) THEN "start" ELSE "done"
      /\ \A q \in Ranks \ {r} : pc'[q] = pc[q]
      /\ DOMAIN stored' = Ranks /\ stored'[r] = {}
      /\ \A q \in Ranks \ {r} : stored'[q] = stored[q]
  BY <1>1, <1>3 DEF KernelLayer, KernelTypes
<1>5. KernelTypes'
  BY <1>1, <1>4 DEF KernelLayer, KernelTypes
<1>6. \A q \in Ranks \ {r} : Still(q)
  BY <1>1, <1>4 DEF Still
<1>7. RankKernel(r)'
  BY <1>1, <1>4, LaunchBlocks
<1> QED
  BY <1>5, <1>6, <1>7, KernelOf

-----------------------------------------------------------------------------
(* The first layer: a one-shot kernel stages, counts and rings. *)

\* Until its last block is counted, an operation has not rung.
LEMMA NotYetRung ==
    ASSUME KernelLayer, NEW r \in Ranks, ~PipeCur(r), NEW b \in CurGrid(r), b \notin Counted(r)
    PROVE  /\ seq[r] = epoch[r] /\ seq[r] # Cur(r)
           /\ \A c \in Blocks : pc[r][c] # "ring"
           /\ \A s \in epoch[r] .. seq[r] : s = epoch[r]
<1>1. RungInv(r) /\ OneShotInv(r) /\ Counted(r) # CurGrid(r) /\ epoch[r] \in Nat
  BY KernelWords DEF RankKernel
<1> QED
  BY <1>1 DEF RungInv, OneShotInv, StagedInv

LEMMA KStage ==
    ASSUME KernelLayer, plan' = plan, NEW r \in Ranks, NEW b \in Blocks,
           ~IsPipe(op[r][b]), Stage(r, b), UNCHANGED pipe
    PROVE  KernelLayer'
<1> DEFINE k == SlotOf(Cur(r))
<1>1. /\ pc[r][b] = "stage" /\ Goto(r, b, "arrive")
      /\ send' = [send EXCEPT ![r][SlotOf(op[r][b])][b] = op[r][b]]
      /\ UNCHANGED <<epoch, poison, stage, tail, seq, nbytes, error, op, stored>>
      /\ UNCHANGED <<kind, pipe_send, ready, arrived, pipe_tail, chunk>>
  BY DEF Stage, pipe, device
<1>2. /\ pc' \in [Ranks -> [Blocks -> {"done", "start"} \cup OneShotPlaces \cup PipePlaces]]
      /\ pc'[r][b] = "arrive"
      /\ \A q \in Ranks \ {r} : pc'[q] = pc[q]
      /\ \A d \in Blocks \ {b} : pc'[r][d] = pc[r][d]
  BY <1>1, MoveFacts DEF KernelLayer, OneShotPlaces
<1>3. /\ op[r][b] = Cur(r) /\ ~PipeCur(r) /\ StagedInv(r, b) /\ Cur(r) \in Seqs
      /\ b \in CurGrid(r) /\ CurGrid(r) \subseteq Blocks /\ RankKernel(r) /\ epoch[r] < plan.ops
      /\ Cur(r) \in Nat
  BY <1>1, OneShotBlockFacts
<1>4. k \in SlotIds /\ SlotOf(epoch[r]) # k /\ CurBlocks(r) = CurGrid(r) /\ SlotOf(epoch[r]) \in SlotIds
  BY <1>3, KernelWords
<1>5. /\ send' \in [Ranks -> [SlotIds -> [Blocks -> Seqs]]]
      /\ send'[r][k][b] = Cur(r)
      /\ \A q \in Ranks \ {r} : send'[q] = send[q]
      /\ \A c \in Blocks \ {b} : send'[r][k][c] = send[r][k][c]
      /\ \A j \in SlotIds \ {k} : send'[r][j] = send[r][j]
  BY <1>1, <1>3, <1>4 DEF KernelLayer, KernelTypes
<1> HIDE DEF k
<1>6. KernelTypes'
  BY <1>1, <1>2, <1>5 DEF KernelLayer, KernelTypes
<1>7. \A q \in Ranks \ {r} : Still(q)
  BY <1>1, <1>2, <1>5 DEF Still
<1>8. ~Staged(r, b) /\ b \notin Counted(r)
  BY <1>1, <1>3 DEF StagedInv, Counted
<1>9. /\ seq[r] = epoch[r] /\ seq[r] # Cur(r)
      /\ \A c \in Blocks : pc[r][c] # "ring"
      /\ \A s \in epoch[r] .. seq[r] : s = epoch[r]
  BY <1>3, <1>8, NotYetRung
<1>10. /\ Cur(r)' = Cur(r) /\ CurSize(r)' = CurSize(r) /\ CurGrid(r)' = CurGrid(r)
       /\ PipeCur(r)' = PipeCur(r) /\ CurBlocks(r)' = CurBlocks(r)
  BY <1>1, CurFrame
<1>11. Staged(r, b)' /\ \A c \in Blocks \ {b} : Staged(r, c)' = Staged(r, c)
  BY <1>5, <1>10 DEF Staged, k
<1>12. Counted(r)' = Counted(r)
  BY <1>2, <1>3, <1>8, <1>10, <1>11 DEF Counted
<1>13. ~Finished(r) /\ ~Finished(r)'
  BY <1>1, <1>2 DEF Finished
<1>14. RungInv(r)'
  <2>1. ASSUME NEW s \in epoch[r] .. seq[r], s > 0 PROVE Launched(r, s)'
    <3>1. s = epoch[r] /\ SlotOf(s) # k /\ SlotOf(s) \in SlotIds /\ Launched(r, s)
      BY <1>3, <1>4, <1>9, <2>1 DEF RankKernel, RungInv
    <3> QED
      BY <1>1, <1>5, <3>1, PlanFrame DEF Launched, Record
  <2> QED
    BY <1>1, <1>3, <1>10, <1>13, <2>1 DEF RankKernel, RungInv
<1>15. ASSUME NEW c \in Blocks PROVE PlaceInv(r, c)'
  <2>1. PlaceInv(r, c)
    BY <1>3 DEF RankKernel
  <2>2. \A j \in SlotIds : send'[r][j][c] <= Cur(r)'
    BY <1>3, <1>4, <1>5, <1>10, <2>1 DEF PlaceInv
  <2>3. CASE c = b
    BY <1>1, <1>2, <1>3, <1>4, <1>10, <1>13, <2>1, <2>2, <2>3 DEF PlaceInv, OneShotPlaces
  <2>4. CASE c # b
    <3>1. pc'[r][c] # "release"
      BY <1>2, <1>3, <2>1, <2>4 DEF PlaceInv, OneShotPlaces
    <3> QED
      BY <1>1, <1>2, <1>3, <1>4, <1>10, <1>13, <2>1, <2>2, <2>4, <3>1 DEF PlaceInv
  <2> QED
    BY <2>3, <2>4
<1>16. OneShotInv(r)'
  <2>1. OneShotInv(r) /\ \A c \in Blocks : StagedInv(r, c)
    BY <1>3 DEF RankKernel, OneShotInv
  <2>2. ASSUME NEW c \in Blocks PROVE StagedInv(r, c)'
    <3>1. CASE c = b
      BY <1>2, <1>11, <3>1 DEF StagedInv
    <3>2. CASE c # b
      BY <1>1, <1>2, <1>9, <1>11, <2>1, <3>2 DEF StagedInv
    <3> QED
      BY <3>1, <3>2
  <2>3. Retired(r)' = Retired(r) /\ \A c \in Retired(r) : c \in Blocks \ {b}
    BY <1>1, <1>2, <1>3, <1>10 DEF Retired
  <2>4. error[r] = 0 => \A c \in Retired(r) : Staged(r, c)
    BY <1>3, <1>13, <2>1 DEF OneShotInv
  <2>5. seq'[r] # Cur(r)' /\ Counted(r)' # CurGrid(r)'
    BY <1>1, <1>3, <1>8, <1>9, <1>10, <1>12
  <2>6. error'[r] = 0 => \A c \in Retired(r)' : Staged(r, c)'
    BY <1>1, <1>11, <2>3, <2>4
  <2> QED
    BY <2>2, <2>5, <2>6 DEF OneShotInv
<1>17. CounterInv(r)'
  <2>1. Retired(r)' = Retired(r)
    BY <1>1, <1>2, <1>3, <1>10 DEF Retired
  <2> QED
    BY <1>1, <1>3, <1>10, <1>12, <2>1 DEF RankKernel, CounterInv, MixedCounts
<1>18. PipeInv(r)' /\ ReadyInv(r)'
  BY <1>1, <1>3, <1>13, PipeQuiet
<1>19. RankKernel(r)'
  BY <1>14, <1>15, <1>16, <1>17, <1>18 DEF RankKernel
<1> QED
  BY <1>6, <1>7, <1>19, KernelOf

LEMMA KArrive ==
    ASSUME KernelLayer, plan' = plan, NEW r \in Ranks, NEW b \in Blocks,
           ~IsPipe(op[r][b]), Arrive(r, b), OneShotRecord(r, b),
           UNCHANGED <<restOfPipe, cur, posted, piece>>
    PROVE  KernelLayer'
<1> DEFINE k == SlotOf(Cur(r))
           last == IsLast(stage, r, CurSize(r))
           w == IF last THEN "ring" ELSE "wait"
<1>1. pc[r][b] = "arrive"
  BY DEF Arrive
<1>2. /\ op[r][b] = Cur(r) /\ ~PipeCur(r) /\ StagedInv(r, b) /\ Cur(r) \in Seqs
      /\ b \in CurGrid(r) /\ CurGrid(r) \subseteq Blocks /\ RankKernel(r) /\ epoch[r] < plan.ops
      /\ Cur(r) \in Nat /\ CurSize(r) = Grid[Cur(r)] /\ ~IsPipe(Cur(r))
  BY <1>1, OneShotBlockFacts
<1>3. /\ k \in SlotIds /\ SlotOf(epoch[r]) # k /\ CurBlocks(r) = CurGrid(r)
      /\ SlotOf(epoch[r]) \in SlotIds /\ CurSize(r) \in Nat
  BY <1>2, KernelWords
<1>4. /\ stage' = Arrival(stage, r, CurSize(r)) /\ Goto(r, b, w)
      /\ nbytes' = IF last THEN [nbytes EXCEPT ![r][k] = CurSize(r)] ELSE nbytes
      /\ kind' = IF last THEN [kind EXCEPT ![r][k] = 0] ELSE kind
      /\ UNCHANGED <<epoch, poison, tail, seq, error, send, op, stored>>
      /\ UNCHANGED <<pipe_send, ready, arrived, pipe_tail, chunk>>
  BY <1>2 DEF Arrive, OneShotRecord, restOfPipe
<1>5. /\ pc' \in [Ranks -> [Blocks -> {"done", "start"} \cup OneShotPlaces \cup PipePlaces]]
      /\ pc'[r][b] = w
      /\ \A q \in Ranks \ {r} : pc'[q] = pc[q]
      /\ \A d \in Blocks \ {b} : pc'[r][d] = pc[r][d]
  <2>1. w \in {"done", "start"} \cup OneShotPlaces \cup PipePlaces
    BY DEF OneShotPlaces
  <2> QED
    BY <1>4, <2>1, MoveFacts DEF KernelLayer
<1>6. Staged(r, b) /\ b \notin Counted(r)
  BY <1>1, <1>2 DEF StagedInv, OneShotPlaces, Counted
<1>7. /\ last <=> Counted(r) \cup {b} = CurGrid(r)
      /\ stage' \in [Ranks -> [Blocks -> 0 .. MaxBlocks - 1]]
      /\ \A q \in Ranks \ {r} : stage'[q] = stage[q]
      /\ MixedCounts(stage', r, Counted(r) \cup {b})
  <2>1. /\ stage \in [Ranks -> [Blocks -> 0 .. MaxBlocks - 1]]
        /\ MixedCounts(stage, r, Counted(r)) /\ Counted(r) \in SUBSET CurGrid(r)
    BY <1>2 DEF KernelLayer, KernelTypes, RankKernel, CounterInv, Counted
  <2> DEFINE next == Arrival(stage, r, CurSize(r))
  <2>2. /\ last <=> Counted(r) \cup {b} = CurGrid(r)
        /\ next \in [Ranks -> [Blocks -> 0 .. MaxBlocks - 1]]
        /\ \A q \in Ranks \ {r} : next[q] = stage[q]
        /\ MixedCounts(next, r, Counted(r) \cup {b})
    BY <1>2, <1>6, <2>1, MixedArrivals
  <2>3. stage' = next
    BY <1>4
  <2> QED
    BY <2>2, <2>3 DEF MixedCounts
<1> HIDE DEF last, k
<1>8. /\ nbytes' \in [Ranks -> [SlotIds -> Nat]] /\ kind' \in [Ranks -> [SlotIds -> {0, 1}]]
      /\ last => nbytes'[r][k] = CurSize(r) /\ kind'[r][k] = 0
      /\ \A q \in Ranks \ {r} : nbytes'[q] = nbytes[q] /\ kind'[q] = kind[q]
      /\ \A j \in SlotIds \ {k} : nbytes'[r][j] = nbytes[r][j] /\ kind'[r][j] = kind[r][j]
  <2>1. nbytes \in [Ranks -> [SlotIds -> Nat]] /\ kind \in [Ranks -> [SlotIds -> {0, 1}]]
    BY DEF KernelLayer, KernelTypes
  <2> QED
    BY <1>3, <1>4, <2>1
<1>9. KernelTypes'
  BY <1>4, <1>5, <1>7, <1>8 DEF KernelLayer, KernelTypes
<1>10. \A q \in Ranks \ {r} : Still(q)
  BY <1>4, <1>5, <1>7, <1>8 DEF Still
<1>11. /\ seq[r] = epoch[r] /\ seq[r] # Cur(r)
       /\ \A c \in Blocks : pc[r][c] # "ring"
       /\ \A s \in epoch[r] .. seq[r] : s = epoch[r]
  BY <1>2, <1>6, NotYetRung
<1>12. /\ Cur(r)' = Cur(r) /\ CurSize(r)' = CurSize(r) /\ CurGrid(r)' = CurGrid(r)
       /\ PipeCur(r)' = PipeCur(r) /\ CurBlocks(r)' = CurBlocks(r)
       /\ \A c : Staged(r, c)' = Staged(r, c)
  <2>1. /\ Cur(r)' = Cur(r) /\ CurSize(r)' = CurSize(r) /\ CurGrid(r)' = CurGrid(r)
        /\ PipeCur(r)' = PipeCur(r) /\ CurBlocks(r)' = CurBlocks(r)
    BY <1>4, CurFrame
  <2> QED
    BY <1>4, <2>1 DEF Staged
<1>13. Counted(r)' = Counted(r) \cup {b} /\ pc'[r][b] \in {"ring", "wait"}
  BY <1>2, <1>5, <1>6, <1>12 DEF Counted
<1>14. ~Finished(r) /\ ~Finished(r)'
  BY <1>1, <1>13 DEF Finished
<1>15. RungInv(r)'
  <2>1. ASSUME NEW s \in epoch[r] .. seq[r], s > 0 PROVE Launched(r, s)'
    <3>1. s = epoch[r] /\ SlotOf(s) # k /\ SlotOf(s) \in SlotIds /\ Launched(r, s)
      BY <1>2, <1>3, <1>11, <2>1 DEF RankKernel, RungInv
    <3> QED
      BY <1>4, <1>8, <3>1, PlanFrame DEF Launched, Record
  <2> QED
    BY <1>2, <1>4, <1>12, <1>14, <2>1 DEF RankKernel, RungInv
<1>16. ASSUME NEW c \in Blocks PROVE PlaceInv(r, c)'
  <2>1. PlaceInv(r, c)
    BY <1>2 DEF RankKernel
  <2>2. CASE c = b
    BY <1>1, <1>2, <1>3, <1>4, <1>12, <1>13, <1>14, <2>1, <2>2 DEF PlaceInv, OneShotPlaces
  <2>3. CASE c # b
    <3>1. pc'[r][c] # "release"
      BY <1>2, <1>5, <2>1, <2>3 DEF PlaceInv, OneShotPlaces
    <3> QED
      BY <1>2, <1>3, <1>4, <1>5, <1>12, <1>14, <2>1, <2>3, <3>1 DEF PlaceInv
  <2> QED
    BY <2>2, <2>3
<1>17. OneShotInv(r)'
  <2>1. OneShotInv(r) /\ \A c \in Blocks : StagedInv(r, c)
    BY <1>2 DEF RankKernel, OneShotInv
  <2>2. ASSUME NEW c \in Blocks PROVE StagedInv(r, c)'
    <3>1. CASE c = b
      <4>1. ASSUME last PROVE Counted(r)' = CurGrid(r)' /\ Record(r, Cur(r))'
        <5>1. nbytes'[r][SlotOf(Cur(r)')] = CurSize(r) /\ kind'[r][SlotOf(Cur(r)')] = 0
          BY <1>8, <1>12, <4>1 DEF k
        <5>2. ~IsPipe(Cur(r))' /\ Grid[Cur(r)'] = CurSize(r)
          BY <1>2, <1>12, PlanFrame
        <5> QED
          BY <1>7, <1>12, <1>13, <4>1, <5>1, <5>2 DEF Record
      <4>2. pc'[r][b] = "ring" => last
        BY <1>5
      <4> QED
        BY <1>6, <1>12, <1>13, <3>1, <4>1, <4>2 DEF StagedInv
    <3>2. CASE c # b
      BY <1>4, <1>5, <1>11, <1>12, <2>1, <3>2 DEF StagedInv
    <3> QED
      BY <3>1, <3>2
  <2>3. Retired(r)' = Retired(r)
    BY <1>1, <1>2, <1>5, <1>12, <1>13 DEF Retired
  <2>4. error[r] = 0 => \A c \in Retired(r) : Staged(r, c)
    BY <1>2, <1>14, <2>1 DEF OneShotInv
  <2>5. seq'[r] # Cur(r)' /\ (Counted(r)' = CurGrid(r)' => pc'[r][b] = "ring")
    BY <1>4, <1>5, <1>7, <1>11, <1>12, <1>13
  <2> QED
    BY <1>4, <1>12, <2>2, <2>3, <2>4, <2>5 DEF OneShotInv
<1>18. CounterInv(r)'
  <2>1. Retired(r)' = Retired(r)
    BY <1>1, <1>2, <1>5, <1>12, <1>13 DEF Retired
  <2>2. MixedCounts(stage, r, Counted(r))'
    BY <1>7, <1>12, <1>13 DEF MixedCounts
  <2>3. error[r] = 0 => MixedCounts(tail, r, Retired(r))'
    BY <1>2, <1>4, <1>12, <2>1 DEF RankKernel, CounterInv, MixedCounts
  <2> QED
    BY <1>4, <2>2, <2>3 DEF CounterInv
<1>19. PipeInv(r)' /\ ReadyInv(r)'
  BY <1>2, <1>4, <1>14, PipeQuiet
<1>20. RankKernel(r)'
  BY <1>15, <1>16, <1>17, <1>18, <1>19 DEF RankKernel
<1> QED
  BY <1>9, <1>10, <1>20, KernelOf

LEMMA KRing ==
    ASSUME KernelLayer, plan' = plan, NEW r \in Ranks, NEW b \in Blocks,
           ~IsPipe(op[r][b]), Ring(r, b), UNCHANGED pipe
    PROVE  KernelLayer'
<1>1. /\ pc[r][b] = "ring" /\ Goto(r, b, "wait")
      /\ seq' = [seq EXCEPT ![r] = op[r][b]]
      /\ UNCHANGED <<epoch, poison, stage, tail, nbytes, error, send, op, stored>>
      /\ UNCHANGED <<kind, pipe_send, ready, arrived, pipe_tail, chunk>>
  BY DEF Ring, pipe, device
<1>2. /\ pc' \in [Ranks -> [Blocks -> {"done", "start"} \cup OneShotPlaces \cup PipePlaces]]
      /\ pc'[r][b] = "wait"
      /\ \A q \in Ranks \ {r} : pc'[q] = pc[q]
      /\ \A d \in Blocks \ {b} : pc'[r][d] = pc[r][d]
  BY <1>1, MoveFacts DEF KernelLayer, OneShotPlaces
<1>3. /\ op[r][b] = Cur(r) /\ ~PipeCur(r) /\ StagedInv(r, b) /\ Cur(r) \in Seqs
      /\ b \in CurGrid(r) /\ CurGrid(r) \subseteq Blocks /\ RankKernel(r) /\ epoch[r] < plan.ops
      /\ Cur(r) \in Nat \ {0} /\ CurSize(r) = Grid[Cur(r)]
  BY <1>1, OneShotBlockFacts
<1>4. /\ CurBlocks(r) = CurGrid(r) /\ Cur(r) <= plan.ops /\ epoch[r] \in Nat
      /\ Cur(r) = epoch[r] + 1
  BY <1>1, <1>3, KernelWords, ActiveBlock
<1>5. /\ seq' \in [Ranks -> Seqs] /\ seq'[r] = Cur(r)
      /\ \A q \in Ranks \ {r} : seq'[q] = seq[q]
  BY <1>1, <1>3 DEF KernelLayer, KernelTypes
<1>6. KernelTypes'
  BY <1>1, <1>2, <1>5 DEF KernelLayer, KernelTypes
<1>7. \A q \in Ranks \ {r} : Still(q)
  BY <1>1, <1>2, <1>5 DEF Still
<1>8. Staged(r, b) /\ Counted(r) = CurGrid(r) /\ Record(r, Cur(r))
  BY <1>1, <1>3 DEF StagedInv, OneShotPlaces
<1>9. /\ Cur(r)' = Cur(r) /\ CurSize(r)' = CurSize(r) /\ CurGrid(r)' = CurGrid(r)
      /\ PipeCur(r)' = PipeCur(r) /\ CurBlocks(r)' = CurBlocks(r)
  BY <1>1, CurFrame
<1>10. /\ \A d : Staged(r, d)' = Staged(r, d)
       /\ \A s : Record(r, s)' = Record(r, s) /\ Launched(r, s)' = Launched(r, s)
       /\ Record(r, Cur(r))' = Record(r, Cur(r))
  BY <1>1, <1>9, PlanFrame DEF Staged, Record, Launched, IsPipe, packs
<1>11. Counted(r)' = Counted(r)
  BY <1>1, <1>2, <1>3, <1>9, <1>10 DEF Counted
<1>12. ~Finished(r) /\ ~Finished(r)'
  BY <1>1, <1>2 DEF Finished
<1>13. RungInv(r)'
  <2>1. Launched(r, Cur(r))
    <3>1. \A c \in CurGrid(r) : send[r][SlotOf(Cur(r))][c] = Cur(r)
      BY <1>8 DEF Counted, Staged
    <3> QED
      BY <1>3, <1>8, <3>1 DEF Launched, CurGrid
  <2>2. RungInv(r) /\ seq[r] \in {epoch[r], Cur(r)}
    BY <1>3 DEF RankKernel, RungInv
  <2>3. ASSUME NEW s \in epoch[r] .. Cur(r), s > 0 PROVE Launched(r, s)
    <3>1. CASE s = Cur(r)
      BY <2>1, <3>1
    <3>2. CASE s # Cur(r)
      <4>1. s \in epoch[r] .. seq[r]
        BY <1>4, <2>2, <3>2
      <4> QED
        BY <2>2, <2>3, <4>1 DEF RungInv
    <3> QED
      BY <3>1, <3>2
  <2> QED
    BY <1>1, <1>4, <1>5, <1>9, <1>10, <1>12, <2>2, <2>3 DEF RungInv
<1>14. ASSUME NEW c \in Blocks PROVE PlaceInv(r, c)'
  <2>1. PlaceInv(r, c)
    BY <1>3 DEF RankKernel
  <2>2. CASE c = b
    BY <1>1, <1>2, <1>3, <1>4, <1>9, <1>12, <2>1, <2>2 DEF PlaceInv, OneShotPlaces
  <2>3. CASE c # b
    <3>1. pc'[r][c] # "release"
      BY <1>2, <1>3, <2>1, <2>3 DEF PlaceInv, OneShotPlaces
    <3> QED
      BY <1>1, <1>2, <1>3, <1>4, <1>9, <1>12, <2>1, <2>3, <3>1 DEF PlaceInv
  <2> QED
    BY <2>2, <2>3
<1>15. Retired(r)' = Retired(r)
  BY <1>1, <1>2, <1>3, <1>9 DEF Retired
<1>16. OneShotInv(r)'
  <2>1. OneShotInv(r) /\ \A c \in Blocks : StagedInv(r, c)
    BY <1>3 DEF RankKernel, OneShotInv
  <2>2. ASSUME NEW c \in Blocks PROVE StagedInv(r, c)'
    <3>1. CASE c = b
      BY <1>2, <1>8, <1>10, <3>1 DEF StagedInv
    <3>2. CASE c # b
      BY <1>1, <1>2, <1>9, <1>10, <1>11, <2>1, <3>2 DEF StagedInv
    <3> QED
      BY <3>1, <3>2
  <2>3. error[r] = 0 => \A c \in Retired(r) : Staged(r, c)
    BY <1>3, <1>12, <2>1 DEF OneShotInv
  <2> QED
    BY <1>1, <1>5, <1>8, <1>9, <1>10, <1>11, <1>15, <2>2, <2>3 DEF OneShotInv
<1>17. CounterInv(r)'
  BY <1>1, <1>3, <1>9, <1>11, <1>15 DEF RankKernel, CounterInv, MixedCounts
<1>18. PipeInv(r)' /\ ReadyInv(r)'
  BY <1>1, <1>3, <1>12, PipeQuiet
<1>19. RankKernel(r)'
  BY <1>13, <1>14, <1>16, <1>17, <1>18 DEF RankKernel
<1> QED
  BY <1>6, <1>7, <1>19, KernelOf

-----------------------------------------------------------------------------
(* The first layer: the end of a kernel. *)

\* A published epoch: the rank is ready for the next operation, of either kind.
LEMMA EpochPublished ==
    ASSUME KernelLayer, plan' = plan, NEW r \in Ranks, epoch[r] < plan.ops, error[r] = 0,
           seq[r] = Cur(r), epoch'[r] = Cur(r), \A b \in Blocks : pc'[r][b] = "done",
           \A g \in GridSizes : stage[r][g] % g = 0 /\ tail'[r][g] % g = 0,
           \A ph \in Phases, c \in Chunks : arrived[r][ph][c] = 0, pipe_tail[r] = 0,
           IsPipe(Cur(r)) => stored[r] = 0 .. packs(Cur(r)) - 1,
           poison'[r] = poison[r], stage'[r] = stage[r], seq'[r] = seq[r],
           nbytes'[r] = nbytes[r], error'[r] = error[r], send'[r] = send[r],
           kind'[r] = kind[r], ready'[r] = ready[r], arrived'[r] = arrived[r],
           pipe_tail'[r] = pipe_tail[r], stored'[r] = stored[r]
    PROVE  RankKernel(r)'
<1>1. /\ RankKernel(r) /\ plan \in Plans /\ epoch[r] \in Nat /\ Cur(r) = epoch[r] + 1
      /\ Cur(r) \in Seqs /\ Cur(r) <= plan.ops /\ Cur(r) \in Nat /\ Seqs \subseteq Nat
      /\ Blocks \subseteq Nat
  BY KernelWords, InFlight
<1>2. /\ Cur(r)' = Cur(r) + 1 /\ SlotOf(Cur(r)') \in SlotIds
      /\ CurSize(r)' \in Nat \ {0} /\ CurGrid(r)' = 1 .. CurSize(r)'
      /\ CurGrid(r)' \subseteq Blocks /\ 1 \in CurGrid(r)'
  <2>1. Cur(r)' = Cur(r) + 1 /\ SlotOf(Cur(r)') \in SlotIds
    BY <1>1, SlotFacts DEF Cur
  <2>2. Succ(epoch'[r]) \in Seqs /\ CurSize(r)' = Grid[Succ(epoch'[r])]
    BY <1>1, SuccFacts DEF CurSize
  <2>3. CurSize(r)' \in 1 .. MaxBlocks /\ MaxBlocks \in Nat
    BY <2>2, Consts
  <2>4. CurGrid(r)' = 1 .. CurSize(r)'
    BY DEF CurGrid
  <2> QED
    BY <2>1, <2>3, <2>4 DEF Blocks
<1>3. \A b \in Blocks : \A k \in SlotIds : send[r][k][b] \in Nat /\ send[r][k][b] <= Cur(r)
  <2>1. \A b \in Blocks : \A k \in SlotIds : send[r][k][b] <= Cur(r)
    BY <1>1 DEF RankKernel, PlaceInv
  <2>2. \A b \in Blocks : \A k \in SlotIds : send[r][k][b] \in Seqs
    BY DEF KernelLayer, KernelTypes
  <2> QED
    BY <1>1, <2>1, <2>2
<1>4. \A b \in Blocks : ~Staged(r, b)'
  BY <1>1, <1>2, <1>3 DEF Staged
<1>5. /\ Counted(r)' = {} /\ Counted(r)' # CurGrid(r)' /\ Retired(r)' = CurGrid(r)'
      /\ Finished(r)'
  BY <1>2, <1>4 DEF Counted, Retired, Finished
<1>6. RungInv(r)'
  <2>1. RungInv(r) /\ Cur(r) \in epoch[r] .. seq[r] /\ Cur(r) > 0
    BY <1>1 DEF RankKernel
  <2>2. Launched(r, Cur(r))
    BY <2>1 DEF RungInv
  <2>3. \A s \in epoch'[r] .. seq'[r] : Launched(r, s)'
    BY <1>1, <2>2, PlanFrame DEF Launched, Record
  <2> QED
    BY <1>1, <2>1, <2>3 DEF RungInv
<1>7. ASSUME NEW b \in Blocks PROVE PlaceInv(r, b)'
  <2>1. \A k \in SlotIds : send'[r][k][b] <= Cur(r)'
    BY <1>1, <1>2, <1>3
  <2> QED
    BY <1>4, <2>1 DEF PlaceInv, LoopPlaces
<1>8. OneShotInv(r)'
  <2>1. \A b \in Blocks : StagedInv(r, b)'
    BY DEF StagedInv, OneShotPlaces
  <2>2. seq'[r] # Cur(r)'
    BY <1>1, <1>2
  <2> QED
    BY <1>5, <2>1, <2>2 DEF OneShotInv
<1>9. CounterInv(r)'
  <2>1. Cardinality(Retired(r)') = CurSize(r)' /\ Cardinality(Counted(r)') = 0
    <3>1. \A n \in Nat \ {0} : Cardinality(1 .. n) = n
      BY FS_Interval
    <3> QED
      BY <1>2, <1>5, <3>1, FS_EmptySet
  <2>2. CurSize(r)' % CurSize(r)' = 0 /\ 0 % CurSize(r)' = 0
    BY <1>2, ModSelf
  <2>3. MixedCounts(stage, r, Counted(r))' /\ MixedCounts(tail, r, Retired(r))'
    BY <2>1, <2>2 DEF MixedCounts
  <2> QED
    BY <2>3 DEF CounterInv
<1>10. PipeInv(r)'
  <2>1. ~Working(r)'
    BY <1>5 DEF Working
  <2>2. IsPipe(epoch[r])' = IsPipe(Cur(r)) /\ packs(epoch[r])' = packs(Cur(r))
    BY DEF IsPipe, packs
  <2> QED
    BY <2>1, <2>2 DEF PipeInv
<1>11. ReadyInv(r)'
  <2>1. \A ph \in Phases, c \in Chunks : ready[r][ph][c] <= Cur(r)
    BY <1>1 DEF RankKernel, ReadyInv
  <2>2. \A ph \in Phases, c \in Chunks : ready[r][ph][c] \in Seqs
    BY DEF KernelLayer, KernelTypes
  <2>3. \A ph \in Phases, c \in Chunks :
          ready'[r][ph][c] <= Cur(r)' /\ ready'[r][ph][c] # Cur(r)'
    <3>1. \A m, n \in Nat : m <= n => m <= n + 1 /\ m # n + 1
      OBVIOUS
    <3> TAKE ph \in Phases, c \in Chunks
    <3>2. ready[r][ph][c] \in Nat /\ ready[r][ph][c] <= Cur(r)
      BY <1>1, <2>1, <2>2
    <3> QED
      BY <1>1, <1>2, <3>1, <3>2
  <2> QED
    BY <2>3 DEF ReadyInv
<1> QED
  BY <1>6, <1>7, <1>8, <1>9, <1>10, <1>11 DEF RankKernel

\* A counter at which every block has arrived.
LEMMA FullCount ==
    ASSUME KernelLayer, NEW r \in Ranks, NEW counter, MixedCounts(counter, r, CurGrid(r))
    PROVE  \A g \in GridSizes : counter[r][g] % g = 0
<1>1. CurSize(r) \in Nat \ {0} /\ CurGrid(r) = 1 .. CurSize(r)
  BY KernelWords DEF CurGrid
<1>2. \A n \in Nat \ {0} : Cardinality(1 .. n) = n /\ n % n = 0
  BY FS_Interval, ModSelf
<1>3. Cardinality(CurGrid(r)) % CurSize(r) = 0
  BY <1>1, <1>2
<1> QED
  BY <1>3 DEF MixedCounts

\* An arrival at the tail of a one-shot kernel.
LEMMA TailArrivals ==
    ASSUME KernelLayer, NEW r \in Ranks, ~PipeCur(r), NEW b \in CurGrid(r), b \notin Retired(r),
           MixedCounts(tail, r, Retired(r))
    PROVE  /\ IsLast(tail, r, CurSize(r)) <=> Retired(r) \cup {b} = CurGrid(r)
           /\ MixedCounts(Arrival(tail, r, CurSize(r)), r, Retired(r) \cup {b})
<1>1. Retired(r) \in SUBSET CurGrid(r) /\ tail \in [Ranks -> [Blocks -> 0 .. MaxBlocks - 1]]
  BY DEF Retired, KernelLayer, KernelTypes
<1>2. IsLast(tail, r, CurSize(r)) <=> Retired(r) \cup {b} = CurGrid(r)
  BY <1>1, MixedArrivals
<1>3. MixedCounts(Arrival(tail, r, CurSize(r)), r, Retired(r) \cup {b})
  BY <1>1, MixedArrivals
<1> QED
  BY <1>2, <1>3

\* What the last block of a one-shot kernel finds at the tail counter.
LEMMA LastOneShot ==
    ASSUME KernelLayer, NEW r \in Ranks, NEW b \in Blocks, pc[r][b] = "tail",
           ~IsPipe(op[r][b]), error[r] = 0
    PROVE  /\ b \notin Retired(r) /\ Retired(r) \in SUBSET CurGrid(r) /\ b \in CurGrid(r)
           /\ IsLast(tail, r, CurSize(r)) <=> Retired(r) \cup {b} = CurGrid(r)
           /\ MixedCounts(Arrival(tail, r, CurSize(r)), r, Retired(r) \cup {b})
           /\ Retired(r) \cup {b} = CurGrid(r) =>
                /\ Counted(r) = CurGrid(r) /\ seq[r] = Cur(r)
                /\ \A c \in Blocks \ {b} : pc[r][c] = "done"
                /\ \A g \in GridSizes : Arrival(tail, r, CurSize(r))[r][g] % g = 0
                /\ \A g \in GridSizes : stage[r][g] % g = 0
<1>1. /\ ~PipeCur(r) /\ b \in CurGrid(r) /\ RankKernel(r) /\ ~Finished(r) /\ StagedInv(r, b)
      /\ CurGrid(r) \subseteq Blocks
  BY OneShotBlockFacts
<1>2. b \notin Retired(r) /\ Retired(r) \in SUBSET CurGrid(r)
  BY DEF Retired
<1>3. tail \in [Ranks -> [Blocks -> 0 .. MaxBlocks - 1]] /\ MixedCounts(tail, r, Retired(r))
  BY <1>1 DEF KernelLayer, KernelTypes, RankKernel, CounterInv
<1> DEFINE next == Arrival(tail, r, CurSize(r))
<1>4. /\ IsLast(tail, r, CurSize(r)) <=> Retired(r) \cup {b} = CurGrid(r)
      /\ MixedCounts(next, r, Retired(r) \cup {b})
  BY <1>1, <1>2, <1>3, TailArrivals
<1> HIDE DEF next
<1>5. ASSUME Retired(r) \cup {b} = CurGrid(r)
      PROVE  /\ Counted(r) = CurGrid(r) /\ seq[r] = Cur(r)
             /\ \A c \in Blocks \ {b} : pc[r][c] = "done"
             /\ \A g \in GridSizes : next[r][g] % g = 0
             /\ \A g \in GridSizes : stage[r][g] % g = 0
  <2>1. \A c \in CurGrid(r) \ {b} : pc[r][c] = "done"
    BY <1>5 DEF Retired
  <2>2. \A c \in Blocks \ {b} : pc[r][c] = "done"
    <3>1. CurBlocks(r) = CurGrid(r)
      BY <1>1, KernelWords
    <3> QED
      BY <1>1, <2>1, <3>1 DEF RankKernel, PlaceInv
  <2>3. \A c \in CurGrid(r) : Staged(r, c)
    <3>1. Staged(r, b)
      BY <1>1 DEF StagedInv, OneShotPlaces
    <3>2. \A c \in Retired(r) : Staged(r, c)
      BY <1>1 DEF RankKernel, OneShotInv
    <3> QED
      BY <1>5, <3>1, <3>2
  <2>4. Counted(r) = CurGrid(r)
    BY <2>1, <2>3 DEF Counted
  <2>5. seq[r] = Cur(r)
    BY <1>1, <2>2, <2>4 DEF RankKernel, OneShotInv
  <2>6. MixedCounts(next, r, CurGrid(r)) /\ MixedCounts(stage, r, CurGrid(r))
    BY <1>1, <1>4, <1>5, <2>4 DEF RankKernel, CounterInv
  <2>7. \A g \in GridSizes : next[r][g] % g = 0 /\ stage[r][g] % g = 0
    BY <2>6, FullCount
  <2> QED
    BY <2>2, <2>4, <2>5, <2>7
<1> QED
  BY <1>1, <1>2, <1>4, <1>5 DEF next

LEMMA KFinish ==
    ASSUME KernelLayer, plan' = plan, NEW r \in Ranks, NEW b \in Blocks,
           ~IsPipe(op[r][b]), Finish(r, b), UNCHANGED pipe
    PROVE  KernelLayer'
<1> DEFINE g == CurSize(r)
           next == Arrival(tail, r, g)
           last == IsLast(tail, r, g) /\ NoError(r)
<1>1. pc[r][b] = "tail" /\ Goto(r, b, "done")
  BY DEF Finish
<1>2. /\ op[r][b] = Cur(r) /\ ~PipeCur(r) /\ StagedInv(r, b) /\ Cur(r) \in Seqs
      /\ b \in CurGrid(r) /\ CurGrid(r) \subseteq Blocks /\ RankKernel(r) /\ epoch[r] < plan.ops
      /\ Cur(r) \in Nat \ {0} /\ CurSize(r) = Grid[Cur(r)] /\ ~IsPipe(Cur(r)) /\ ~Finished(r)
  BY <1>1, OneShotBlockFacts
<1>3. /\ UNCHANGED <<poison, stage, seq, nbytes, error, send, op, stored>>
      /\ UNCHANGED <<kind, pipe_send, ready, arrived, pipe_tail, chunk>>
      /\ tail' = next
      /\ epoch' = IF last THEN [epoch EXCEPT ![r] = Cur(r)] ELSE epoch
  BY <1>2 DEF Finish, region, pipe
<1>4. /\ pc' \in [Ranks -> [Blocks -> {"done", "start"} \cup OneShotPlaces \cup PipePlaces]]
      /\ pc'[r][b] = "done"
      /\ \A q \in Ranks \ {r} : pc'[q] = pc[q]
      /\ \A d \in Blocks \ {b} : pc'[r][d] = pc[r][d]
  BY <1>1, MoveFacts DEF KernelLayer
<1>5. /\ tail' \in [Ranks -> [Blocks -> 0 .. MaxBlocks - 1]]
      /\ \A q \in Ranks \ {r} : tail'[q] = tail[q]
  <2>1. tail \in [Ranks -> [Blocks -> 0 .. MaxBlocks - 1]] /\ g \in Blocks
    BY KernelWords DEF KernelLayer, KernelTypes
  <2>2. tail[r][g] \in Int /\ (tail[r][g] + 1) % MaxBlocks \in 0 .. MaxBlocks - 1
    BY <2>1, Consts, ModType
  <2>3. tail' = [tail EXCEPT ![r][g] = (tail[r][g] + 1) % MaxBlocks]
    BY <1>3, <2>1 DEF Arrival, CounterClass
  <2> HIDE DEF g
  <2> QED
    BY <2>1, <2>2, <2>3
<1>6. /\ epoch' \in [Ranks -> Seqs] /\ \A q \in Ranks \ {r} : epoch'[q] = epoch[q]
      /\ last => epoch'[r] = Cur(r)
      /\ ~last => epoch' = epoch
  <2>1. epoch \in [Ranks -> Seqs]
    BY DEF KernelLayer, KernelTypes
  <2> HIDE DEF last
  <2> QED
    BY <1>2, <1>3, <2>1
<1>7. KernelTypes'
  BY <1>3, <1>4, <1>5, <1>6 DEF KernelLayer, KernelTypes
<1>8. \A q \in Ranks \ {r} : Still(q)
  BY <1>3, <1>4, <1>5, <1>6 DEF Still
<1>9. CASE last
  <2>1. error[r] = 0 /\ Retired(r) \cup {b} = CurGrid(r)
    BY <1>1, <1>9, LastOneShot DEF NoError
  <2>2. /\ seq[r] = Cur(r) /\ \A c \in Blocks : pc'[r][c] = "done"
        /\ \A h \in GridSizes : stage[r][h] % h = 0 /\ tail'[r][h] % h = 0
    BY ZenonT(30), <1>1, <1>3, <1>4, <2>1, LastOneShot
  <2>3. (\A ph \in Phases, c \in Chunks : arrived[r][ph][c] = 0) /\ pipe_tail[r] = 0
    BY <1>2, <2>1 DEF RankKernel, PipeInv, Working
  <2>4. epoch'[r] = Cur(r)
    BY <1>6, <1>9
  <2>5. RankKernel(r)'
    BY <1>2, <1>3, <2>1, <2>2, <2>3, <2>4, EpochPublished
  <2> QED
    BY <1>7, <1>8, <2>5, KernelOf
<1>10. CASE ~last
  <2>1. epoch' = epoch
    BY <1>6, <1>10
  <2>2. /\ Cur(r)' = Cur(r) /\ CurSize(r)' = CurSize(r) /\ CurGrid(r)' = CurGrid(r)
        /\ PipeCur(r)' = PipeCur(r) /\ CurBlocks(r)' = CurBlocks(r)
    BY <2>1, CurFrame
  <2>3. /\ \A d : Staged(r, d)' = Staged(r, d)
        /\ \A s : Record(r, s)' = Record(r, s) /\ Launched(r, s)' = Launched(r, s)
        /\ Record(r, Cur(r))' = Record(r, Cur(r))
    BY <1>3, <2>2, PlanFrame DEF Staged, Record, Launched, IsPipe, packs
  <2>4. CurBlocks(r) = CurGrid(r)
    BY <1>2, KernelWords
  <2>5. Retired(r)' = Retired(r) \cup {b}
    BY <1>2, <1>4, <2>2 DEF Retired
  <2>6. error[r] = 0 => ~Finished(r)'
    <3>1. SUFFICES ASSUME error[r] = 0 PROVE ~Finished(r)'
      OBVIOUS
    <3>2. Retired(r) \cup {b} # CurGrid(r) /\ Retired(r) \in SUBSET CurGrid(r)
      BY <1>1, <1>10, <3>1, LastOneShot DEF NoError
    <3>3. PICK c \in CurGrid(r) : c \notin Retired(r)'
      BY <1>2, <2>5, <3>2
    <3>4. pc'[r][c] # "done" /\ c \in Blocks
      BY <1>2, <2>2, <3>3 DEF Retired
    <3> QED
      BY <3>4 DEF Finished
  <2>7. Counted(r)' = Counted(r)
    BY <1>1, <1>2, <1>4, <2>2, <2>3 DEF Counted
  <2>8. RungInv(r)'
    BY <1>2, <1>3, <2>1, <2>2, <2>3, <2>6 DEF RankKernel, RungInv
  <2>9. ASSUME NEW c \in Blocks PROVE PlaceInv(r, c)'
    <3>1. PlaceInv(r, c)
      BY <1>2 DEF RankKernel
    <3>2. CASE c = b
      BY <1>3, <1>4, <2>2, <2>3, <2>6, <3>1, <3>2 DEF PlaceInv, LoopPlaces
    <3>3. CASE c # b
      <4>1. pc'[r][c] # "release"
        BY <1>2, <1>4, <3>1, <3>3 DEF PlaceInv, OneShotPlaces
      <4> QED
        BY <1>2, <1>3, <1>4, <2>1, <2>2, <2>3, <2>6, <3>1, <3>3, <4>1 DEF PlaceInv
    <3> QED
      BY <3>2, <3>3
  <2>10. OneShotInv(r)'
    <3>1. OneShotInv(r) /\ \A c \in Blocks : StagedInv(r, c)
      BY <1>2 DEF RankKernel, OneShotInv
    <3>2. ASSUME NEW c \in Blocks PROVE StagedInv(r, c)'
      <4>1. CASE c = b
        BY <1>4, <4>1 DEF StagedInv, OneShotPlaces
      <4>2. CASE c # b
        BY <1>3, <1>4, <2>2, <2>3, <2>7, <3>1, <4>2 DEF StagedInv
      <4> QED
        BY <4>1, <4>2
    <3>3. error[r] = 0 => \A c \in Retired(r) \cup {b} : Staged(r, c)
      BY <1>1, <1>2, <3>1 DEF OneShotInv, StagedInv, OneShotPlaces
    <3>4. Counted(r)' = CurGrid(r)' =>
            seq'[r] = Cur(r)' \/ \E c \in Blocks : pc'[r][c] = "ring"
      BY <1>1, <1>2, <1>3, <1>4, <2>2, <2>7, <3>1 DEF OneShotInv
    <3> QED
      BY <1>2, <1>3, <2>2, <2>3, <2>5, <2>7, <3>1, <3>2, <3>3, <3>4 DEF OneShotInv
  <2>11. CounterInv(r)'
    <3>1. MixedCounts(stage, r, Counted(r))'
      BY <1>2, <1>3, <2>2, <2>7 DEF RankKernel, CounterInv, MixedCounts
    <3>2. error[r] = 0 => MixedCounts(next, r, Retired(r) \cup {b})
      BY <1>1, LastOneShot
    <3> HIDE DEF next
    <3>3. error[r] = 0 => MixedCounts(tail, r, Retired(r))'
      BY <1>3, <2>2, <2>5, <3>2 DEF MixedCounts
    <3> QED
      BY <1>3, <3>1, <3>3 DEF CounterInv
  <2>12. PipeInv(r)' /\ ReadyInv(r)'
    BY <1>2, <1>3, <2>1, <2>6, PipeQuiet
  <2>13. RankKernel(r)'
    BY <2>8, <2>9, <2>10, <2>11, <2>12 DEF RankKernel
  <2> QED
    BY <1>7, <1>8, <2>13, KernelOf
<1> QED
  BY <1>9, <1>10

-----------------------------------------------------------------------------
(* The first layer: the steps of a two-shot kernel. *)

\* The facts on a block of a two-shot kernel.
LEMMA PipeBlockFacts ==
    ASSUME KernelLayer, NEW r \in Ranks, NEW b \in Blocks, pc[r][b] # "done", PipeCur(r)
    PROVE  /\ Cur(r) \in Seqs /\ Cur(r) \in Nat \ {0} /\ Cur(r) # 0 /\ IsPipe(Cur(r))
           /\ Succ(epoch[r]) = Cur(r) /\ Cur(r) <= plan.ops /\ epoch[r] < plan.ops
           /\ b \in PipeBlocks /\ PipeBlocks \subseteq Blocks /\ 1 \in PipeBlocks
           /\ CurBlocks(r) = PipeBlocks /\ ~Finished(r) /\ Working(r)
           /\ PlaceInv(r, b) /\ RankKernel(r) /\ plan \in Plans /\ error[r] = poison[r]
           /\ pc[r][b] # "start" => op[r][b] = Cur(r)
           /\ chunks(Cur(r)) \in Nat \ {0} /\ chunk[r][b] \in Nat
           /\ pc[r][b] \in LoopPlaces => chunk[r][b] \in Chunks /\ chunk[r][b] < chunks(Cur(r))
           /\ plan.pipe_blocks \in Nat \ {0} /\ plan.pipe_blocks <= MaxBlocks
           /\ pc[r][b] \in {"start"} \cup PipePlaces
<1>1. /\ Cur(r) \in Seqs /\ Succ(epoch[r]) = Cur(r) /\ Cur(r) <= plan.ops /\ epoch[r] < plan.ops
      /\ (PipeCur(r) <=> IsPipe(Cur(r))) /\ b \in CurBlocks(r) /\ ~Finished(r) /\ PlaceInv(r, b)
      /\ pc[r][b] # "start" => op[r][b] = Cur(r)
  BY ActiveBlock
<1>2. /\ Cur(r) \in Nat \ {0} /\ PipeBlocks \subseteq Blocks /\ 1 \in PipeBlocks
      /\ CurBlocks(r) = PipeBlocks /\ RankKernel(r) /\ plan \in Plans
  BY KernelWords
<1>3. error[r] = poison[r] /\ Working(r)
  BY <1>1, <1>2 DEF RankKernel, RungInv, Working
<1>4. chunks(Cur(r)) \in Nat \ {0} /\ 0 .. chunks(Cur(r)) - 1 \subseteq Chunks
  BY <1>1, <1>2, ChunkIds
<1>5. chunk[r][b] \in Nat
  BY DEF KernelLayer, KernelTypes
<1>6. pc[r][b] \in LoopPlaces => chunk[r][b] \in Chunks /\ chunk[r][b] < chunks(Cur(r))
  BY <1>1, <1>4, <1>5 DEF PlaceInv
<1>7. pc[r][b] \in {"start"} \cup PipePlaces
  BY <1>1 DEF PlaceInv
<1>8. plan.pipe_blocks \in Nat \ {0} /\ plan.pipe_blocks <= MaxBlocks
  BY <1>2, PlanFacts
<1> QED
  BY <1>1, <1>2, <1>3, <1>4, <1>5, <1>6, <1>7, <1>8

\* A block moves on; the parts that do not speak of chunks.
LEMMA PipeMove ==
    ASSUME KernelLayer, plan' = plan, NEW r \in Ranks, NEW b \in Blocks, PipeCur(r),
           pc[r][b] # "done",
           epoch'[r] = epoch[r], seq'[r] = seq[r], nbytes'[r] = nbytes[r],
           kind'[r] = kind[r], send'[r] = send[r], stage'[r] = stage[r], tail'[r] = tail[r],
           error'[r] = poison'[r], error'[r] = 0 => error[r] = 0 /\ ~Finished(r)',
           \A d \in Blocks \ {b} : pc'[r][d] = pc[r][d] /\ op'[r][d] = op[r][d]
                                   /\ chunk'[r][d] = chunk[r][d],
           pc'[r][b] \in {"done"} \cup PipePlaces,
           pc'[r][b] # "done" => op'[r][b] = Cur(r),
           pc'[r][b] \in LoopPlaces => chunk'[r][b] < chunks(Cur(r)),
           pc'[r][b] = "release" => error'[r] = 0 /\ \A d \in Blocks \ {b} : pc[r][d] = "done"
    PROVE  /\ RungInv(r)' /\ (\A d \in Blocks : PlaceInv(r, d)') /\ OneShotInv(r)'
           /\ CounterInv(r)'
<1>1. /\ RankKernel(r) /\ b \in PipeBlocks /\ CurBlocks(r) = PipeBlocks /\ epoch[r] < plan.ops
      /\ PlaceInv(r, b)
  BY PipeBlockFacts
<1>2. /\ Cur(r)' = Cur(r) /\ PipeCur(r)' /\ CurBlocks(r)' = CurBlocks(r)
  BY CurFrame
<1>3. /\ \A d : Staged(r, d)' = Staged(r, d)
      /\ \A s : Launched(r, s)' = Launched(r, s)
      /\ chunks(Cur(r))' = chunks(Cur(r))
  BY <1>2, PlanFrame DEF Staged, Record, Launched
<1>4. RungInv(r)'
  BY <1>1, <1>2, <1>3 DEF RankKernel, RungInv
<1>5. ASSUME NEW d \in Blocks PROVE PlaceInv(r, d)'
  <2>1. PlaceInv(r, d)
    BY <1>1 DEF RankKernel
  <2>2. CASE d = b
    BY <1>1, <1>2, <1>3, <2>1, <2>2 DEF PlaceInv
  <2>3. CASE d # b
    <3>1. pc'[r][d] # "release"
      BY <2>1, <2>3 DEF PlaceInv
    <3> QED
      BY <1>2, <1>3, <2>1, <2>3, <3>1 DEF PlaceInv
  <2> QED
    BY <2>2, <2>3
<1>6. OneShotInv(r)'
  BY <1>2 DEF OneShotInv
<1>7. CounterInv(r)'
  BY <1>1, <1>2 DEF RankKernel, CounterInv, MixedCounts
<1> QED
  BY <1>4, <1>5, <1>6, <1>7

\* The sets of blocks, when one of them moves.
LEMMA BlockMoved ==
    ASSUME plan' = plan, NEW r \in Ranks, NEW b \in PipeBlocks, PipeBlocks \subseteq Blocks,
           \A d \in Blocks \ {b} : pc'[r][d] = pc[r][d] /\ chunk'[r][d] = chunk[r][d]
    PROVE  /\ \A d \in PipeBlocks \ {b} : \A ph, c :
                (Beyond(r, d, ph, c)' <=> Beyond(r, d, ph, c))
                /\ (Copied(r, d, c)' <=> Copied(r, d, c))
           /\ \A ph, c : (Beyond(r, b, ph, c)' <=> Beyond(r, b, ph, c)) =>
                           Past(r, ph, c)' = Past(r, ph, c)
           /\ \A ph, c : Beyond(r, b, ph, c)' /\ ~Beyond(r, b, ph, c) =>
                           /\ Past(r, ph, c)' = Past(r, ph, c) \cup {b}
                           /\ b \notin Past(r, ph, c)
           /\ (pc'[r][b] \in {"release", "done"} <=> pc[r][b] \in {"release", "done"}) =>
                 Left(r)' = Left(r)
           /\ pc'[r][b] \in {"release", "done"} /\ pc[r][b] \notin {"release", "done"} =>
                 Left(r)' = Left(r) \cup {b} /\ b \notin Left(r)
<1>1. PipeBlocks' = PipeBlocks
  BY PlanFrame
<1>2. \A d \in PipeBlocks \ {b} : \A ph, c :
                (Beyond(r, d, ph, c)' <=> Beyond(r, d, ph, c))
                /\ (Copied(r, d, c)' <=> Copied(r, d, c))
  BY DEF Beyond, Copied
<1>3. \A ph, c : (Beyond(r, b, ph, c)' <=> Beyond(r, b, ph, c)) =>
                           Past(r, ph, c)' = Past(r, ph, c)
  BY <1>1, <1>2 DEF Past
<1>4. \A ph, c : Beyond(r, b, ph, c)' /\ ~Beyond(r, b, ph, c) =>
                           /\ Past(r, ph, c)' = Past(r, ph, c) \cup {b}
                           /\ b \notin Past(r, ph, c)
  BY <1>1, <1>2 DEF Past
<1>5. (pc'[r][b] \in {"release", "done"} <=> pc[r][b] \in {"release", "done"}) =>
                 Left(r)' = Left(r)
  BY <1>1 DEF Left
<1>6. pc'[r][b] \in {"release", "done"} /\ pc[r][b] \notin {"release", "done"} =>
                 Left(r)' = Left(r) \cup {b} /\ b \notin Left(r)
  BY <1>1 DEF Left
<1> QED
  BY <1>2, <1>3, <1>4, <1>5, <1>6

\* The current kernel writes inputs to its peers' chunks and sums to its own.
SendKept(r) ==
    \A x \in Packs :
        \/ pipe_send'[r][x] = pipe_send[r][x]
        \/ /\ pipe_send'[r][x] = In(Cur(r))
           /\ \E j \in Peers(r), c \in Nat : x \in ChunkOf(Cur(r), j, c)
        \/ /\ pipe_send'[r][x] = Sum(Cur(r))
           /\ \E c \in Nat : x \in ChunkOf(Cur(r), r, c)

\* Data that is only overwritten with its like stays.
LEMMA KeptChunks ==
    ASSUME plan \in Plans, NEW r \in Ranks, Cur(r) \in Seqs, IsPipe(Cur(r)), SendKept(r),
           NEW c \in Nat
    PROVE  /\ \A j \in Peers(r) : \A x \in ChunkOf(Cur(r), j, c) :
                pipe_send[r][x] = In(Cur(r)) => pipe_send'[r][x] = In(Cur(r))
           /\ \A x \in ChunkOf(Cur(r), r, c) :
                pipe_send[r][x] = Sum(Cur(r)) => pipe_send'[r][x] = Sum(Cur(r))
<1>1. ASSUME NEW j \in Peers(r), NEW x \in ChunkOf(Cur(r), j, c), pipe_send[r][x] = In(Cur(r))
      PROVE  pipe_send'[r][x] = In(Cur(r))
  <2>1. j \in Ranks /\ j # r /\ x \in Packs
    BY ChunkInside DEF Peers
  <2>2. ASSUME NEW d \in Nat, x \in ChunkOf(Cur(r), r, d) PROVE FALSE
    <3>1. j = r
      BY <2>1, <2>2, ChunksApart
    <3> QED
      BY <2>1, <3>1
  <2> QED
    BY <1>1, <2>1, <2>2 DEF SendKept
<1>2. ASSUME NEW x \in ChunkOf(Cur(r), r, c), pipe_send[r][x] = Sum(Cur(r))
      PROVE  pipe_send'[r][x] = Sum(Cur(r))
  <2>1. x \in Packs
    BY ChunkInside
  <2>2. ASSUME NEW j \in Peers(r), NEW d \in Nat, x \in ChunkOf(Cur(r), j, d) PROVE FALSE
    <3>1. j \in Ranks /\ j # r
      BY DEF Peers
    <3>2. j = r
      BY <2>2, <3>1, ChunksApart
    <3> QED
      BY <3>1, <3>2
  <2> QED
    BY <1>2, <2>1, <2>2 DEF SendKept
<1> QED
  BY <1>1, <1>2

\* The ready words, after a step of a two-shot kernel.
LEMMA ReadyStep ==
    ASSUME KernelLayer, plan' = plan, NEW r \in Ranks, PipeCur(r), epoch[r] < plan.ops,
           epoch'[r] = epoch[r], SendKept(r), error'[r] = 0 => ~Finished(r)',
           \A d \in PipeBlocks, ph \in Phases, c \in Chunks :
              c < chunks(Cur(r)) /\ Beyond(r, d, ph, c) => Beyond(r, d, ph, c)',
           \A ph \in Phases, c \in Chunks :
              \/ ready'[r][ph][c] = ready[r][ph][c]
              \/ /\ ready'[r][ph][c] = Cur(r) /\ c < chunks(Cur(r)) /\ Filled(r, ph, c)'
                 /\ \A d \in PipeBlocks : Beyond(r, d, ph, c)'
    PROVE  ReadyInv(r)'
<1>1. /\ RankKernel(r) /\ plan \in Plans /\ Cur(r) \in Seqs /\ IsPipe(Cur(r)) /\ Cur(r) \in Nat
  BY KernelWords, InFlight
<1>2. Cur(r)' = Cur(r) /\ PipeCur(r)'
  BY CurFrame
<1>3. /\ chunks(Cur(r))' = chunks(Cur(r)) /\ PipeBlocks' = PipeBlocks
      /\ \A s, j, c : ChunkOf(s, j, c)' = ChunkOf(s, j, c)
  BY <1>2, PlanFrame
<1>4. ASSUME NEW ph \in Phases, NEW c \in Chunks
      PROVE  /\ ready'[r][ph][c] <= Cur(r)'
             /\ ready'[r][ph][c] = Cur(r)' =>
                  /\ PipeCur(r)' /\ c < chunks(Cur(r))' /\ Filled(r, ph, c)'
                  /\ \A d \in PipeBlocks' : Beyond(r, d, ph, c)'
                  /\ Finished(r)' => error'[r] # 0
  <2>1. CASE ready'[r][ph][c] = ready[r][ph][c]
    <3>1. /\ ready[r][ph][c] <= Cur(r)
          /\ ready[r][ph][c] = Cur(r) =>
                /\ c < chunks(Cur(r)) /\ Filled(r, ph, c)
                /\ \A d \in PipeBlocks : Beyond(r, d, ph, c)
      BY <1>1 DEF RankKernel, ReadyInv
    <3>2. SUFFICES ASSUME ready[r][ph][c] = Cur(r)
                   PROVE  /\ PipeCur(r)' /\ c < chunks(Cur(r))' /\ Filled(r, ph, c)'
                          /\ \A d \in PipeBlocks' : Beyond(r, d, ph, c)'
                          /\ Finished(r)' => error'[r] # 0
      BY <1>2, <2>1, <3>1
    <3>3. c \in Nat
      BY <1>1, PlanFacts DEF Chunks
    <3>4. Filled(r, ph, c)'
      <4>1. \A j \in Peers(r) : \A x \in ChunkOf(Cur(r), j, c) :
                pipe_send[r][x] = In(Cur(r)) => pipe_send'[r][x] = In(Cur(r))
        BY <1>1, <3>3, KeptChunks
      <4>2. \A x \in ChunkOf(Cur(r), r, c) :
                pipe_send[r][x] = Sum(Cur(r)) => pipe_send'[r][x] = Sum(Cur(r))
        BY <1>1, <3>3, KeptChunks
      <4>3. Filled(r, ph, c)
        BY <3>1, <3>2
      <4>4. CASE ph = RS
        <5>1. \A j \in Peers(r) : \A x \in ChunkOf(Cur(r), j, c) : pipe_send[r][x] = In(Cur(r))
          BY <4>3, <4>4 DEF Filled
        <5> QED
          BY <1>2, <1>3, <4>1, <4>4, <5>1 DEF Filled
      <4>5. CASE ph # RS
        <5>1. \A x \in ChunkOf(Cur(r), r, c) : pipe_send[r][x] = Sum(Cur(r))
          BY <4>3, <4>5 DEF Filled
        <5> QED
          BY <1>2, <1>3, <4>2, <4>5, <5>1 DEF Filled
      <4> QED
        BY <4>4, <4>5
    <3> QED
      BY <1>2, <1>3, <3>1, <3>2, <3>4
  <2>2. CASE /\ ready'[r][ph][c] = Cur(r) /\ c < chunks(Cur(r)) /\ Filled(r, ph, c)'
             /\ \A d \in PipeBlocks : Beyond(r, d, ph, c)'
    BY <1>1, <1>2, <1>3, <2>2
  <2> QED
    BY <2>1, <2>2
<1> QED
  BY <1>4 DEF ReadyInv

\* An arrival at a chunk, whatever the error word.
LEMMA ArriveFacts ==
    ASSUME KernelLayer, NEW r \in Ranks, NEW b \in Blocks, NEW ph \in Phases,
           chunk[r][b] \in Chunks, _arrive(r, b, ph)
    PROVE  /\ arrived' \in [Ranks -> [Phases -> [Chunks -> 0 .. MaxBlocks - 1]]]
           /\ ready' \in [Ranks -> [Phases -> [Chunks -> Seqs]]]
           /\ \A q \in Ranks \ {r} : arrived'[q] = arrived[q] /\ ready'[q] = ready[q]
           /\ \A p2 \in Phases, c2 \in Chunks : p2 # ph \/ c2 # chunk[r][b] =>
                /\ arrived'[r][p2][c2] = arrived[r][p2][c2]
                /\ ready'[r][p2][c2] = ready[r][p2][c2]
           /\ arrived'[r][ph][chunk[r][b]] =
                 (arrived[r][ph][chunk[r][b]] + 1) % plan.pipe_blocks
           /\ ready'[r][ph][chunk[r][b]] =
                 IF (arrived[r][ph][chunk[r][b]] + 1) % plan.pipe_blocks = 0 /\ error[r] = 0
                 THEN op[r][b] ELSE ready[r][ph][chunk[r][b]]
<1> DEFINE c == chunk[r][b]
           n == plan.pipe_blocks
           v == (arrived[r][ph][c] + 1) % n
<1>1. /\ arrived \in [Ranks -> [Phases -> [Chunks -> 0 .. MaxBlocks - 1]]]
      /\ ready \in [Ranks -> [Phases -> [Chunks -> Seqs]]] /\ op[r][b] \in Seqs
  BY DEF KernelLayer, KernelTypes
<1>2. n \in Nat \ {0} /\ n <= MaxBlocks /\ MaxBlocks \in Nat
  BY PlanFacts, Consts DEF KernelLayer, KernelTypes
<1>3. v \in 0 .. MaxBlocks - 1
  <2>1. arrived[r][ph][c] \in Int
    BY <1>1
  <2>2. v \in 0 .. n - 1
    <3>1. arrived[r][ph][c] + 1 \in Int
      BY <2>1
    <3> QED
      BY <1>2, <3>1, ModType
  <2> HIDE DEF v, n
  <2> QED
    BY <1>2, <2>2
<1>4. /\ arrived' = [arrived EXCEPT ![r][ph][c] = v]
      /\ ready' = IF v = 0 /\ error[r] = 0
                  THEN [ready EXCEPT ![r][ph][c] = op[r][b]] ELSE ready
  BY <1>1 DEF _arrive, NoError
<1>5. c \in Chunks
  OBVIOUS
<1> HIDE DEF v, c
<1>6. /\ arrived' \in [Ranks -> [Phases -> [Chunks -> 0 .. MaxBlocks - 1]]]
      /\ \A q \in Ranks \ {r} : arrived'[q] = arrived[q]
      /\ \A p2 \in Phases, c2 \in Chunks : p2 # ph \/ c2 # c =>
                arrived'[r][p2][c2] = arrived[r][p2][c2]
      /\ arrived'[r][ph][c] = v
  BY <1>1, <1>3, <1>4, <1>5
<1>7. /\ ready' \in [Ranks -> [Phases -> [Chunks -> Seqs]]]
      /\ \A q \in Ranks \ {r} : ready'[q] = ready[q]
      /\ \A p2 \in Phases, c2 \in Chunks : p2 # ph \/ c2 # c =>
                ready'[r][p2][c2] = ready[r][p2][c2]
      /\ ready'[r][ph][c] = IF v = 0 /\ error[r] = 0 THEN op[r][b] ELSE ready[r][ph][c]
  <2>1. CASE v = 0 /\ error[r] = 0
    BY <1>1, <1>4, <1>5, <2>1
  <2>2. CASE ~(v = 0 /\ error[r] = 0)
    BY <1>1, <1>4, <1>5, <2>2
  <2> QED
    BY <2>1, <2>2
<1> QED
  BY <1>6, <1>7 DEF v, c

\* One more, modulo a grid.
LEMMA ModAdd ==
    ASSUME NEW n \in Nat \ {0}, NEW m \in Nat
    PROVE  ((m % n) + 1) % n = (m + 1) % n
<1> DEFINE k == m % n
<1>1. k \in 0 .. n - 1 /\ k \in Nat
  BY ModType
<1>2. (m + 1) % n = IF k + 1 = n THEN 0 ELSE k + 1
  BY ModSucc
<1> HIDE DEF k
<1>3. k % n = k
  BY <1>1, ModSmall
<1>4. (k + 1) % n = IF (k % n) + 1 = n THEN 0 ELSE (k % n) + 1
  BY <1>1, ModSucc
<1>5. (k + 1) % n = (m + 1) % n
  BY <1>2, <1>3, <1>4
<1> QED
  BY <1>5 DEF k

\* On a rank without an error, the block that completes a chunk turns its ready word.
LEMMA ChunkArrival ==
    ASSUME KernelLayer, NEW r \in Ranks, NEW b \in Blocks, pc[r][b] \in LoopPlaces, PipeCur(r),
           error[r] = 0, NEW ph \in Phases, b \notin Past(r, ph, chunk[r][b]), _arrive(r, b, ph)
    PROVE  /\ arrived'[r][ph][chunk[r][b]] =
                 Cardinality(Past(r, ph, chunk[r][b]) \cup {b}) % plan.pipe_blocks
           /\ \/ /\ ready'[r][ph][chunk[r][b]] = Cur(r)
                 /\ Past(r, ph, chunk[r][b]) \cup {b} = PipeBlocks
              \/ ready'[r][ph][chunk[r][b]] = ready[r][ph][chunk[r][b]]
<1> DEFINE c == chunk[r][b]
           n == plan.pipe_blocks
           S == Past(r, ph, c)
<1>1. /\ c \in Chunks /\ c < chunks(Cur(r)) /\ n \in Nat \ {0} /\ b \in PipeBlocks
      /\ Working(r) /\ RankKernel(r) /\ op[r][b] = Cur(r)
  BY PipeBlockFacts DEF LoopPlaces
<1>2. S \in SUBSET (1 .. n) /\ b \in 1 .. n /\ b \notin S /\ PipeBlocks = 1 .. n
  BY <1>1 DEF Past, PipeBlocks
<1>3. arrived[r][ph][c] = Cardinality(S) % n
  BY <1>1 DEF RankKernel, PipeInv
<1>4. /\ arrived'[r][ph][c] = (arrived[r][ph][c] + 1) % n
      /\ ready'[r][ph][c] = IF (arrived[r][ph][c] + 1) % n = 0 /\ error[r] = 0
                            THEN op[r][b] ELSE ready[r][ph][c]
  BY <1>1, ArriveFacts
<1> HIDE DEF S, c, n
<1>5. /\ Cardinality(S) \in Nat /\ Cardinality(S \cup {b}) = Cardinality(S) + 1
      /\ Cardinality(S \cup {b}) % n = 0 <=> S \cup {b} = 1 .. n
  BY SMTT(60), <1>1, <1>2, WholeGrid
<1>6. (arrived[r][ph][c] + 1) % n = Cardinality(S \cup {b}) % n
  BY <1>1, <1>3, <1>5, ModAdd
<1>7. /\ arrived'[r][ph][c] = Cardinality(S \cup {b}) % n
      /\ \/ ready'[r][ph][c] = Cur(r) /\ S \cup {b} = PipeBlocks
         \/ ready'[r][ph][c] = ready[r][ph][c]
  BY <1>1, <1>2, <1>4, <1>5, <1>6
<1> QED
  BY <1>7 DEF S, c, n

\* A block that is where it was keeps what it has put and stored.
LEMMA ShareKept ==
    ASSUME plan \in Plans, plan' = plan, NEW r \in Ranks, Cur(r) \in Seqs, IsPipe(Cur(r)),
           epoch'[r] = epoch[r], SendKept(r), stored[r] \subseteq stored'[r],
           NEW b \in PipeBlocks, NEW c \in Nat, ShareInv(r, b, c)
    PROVE  /\ Beyond(r, b, RS, c) => \A j \in Peers(r) : \A x \in Share(Cur(r), j, c, b) :
                 pipe_send'[r][x] = In(Cur(r))
           /\ Beyond(r, b, AG, c) => \A x \in Share(Cur(r), r, c, b) :
                 pipe_send'[r][x] = Sum(Cur(r)) /\ x \in stored'[r]
           /\ Copied(r, b, c) => \A j \in Peers(r) :
                 Share(Cur(r), j, c, b) \subseteq stored'[r]
<1>1. ASSUME Beyond(r, b, RS, c), NEW j \in Peers(r), NEW x \in Share(Cur(r), j, c, b)
      PROVE  pipe_send'[r][x] = In(Cur(r))
  <2>1. j \in Ranks
    BY DEF Peers
  <2>2. x \in ChunkOf(Cur(r), j, c) /\ pipe_send[r][x] = In(Cur(r))
    BY <1>1, <2>1, Shares DEF ShareInv
  <2> QED
    BY <2>2, KeptChunks
<1>2. ASSUME Beyond(r, b, AG, c), NEW x \in Share(Cur(r), r, c, b)
      PROVE  pipe_send'[r][x] = Sum(Cur(r)) /\ x \in stored'[r]
  <2>1. x \in ChunkOf(Cur(r), r, c) /\ pipe_send[r][x] = Sum(Cur(r)) /\ x \in stored[r]
    BY <1>2, Shares DEF ShareInv
  <2> QED
    BY <2>1, KeptChunks
<1>3. Copied(r, b, c) => \A j \in Peers(r) : Share(Cur(r), j, c, b) \subseteq stored'[r]
  BY DEF ShareInv
<1> QED
  BY <1>1, <1>2, <1>3

\* The shares of all blocks fill a chunk.
LEMMA FilledBy ==
    ASSUME plan \in Plans, plan' = plan, NEW r \in Ranks, Cur(r) \in Seqs, IsPipe(Cur(r)),
           epoch'[r] = epoch[r], NEW c \in Nat, NEW ph \in Phases,
           \A b \in PipeBlocks : Beyond(r, b, ph, c)' /\ ShareInv(r, b, c)'
    PROVE  Filled(r, ph, c)'
<1>1. /\ Cur(r)' = Cur(r)
      /\ \A s, j, d : ChunkOf(s, j, d)' = ChunkOf(s, j, d)
      /\ \A s, j, d, b : Share(s, j, d, b)' = Share(s, j, d, b)
  BY CurFrame, PlanFrame
<1>2. CASE ph = RS
  <2>1. ASSUME NEW j \in Peers(r), NEW x \in ChunkOf(Cur(r), j, c)
        PROVE  pipe_send'[r][x] = In(Cur(r))
    <3>1. j \in Ranks
      BY DEF Peers
    <3>2. PICK b \in PipeBlocks : x \in Share(Cur(r), j, c, b)
      BY <3>1, Shares
    <3> QED
      BY <1>1, <1>2, <3>2 DEF ShareInv
  <2> QED
    BY <1>1, <1>2, <2>1 DEF Filled
<1>3. CASE ph = AG
  <2>1. ASSUME NEW x \in ChunkOf(Cur(r), r, c)
        PROVE  pipe_send'[r][x] = Sum(Cur(r))
    <3>1. PICK b \in PipeBlocks : x \in Share(Cur(r), r, c, b)
      BY Shares
    <3> QED
      BY <1>1, <1>3, <3>1 DEF ShareInv
  <2> QED
    BY <1>1, <1>3, <2>1 DEF Filled, RS, AG
<1> QED
  BY <1>2, <1>3 DEF Phases

\* A message is whole when every block has reduced and copied its shares.
LEMMA WholeMessage ==
    ASSUME plan \in Plans, NEW r \in Ranks, Cur(r) \in Seqs, IsPipe(Cur(r)),
           stored[r] \subseteq 0 .. packs(Cur(r)) - 1,
           \A b \in PipeBlocks, c \in 0 .. chunks(Cur(r)) - 1 :
              ShareInv(r, b, c) /\ Beyond(r, b, AG, c) /\ Copied(r, b, c)
    PROVE  stored[r] = 0 .. packs(Cur(r)) - 1
<1>1. ASSUME NEW x \in 0 .. packs(Cur(r)) - 1 PROVE x \in stored[r]
  <2>1. PICK j \in Ranks, c \in 0 .. chunks(Cur(r)) - 1 : x \in ChunkOf(Cur(r), j, c)
    BY EveryPack
  <2>2. c \in Nat
    BY ChunkIds
  <2>3. PICK b \in PipeBlocks : x \in Share(Cur(r), j, c, b)
    BY <2>1, <2>2, Shares
  <2> QED
    BY <2>1, <2>3 DEF ShareInv, Peers
<1> QED
  BY <1>1

\* A block of a healthy two-shot kernel moves on.
LEMMA HealthyMove ==
    ASSUME KernelLayer, plan' = plan, NEW r \in Ranks, NEW b \in Blocks, PipeCur(r),
           pc[r][b] # "done", error[r] = 0, ~Finished(r)', epoch'[r] = epoch[r],
           seq'[r] = seq[r], SendKept(r), stored[r] \subseteq stored'[r],
           stored'[r] \subseteq 0 .. packs(Cur(r)) - 1,
           \A d \in Blocks \ {b} : pc'[r][d] = pc[r][d] /\ chunk'[r][d] = chunk[r][d],
           b = 1 => pc'[r][b] \in {"start", "stage"} \/ seq[r] = Cur(r),
           \A ph \in Phases, c \in Chunks :
              IF c < chunks(Cur(r)) /\ Beyond(r, b, ph, c)' /\ ~Beyond(r, b, ph, c)
              THEN arrived'[r][ph][c] =
                      Cardinality(Past(r, ph, c) \cup {b}) % plan.pipe_blocks
              ELSE /\ arrived'[r][ph][c] = arrived[r][ph][c]
                   /\ c < chunks(Cur(r)) => (Beyond(r, b, ph, c)' <=> Beyond(r, b, ph, c)),
           IF pc'[r][b] \in {"release", "done"} /\ pc[r][b] \notin {"release", "done"}
           THEN pipe_tail'[r] = Cardinality(Left(r) \cup {b}) % plan.pipe_blocks
           ELSE /\ pipe_tail'[r] = pipe_tail[r]
                /\ pc'[r][b] \in {"release", "done"} <=> pc[r][b] \in {"release", "done"},
           \A c \in 0 .. chunks(Cur(r)) - 1 :
              /\ Beyond(r, b, RS, c)' => \/ Beyond(r, b, RS, c)
                                         \/ \A j \in Peers(r) : \A x \in Share(Cur(r), j, c, b) :
                                               pipe_send'[r][x] = In(Cur(r))
              /\ Beyond(r, b, AG, c)' => \/ Beyond(r, b, AG, c)
                                         \/ \A x \in Share(Cur(r), r, c, b) :
                                               pipe_send'[r][x] = Sum(Cur(r)) /\ x \in stored'[r]
              /\ Copied(r, b, c)' => \/ Copied(r, b, c)
                                     \/ \A j \in Peers(r) : Share(Cur(r), j, c, b) \subseteq stored'[r]
    PROVE  /\ PipeInv(r)'
           /\ \A d \in PipeBlocks, c \in 0 .. chunks(Cur(r)) - 1 : ShareInv(r, d, c)'
<1>1. /\ Cur(r) \in Seqs /\ IsPipe(Cur(r)) /\ b \in PipeBlocks /\ PipeBlocks \subseteq Blocks
      /\ 1 \in PipeBlocks /\ Working(r) /\ RankKernel(r) /\ plan \in Plans /\ ~Finished(r)
      /\ chunks(Cur(r)) \in Nat \ {0}
  BY PipeBlockFacts
<1>2. Cur(r)' = Cur(r) /\ PipeCur(r)' /\ Working(r)'
  BY CurFrame DEF Working
<1>3. /\ chunks(Cur(r))' = chunks(Cur(r)) /\ packs(Cur(r))' = packs(Cur(r))
      /\ PipeBlocks' = PipeBlocks
      /\ \A s, j, c, d : Share(s, j, c, d)' = Share(s, j, c, d)
  BY <1>2, PlanFrame
<1>4. /\ \A d \in PipeBlocks \ {b} : \A ph, c :
                (Beyond(r, d, ph, c)' <=> Beyond(r, d, ph, c))
                /\ (Copied(r, d, c)' <=> Copied(r, d, c))
      /\ \A ph, c : (Beyond(r, b, ph, c)' <=> Beyond(r, b, ph, c)) =>
                           Past(r, ph, c)' = Past(r, ph, c)
      /\ \A ph, c : Beyond(r, b, ph, c)' /\ ~Beyond(r, b, ph, c) =>
                           Past(r, ph, c)' = Past(r, ph, c) \cup {b}
      /\ (pc'[r][b] \in {"release", "done"} <=> pc[r][b] \in {"release", "done"}) =>
                 Left(r)' = Left(r)
      /\ pc'[r][b] \in {"release", "done"} /\ pc[r][b] \notin {"release", "done"} =>
                 Left(r)' = Left(r) \cup {b}
  BY <1>1, BlockMoved
<1>5. /\ \A ph \in Phases, c \in Chunks : arrived[r][ph][c] =
              IF c < chunks(Cur(r)) THEN Cardinality(Past(r, ph, c)) % plan.pipe_blocks ELSE 0
      /\ pipe_tail[r] = Cardinality(Left(r)) % plan.pipe_blocks
      /\ seq[r] = Cur(r) \/ pc[r][1] \in {"start", "stage"}
      /\ \A d \in PipeBlocks, c \in 0 .. chunks(Cur(r)) - 1 : ShareInv(r, d, c)
  BY <1>1 DEF RankKernel, PipeInv
<1>6. ASSUME NEW ph \in Phases, NEW c \in Chunks
      PROVE  arrived'[r][ph][c] = IF c < chunks(Cur(r))
                THEN Cardinality(Past(r, ph, c)') % plan.pipe_blocks ELSE 0
  <2>1. CASE c < chunks(Cur(r)) /\ Beyond(r, b, ph, c)' /\ ~Beyond(r, b, ph, c)
    BY <1>4, <2>1
  <2>2. CASE ~(c < chunks(Cur(r)) /\ Beyond(r, b, ph, c)' /\ ~Beyond(r, b, ph, c))
    <3>1. /\ arrived'[r][ph][c] = arrived[r][ph][c]
          /\ c < chunks(Cur(r)) => (Beyond(r, b, ph, c)' <=> Beyond(r, b, ph, c))
      BY <2>2, Zenon
    <3>2. c < chunks(Cur(r)) => Past(r, ph, c)' = Past(r, ph, c)
      BY <1>4, <3>1
    <3> QED
      BY <1>5, <3>1, <3>2
  <2> QED
    BY <2>1, <2>2
<1>7. pipe_tail'[r] = Cardinality(Left(r)') % plan.pipe_blocks
  <2>1. CASE pc'[r][b] \in {"release", "done"} /\ pc[r][b] \notin {"release", "done"}
    BY <1>4, <2>1
  <2>2. CASE ~(pc'[r][b] \in {"release", "done"} /\ pc[r][b] \notin {"release", "done"})
    BY <1>4, <1>5, <2>2
  <2> QED
    BY <2>1, <2>2
<1>8. ASSUME NEW d \in PipeBlocks, NEW c \in 0 .. chunks(Cur(r)) - 1
      PROVE  ShareInv(r, d, c)'
  <2>1. ShareInv(r, d, c) /\ c \in Nat
    BY <1>1, <1>5
  <2>2. /\ Beyond(r, d, RS, c) => \A j \in Peers(r) : \A x \in Share(Cur(r), j, c, d) :
              pipe_send'[r][x] = In(Cur(r))
        /\ Beyond(r, d, AG, c) => \A x \in Share(Cur(r), r, c, d) :
              pipe_send'[r][x] = Sum(Cur(r)) /\ x \in stored'[r]
        /\ Copied(r, d, c) => \A j \in Peers(r) : Share(Cur(r), j, c, d) \subseteq stored'[r]
    BY <1>1, <2>1, ShareKept
  <2>3. /\ Beyond(r, d, RS, c)' => \A j \in Peers(r) : \A x \in Share(Cur(r), j, c, d) :
              pipe_send'[r][x] = In(Cur(r))
        /\ Beyond(r, d, AG, c)' => \A x \in Share(Cur(r), r, c, d) :
              pipe_send'[r][x] = Sum(Cur(r)) /\ x \in stored'[r]
        /\ Copied(r, d, c)' => \A j \in Peers(r) : Share(Cur(r), j, c, d) \subseteq stored'[r]
    <3>1. CASE d = b
      BY <2>2, <3>1
    <3>2. CASE d # b
      BY <1>4, <2>2, <3>2
    <3> QED
      BY <3>1, <3>2
  <2> QED
    BY <1>2, <1>3, <2>3 DEF ShareInv
<1>9. seq'[r] = Cur(r) \/ pc'[r][1] \in {"start", "stage"}
  <2>1. CASE b = 1
    BY <2>1
  <2>2. CASE b # 1
    BY <1>1, <1>5, <2>2
  <2> QED
    BY <2>1, <2>2
<1>10. PipeInv(r)'
  BY <1>2, <1>3, <1>6, <1>7, <1>8, <1>9 DEF PipeInv
<1> QED
  BY <1>8, <1>10

\* The chunks a block is beyond, before and after a step of its loop.
LEMMA LoopStep ==
    ASSUME KernelLayer, plan' = plan, NEW r \in Ranks, NEW b \in Blocks, PipeCur(r),
           NEW here \in {"stage", "rs", "ag"}, NEW past \in {"rs", "ag", "tail"},
           <<here, past>> \in {<<"stage", "rs">>, <<"rs", "ag">>, <<"ag", "tail">>},
           pc[r][b] = here \/ (here = "rs" /\ pc[r][b] = "sum") \/ (here = "ag" /\ pc[r][b] = "copy"),
           NextChunk(r, b, here, past)
    PROVE  /\ pc' \in [Ranks -> [Blocks -> {"done", "start"} \cup OneShotPlaces \cup PipePlaces]]
           /\ chunk' \in [Ranks -> [Blocks -> Nat]]
           /\ \A q \in Ranks \ {r} : pc'[q] = pc[q] /\ chunk'[q] = chunk[q]
           /\ \A d \in Blocks \ {b} : pc'[r][d] = pc[r][d] /\ chunk'[r][d] = chunk[r][d]
           /\ pc'[r][b] \in {here, past}
           /\ pc'[r][b] \in LoopPlaces => chunk'[r][b] < chunks(Cur(r))
           /\ \A c \in Nat : c < chunks(Cur(r)) =>
                /\ Beyond(r, b, RS, c)' <=>
                      Beyond(r, b, RS, c) \/ (here = "stage" /\ c = chunk[r][b])
                /\ Beyond(r, b, AG, c)' <=>
                      Beyond(r, b, AG, c) \/ (here = "rs" /\ c = chunk[r][b])
                /\ Copied(r, b, c)' <=>
                      Copied(r, b, c) \/ (here = "ag" /\ c = chunk[r][b])
           /\ here = "stage" => ~Beyond(r, b, RS, chunk[r][b])
           /\ here = "rs" => ~Beyond(r, b, AG, chunk[r][b])
<1> DEFINE c0 == chunk[r][b]
           n == chunks(Cur(r))
           more == c0 + 1 < n
           w == IF more THEN here ELSE past
           c1 == IF more THEN c0 + 1 ELSE 0
<1>1. pc[r][b] \in LoopPlaces /\ pc[r][b] \notin {"done", "start"}
  BY DEF LoopPlaces
<1>2. c0 \in Nat /\ n \in Nat \ {0} /\ c0 < n /\ op[r][b] = Cur(r)
  BY <1>1, PipeBlockFacts
<1>3. Goto(r, b, w) /\ chunk' = [chunk EXCEPT ![r][b] = c1]
  <2>1. chunk \in [Ranks -> [Blocks -> Nat]]
    BY DEF KernelLayer, KernelTypes
  <2> QED
    BY <1>2, <2>1 DEF NextChunk
<1>4. w \in {"done", "start"} \cup OneShotPlaces \cup PipePlaces
  BY DEF OneShotPlaces, PipePlaces
<1>5. /\ pc' \in [Ranks -> [Blocks -> {"done", "start"} \cup OneShotPlaces \cup PipePlaces]]
      /\ pc'[r][b] = w
      /\ \A q \in Ranks \ {r} : pc'[q] = pc[q]
      /\ \A d \in Blocks \ {b} : pc'[r][d] = pc[r][d]
  BY <1>3, <1>4, MoveFacts DEF KernelLayer
<1>6. c1 \in Nat /\ c1 < n /\ (more => c1 = c0 + 1) /\ (~more => c1 = 0 /\ c0 + 1 = n)
  BY <1>2
<1>7. w \in {here, past} /\ (more => w = here) /\ (~more => w = past)
  OBVIOUS
<1> HIDE DEF c1, w
<1>8. /\ chunk' \in [Ranks -> [Blocks -> Nat]] /\ chunk'[r][b] = c1
      /\ \A q \in Ranks \ {r} : chunk'[q] = chunk[q]
      /\ \A d \in Blocks \ {b} : chunk'[r][d] = chunk[r][d]
  <2>1. chunk \in [Ranks -> [Blocks -> Nat]]
    BY DEF KernelLayer, KernelTypes
  <2> QED
    BY <1>3, <1>6, <2>1
<1>9. ~(c0 < c0)
  BY <1>2
<1>10. /\ here = "stage" => ~Beyond(r, b, RS, c0)
       /\ here = "rs" => ~Beyond(r, b, AG, c0)
  BY <1>9 DEF Beyond, RS, AG
<1>11. ASSUME NEW c \in Nat, c < n
       PROVE  /\ Beyond(r, b, RS, c)' <=> Beyond(r, b, RS, c) \/ (here = "stage" /\ c = c0)
              /\ Beyond(r, b, AG, c)' <=> Beyond(r, b, AG, c) \/ (here = "rs" /\ c = c0)
              /\ Copied(r, b, c)' <=> Copied(r, b, c) \/ (here = "ag" /\ c = c0)
  <2>1. /\ more => (c < c1 <=> c < c0 \/ c = c0)
        /\ ~more => (c < c0 \/ c = c0) /\ ~(c < c1)
    BY <1>2, <1>6, <1>11
  <2>2. CASE here = "stage"
    <3>1. past = "rs" /\ pc[r][b] = "stage"
      BY <2>2
    <3> QED
      BY <1>5, <1>7, <1>8, <2>1, <2>2, <3>1 DEF Beyond, Copied, RS, AG
  <2>3. CASE here = "rs"
    <3>1. past = "ag" /\ pc[r][b] \in {"rs", "sum"}
      BY <2>3
    <3> QED
      BY <1>5, <1>7, <1>8, <2>1, <2>3, <3>1 DEF Beyond, Copied, RS, AG
  <2>4. CASE here = "ag"
    <3>1. past = "tail" /\ pc[r][b] \in {"ag", "copy"}
      BY <2>4
    <3> QED
      BY <1>5, <1>7, <1>8, <2>1, <2>4, <3>1 DEF Beyond, Copied, RS, AG
  <2> QED
    BY <2>2, <2>3, <2>4
<1> QED
  BY <1>5, <1>6, <1>7, <1>8, <1>10, <1>11

\* A step of a block of a two-shot kernel.
LEMMA PipeStep ==
    ASSUME KernelLayer, plan' = plan, NEW r \in Ranks, NEW b \in Blocks, PipeCur(r),
           pc[r][b] # "done",
           epoch'[r] = epoch[r], seq'[r] = seq[r], nbytes'[r] = nbytes[r],
           kind'[r] = kind[r], send'[r] = send[r], stage'[r] = stage[r], tail'[r] = tail[r],
           error'[r] = poison'[r], error'[r] = 0 => error[r] = 0 /\ ~Finished(r)',
           \A d \in Blocks \ {b} : pc'[r][d] = pc[r][d] /\ op'[r][d] = op[r][d]
                                   /\ chunk'[r][d] = chunk[r][d],
           pc'[r][b] \in {"done"} \cup PipePlaces,
           pc'[r][b] # "done" => op'[r][b] = Cur(r),
           pc'[r][b] \in LoopPlaces => chunk'[r][b] < chunks(Cur(r)),
           pc'[r][b] = "release" => error'[r] = 0 /\ \A d \in Blocks \ {b} : pc[r][d] = "done",
           SendKept(r),
           \A ph \in Phases, c \in Chunks :
              c < chunks(Cur(r)) /\ Beyond(r, b, ph, c) => Beyond(r, b, ph, c)',
           \A ph \in Phases, c \in Chunks :
              \/ ready'[r][ph][c] = ready[r][ph][c]
              \/ /\ ready'[r][ph][c] = Cur(r) /\ c < chunks(Cur(r)) /\ Filled(r, ph, c)'
                 /\ \A d \in PipeBlocks : Beyond(r, d, ph, c)',
           error'[r] = 0 => PipeInv(r)'
    PROVE  RankKernel(r)'
<1>1. b \in PipeBlocks /\ PipeBlocks \subseteq Blocks /\ epoch[r] < plan.ops
  BY PipeBlockFacts
<1>2. RungInv(r)' /\ (\A d \in Blocks : PlaceInv(r, d)') /\ OneShotInv(r)' /\ CounterInv(r)'
  BY PipeMove
<1>3. PipeInv(r)'
  BY DEF PipeInv
<1>4. \A d \in PipeBlocks, ph \in Phases, c \in Chunks :
         c < chunks(Cur(r)) /\ Beyond(r, d, ph, c) => Beyond(r, d, ph, c)'
  <2>1. \A d \in PipeBlocks \ {b} : \A ph, c :
                (Beyond(r, d, ph, c)' <=> Beyond(r, d, ph, c))
    BY <1>1, BlockMoved
  <2> QED
    BY <2>1
<1>5. ReadyInv(r)'
  BY <1>1, <1>4, ReadyStep
<1> QED
  BY <1>2, <1>3, <1>5 DEF RankKernel

\* A step that no chunk counter counts.
LEMMA UncountedStep ==
    ASSUME KernelLayer, plan' = plan, NEW r \in Ranks, NEW b \in Blocks, PipeCur(r),
           pc[r][b] \notin {"done", "release"},
           epoch'[r] = epoch[r], seq'[r] = seq[r], nbytes'[r] = nbytes[r],
           kind'[r] = kind[r], send'[r] = send[r], stage'[r] = stage[r], tail'[r] = tail[r],
           pipe_send'[r] = pipe_send[r], ready'[r] = ready[r],
           error'[r] = poison'[r], error'[r] = 0 => error[r] = 0,
           \A d \in Blocks \ {b} : pc'[r][d] = pc[r][d] /\ op'[r][d] = op[r][d]
                                   /\ chunk'[r][d] = chunk[r][d],
           pc'[r][b] \in PipePlaces \ {"release"}, op'[r][b] = Cur(r),
           pc'[r][b] \in LoopPlaces => chunk'[r][b] < chunks(Cur(r)),
           \A ph \in Phases, c \in Nat :
              c < chunks(Cur(r)) /\ Beyond(r, b, ph, c) => Beyond(r, b, ph, c)',
           error'[r] = 0 =>
              /\ arrived'[r] = arrived[r] /\ pipe_tail'[r] = pipe_tail[r] /\ stored'[r] = stored[r]
              /\ b = 1 => pc'[r][b] \in {"start", "stage"} \/ pc[r][b] \notin {"start", "stage"}
              /\ \A c \in Nat : c < chunks(Cur(r)) =>
                    /\ \A ph \in Phases : Beyond(r, b, ph, c)' <=> Beyond(r, b, ph, c)
                    /\ Copied(r, b, c)' => Copied(r, b, c)
    PROVE  RankKernel(r)'
<1>1. SendKept(r)
  BY DEF SendKept
<1>2. ~Finished(r)'
  BY DEF Finished, PipePlaces
<1>3. Chunks \subseteq Nat /\ chunks(Cur(r)) \in Nat
  BY PipeBlockFacts, ChunkIds
<1>4. ASSUME error'[r] = 0 PROVE PipeInv(r)'
  <2>1. error[r] = 0 /\ PipeInv(r) /\ Working(r) /\ 1 \in PipeBlocks
    BY <1>4, PipeBlockFacts DEF RankKernel
  <2>2. stored[r] \subseteq 0 .. packs(Cur(r)) - 1 /\ (seq[r] = Cur(r) \/ pc[r][1] \in {"start", "stage"})
    BY <2>1 DEF PipeInv
  <2>3. b = 1 => pc'[r][b] \in {"start", "stage"} \/ seq[r] = Cur(r)
    BY <1>4, <2>2
  <2>4. ASSUME NEW ph \in Phases, NEW c \in Chunks
        PROVE  /\ arrived'[r][ph][c] = arrived[r][ph][c]
               /\ c < chunks(Cur(r)) => (Beyond(r, b, ph, c)' <=> Beyond(r, b, ph, c))
    BY <1>3, <1>4
  <2>5. \A c \in 0 .. chunks(Cur(r)) - 1 :
          /\ Beyond(r, b, RS, c)' => Beyond(r, b, RS, c)
          /\ Beyond(r, b, AG, c)' => Beyond(r, b, AG, c)
          /\ Copied(r, b, c)' => Copied(r, b, c)
    <3>1. \A c \in 0 .. chunks(Cur(r)) - 1 : c \in Nat /\ c < chunks(Cur(r))
      BY <1>3
    <3> QED
      BY <1>4, <3>1 DEF Phases
  <2>6. pc'[r][b] \notin {"release", "done"}
    BY DEF PipePlaces
  <2>7. /\ stored[r] \subseteq stored'[r] /\ stored'[r] \subseteq 0 .. packs(Cur(r)) - 1
        /\ IF pc'[r][b] \in {"release", "done"} /\ pc[r][b] \notin {"release", "done"}
           THEN pipe_tail'[r] = Cardinality(Left(r) \cup {b}) % plan.pipe_blocks
           ELSE /\ pipe_tail'[r] = pipe_tail[r]
                /\ pc'[r][b] \in {"release", "done"} <=> pc[r][b] \in {"release", "done"}
    BY <1>4, <2>2, <2>6
  <2>8. \A ph \in Phases, c \in Chunks :
          IF c < chunks(Cur(r)) /\ Beyond(r, b, ph, c)' /\ ~Beyond(r, b, ph, c)
          THEN arrived'[r][ph][c] =
                  Cardinality(Past(r, ph, c) \cup {b}) % plan.pipe_blocks
          ELSE /\ arrived'[r][ph][c] = arrived[r][ph][c]
               /\ c < chunks(Cur(r)) => (Beyond(r, b, ph, c)' <=> Beyond(r, b, ph, c))
    BY <2>4, Zenon
  <2>9. pc[r][b] # "done" /\ error[r] = 0
    BY <2>1
  <2> HIDE DEF SendKept
  <2> QED
    BY <1>1, <1>2, <2>3, <2>5, <2>7, <2>8, <2>9, HealthyMove
<1>5. /\ error'[r] = 0 => error[r] = 0 /\ ~Finished(r)'
      /\ error'[r] = 0 => PipeInv(r)'
  BY <1>2, <1>4
<1>6. pc'[r][b] \in {"done"} \cup PipePlaces /\ pc'[r][b] # "release" /\ pc[r][b] # "done"
  OBVIOUS
<1>7. \A ph \in Phases, c \in Chunks :
         c < chunks(Cur(r)) /\ Beyond(r, b, ph, c) => Beyond(r, b, ph, c)'
  BY <1>3
<1>8. \A ph \in Phases, c \in Chunks : ready'[r][ph][c] = ready[r][ph][c]
  OBVIOUS
<1> QED
  BY <1>1, <1>5, <1>6, <1>7, <1>8, PipeStep

LEMMA KPipeStart ==
    ASSUME KernelLayer, plan' = plan, NEW r \in Ranks, NEW b \in Blocks, PipeStart(r, b)
    PROVE  KernelLayer'
<1> DEFINE w == IF poison[r] # 0 THEN "tail" ELSE "stage"
<1>1. /\ pc[r][b] = "start" /\ IsPipe(Succ(epoch[r])) /\ Goto(r, b, w)
      /\ op' = [op EXCEPT ![r][b] = Succ(epoch[r])]
      /\ chunk' = [chunk EXCEPT ![r][b] = 0]
      /\ UNCHANGED <<epoch, poison, stage, tail, seq, nbytes, error, send, stored>>
      /\ UNCHANGED <<kind, pipe_send, ready, arrived, pipe_tail>>
  BY DEF PipeStart, device, region
<1>2. w \in {"done", "start"} \cup OneShotPlaces \cup PipePlaces /\ w \in {"tail", "stage"}
      /\ w \in PipePlaces \ {"release"}
  BY DEF OneShotPlaces, PipePlaces
<1>3. PipeCur(r)
  BY <1>1 DEF PipeCur
<1>4. /\ Cur(r) \in Seqs /\ Succ(epoch[r]) = Cur(r) /\ error[r] = poison[r]
      /\ chunks(Cur(r)) \in Nat \ {0}
  BY <1>1, <1>3, PipeBlockFacts
<1>5. /\ pc' \in [Ranks -> [Blocks -> {"done", "start"} \cup OneShotPlaces \cup PipePlaces]]
      /\ pc'[r][b] = w
      /\ \A q \in Ranks \ {r} : pc'[q] = pc[q]
      /\ \A d \in Blocks \ {b} : pc'[r][d] = pc[r][d]
  BY <1>1, <1>2, MoveFacts DEF KernelLayer
<1> HIDE DEF w
<1>6. op \in [Ranks -> [Blocks -> Seqs]] /\ chunk \in [Ranks -> [Blocks -> Nat]]
  BY DEF KernelLayer, KernelTypes
<1>7. /\ op' \in [Ranks -> [Blocks -> Seqs]] /\ op'[r][b] = Cur(r)
      /\ chunk' \in [Ranks -> [Blocks -> Nat]] /\ chunk'[r][b] = 0
      /\ \A q \in Ranks \ {r} : op'[q] = op[q] /\ chunk'[q] = chunk[q]
      /\ \A d \in Blocks \ {b} : op'[r][d] = op[r][d] /\ chunk'[r][d] = chunk[r][d]
  BY <1>1, <1>4, <1>6
<1>8. KernelTypes'
  BY <1>1, <1>5, <1>7 DEF KernelLayer, KernelTypes
<1>9. \A q \in Ranks \ {r} : Still(q)
  BY <1>1, <1>5, <1>7 DEF Still
<1>10. \A ph \in Phases, c \in Nat : ~Beyond(r, b, ph, c)
  BY <1>1 DEF Beyond
<1>11. ASSUME error'[r] = 0
       PROVE  /\ arrived'[r] = arrived[r] /\ pipe_tail'[r] = pipe_tail[r] /\ stored'[r] = stored[r]
              /\ pc'[r][b] \in {"start", "stage"}
              /\ \A c \in Nat : (\A ph \in Phases : ~Beyond(r, b, ph, c)') /\ ~Copied(r, b, c)'
  <2>1. pc'[r][b] = "stage"
    BY <1>1, <1>4, <1>5, <1>11 DEF w
  <2>2. \A c \in Nat : ~(c < 0)
    OBVIOUS
  <2> QED
    BY <1>1, <1>7, <2>1, <2>2 DEF Beyond, Copied
<1>12. 0 < chunks(Cur(r))
  BY <1>4
<1>13. error'[r] = poison'[r] /\ (error'[r] = 0 => error[r] = 0)
  BY <1>1, <1>4
<1>14. pc[r][b] \notin {"done", "release"} /\ pc'[r][b] \in PipePlaces \ {"release"}
       /\ chunk'[r][b] < chunks(Cur(r))
  BY <1>1, <1>2, <1>5, <1>7, <1>12
<1>15. RankKernel(r)'
  BY ZenonT(30), <1>1, <1>3, <1>5, <1>7, <1>10, <1>11, <1>13, <1>14, UncountedStep
<1> QED
  BY <1>8, <1>9, <1>15, KernelOf

LEMMA KWaitChunk ==
    ASSUME KernelLayer, plan' = plan, NEW r \in Ranks, NEW b \in Blocks, WaitChunk(r, b)
    PROVE  KernelLayer'
<1> DEFINE w == IF pc[r][b] = "rs" THEN "sum" ELSE "copy"
<1>1. /\ pc[r][b] \in {"rs", "ag"} /\ Goto(r, b, w)
      /\ UNCHANGED <<epoch, poison, stage, tail, seq, nbytes, error, send, op, stored>>
      /\ UNCHANGED <<kind, pipe_send, ready, arrived, pipe_tail, chunk>>
  BY DEF WaitChunk, device, region, pipe
<1>2. PipeCur(r)
  <2>1. PlaceInv(r, b) /\ pc[r][b] \notin {"done", "start"} \cup OneShotPlaces
    BY <1>1, KernelWords DEF RankKernel, OneShotPlaces
  <2> QED
    BY <2>1 DEF PlaceInv
<1>3. /\ op[r][b] = Cur(r) /\ error[r] = poison[r] /\ chunk[r][b] < chunks(Cur(r))
  BY <1>1, <1>2, PipeBlockFacts DEF LoopPlaces
<1>4. w \in {"done", "start"} \cup OneShotPlaces \cup PipePlaces /\ w \in {"sum", "copy"}
      /\ w \in PipePlaces \ {"release"}
  BY DEF OneShotPlaces, PipePlaces
<1>5. /\ pc' \in [Ranks -> [Blocks -> {"done", "start"} \cup OneShotPlaces \cup PipePlaces]]
      /\ pc'[r][b] = w
      /\ \A q \in Ranks \ {r} : pc'[q] = pc[q]
      /\ \A d \in Blocks \ {b} : pc'[r][d] = pc[r][d]
  BY <1>1, <1>4, MoveFacts DEF KernelLayer
<1>6. KernelTypes'
  BY <1>1, <1>5 DEF KernelLayer, KernelTypes
<1>7. \A q \in Ranks \ {r} : Still(q)
  BY <1>1, <1>5 DEF Still
<1>8. /\ \A ph \in Phases, c \in Nat : Beyond(r, b, ph, c)' <=> Beyond(r, b, ph, c)
      /\ \A c \in Nat : Copied(r, b, c)' <=> Copied(r, b, c)
  <2>1. CASE pc[r][b] = "rs"
    BY <1>1, <1>5, <2>1 DEF Beyond, Copied
  <2>2. CASE pc[r][b] = "ag"
    BY <1>1, <1>5, <2>2 DEF Beyond, Copied
  <2> QED
    BY <1>1, <2>1, <2>2
<1>9. /\ pc[r][b] \notin {"done", "release"} /\ pc'[r][b] \in PipePlaces \ {"release"}
      /\ pc[r][b] \notin {"start", "stage"}
  BY <1>1, <1>4, <1>5
<1>10. /\ \A ph \in Phases, c \in Nat :
            c < chunks(Cur(r)) /\ Beyond(r, b, ph, c) => Beyond(r, b, ph, c)'
       /\ \A d \in Blocks \ {b} : pc'[r][d] = pc[r][d] /\ op'[r][d] = op[r][d]
                                   /\ chunk'[r][d] = chunk[r][d]
       /\ chunk'[r][b] < chunks(Cur(r)) /\ op'[r][b] = Cur(r)
       /\ error'[r] = poison'[r] /\ (error'[r] = 0 => error[r] = 0)
  BY <1>1, <1>3, <1>5, <1>8
<1>11. RankKernel(r)'
  BY <1>1, <1>2, <1>8, <1>9, <1>10, UncountedStep
<1> QED
  BY <1>6, <1>7, <1>11, KernelOf

LEMMA KChunkTimeOut ==
    ASSUME KernelLayer, plan' = plan, NEW r \in Ranks, NEW b \in Blocks, ChunkTimeOut(r, b)
    PROVE  KernelLayer'
<1>1. /\ pc[r][b] \in {"rs", "ag"}
      /\ error' = [error EXCEPT ![r] = op[r][b]] /\ poison' = [poison EXCEPT ![r] = op[r][b]]
      /\ UNCHANGED <<epoch, stage, tail, seq, nbytes, send, pc, op, stored>>
      /\ UNCHANGED <<kind, pipe_send, ready, arrived, pipe_tail, chunk>>
  BY DEF ChunkTimeOut, Report, kernel, pipe
<1>2. PipeCur(r)
  <2>1. PlaceInv(r, b) /\ pc[r][b] \notin {"done", "start"} \cup OneShotPlaces
    BY <1>1, KernelWords DEF RankKernel, OneShotPlaces
  <2> QED
    BY <2>1 DEF PlaceInv
<1>3. /\ op[r][b] = Cur(r) /\ Cur(r) # 0 /\ Cur(r) \in Seqs /\ chunk[r][b] < chunks(Cur(r))
  BY <1>1, <1>2, PipeBlockFacts DEF LoopPlaces
<1>4. /\ error' \in [Ranks -> Seqs] /\ poison' \in [Ranks -> Seqs]
      /\ error'[r] = Cur(r) /\ poison'[r] = Cur(r)
      /\ \A q \in Ranks \ {r} : error'[q] = error[q] /\ poison'[q] = poison[q]
  BY <1>1, <1>3 DEF KernelLayer, KernelTypes
<1>5. KernelTypes'
  BY <1>1, <1>4 DEF KernelLayer, KernelTypes
<1>6. \A q \in Ranks \ {r} : Still(q)
  BY <1>1, <1>4 DEF Still
<1>7. \A ph \in Phases, c \in Nat : Beyond(r, b, ph, c) => Beyond(r, b, ph, c)'
  BY <1>1 DEF Beyond
<1>8. /\ pc[r][b] \notin {"done", "release"} /\ pc'[r][b] \in PipePlaces \ {"release"}
  BY <1>1 DEF PipePlaces
<1>9. error'[r] = poison'[r] /\ error'[r] # 0
  BY <1>3, <1>4
<1>10. RankKernel(r)'
  BY <1>1, <1>2, <1>3, <1>7, <1>8, <1>9, UncountedStep
<1> QED
  BY <1>5, <1>6, <1>10, KernelOf

LEMMA KSkipChunk ==
    ASSUME KernelLayer, plan' = plan, NEW r \in Ranks, NEW b \in Blocks, SkipChunk(r, b)
    PROVE  KernelLayer'
<1>1. /\ pc[r][b] \in {"rs", "ag"} /\ poison[r] # 0
      /\ IF pc[r][b] = "rs"
         THEN _arrive(r, b, AG) /\ NextChunk(r, b, "rs", "ag")
         ELSE NextChunk(r, b, "ag", "tail") /\ UNCHANGED <<arrived, ready>>
      /\ UNCHANGED <<epoch, poison, stage, tail, seq, nbytes, error, send, op, stored>>
      /\ UNCHANGED <<kind, pipe_send, pipe_tail>>
  BY DEF SkipChunk, device, region
<1>2. PipeCur(r)
  <2>1. PlaceInv(r, b) /\ pc[r][b] \notin {"done", "start"} \cup OneShotPlaces
    BY <1>1, KernelWords DEF RankKernel, OneShotPlaces
  <2> QED
    BY <2>1 DEF PlaceInv
<1>3. /\ op[r][b] = Cur(r) /\ error[r] = poison[r] /\ chunk[r][b] \in Chunks
      /\ pc[r][b] \notin {"done", "release"}
  BY <1>1, <1>2, PipeBlockFacts DEF LoopPlaces
<1>4. /\ pc' \in [Ranks -> [Blocks -> {"done", "start"} \cup OneShotPlaces \cup PipePlaces]]
      /\ chunk' \in [Ranks -> [Blocks -> Nat]]
      /\ \A q \in Ranks \ {r} : pc'[q] = pc[q] /\ chunk'[q] = chunk[q]
      /\ \A d \in Blocks \ {b} : pc'[r][d] = pc[r][d] /\ chunk'[r][d] = chunk[r][d]
      /\ pc'[r][b] \in {"rs", "ag", "tail"}
      /\ pc'[r][b] \in LoopPlaces => chunk'[r][b] < chunks(Cur(r))
      /\ \A c \in Nat : c < chunks(Cur(r)) =>
            /\ Beyond(r, b, RS, c) => Beyond(r, b, RS, c)'
            /\ Beyond(r, b, AG, c) => Beyond(r, b, AG, c)'
  <2>1. CASE pc[r][b] = "rs"
    <3>1. NextChunk(r, b, "rs", "ag")
      BY <1>1, <2>1
    <3> QED
      BY <1>2, <2>1, <3>1, LoopStep
  <2>2. CASE pc[r][b] = "ag"
    <3>1. NextChunk(r, b, "ag", "tail")
      BY <1>1, <2>2
    <3> QED
      BY <1>2, <2>2, <3>1, LoopStep
  <2> QED
    BY <1>1, <2>1, <2>2
<1>5. /\ arrived' \in [Ranks -> [Phases -> [Chunks -> 0 .. MaxBlocks - 1]]]
      /\ ready' = ready
      /\ \A q \in Ranks \ {r} : arrived'[q] = arrived[q]
  <2>1. CASE pc[r][b] = "rs"
    <3>1. _arrive(r, b, AG) /\ AG \in Phases
      BY <1>1, <2>1 DEF Phases
    <3>2. ready' = ready
      BY <1>1, <1>3, <3>1 DEF _arrive, NoError
    <3> QED
      BY <1>3, <3>1, <3>2, ArriveFacts
  <2>2. CASE pc[r][b] = "ag"
    BY <1>1, <2>2 DEF KernelLayer, KernelTypes
  <2> QED
    BY <1>1, <2>1, <2>2
<1>6. KernelTypes'
  BY <1>1, <1>4, <1>5 DEF KernelLayer, KernelTypes
<1>7. \A q \in Ranks \ {r} : Still(q)
  BY <1>1, <1>4, <1>5 DEF Still
<1>8. /\ \A ph \in Phases, c \in Nat :
            c < chunks(Cur(r)) /\ Beyond(r, b, ph, c) => Beyond(r, b, ph, c)'
      /\ \A d \in Blocks \ {b} : pc'[r][d] = pc[r][d] /\ op'[r][d] = op[r][d]
                                   /\ chunk'[r][d] = chunk[r][d]
      /\ op'[r][b] = Cur(r) /\ error'[r] = poison'[r] /\ error'[r] # 0
      /\ pc'[r][b] \in PipePlaces \ {"release"}
  BY <1>1, <1>3, <1>4 DEF Phases, PipePlaces
<1>9. RankKernel(r)'
  BY <1>1, <1>2, <1>3, <1>4, <1>5, <1>8, UncountedStep
<1> QED
  BY <1>6, <1>7, <1>9, KernelOf

\* A block stages or reduces its share of a chunk and arrives at it.
LEMMA ArrivingStep ==
    ASSUME KernelLayer, plan' = plan, NEW r \in Ranks, NEW b \in Blocks, PipeCur(r),
           NEW ph \in Phases, NEW here \in {"stage", "rs"}, NEW past \in {"rs", "ag"},
           \/ pc[r][b] = "stage" /\ here = "stage" /\ past = "rs" /\ ph = RS
           \/ pc[r][b] = "sum" /\ here = "rs" /\ past = "ag" /\ ph = AG,
           epoch'[r] = epoch[r], seq'[r] = seq[r], nbytes'[r] = nbytes[r],
           kind'[r] = kind[r], send'[r] = send[r], stage'[r] = stage[r], tail'[r] = tail[r],
           error'[r] = error[r], poison'[r] = poison[r], op'[r] = op[r],
           pipe_tail'[r] = pipe_tail[r],
           error[r] = 0 /\ b = 1 => seq[r] = Cur(r),
           _arrive(r, b, ph), NextChunk(r, b, here, past), SendKept(r),
           stored[r] \subseteq stored'[r],
           error[r] = 0 => stored'[r] \subseteq 0 .. packs(Cur(r)) - 1,
           ph = RS => \A j \in Peers(r) : \A x \in Share(Cur(r), j, chunk[r][b], b) :
                         pipe_send'[r][x] = In(Cur(r)),
           ph = AG => \A x \in Share(Cur(r), r, chunk[r][b], b) :
                         pipe_send'[r][x] = Sum(Cur(r)) /\ x \in stored'[r]
    PROVE  RankKernel(r)'
<1> DEFINE c0 == chunk[r][b]
<1>1. /\ pc[r][b] \in LoopPlaces /\ pc[r][b] # "done" /\ pc[r][b] \notin {"release", "done"}
      /\ <<here, past>> \in {<<"stage", "rs">>, <<"rs", "ag">>, <<"ag", "tail">>}
  BY DEF LoopPlaces
<1>2. /\ Cur(r) \in Seqs /\ IsPipe(Cur(r)) /\ b \in PipeBlocks /\ PipeBlocks \subseteq Blocks
      /\ RankKernel(r) /\ plan \in Plans /\ error[r] = poison[r] /\ op[r][b] = Cur(r)
      /\ c0 \in Chunks /\ c0 < chunks(Cur(r)) /\ chunks(Cur(r)) \in Nat \ {0}
      /\ epoch[r] < plan.ops
  BY <1>1, PipeBlockFacts DEF LoopPlaces
<1>3. Chunks \subseteq Nat /\ \A c \in 0 .. chunks(Cur(r)) - 1 : c \in Nat /\ c < chunks(Cur(r)) /\ c \in Chunks
  BY <1>2, ChunkIds
<1>4. /\ \A d \in Blocks \ {b} : pc'[r][d] = pc[r][d] /\ chunk'[r][d] = chunk[r][d]
      /\ pc'[r][b] \in {here, past}
      /\ pc'[r][b] \in LoopPlaces => chunk'[r][b] < chunks(Cur(r))
  BY <1>1, LoopStep
<1>5. /\ \A c \in Nat : c < chunks(Cur(r)) =>
            /\ Beyond(r, b, RS, c)' <=>
                  Beyond(r, b, RS, c) \/ (here = "stage" /\ c = c0)
            /\ Beyond(r, b, AG, c)' <=>
                  Beyond(r, b, AG, c) \/ (here = "rs" /\ c = c0)
            /\ Copied(r, b, c)' <=>
                  Copied(r, b, c) \/ (here = "ag" /\ c = c0)
      /\ here = "stage" => ~Beyond(r, b, RS, c0)
      /\ here = "rs" => ~Beyond(r, b, AG, c0)
  BY <1>1, LoopStep
<1>6. /\ \A p \in Phases, c \in Nat : c < chunks(Cur(r)) =>
            (Beyond(r, b, p, c)' <=> Beyond(r, b, p, c) \/ (p = ph /\ c = c0))
      /\ \A c \in Nat : c < chunks(Cur(r)) => (Copied(r, b, c)' <=> Copied(r, b, c))
      /\ ~Beyond(r, b, ph, c0)
  <2>1. RS # AG /\ Phases = {RS, AG}
    BY DEF RS, AG, Phases
  <2>2. CASE here = "stage" /\ ph = RS
    BY <1>5, <2>1, <2>2
  <2>3. CASE here = "rs" /\ ph = AG
    BY <1>5, <2>1, <2>3
  <2> QED
    BY <2>2, <2>3
<1>7. b \notin Past(r, ph, c0)
  BY <1>6 DEF Past
<1>8. \A p2 \in Phases, c2 \in Chunks : p2 # ph \/ c2 # c0 =>
        arrived'[r][p2][c2] = arrived[r][p2][c2] /\ ready'[r][p2][c2] = ready[r][p2][c2]
  BY <1>2, ArriveFacts
<1>9. ready'[r][ph][c0] = ready[r][ph][c0] \/ error[r] = 0
  BY <1>2, ArriveFacts
<1>10. /\ pc'[r][b] \notin {"release", "done"} /\ pc'[r][b] \in PipePlaces
       /\ (pc'[r][b] = "stage" => here = "stage")
  BY <1>4 DEF PipePlaces
<1>11. ~Finished(r)'
  BY <1>10 DEF Finished
<1> HIDE DEF c0
<1>12. ASSUME error[r] = 0
       PROVE  /\ PipeInv(r)'
              /\ \A d \in PipeBlocks, c \in 0 .. chunks(Cur(r)) - 1 : ShareInv(r, d, c)'
  <2>1. arrived'[r][ph][c0] = Cardinality(Past(r, ph, c0) \cup {b}) % plan.pipe_blocks
    BY <1>1, <1>7, <1>12, ChunkArrival DEF c0
  <2>2. ASSUME NEW p \in Phases, NEW c \in Chunks
        PROVE  IF c < chunks(Cur(r)) /\ Beyond(r, b, p, c)' /\ ~Beyond(r, b, p, c)
               THEN arrived'[r][p][c] =
                       Cardinality(Past(r, p, c) \cup {b}) % plan.pipe_blocks
               ELSE /\ arrived'[r][p][c] = arrived[r][p][c]
                    /\ c < chunks(Cur(r)) => (Beyond(r, b, p, c)' <=> Beyond(r, b, p, c))
    <3>1. CASE p = ph /\ c = c0
      BY <1>2, <1>3, <1>6, <2>1, <3>1, Zenon
    <3>2. CASE ~(p = ph /\ c = c0)
      <4>1. c < chunks(Cur(r)) => (Beyond(r, b, p, c)' <=> Beyond(r, b, p, c))
        BY <1>3, <1>6, <3>2
      <4>2. arrived'[r][p][c] = arrived[r][p][c]
        BY <1>8, <3>2
      <4> QED
        BY <4>1, <4>2, Zenon
    <3> QED
      BY <3>1, <3>2
  <2>3. ASSUME NEW c \in 0 .. chunks(Cur(r)) - 1
        PROVE  /\ Beyond(r, b, RS, c)' =>
                    \/ Beyond(r, b, RS, c)
                    \/ \A j \in Peers(r) : \A x \in Share(Cur(r), j, c, b) :
                          pipe_send'[r][x] = In(Cur(r))
               /\ Beyond(r, b, AG, c)' =>
                    \/ Beyond(r, b, AG, c)
                    \/ \A x \in Share(Cur(r), r, c, b) :
                          pipe_send'[r][x] = Sum(Cur(r)) /\ x \in stored'[r]
               /\ Copied(r, b, c)' => Copied(r, b, c)
    <3>1. RS \in Phases /\ AG \in Phases /\ c \in Nat /\ c < chunks(Cur(r))
      BY <1>3 DEF Phases
    <3> QED
      BY <1>6, <3>1 DEF c0
  <2>4. IF pc'[r][b] \in {"release", "done"} /\ pc[r][b] \notin {"release", "done"}
        THEN pipe_tail'[r] = Cardinality(Left(r) \cup {b}) % plan.pipe_blocks
        ELSE /\ pipe_tail'[r] = pipe_tail[r]
             /\ pc'[r][b] \in {"release", "done"} <=> pc[r][b] \in {"release", "done"}
    BY <1>1, <1>10
  <2>5. b = 1 => pc'[r][b] \in {"start", "stage"} \/ seq[r] = Cur(r)
    BY <1>12
  <2>6. \A p \in Phases, c \in Chunks :
               IF c < chunks(Cur(r)) /\ Beyond(r, b, p, c)' /\ ~Beyond(r, b, p, c)
               THEN arrived'[r][p][c] =
                       Cardinality(Past(r, p, c) \cup {b}) % plan.pipe_blocks
               ELSE /\ arrived'[r][p][c] = arrived[r][p][c]
                    /\ c < chunks(Cur(r)) => (Beyond(r, b, p, c)' <=> Beyond(r, b, p, c))
    BY <2>2, Zenon
  <2>7. stored'[r] \subseteq 0 .. packs(Cur(r)) - 1
    BY <1>12
  <2> QED
    BY <1>1, <1>4, <1>11, <1>12, <2>3, <2>4, <2>5, <2>6, <2>7, HealthyMove
<1>13. \A p \in Phases, c \in Chunks :
         c < chunks(Cur(r)) /\ Beyond(r, b, p, c) => Beyond(r, b, p, c)'
  BY <1>3, <1>6
<1>14. ASSUME NEW p \in Phases, NEW c \in Chunks, ready'[r][p][c] # ready[r][p][c]
       PROVE  /\ ready'[r][p][c] = Cur(r) /\ c < chunks(Cur(r)) /\ Filled(r, p, c)'
              /\ \A d \in PipeBlocks : Beyond(r, d, p, c)'
  <2>1. p = ph /\ c = c0 /\ error[r] = 0
    BY <1>8, <1>9, <1>14
  <2>2. ready'[r][ph][c0] = Cur(r) /\ Past(r, ph, c0) \cup {b} = PipeBlocks
    BY <1>1, <1>7, <1>14, <2>1, ChunkArrival DEF c0
  <2>3. ASSUME NEW d \in PipeBlocks PROVE Beyond(r, d, p, c)'
    <3>1. CASE d = b
      BY <1>2, <1>3, <1>6, <2>1, <3>1
    <3>2. CASE d # b
      <4>1. Beyond(r, d, p, c)
        BY <2>1, <2>2, <3>2 DEF Past
      <4>2. Beyond(r, d, p, c)' <=> Beyond(r, d, p, c)
        BY <1>2, <1>4, <3>2, BlockMoved
      <4> QED
        BY <4>1, <4>2
    <3> QED
      BY <3>1, <3>2
  <2>4. c \in Nat /\ c \in 0 .. chunks(Cur(r)) - 1
    BY <1>2, <1>3, <2>1
  <2>5. \A d \in PipeBlocks : Beyond(r, d, p, c)' /\ ShareInv(r, d, c)'
    BY <1>12, <2>1, <2>3, <2>4
  <2>6. Filled(r, p, c)'
    BY <1>2, <2>4, <2>5, FilledBy
  <2> QED
    BY <1>2, <2>1, <2>2, <2>3, <2>6
<1>15. /\ error'[r] = poison'[r] /\ (error'[r] = 0 => error[r] = 0 /\ ~Finished(r)')
       /\ \A d \in Blocks \ {b} : pc'[r][d] = pc[r][d] /\ op'[r][d] = op[r][d]
                                   /\ chunk'[r][d] = chunk[r][d]
       /\ pc'[r][b] \in {"done"} \cup PipePlaces /\ op'[r][b] = Cur(r) /\ pc'[r][b] # "release"
       /\ error'[r] = 0 => PipeInv(r)'
  BY <1>2, <1>4, <1>10, <1>11, <1>12
<1>16. \A p \in Phases, c \in Chunks :
          \/ ready'[r][p][c] = ready[r][p][c]
          \/ /\ ready'[r][p][c] = Cur(r) /\ c < chunks(Cur(r)) /\ Filled(r, p, c)'
             /\ \A d \in PipeBlocks : Beyond(r, d, p, c)'
  BY <1>14
<1> QED
  BY <1>1, <1>4, <1>13, <1>15, <1>16, PipeStep

\* What a step that writes pipe_send at the packs of `mine' leaves there.
LEMMA SendWrite ==
    ASSUME KernelTypes, NEW r \in Ranks, NEW mine, NEW v,
           pipe_send' = [pipe_send EXCEPT ![r] =
                            [x \in Packs |-> IF x \in mine THEN v ELSE @[x]]]
    PROVE  /\ DOMAIN pipe_send' = Ranks /\ \A q \in Ranks : DOMAIN pipe_send'[q] = Packs
           /\ \A q \in Ranks \ {r} : pipe_send'[q] = pipe_send[q]
           /\ \A x \in Packs : pipe_send'[r][x] = IF x \in mine THEN v ELSE pipe_send[r][x]
<1>1. DOMAIN pipe_send = Ranks /\ \A q \in Ranks : DOMAIN pipe_send[q] = Packs
  BY DEF KernelTypes
<1>2. pipe_send'[r] = [x \in Packs |-> IF x \in mine THEN v ELSE pipe_send[r][x]]
  BY <1>1
<1>3. DOMAIN pipe_send' = Ranks /\ \A q \in Ranks \ {r} : pipe_send'[q] = pipe_send[q]
  BY <1>1
<1> QED
  BY <1>1, <1>2, <1>3

LEMMA KStageChunk ==
    ASSUME KernelLayer, plan' = plan, NEW r \in Ranks, NEW b \in Blocks, StageChunk(r, b)
    PROVE  KernelLayer'
<1> DEFINE mine == UNION {Share(Cur(r), j, chunk[r][b], b) : j \in Peers(r)}
<1>1. /\ pc[r][b] = "stage" /\ IsPipe(op[r][b])
  BY DEF StageChunk
<1>2. PipeCur(r) /\ op[r][b] = Cur(r)
  BY <1>1, ActiveBlock
<1>3. /\ (b = 1 => seq[r] = Cur(r)) /\ _arrive(r, b, RS) /\ NextChunk(r, b, "stage", "rs")
      /\ pipe_send' = [pipe_send EXCEPT ![r] =
                          [x \in Packs |-> IF x \in mine THEN In(Cur(r)) ELSE @[x]]]
      /\ UNCHANGED <<epoch, poison, stage, tail, seq, nbytes, error, send, op, stored>>
      /\ UNCHANGED <<kind, pipe_tail>>
  BY <1>2 DEF StageChunk, device, region
<1>4. /\ Cur(r) \in Seqs /\ IsPipe(Cur(r)) /\ RankKernel(r) /\ plan \in Plans
      /\ chunk[r][b] \in Chunks /\ chunk[r][b] \in Nat /\ Working(r)
  BY <1>1, <1>2, PipeBlockFacts DEF LoopPlaces
<1>5. /\ DOMAIN pipe_send' = Ranks /\ \A q \in Ranks : DOMAIN pipe_send'[q] = Packs
      /\ \A q \in Ranks \ {r} : pipe_send'[q] = pipe_send[q]
      /\ \A x \in Packs : pipe_send'[r][x] = IF x \in mine THEN In(Cur(r)) ELSE pipe_send[r][x]
  BY <1>3, SendWrite DEF KernelLayer
<1>6. \A j \in Peers(r) : \A x \in Share(Cur(r), j, chunk[r][b], b) :
         x \in ChunkOf(Cur(r), j, chunk[r][b]) /\ x \in Packs /\ x \in mine
  <2> TAKE j \in Peers(r)
  <2> TAKE x \in Share(Cur(r), j, chunk[r][b], b)
  <2>1. j \in Ranks
    BY DEF Peers
  <2>2. x \in ChunkOf(Cur(r), j, chunk[r][b])
    BY <1>4, <2>1, Shares
  <2> QED
    BY <1>4, <2>1, <2>2, ChunkInside
<1>7. \A x \in mine : \E j \in Peers(r) : x \in Share(Cur(r), j, chunk[r][b], b)
  OBVIOUS
<1> HIDE DEF mine
<1>8. SendKept(r)
  <2> SUFFICES ASSUME NEW x \in Packs, x \in mine
               PROVE  /\ pipe_send'[r][x] = In(Cur(r))
                      /\ \E j \in Peers(r), c \in Nat : x \in ChunkOf(Cur(r), j, c)
    BY <1>5 DEF SendKept
  <2> QED
    BY <1>4, <1>5, <1>6, <1>7
<1>9. \A j \in Peers(r) : \A x \in Share(Cur(r), j, chunk[r][b], b) :
         pipe_send'[r][x] = In(Cur(r))
  BY <1>5, <1>6
<1>10. RS \in Phases /\ RS # AG
  BY DEF Phases, RS, AG
<1>11. /\ pc' \in [Ranks -> [Blocks -> {"done", "start"} \cup OneShotPlaces \cup PipePlaces]]
       /\ chunk' \in [Ranks -> [Blocks -> Nat]]
       /\ \A q \in Ranks \ {r} : pc'[q] = pc[q] /\ chunk'[q] = chunk[q]
  BY <1>1, <1>2, <1>3, LoopStep
<1>12. /\ arrived' \in [Ranks -> [Phases -> [Chunks -> 0 .. MaxBlocks - 1]]]
       /\ ready' \in [Ranks -> [Phases -> [Chunks -> Seqs]]]
       /\ \A q \in Ranks \ {r} : arrived'[q] = arrived[q] /\ ready'[q] = ready[q]
  BY <1>3, <1>4, <1>10, ArriveFacts
<1>13. KernelTypes'
  BY <1>3, <1>5, <1>11, <1>12 DEF KernelLayer, KernelTypes
<1>14. \A q \in Ranks \ {r} : Still(q)
  BY <1>3, <1>5, <1>11, <1>12 DEF Still
<1>15. error[r] = 0 => stored'[r] \subseteq 0 .. packs(Cur(r)) - 1
  BY <1>3, <1>4 DEF RankKernel, PipeInv
<1>16. RankKernel(r)'
  BY <1>1, <1>2, <1>3, <1>8, <1>9, <1>10, <1>15, ArrivingStep
<1> QED
  BY <1>13, <1>14, <1>16, KernelOf

LEMMA KReduceChunk ==
    ASSUME KernelLayer, plan' = plan, NEW r \in Ranks, NEW b \in Blocks, ReduceChunk(r, b)
    PROVE  KernelLayer'
<1> DEFINE mine == Share(Cur(r), r, chunk[r][b], b)
<1>1. pc[r][b] = "sum"
  BY DEF ReduceChunk
<1>2. PipeCur(r)
  <2>1. PlaceInv(r, b) /\ pc[r][b] \notin {"done", "start"} \cup OneShotPlaces
    BY <1>1, KernelWords DEF RankKernel, OneShotPlaces
  <2> QED
    BY <2>1 DEF PlaceInv
<1>3. /\ Cur(r) \in Seqs /\ IsPipe(Cur(r)) /\ RankKernel(r) /\ plan \in Plans /\ op[r][b] = Cur(r)
      /\ chunk[r][b] \in Chunks /\ chunk[r][b] \in Nat /\ Working(r)
  BY <1>1, <1>2, PipeBlockFacts DEF LoopPlaces
<1>4. /\ _arrive(r, b, AG) /\ NextChunk(r, b, "rs", "ag")
      /\ pipe_send' = [pipe_send EXCEPT ![r] =
                          [x \in Packs |-> IF x \in mine THEN Sum(Cur(r)) ELSE @[x]]]
      /\ stored' = [stored EXCEPT ![r] = @ \cup mine]
      /\ UNCHANGED <<epoch, poison, stage, tail, seq, nbytes, error, send, op>>
      /\ UNCHANGED <<kind, pipe_tail>>
  BY <1>3 DEF ReduceChunk, device, region
<1>5. /\ DOMAIN pipe_send' = Ranks /\ \A q \in Ranks : DOMAIN pipe_send'[q] = Packs
      /\ \A q \in Ranks \ {r} : pipe_send'[q] = pipe_send[q]
      /\ \A x \in Packs : pipe_send'[r][x] = IF x \in mine THEN Sum(Cur(r)) ELSE pipe_send[r][x]
  BY <1>4, SendWrite DEF KernelLayer
<1>6. \A x \in mine : /\ x \in ChunkOf(Cur(r), r, chunk[r][b]) /\ x \in Packs
                       /\ x \in 0 .. packs(Cur(r)) - 1
  <2> TAKE x \in mine
  <2>1. x \in ChunkOf(Cur(r), r, chunk[r][b])
    BY <1>3, Shares
  <2> QED
    BY <1>3, <2>1, ChunkInside
<1> HIDE DEF mine
<1>7. SendKept(r)
  BY <1>3, <1>5, <1>6 DEF SendKept
<1>8. /\ DOMAIN stored' = Ranks /\ stored'[r] = stored[r] \cup mine
      /\ \A q \in Ranks \ {r} : stored'[q] = stored[q]
  BY <1>4 DEF KernelLayer, KernelTypes
<1>9. \A x \in Share(Cur(r), r, chunk[r][b], b) :
         pipe_send'[r][x] = Sum(Cur(r)) /\ x \in stored'[r]
  <2>1. \A x \in mine : pipe_send'[r][x] = Sum(Cur(r)) /\ x \in stored'[r]
    BY <1>5, <1>6, <1>8
  <2> QED
    BY <2>1 DEF mine
<1>10. AG \in Phases /\ RS # AG
  BY DEF Phases, RS, AG
<1>11. /\ pc' \in [Ranks -> [Blocks -> {"done", "start"} \cup OneShotPlaces \cup PipePlaces]]
       /\ chunk' \in [Ranks -> [Blocks -> Nat]]
       /\ \A q \in Ranks \ {r} : pc'[q] = pc[q] /\ chunk'[q] = chunk[q]
  BY <1>1, <1>2, <1>4, LoopStep
<1>12. /\ arrived' \in [Ranks -> [Phases -> [Chunks -> 0 .. MaxBlocks - 1]]]
       /\ ready' \in [Ranks -> [Phases -> [Chunks -> Seqs]]]
       /\ \A q \in Ranks \ {r} : arrived'[q] = arrived[q] /\ ready'[q] = ready[q]
  BY <1>3, <1>4, <1>10, ArriveFacts
<1>13. KernelTypes'
  BY <1>4, <1>5, <1>8, <1>11, <1>12 DEF KernelLayer, KernelTypes
<1>14. \A q \in Ranks \ {r} : Still(q)
  BY <1>4, <1>5, <1>8, <1>11, <1>12 DEF Still
<1>15. /\ error[r] = 0 => stored'[r] \subseteq 0 .. packs(Cur(r)) - 1
       /\ error[r] = 0 /\ b = 1 => seq[r] = Cur(r)
  <2>1. error[r] = 0 => /\ stored[r] \subseteq 0 .. packs(Cur(r)) - 1
                        /\ seq[r] = Cur(r) \/ pc[r][1] \in {"start", "stage"}
    BY <1>3 DEF RankKernel, PipeInv
  <2> QED
    BY <1>1, <1>6, <1>8, <2>1
<1>16. RankKernel(r)'
  BY <1>1, <1>2, <1>4, <1>7, <1>8, <1>9, <1>10, <1>15, ArrivingStep
<1> QED
  BY <1>13, <1>14, <1>16, KernelOf

LEMMA KCopyChunk ==
    ASSUME KernelLayer, plan' = plan, NEW r \in Ranks, NEW b \in Blocks, CopyChunk(r, b)
    PROVE  KernelLayer'
<1> DEFINE mine == UNION {Share(Cur(r), j, chunk[r][b], b) : j \in Peers(r)}
<1>1. pc[r][b] = "copy"
  BY DEF CopyChunk
<1>2. PipeCur(r)
  <2>1. PlaceInv(r, b) /\ pc[r][b] \notin {"done", "start"} \cup OneShotPlaces
    BY <1>1, KernelWords DEF RankKernel, OneShotPlaces
  <2> QED
    BY <2>1 DEF PlaceInv
<1>3. /\ Cur(r) \in Seqs /\ IsPipe(Cur(r)) /\ RankKernel(r) /\ plan \in Plans /\ op[r][b] = Cur(r)
      /\ chunk[r][b] \in Chunks /\ chunk[r][b] \in Nat /\ Working(r) /\ error[r] = poison[r]
      /\ chunks(Cur(r)) \in Nat
  BY <1>1, <1>2, PipeBlockFacts DEF LoopPlaces
<1>4. /\ NextChunk(r, b, "ag", "tail")
      /\ stored' = [stored EXCEPT ![r] = @ \cup mine]
      /\ UNCHANGED <<epoch, poison, stage, tail, seq, nbytes, error, send, op>>
      /\ UNCHANGED <<kind, pipe_send, ready, arrived, pipe_tail>>
  BY <1>3 DEF CopyChunk, device, region
<1>5. \A j \in Peers(r) : Share(Cur(r), j, chunk[r][b], b) \subseteq mine
  OBVIOUS
<1>6. mine \subseteq 0 .. packs(Cur(r)) - 1
  <2> SUFFICES ASSUME NEW j \in Peers(r), NEW x \in Share(Cur(r), j, chunk[r][b], b)
               PROVE  x \in 0 .. packs(Cur(r)) - 1
    OBVIOUS
  <2>1. j \in Ranks
    BY DEF Peers
  <2>2. x \in ChunkOf(Cur(r), j, chunk[r][b])
    BY <1>3, <2>1, Shares
  <2> QED
    BY <1>3, <2>1, <2>2, ChunkInside
<1> HIDE DEF mine
<1>7. SendKept(r)
  BY <1>4 DEF SendKept
<1>8. /\ DOMAIN stored' = Ranks /\ stored'[r] = stored[r] \cup mine
      /\ \A q \in Ranks \ {r} : stored'[q] = stored[q]
  BY <1>4 DEF KernelLayer, KernelTypes
<1>9. /\ pc' \in [Ranks -> [Blocks -> {"done", "start"} \cup OneShotPlaces \cup PipePlaces]]
      /\ chunk' \in [Ranks -> [Blocks -> Nat]]
      /\ \A q \in Ranks \ {r} : pc'[q] = pc[q] /\ chunk'[q] = chunk[q]
      /\ \A d \in Blocks \ {b} : pc'[r][d] = pc[r][d] /\ chunk'[r][d] = chunk[r][d]
      /\ pc'[r][b] \in {"ag", "tail"}
      /\ pc'[r][b] \in LoopPlaces => chunk'[r][b] < chunks(Cur(r))
      /\ \A c \in Nat : c < chunks(Cur(r)) =>
            /\ Beyond(r, b, RS, c)' <=> Beyond(r, b, RS, c)
            /\ Beyond(r, b, AG, c)' <=> Beyond(r, b, AG, c)
            /\ Copied(r, b, c)' <=> Copied(r, b, c) \/ c = chunk[r][b]
  BY <1>1, <1>2, <1>4, LoopStep
<1>10. KernelTypes'
  BY <1>4, <1>8, <1>9 DEF KernelLayer, KernelTypes
<1>11. \A q \in Ranks \ {r} : Still(q)
  BY <1>4, <1>8, <1>9 DEF Still
<1>12. /\ Phases = {RS, AG} /\ Chunks \subseteq Nat
       /\ \A c \in 0 .. chunks(Cur(r)) - 1 : c \in Nat /\ c < chunks(Cur(r))
  BY <1>3, ChunkIds DEF Phases
<1>13. pc'[r][b] \notin {"release", "done"} /\ pc'[r][b] \in PipePlaces
  BY <1>9 DEF PipePlaces
<1>14. ~Finished(r)'
  BY <1>13 DEF Finished
<1>15. \A p \in Phases, c \in Chunks :
         c < chunks(Cur(r)) => (Beyond(r, b, p, c)' <=> Beyond(r, b, p, c))
  BY <1>9, <1>12
<1>16. ASSUME error[r] = 0 PROVE PipeInv(r)'
  <2>1. /\ stored[r] \subseteq 0 .. packs(Cur(r)) - 1
        /\ seq[r] = Cur(r) \/ pc[r][1] \in {"start", "stage"}
    BY <1>3, <1>16 DEF RankKernel, PipeInv
  <2>2. /\ stored[r] \subseteq stored'[r] /\ stored'[r] \subseteq 0 .. packs(Cur(r)) - 1
        /\ b = 1 => pc'[r][b] \in {"start", "stage"} \/ seq[r] = Cur(r)
    BY <1>1, <1>6, <1>8, <2>1
  <2>3. \A ph \in Phases, c \in Chunks :
          IF c < chunks(Cur(r)) /\ Beyond(r, b, ph, c)' /\ ~Beyond(r, b, ph, c)
          THEN arrived'[r][ph][c] =
                  Cardinality(Past(r, ph, c) \cup {b}) % plan.pipe_blocks
          ELSE /\ arrived'[r][ph][c] = arrived[r][ph][c]
               /\ c < chunks(Cur(r)) => (Beyond(r, b, ph, c)' <=> Beyond(r, b, ph, c))
    BY <1>4, <1>15, Zenon
  <2>4. IF pc'[r][b] \in {"release", "done"} /\ pc[r][b] \notin {"release", "done"}
        THEN pipe_tail'[r] = Cardinality(Left(r) \cup {b}) % plan.pipe_blocks
        ELSE /\ pipe_tail'[r] = pipe_tail[r]
             /\ pc'[r][b] \in {"release", "done"} <=> pc[r][b] \in {"release", "done"}
    BY <1>1, <1>4, <1>13
  <2>5. ASSUME NEW c \in 0 .. chunks(Cur(r)) - 1
        PROVE  /\ Beyond(r, b, RS, c)' => Beyond(r, b, RS, c)
               /\ Beyond(r, b, AG, c)' => Beyond(r, b, AG, c)
               /\ Copied(r, b, c)' =>
                    \/ Copied(r, b, c)
                    \/ \A j \in Peers(r) : Share(Cur(r), j, c, b) \subseteq stored'[r]
    BY <1>5, <1>8, <1>9, <1>12
  <2> QED
    BY <1>1, <1>2, <1>4, <1>7, <1>9, <1>14, <1>16, <2>2, <2>3, <2>4, <2>5, HealthyMove
<1>17. /\ error'[r] = poison'[r] /\ (error'[r] = 0 => error[r] = 0 /\ ~Finished(r)')
       /\ \A d \in Blocks \ {b} : pc'[r][d] = pc[r][d] /\ op'[r][d] = op[r][d]
                                   /\ chunk'[r][d] = chunk[r][d]
       /\ pc'[r][b] \in {"done"} \cup PipePlaces /\ op'[r][b] = Cur(r) /\ pc'[r][b] # "release"
       /\ error'[r] = 0 => PipeInv(r)'
  BY <1>3, <1>4, <1>9, <1>13, <1>14, <1>16
<1>18. RankKernel(r)'
  BY <1>1, <1>2, <1>4, <1>7, <1>9, <1>15, <1>17, PipeStep
<1> QED
  BY <1>10, <1>11, <1>18, KernelOf

LEMMA KDoorbell ==
    ASSUME KernelLayer, plan' = plan, NEW r \in Ranks, Doorbell(r)
    PROVE  KernelLayer'
<1> DEFINE s == Cur(r)
           k == SlotOf(s)
<1>1. /\ 1 \in Blocks /\ pc[r][1] = "stage" /\ IsPipe(op[r][1]) /\ seq[r] # op[r][1]
  BY KernelWords DEF Doorbell
<1>2. PipeCur(r) /\ op[r][1] = s
  BY <1>1, ActiveBlock
<1>3. /\ s \in Seqs /\ s \in Nat \ {0} /\ IsPipe(s) /\ s <= plan.ops /\ RankKernel(r) /\ ~Finished(r)
      /\ plan \in Plans
  BY <1>1, <1>2, PipeBlockFacts
<1>4. /\ k \in SlotIds /\ SlotOf(epoch[r]) # k /\ epoch[r] \in Nat /\ s = epoch[r] + 1
      /\ epoch[r] \in Seqs
  BY KernelWords
<1>5. /\ nbytes' = [nbytes EXCEPT ![r][k] = packs(s)]
      /\ kind' = [kind EXCEPT ![r][k] = 1]
      /\ seq' = [seq EXCEPT ![r] = s]
      /\ UNCHANGED <<epoch, poison, stage, tail, error, send, pc, op, stored>>
      /\ UNCHANGED <<pipe_send, ready, arrived, pipe_tail, chunk>>
  BY <1>2 DEF Doorbell, device, kernel
<1>6. packs(s) \in Nat
  BY <1>3, PlanFacts
<1>7. /\ nbytes' \in [Ranks -> [SlotIds -> Nat]] /\ kind' \in [Ranks -> [SlotIds -> {0, 1}]]
      /\ seq' \in [Ranks -> Seqs] /\ seq'[r] = s
      /\ nbytes'[r][k] = packs(s) /\ kind'[r][k] = 1
      /\ \A i \in SlotIds \ {k} : nbytes'[r][i] = nbytes[r][i] /\ kind'[r][i] = kind[r][i]
      /\ \A q \in Ranks \ {r} : nbytes'[q] = nbytes[q] /\ kind'[q] = kind[q] /\ seq'[q] = seq[q]
  BY <1>3, <1>4, <1>5, <1>6 DEF KernelLayer, KernelTypes
<1>8. KernelTypes'
  BY <1>5, <1>7 DEF KernelLayer, KernelTypes
<1>9. \A q \in Ranks \ {r} : Still(q)
  BY <1>5, <1>7 DEF Still
<1>10. seq[r] = epoch[r] /\ epoch[r] <= plan.ops /\ error[r] = poison[r]
       /\ (epoch[r] > 0 => Launched(r, epoch[r]))
  BY <1>1, <1>2, <1>3, <1>4 DEF RankKernel, RungInv
<1>11. /\ Cur(r)' = Cur(r) /\ PipeCur(r)' /\ CurBlocks(r)' = CurBlocks(r)
       /\ CurSize(r)' = CurSize(r)
  BY <1>2, <1>5, CurFrame
<1>12. /\ chunks(Cur(r))' = chunks(Cur(r)) /\ packs(Cur(r))' = packs(Cur(r))
       /\ PipeBlocks' = PipeBlocks /\ \A t : packs(t)' = packs(t) /\ IsPipe(t)' = IsPipe(t)
       /\ \A t, j, c : ChunkOf(t, j, c)' = ChunkOf(t, j, c)
       /\ \A t, j, c, d : Share(t, j, c, d)' = Share(t, j, c, d)
  BY <1>11, PlanFrame
<1>13. Finished(r)' = Finished(r)
  BY <1>5 DEF Finished
<1>14. RungInv(r)'
  <2>1. ASSUME NEW t \in epoch[r] .. s, t > 0 PROVE Launched(r, t)'
    <3>1. CASE t = s
      <4>1. IsPipe(t)' /\ packs(t)' = packs(s) /\ SlotOf(t) = k
        BY <1>3, <1>12, <3>1
      <4> QED
        BY <1>7, <4>1 DEF Launched, Record
    <3>2. CASE t = epoch[r]
      <4>1. SlotOf(t) \in SlotIds \ {k} /\ Launched(r, t)
        BY <1>10, <2>1, <3>2, KernelWords
      <4> QED
        BY <1>5, <1>7, <1>12, <4>1 DEF Launched, Record
    <3> QED
      BY <1>4, <3>1, <3>2
  <2>2. \A t \in epoch[r] .. s : t > 0 => Launched(r, t)'
    BY <2>1
  <2> QED
    BY <1>3, <1>5, <1>7, <1>10, <1>11, <1>13, <2>2 DEF RungInv
<1>15. ASSUME NEW d \in Blocks PROVE PlaceInv(r, d)'
  <2>1. PlaceInv(r, d) /\ Staged(r, d)' = Staged(r, d)
    BY <1>3, <1>5, <1>11 DEF RankKernel, Staged
  <2>2. \A i \in SlotIds : send'[r][i][d] <= Cur(r)'
    BY <1>5, <1>11, <2>1 DEF PlaceInv
  <2> HIDE DEF s
  <2> QED
    BY <1>2, <1>5, <1>11, <1>12, <1>13, <2>1, <2>2 DEF PlaceInv
<1>16. OneShotInv(r)'
  BY <1>11 DEF OneShotInv
<1>17. CounterInv(r)'
  BY <1>2, <1>3, <1>5, <1>11 DEF RankKernel, CounterInv, MixedCounts
<1>18. /\ \A d, ph, c : Beyond(r, d, ph, c)' = Beyond(r, d, ph, c)
       /\ \A d, c : Copied(r, d, c)' = Copied(r, d, c)
  BY <1>5 DEF Beyond, Copied
<1>19. /\ Left(r)' = Left(r) /\ Working(r)' = Working(r)
       /\ \A ph, c : Past(r, ph, c)' = Past(r, ph, c)
       /\ \A ph, c : Filled(r, ph, c)' = Filled(r, ph, c)
       /\ \A d, c : ShareInv(r, d, c)' = ShareInv(r, d, c)
  <2>1. Left(r)' = Left(r) /\ Working(r)' = Working(r) /\ \A ph, c : Past(r, ph, c)' = Past(r, ph, c)
    BY <1>2, <1>5, <1>11, <1>12, <1>13, <1>18 DEF Left, Working, Past
  <2>2. \A ph, c : Filled(r, ph, c)' = Filled(r, ph, c)
    BY <1>5, <1>11, <1>12 DEF Filled
  <2>3. \A d, c : ShareInv(r, d, c)' = ShareInv(r, d, c)
    BY <1>5, <1>11, <1>12, <1>18 DEF ShareInv
  <2> QED
    BY <2>1, <2>2, <2>3
<1>20. PipeInv(r)'
  BY <1>3, <1>5, <1>7, <1>11, <1>12, <1>13, <1>19 DEF RankKernel, PipeInv
<1>21. ReadyInv(r)'
  BY <1>2, <1>3, <1>5, <1>11, <1>12, <1>13, <1>18, <1>19 DEF RankKernel, ReadyInv
<1>22. RankKernel(r)'
  BY <1>14, <1>15, <1>16, <1>17, <1>20, <1>21 DEF RankKernel
<1> QED
  BY <1>8, <1>9, <1>22, KernelOf

\* Modulo its size, a count of a grid's blocks wraps when all have arrived.
LEMMA GridArrival ==
    ASSUME NEW n \in Nat \ {0}, NEW S \in SUBSET (1 .. n), NEW b \in 1 .. n, b \notin S
    PROVE  /\ ((Cardinality(S) % n) + 1) % n = Cardinality(S \cup {b}) % n
           /\ Cardinality(S \cup {b}) % n = 0 <=> S \cup {b} = 1 .. n
<1>1. /\ Cardinality(S) \in Nat /\ Cardinality(S \cup {b}) = Cardinality(S) + 1
      /\ Cardinality(S \cup {b}) % n = 0 <=> S \cup {b} = 1 .. n
  BY WholeGrid
<1> QED
  BY <1>1, ModAdd

\* An arrival at the tail of a two-shot kernel.
LEMMA TailCount ==
    ASSUME plan \in Plans, NEW r, NEW b \in PipeBlocks, b \notin Left(r),
           pipe_tail[r] = Cardinality(Left(r)) % plan.pipe_blocks
    PROVE  /\ (pipe_tail[r] + 1) % plan.pipe_blocks =
                 Cardinality(Left(r) \cup {b}) % plan.pipe_blocks
           /\ Cardinality(Left(r) \cup {b}) % plan.pipe_blocks = 0 <=>
                 Left(r) \cup {b} = PipeBlocks
<1>1. plan.pipe_blocks \in Nat \ {0} /\ PipeBlocks = 1 .. plan.pipe_blocks
  BY PlanFacts DEF PipeBlocks
<1>2. Left(r) \in SUBSET (1 .. plan.pipe_blocks)
  BY <1>1 DEF Left
<1> QED
  BY <1>1, <1>2, GridArrival

\* The tail counter: its last block finds all others gone.
LEMMA TailArrival ==
    ASSUME KernelLayer, NEW r \in Ranks, NEW b \in Blocks, pc[r][b] = "tail", PipeCur(r),
           error[r] = 0
    PROVE  /\ (pipe_tail[r] + 1) % plan.pipe_blocks =
                 Cardinality(Left(r) \cup {b}) % plan.pipe_blocks
           /\ (pipe_tail[r] + 1) % plan.pipe_blocks = 0 =>
                 \A d \in Blocks \ {b} : pc[r][d] = "done"
           /\ (pipe_tail[r] + 1) % plan.pipe_blocks # 0 =>
                 \E d \in Blocks \ {b} : pc[r][d] # "done"
<1> DEFINE n == plan.pipe_blocks
           S == Left(r)
<1>1. /\ n \in Nat \ {0} /\ b \in PipeBlocks /\ Working(r) /\ RankKernel(r)
      /\ PipeBlocks \subseteq Blocks /\ CurBlocks(r) = PipeBlocks
  BY PipeBlockFacts
<1>2. S \in SUBSET (1 .. n) /\ b \in 1 .. n /\ b \notin S /\ PipeBlocks = 1 .. n
  BY <1>1 DEF Left, PipeBlocks
<1>3. pipe_tail[r] = Cardinality(S) % n
  BY <1>1 DEF RankKernel, PipeInv
<1> HIDE DEF S, n
<1>4. /\ (pipe_tail[r] + 1) % n = Cardinality(S \cup {b}) % n
      /\ Cardinality(S \cup {b}) % n = 0 <=> S \cup {b} = 1 .. n
  BY <1>2, <1>3, TailCount DEF KernelLayer, KernelTypes, S, n
<1>5. ASSUME S \cup {b} = 1 .. n, NEW d \in Blocks \ {b} PROVE pc[r][d] = "done"
  <2>1. PlaceInv(r, d)
    BY <1>1 DEF RankKernel
  <2>2. CASE d \in PipeBlocks
    <3>1. pc[r][d] \in {"release", "done"}
      BY <1>2, <1>5, <2>2 DEF S, Left
    <3> QED
      BY <2>1, <3>1 DEF PlaceInv
  <2>3. CASE d \notin PipeBlocks
    BY <1>1, <2>1, <2>3 DEF PlaceInv
  <2> QED
    BY <2>2, <2>3
<1>6. ASSUME S \cup {b} # 1 .. n PROVE \E d \in Blocks \ {b} : pc[r][d] # "done"
  <2>1. PICK d \in 1 .. n : d \notin S \cup {b}
    BY <1>2, <1>6
  <2> QED
    BY <1>1, <1>2, <2>1 DEF S, Left
<1> QED
  BY <1>4, <1>5, <1>6 DEF S, n

LEMMA KPipeTail ==
    ASSUME KernelLayer, plan' = plan, NEW r \in Ranks, NEW b \in Blocks, PipeTail(r, b)
    PROVE  KernelLayer'
<1> DEFINE v == (pipe_tail[r] + 1) % plan.pipe_blocks
           w == IF v = 0 /\ error[r] = 0 THEN "release" ELSE "done"
<1>1. pc[r][b] = "tail" /\ IsPipe(op[r][b])
  BY DEF PipeTail
<1>2. PipeCur(r) /\ op[r][b] = Cur(r)
  BY <1>1, ActiveBlock
<1>3. /\ pipe_tail' = [pipe_tail EXCEPT ![r] = v] /\ Goto(r, b, w)
      /\ UNCHANGED <<epoch, poison, stage, tail, seq, nbytes, error, send, op, stored>>
      /\ UNCHANGED <<kind, pipe_send, ready, arrived, chunk>>
  BY DEF PipeTail, NoError, device, region, KernelLayer, KernelTypes
<1>4. /\ b \in PipeBlocks /\ PipeBlocks \subseteq Blocks /\ RankKernel(r) /\ error[r] = poison[r]
      /\ Working(r) /\ plan.pipe_blocks \in Nat \ {0} /\ plan.pipe_blocks <= MaxBlocks
      /\ chunks(Cur(r)) \in Nat
  BY <1>1, <1>2, PipeBlockFacts
<1>5. v \in 0 .. MaxBlocks - 1
  <2>1. pipe_tail[r] + 1 \in Int /\ MaxBlocks \in Nat
    BY Consts DEF KernelLayer, KernelTypes
  <2>2. v \in 0 .. plan.pipe_blocks - 1
    BY <1>4, <2>1, ModType
  <2> HIDE DEF v
  <2> QED
    BY <1>4, <2>1, <2>2
<1>6. w \in {"done", "start"} \cup OneShotPlaces \cup PipePlaces /\ w \in {"release", "done"}
  BY DEF PipePlaces
<1>7. /\ pc' \in [Ranks -> [Blocks -> {"done", "start"} \cup OneShotPlaces \cup PipePlaces]]
      /\ pc'[r][b] = w
      /\ \A q \in Ranks \ {r} : pc'[q] = pc[q]
      /\ \A d \in Blocks \ {b} : pc'[r][d] = pc[r][d]
  BY <1>3, <1>6, MoveFacts DEF KernelLayer
<1>8. /\ error[r] = 0 => v = Cardinality(Left(r) \cup {b}) % plan.pipe_blocks
      /\ error[r] = 0 /\ v = 0 => \A d \in Blocks \ {b} : pc[r][d] = "done"
      /\ error[r] = 0 /\ v # 0 => \E d \in Blocks \ {b} : pc[r][d] # "done"
  BY <1>1, <1>2, TailArrival
<1> HIDE DEF v
<1>9. /\ pipe_tail' \in [Ranks -> 0 .. MaxBlocks - 1] /\ pipe_tail'[r] = v
      /\ \A q \in Ranks \ {r} : pipe_tail'[q] = pipe_tail[q]
  BY <1>3, <1>5 DEF KernelLayer, KernelTypes
<1>10. KernelTypes'
  BY <1>3, <1>7, <1>9 DEF KernelLayer, KernelTypes
<1>11. \A q \in Ranks \ {r} : Still(q)
  BY <1>3, <1>7, <1>9 DEF Still
<1>12. w = "release" => v = 0 /\ error[r] = 0
  OBVIOUS
<1>13. error[r] = 0 => ~Finished(r)'
  <2>1. CASE v = 0
    BY <1>7, <2>1 DEF Finished
  <2>2. CASE v # 0
    BY <1>7, <1>8, <2>2 DEF Finished
  <2> QED
    BY <2>1, <2>2
<1> HIDE DEF w
<1>14. /\ \A ph, c : Beyond(r, b, ph, c) /\ Beyond(r, b, ph, c)'
       /\ \A c : Copied(r, b, c) /\ Copied(r, b, c)'
  BY <1>1, <1>6, <1>7 DEF Beyond, Copied
<1>15. SendKept(r)
  BY <1>3 DEF SendKept
<1>16. pc'[r][b] \in {"release", "done"} /\ pc[r][b] \notin {"release", "done"}
  BY <1>1, <1>6, <1>7
<1>17. ASSUME error[r] = 0 PROVE PipeInv(r)'
  <2>1. /\ stored[r] \subseteq 0 .. packs(Cur(r)) - 1
        /\ seq[r] = Cur(r) \/ pc[r][1] \in {"start", "stage"}
    BY <1>4, <1>17 DEF RankKernel, PipeInv
  <2>2. /\ stored[r] \subseteq stored'[r] /\ stored'[r] \subseteq 0 .. packs(Cur(r)) - 1
        /\ b = 1 => pc'[r][b] \in {"start", "stage"} \/ seq[r] = Cur(r)
    BY <1>1, <1>3, <2>1
  <2>3. \A ph \in Phases, c \in Chunks :
          IF c < chunks(Cur(r)) /\ Beyond(r, b, ph, c)' /\ ~Beyond(r, b, ph, c)
          THEN arrived'[r][ph][c] =
                  Cardinality(Past(r, ph, c) \cup {b}) % plan.pipe_blocks
          ELSE /\ arrived'[r][ph][c] = arrived[r][ph][c]
               /\ c < chunks(Cur(r)) => (Beyond(r, b, ph, c)' <=> Beyond(r, b, ph, c))
    BY <1>3, <1>14, Zenon
  <2>4. IF pc'[r][b] \in {"release", "done"} /\ pc[r][b] \notin {"release", "done"}
        THEN pipe_tail'[r] = Cardinality(Left(r) \cup {b}) % plan.pipe_blocks
        ELSE /\ pipe_tail'[r] = pipe_tail[r]
             /\ pc'[r][b] \in {"release", "done"} <=> pc[r][b] \in {"release", "done"}
    BY <1>8, <1>9, <1>16, <1>17
  <2>5. \A c \in 0 .. chunks(Cur(r)) - 1 :
          Beyond(r, b, RS, c) /\ Beyond(r, b, AG, c) /\ Copied(r, b, c)
    BY <1>14
  <2>6. ~Finished(r)' /\ pc[r][b] # "done"
    BY <1>1, <1>13, <1>17
  <2>7. \A d \in Blocks \ {b} : pc'[r][d] = pc[r][d] /\ chunk'[r][d] = chunk[r][d]
    BY <1>3, <1>7
  <2> QED
    BY <1>2, <1>3, <1>15, <1>17, <2>2, <2>3, <2>4, <2>5, <2>6, <2>7, HealthyMove
<1>18. /\ error'[r] = poison'[r] /\ (error'[r] = 0 => error[r] = 0 /\ ~Finished(r)')
       /\ \A d \in Blocks \ {b} : pc'[r][d] = pc[r][d] /\ op'[r][d] = op[r][d]
                                   /\ chunk'[r][d] = chunk[r][d]
       /\ pc'[r][b] \in {"done"} \cup PipePlaces /\ op'[r][b] = Cur(r)
       /\ pc'[r][b] \notin LoopPlaces /\ pc[r][b] # "done"
       /\ pc'[r][b] = "release" => error'[r] = 0 /\ \A d \in Blocks \ {b} : pc[r][d] = "done"
       /\ error'[r] = 0 => PipeInv(r)'
  BY <1>1, <1>2, <1>3, <1>4, <1>6, <1>7, <1>8, <1>12, <1>13, <1>17 DEF PipePlaces, LoopPlaces
<1>19. RankKernel(r)'
  BY <1>2, <1>3, <1>14, <1>15, <1>18, PipeStep
<1> QED
  BY <1>10, <1>11, <1>19, KernelOf

LEMMA KPublish ==
    ASSUME KernelLayer, plan' = plan, NEW r \in Ranks, NEW b \in Blocks, Publish(r, b)
    PROVE  KernelLayer'
<1>1. /\ pc[r][b] = "release" /\ epoch' = [epoch EXCEPT ![r] = op[r][b]] /\ Goto(r, b, "done")
      /\ UNCHANGED <<poison, stage, tail, seq, nbytes, error, send, op, stored>>
      /\ UNCHANGED <<kind, pipe_send, ready, arrived, pipe_tail, chunk>>
  BY DEF Publish, region, pipe
<1>2. PipeCur(r)
  <2>1. PlaceInv(r, b) /\ pc[r][b] \notin {"done", "start"} \cup OneShotPlaces
    BY <1>1, KernelWords DEF RankKernel, OneShotPlaces
  <2> QED
    BY <2>1 DEF PlaceInv
<1>3. /\ Cur(r) \in Seqs /\ IsPipe(Cur(r)) /\ RankKernel(r) /\ plan \in Plans /\ op[r][b] = Cur(r)
      /\ Working(r) /\ epoch[r] < plan.ops /\ PlaceInv(r, b) /\ b \in PipeBlocks
      /\ PipeBlocks \subseteq Blocks /\ 1 \in PipeBlocks
      /\ plan.pipe_blocks \in Nat \ {0}
  BY <1>1, <1>2, PipeBlockFacts
<1>4. error[r] = 0 /\ \A d \in Blocks \ {b} : pc[r][d] = "done"
  BY <1>1, <1>3 DEF PlaceInv
<1>5. /\ pc' \in [Ranks -> [Blocks -> {"done", "start"} \cup OneShotPlaces \cup PipePlaces]]
      /\ pc'[r][b] = "done"
      /\ \A q \in Ranks \ {r} : pc'[q] = pc[q]
      /\ \A d \in Blocks \ {b} : pc'[r][d] = pc[r][d]
  BY <1>1, MoveFacts DEF KernelLayer
<1>6. /\ epoch' \in [Ranks -> Seqs] /\ epoch'[r] = Cur(r)
      /\ \A q \in Ranks \ {r} : epoch'[q] = epoch[q]
  BY <1>1, <1>3 DEF KernelLayer, KernelTypes
<1>7. KernelTypes'
  BY <1>1, <1>5, <1>6 DEF KernelLayer, KernelTypes
<1>8. \A q \in Ranks \ {r} : Still(q)
  BY <1>1, <1>5, <1>6 DEF Still
<1>9. \A d \in PipeBlocks : pc[r][d] \in {"release", "done"}
  BY <1>1, <1>3, <1>4
<1>10. \A d \in PipeBlocks : \A ph, c : Beyond(r, d, ph, c) /\ Copied(r, d, c)
  BY <1>9 DEF Beyond, Copied
<1>11. Left(r) = PipeBlocks /\ \A ph, c : Past(r, ph, c) = PipeBlocks
  BY <1>9, <1>10 DEF Left, Past
<1>12. Cardinality(PipeBlocks) % plan.pipe_blocks = 0
  <2>1. \A n \in Nat \ {0} : Cardinality(1 .. n) = n /\ n % n = 0
    BY FS_Interval, ModSelf
  <2> QED
    BY <1>3, <2>1 DEF PipeBlocks
<1>13. /\ \A ph \in Phases, c \in Chunks : arrived[r][ph][c] =
              IF c < chunks(Cur(r)) THEN Cardinality(Past(r, ph, c)) % plan.pipe_blocks ELSE 0
       /\ pipe_tail[r] = Cardinality(Left(r)) % plan.pipe_blocks
       /\ seq[r] = Cur(r) \/ pc[r][1] \in {"start", "stage"}
       /\ stored[r] \subseteq 0 .. packs(Cur(r)) - 1
       /\ \A d \in PipeBlocks, c \in 0 .. chunks(Cur(r)) - 1 : ShareInv(r, d, c)
  BY <1>3, <1>4 DEF RankKernel, PipeInv
<1>14. /\ \A ph \in Phases, c \in Chunks : arrived[r][ph][c] = 0
       /\ pipe_tail[r] = 0
  BY <1>11, <1>12, <1>13
<1>15. seq[r] = Cur(r)
  BY <1>3, <1>9, <1>13
<1>16. \A g \in GridSizes : stage[r][g] % g = 0 /\ tail'[r][g] % g = 0
  BY <1>1, <1>2, <1>3, <1>4 DEF RankKernel, CounterInv, MixedCounts
<1>17. stored[r] = 0 .. packs(Cur(r)) - 1
  BY <1>3, <1>10, <1>13, WholeMessage
<1>18. \A d \in Blocks : pc'[r][d] = "done"
  BY <1>4, <1>5
<1>19. RankKernel(r)'
  BY <1>1, <1>3, <1>4, <1>6, <1>14, <1>15, <1>16, <1>17, <1>18, EpochPublished
<1> QED
  BY <1>7, <1>8, <1>19, KernelOf

LEMMA KReleaseTimeOut ==
    ASSUME KernelLayer, plan' = plan, NEW r \in Ranks, NEW b \in Blocks, ReleaseTimeOut(r, b)
    PROVE  KernelLayer'
<1>1. /\ pc[r][b] = "release" /\ Goto(r, b, "done")
      /\ error' = [error EXCEPT ![r] = op[r][b]] /\ poison' = [poison EXCEPT ![r] = op[r][b]]
      /\ UNCHANGED <<epoch, stage, tail, seq, nbytes, send, op, stored>>
      /\ UNCHANGED <<kind, pipe_send, ready, arrived, pipe_tail, chunk>>
  BY DEF ReleaseTimeOut, Report, pipe
<1>2. PipeCur(r)
  <2>1. PlaceInv(r, b) /\ pc[r][b] \notin {"done", "start"} \cup OneShotPlaces
    BY <1>1, KernelWords DEF RankKernel, OneShotPlaces
  <2> QED
    BY <2>1 DEF PlaceInv
<1>3. op[r][b] = Cur(r) /\ Cur(r) # 0 /\ Cur(r) \in Seqs
  BY <1>1, <1>2, PipeBlockFacts
<1>4. /\ error' \in [Ranks -> Seqs] /\ poison' \in [Ranks -> Seqs]
      /\ error'[r] = Cur(r) /\ poison'[r] = Cur(r)
      /\ \A q \in Ranks \ {r} : error'[q] = error[q] /\ poison'[q] = poison[q]
  BY <1>1, <1>3 DEF KernelLayer, KernelTypes
<1>5. /\ pc' \in [Ranks -> [Blocks -> {"done", "start"} \cup OneShotPlaces \cup PipePlaces]]
      /\ pc'[r][b] = "done"
      /\ \A q \in Ranks \ {r} : pc'[q] = pc[q]
      /\ \A d \in Blocks \ {b} : pc'[r][d] = pc[r][d]
  BY <1>1, MoveFacts DEF KernelLayer
<1>6. KernelTypes'
  BY <1>1, <1>4, <1>5 DEF KernelLayer, KernelTypes
<1>7. \A q \in Ranks \ {r} : Still(q)
  BY <1>1, <1>4, <1>5 DEF Still
<1>8. \A ph, c : Beyond(r, b, ph, c)'
  BY <1>5 DEF Beyond
<1>9. SendKept(r)
  BY <1>1 DEF SendKept
<1>10. /\ error'[r] = poison'[r] /\ error'[r] # 0 /\ pc'[r][b] = "done" /\ pc[r][b] # "done"
       /\ pc'[r][b] \notin LoopPlaces
       /\ \A d \in Blocks \ {b} : pc'[r][d] = pc[r][d] /\ op'[r][d] = op[r][d]
                                   /\ chunk'[r][d] = chunk[r][d]
  BY <1>1, <1>3, <1>4, <1>5 DEF LoopPlaces
<1>11. RankKernel(r)'
  BY <1>1, <1>2, <1>8, <1>9, <1>10, PipeStep
<1> QED
  BY <1>6, <1>7, <1>11, KernelOf

\* The first layer holds at the start ...
LEMMA KernelInit == PipeInit => KernelLayer
<1> SUFFICES ASSUME PipeInit PROVE KernelLayer
  OBVIOUS
<1>1. 0 \in Seqs /\ 0 \in 0 .. MaxBlocks - 1 /\ plan \in Plans /\ Init
  BY Consts DEF Seqs, PipeInit
<1>2. KernelTypes
  BY <1>1 DEF PipeInit, Init, KernelTypes
<1>3. ASSUME NEW r \in Ranks PROVE RankKernel(r)
  <2>1. /\ epoch[r] = 0 /\ seq[r] = 0 /\ poison[r] = 0 /\ error[r] = 0 /\ stored[r] = {}
        /\ (\A b \in Blocks : pc[r][b] = "done")
        /\ (\A g \in Blocks : stage[r][g] = 0 /\ tail[r][g] = 0)
        /\ (\A k \in SlotIds, b \in Blocks : send[r][k][b] = 0)
        /\ (\A ph \in Phases, c \in Chunks : ready[r][ph][c] = 0 /\ arrived[r][ph][c] = 0)
        /\ pipe_tail[r] = 0
    BY <1>1 DEF PipeInit, Init
  <2>2. /\ Cur(r) = 1 /\ plan.ops \in Nat /\ packs(0) = 0 /\ ~IsPipe(0)
    BY <1>1, <2>1, PlanFacts DEF Cur, IsPipe, Seqs
  <2>3. Finished(r) /\ ~Working(r)
    BY <2>1 DEF Finished, Working
  <2>4. SlotOf(1) \in SlotIds /\ CurGrid(r) \subseteq Blocks /\ 1 \in CurGrid(r)
    <3>1. Succ(0) \in Seqs
      BY <1>1, SuccFacts
    <3> QED
      BY <2>1, <3>1, SlotFacts, Consts DEF CurGrid, CurSize, Blocks
  <2>5. \A b \in Blocks : ~Staged(r, b)
    BY <2>1, <2>2, <2>4 DEF Staged
  <2>6. Counted(r) = {} /\ Counted(r) # CurGrid(r) /\ Retired(r) = CurGrid(r)
    BY <2>1, <2>4, <2>5 DEF Counted, Retired
  <2>7. RungInv(r)
    BY <2>1, <2>2 DEF RungInv
  <2>8. ASSUME NEW b \in Blocks PROVE PlaceInv(r, b)
    BY <2>1, <2>2, <2>5 DEF PlaceInv, LoopPlaces
  <2>9. OneShotInv(r)
    <3>1. ASSUME NEW b \in Blocks PROVE StagedInv(r, b)
      BY <2>1 DEF StagedInv, OneShotPlaces
    <3> QED
      BY <2>1, <2>2, <2>3, <2>6, <3>1 DEF OneShotInv
  <2>10. CounterInv(r)
    <3>1. \A g \in GridSizes : g \in Blocks /\ g \in Nat \ {0} /\ 0 % g = 0
      BY Consts, ModSmall DEF GridSizes, Blocks
    <3>2. \A n \in Nat \ {0} : Cardinality(1 .. n) = n /\ n % n = 0
      BY FS_Interval, ModSelf
    <3>3. Cardinality({}) = 0
      BY FS_EmptySet
    <3>4. \A g \in GridSizes : stage[r][g] % g = 0 /\ tail[r][g] % g = 0
      BY <2>1, <3>1
    <3>5. CurGrid(r) = 1 .. CurSize(r)
      BY DEF CurGrid
    <3>6. \A g \in GridSizes : g = CurSize(r) => Cardinality(CurGrid(r)) % g = 0
      BY <3>1, <3>2, <3>5
    <3> QED
      BY <2>6, <3>1, <3>3, <3>4, <3>6 DEF CounterInv, MixedCounts
  <2>11. PipeInv(r)
    BY <2>1, <2>2, <2>3 DEF PipeInv
  <2>12. ReadyInv(r)
    BY <2>1, <2>2 DEF ReadyInv
  <2> QED
    BY <2>7, <2>8, <2>9, <2>10, <2>11, <2>12 DEF RankKernel
<1> QED
  BY <1>2, <1>3 DEF KernelLayer

\* ... and every step of a kernel, the proxy, the network or the host keeps it.
LEMMA KernelNext == KernelLayer /\ [PipeNext]_allVars => KernelLayer'
<1> SUFFICES ASSUME KernelLayer, [PipeNext]_allVars PROVE KernelLayer'
  OBVIOUS
<1>1. CASE UNCHANGED allVars
  BY <1>1, KernelStill DEF allVars, vars, device, region, kernel, pipe, kernelVars
<1>2. CASE Progress
  <2>1. plan' = plan
    BY <1>2 DEF Progress
  <2>2. PICK r \in Ranks :
         \/ /\ epoch[r] < plan.ops /\ poison[r] = 0
            /\ \/ PipeLaunch(r)
               \/ ~IsPipe(Succ(epoch[r])) /\ Launch(r) /\ UNCHANGED pipe
         \/ \E b \in Blocks : OneShotBlock(r, b) \/ PipeBlock(r, b)
         \/ OneShotProxy(r) \/ PipeProxy(r)
         \/ Start(r) /\ UNCHANGED pipe
         \/ \E l \in Links(r) : PipeNetwork(r, l)
    BY <1>2 DEF Progress
  <2>3. CASE /\ epoch[r] < plan.ops /\ poison[r] = 0
             /\ \/ PipeLaunch(r)
                \/ ~IsPipe(Succ(epoch[r])) /\ Launch(r) /\ UNCHANGED pipe
    BY <2>1, <2>3, KLaunch
  <2>4. ASSUME NEW b \in Blocks, OneShotBlock(r, b) PROVE KernelLayer'
    BY <2>1, <2>4, KStartBlock, KStage, KRing, KWait, KReduce, KFinish, KArrive
       DEF OneShotBlock
  <2>5. ASSUME NEW b \in Blocks, PipeBlock(r, b) PROVE KernelLayer'
    BY <2>1, <2>5, KPipeStart, KStageChunk, KWaitChunk, KSkipChunk, KReduceChunk, KCopyChunk,
       KPipeTail, KPublish, KDoorbell DEF PipeBlock
  <2>6. CASE OneShotProxy(r)
    <3>1. UNCHANGED kernelVars
      BY <2>1, <2>6 DEF OneShotProxy, Poll, EndOp, IdlePoll, Leave, Post, Throttle, kernelVars,
         device, region, kernel, pipe, restOfPipe
    <3> QED
      BY <3>1, KernelStill
  <2>7. CASE PipeProxy(r)
    <3>1. UNCHANGED kernelVars
      BY <2>1, <2>7 DEF PipeProxy, TakeChunk, PostChunk, GiveUp, Release, kernelVars,
         vars, device, region, kernel, pipe
    <3> QED
      BY <3>1, KernelStill
  <2>8. CASE Start(r) /\ UNCHANGED pipe
    BY <2>1, <2>8, KernelStill DEF Start, kernelVars, device, region, kernel, pipe
  <2>9. ASSUME NEW l \in Links(r), PipeNetwork(r, l) PROVE KernelLayer'
    <3>1. UNCHANGED kernelVars
      BY ZenonT(30), <2>1, <2>9 DEF PipeNetwork, WriteChunk, WriteChunkFlag, Network, WritePayload,
         WriteFlag, kernelVars, device, region, kernel, pipe
    <3> QED
      BY SMTT(60), <3>1, KernelStill
  <2> QED
    BY <2>2, <2>3, <2>4, <2>5, <2>6, <2>7, <2>8, <2>9
<1>3. CASE Trouble
  <2>1. plan' = plan
    BY <1>3 DEF Trouble
  <2>2. PICK r \in Ranks :
         \/ CheckHealth(r) /\ UNCHANGED pipe
         \/ r \in plan.stopped /\ Stop(r) /\ UNCHANGED pipe
         \/ /\ plan.faulty
            /\ \/ \E b \in Blocks :
                    \/ ChunkTimeOut(r, b) \/ ReleaseTimeOut(r, b)
                    \/ ~IsPipe(op[r][b]) /\ TimeOut(r, b) /\ UNCHANGED pipe
               \/ \E l \in Links(r) : Break(r, l) /\ UNCHANGED pipe
    BY <1>3 DEF Trouble
  <2>3. CASE UNCHANGED pipe /\ (CheckHealth(r) \/ Stop(r) \/ \E l \in Links(r) : Break(r, l))
    <3>1. UNCHANGED kernelVars
      BY <2>1, <2>3 DEF CheckHealth, Stop, Break, kernelVars, device, region, kernel, pipe
    <3> QED
      BY <3>1, KernelStill
  <2>4. ASSUME NEW b \in Blocks,
               \/ ChunkTimeOut(r, b) \/ ReleaseTimeOut(r, b)
               \/ ~IsPipe(op[r][b]) /\ TimeOut(r, b) /\ UNCHANGED pipe
        PROVE  KernelLayer'
    BY <2>1, <2>4, KChunkTimeOut, KReleaseTimeOut, KTimeOut
  <2> QED
    BY <2>2, <2>3, <2>4
<1> QED
  BY <1>1, <1>2, <1>3 DEF PipeNext

\* What a rank's kernel has done of the operation after the epoch: where its
\* blocks stand, what its counters count, which chunks are released, and what is
\* in pipe_send and in the output.  It needs no assumption on the send queues.
THEOREM PipeKernelInvariant == PipeSpec => []KernelLayer
BY KernelInit, KernelNext, PTL DEF PipeSpec

\* A rank whose error word is clear after a two-shot kernel has stored every
\* pack of the result.
THEOREM TwoShotHealthyIsWhole == PipeSpec => []HealthyIsWhole
<1>1. KernelLayer => HealthyIsWhole
  BY DEF KernelLayer, RankKernel, PipeInv, HealthyIsWhole
<1> QED
  BY <1>1, PipeKernelInvariant, PTL

-----------------------------------------------------------------------------
(* The second layer: what it says of a state. *)

\* The proxy's words, in their order.
LEMMA OrderWords ==
    ASSUME KernelLayer, OrderLayer, NEW r \in Ranks
    PROVE  /\ last_seq[r] \in Seqs /\ upto[r] \in Seqs /\ pipe_done[r] \in Seqs
           /\ last_seq[r] \in Nat /\ upto[r] \in Nat /\ pipe_done[r] \in Nat
           /\ epoch[r] \in Nat /\ seq[r] \in Nat /\ Cur(r) = epoch[r] + 1
           /\ last_seq[r] <= upto[r] /\ upto[r] <= seq[r] /\ seq[r] <= epoch[r] + 1
           /\ todo[r] \subseteq Links(r) /\ broken[r] \subseteq Links(r)
           /\ OpenInv(r) /\ DoneInv(r) /\ BrokenInv(r) /\ AwaitedInv(r) /\ Got(r, epoch[r])
           /\ \A l \in Links(r) : PostedInv(r, l)
<1>1. /\ last_seq[r] \in Seqs /\ upto[r] \in Seqs /\ pipe_done[r] \in Seqs /\ Seqs \subseteq Nat
  BY KernelWords DEF OrderLayer, OrderTypes
<1>2. /\ epoch[r] \in Nat /\ seq[r] \in Nat /\ Cur(r) = epoch[r] + 1
  BY KernelWords
<1>3. seq[r] <= epoch[r] + 1
  BY <1>2 DEF KernelLayer, RankKernel, RungInv
<1>4. RankOrder(r) /\ todo[r] \subseteq Links(r) /\ broken[r] \subseteq Links(r)
  BY DEF OrderLayer, OrderTypes
<1> QED
  BY <1>1, <1>2, <1>3, <1>4 DEF RankOrder, OpenInv

\* The flag words of a link are sequences.
LEMMA FlagTypes ==
    ASSUME OrderTypes, NEW r \in Ranks, NEW l \in Links(r)
    PROVE  /\ FlagWords(r, l) \subseteq Seqs /\ FlagWords(r, l) \subseteq Nat
           /\ \A k \in SlotIds : flag[l[1]][r][k][l[2]] \in FlagWords(r, l)
           /\ \A ph \in Phases, c \in Chunks : pipe_flag[l[1]][r][ph][l[2]][c] \in FlagWords(r, l)
           /\ \A f : f \in FlagWords(r, l) <=>
                 \/ \E k \in SlotIds : f = flag[l[1]][r][k][l[2]]
                 \/ \E ph \in Phases : \E c \in Chunks : f = pipe_flag[l[1]][r][ph][l[2]][c]
<1>1. l[1] \in Ranks /\ l[2] \in Hcas
  BY LinkFacts
<1>2. \A k \in SlotIds : flag[l[1]][r][k][l[2]] \in Seqs
  BY <1>1 DEF OrderTypes, FlagsTyped
<1>3. \A ph \in Phases, c \in Chunks : pipe_flag[l[1]][r][ph][l[2]][c] \in Seqs
  BY <1>1 DEF OrderTypes, FlagsTyped
<1>4. Seqs \subseteq Nat
  BY DEF Seqs
<1>5. \A f : f \in FlagWords(r, l) <=>
             \/ \E k \in SlotIds : f = flag[l[1]][r][k][l[2]]
             \/ \E ph \in Phases : \E c \in Chunks : f = pipe_flag[l[1]][r][ph][l[2]][c]
  BY DEF FlagWords
<1>6. FlagWords(r, l) \subseteq Seqs
  BY <1>2, <1>3, <1>5
<1>7. \A k \in SlotIds : flag[l[1]][r][k][l[2]] \in FlagWords(r, l)
  BY <1>5
<1>8. \A ph \in Phases, c \in Chunks : pipe_flag[l[1]][r][ph][l[2]][c] \in FlagWords(r, l)
  BY <1>5
<1> QED
  BY <1>4, <1>5, <1>6, <1>7, <1>8

\* A peer's epoch is in one of the words on the link to it.
LEMMA Known ==
    ASSUME KernelLayer, OrderLayer, NEW r \in Ranks, NEW l \in Links(r)
    PROVE  \E f \in FlagWords(r, l) : f >= epoch[l[1]]
<1> DEFINE p == l[1]
           e == epoch[p]
<1>1. p \in Ranks /\ <<r, l[2]>> \in Links(p)
  BY LinkFacts
<1>2. Got(p, e) /\ e \in Seqs /\ e \in Nat /\ plan \in Plans
  BY <1>1, OrderWords, KernelWords
<1>3. FlagWords(r, l) \subseteq Nat
  BY FlagTypes DEF OrderLayer
<1> HIDE DEF e
<1>4. CASE IsPipe(e)
  <2>1. 0 \in 0 .. chunks(e) - 1 /\ 0 \in Chunks /\ RS \in Phases
    BY <1>2, <1>4, ChunkIds DEF Phases
  <2>2. pipe_flag[p][r][RS][l[2]][0] >= e
    BY <1>1, <1>2, <1>4, <2>1 DEF Got
  <2>3. pipe_flag[p][r][RS][l[2]][0] \in FlagWords(r, l)
    BY <2>1, FlagTypes DEF OrderLayer
  <2> QED
    BY <2>2, <2>3 DEF e
<1>5. CASE ~IsPipe(e)
  <2>1. SlotOf(e) \in SlotIds
    BY <1>2, SlotFacts
  <2>2. flag[p][r][SlotOf(e)][l[2]] >= e
    BY <1>1, <1>2, <1>5 DEF Got
  <2>3. flag[p][r][SlotOf(e)][l[2]] \in FlagWords(r, l)
    BY <2>1, FlagTypes DEF OrderLayer
  <2> QED
    BY <2>2, <2>3 DEF e
<1> QED
  BY <1>4, <1>5

\* "Peers cannot get further than one op ahead of us", of either kind.
LEMMA Abreast ==
    ASSUME KernelLayer, OrderLayer, NEW r \in Ranks, NEW p \in Ranks
    PROVE  epoch[r] <= epoch[p] + 1
<1>1. epoch[r] \in Nat /\ epoch[p] \in Nat /\ seq[p] \in Nat /\ seq[p] <= epoch[p] + 1
  BY OrderWords
<1>2. CASE r # p
  <2> DEFINE l == <<r, 0>>
  <2>1. l \in Links(p) /\ l[1] = r
    BY <1>2, LinkFacts
  <2> HIDE DEF l
  <2>2. PICK f \in FlagWords(p, l) : f >= epoch[r]
    BY <2>1, Known
  <2>3. f <= seq[p]
    BY <2>1, OrderWords DEF PostedInv, Reached
  <2>4. f \in Nat
    BY <2>1, FlagTypes DEF OrderLayer
  <2> QED
    BY <1>1, <2>2, <2>3, <2>4
<1> QED
  BY <1>1, <1>2

\* Every peer has seen our last operation but one.
LEMMA Noticed ==
    ASSUME KernelLayer, OrderLayer, NEW r \in Ranks, NEW l \in Links(r)
    PROVE  \E f \in FlagWords(r, l) : f \in Nat /\ f >= epoch[r] - 1
<1>1. l[1] \in Ranks
  BY LinkFacts
<1>2. PICK f \in FlagWords(r, l) : f >= epoch[l[1]]
  BY Known
<1>3. f \in Nat /\ epoch[r] \in Nat /\ epoch[l[1]] \in Nat /\ epoch[r] <= epoch[l[1]] + 1
  BY <1>1, FlagTypes, OrderWords, Abreast DEF OrderLayer
<1> QED
  BY <1>2, <1>3

\* The proxy trails the epoch by one operation at most, or by two when it has
\* posted the next.
LEMMA Trailing ==
    ASSUME KernelLayer, OrderLayer, NEW r \in Ranks
    PROVE  /\ epoch[r] <= last_seq[r] + 2
           /\ ~(Posting(r) /\ todo[r] = {}) => epoch[r] <= last_seq[r] + 1
<1> DEFINE s == last_seq[r] + 1
<1>1. epoch[r] \in Nat /\ last_seq[r] \in Nat /\ seq[r] \in Nat /\ seq[r] \in Seqs
      /\ pipe_done[r] \in Nat /\ todo[r] \subseteq Links(r)
  BY OrderWords, KernelWords
<1>2. \A l \in Links(r) : \A f \in FlagWords(r, l) : Reached(r, l, f) /\ f \in Nat
  BY OrderWords, FlagTypes DEF PostedInv, OrderLayer
<1>3. epoch[r] <= last_seq[r] + 2
  <2>1. PICK l \in Links(r) : TRUE
    BY LinkFacts
  <2>2. PICK f \in FlagWords(r, l) : f \in Nat /\ f >= epoch[r] - 1
    BY Noticed
  <2>3. f <= last_seq[r] + 1
    BY <1>2 DEF Reached
  <2> QED
    BY <1>1, <2>2, <2>3
<1>4. ASSUME ~(Posting(r) /\ todo[r] = {}), ~(epoch[r] <= last_seq[r] + 1) PROVE FALSE
  <2>1. epoch[r] = last_seq[r] + 2 /\ s \in Nat /\ s <= epoch[r]
    BY <1>1, <1>3, <1>4
  <2>2. ASSUME NEW l \in Links(r)
        PROVE  \E f \in FlagWords(r, l) : f = s /\ f > last_seq[r]
    <3>1. PICK f \in FlagWords(r, l) : f \in Nat /\ f >= epoch[r] - 1
      BY Noticed
    <3>2. f <= last_seq[r] + 1
      BY <1>2 DEF Reached
    <3> QED
      BY <1>1, <2>1, <3>1, <3>2
  <2>3. PICK l \in Links(r) : ~Posting(r) \/ l \in todo[r]
    BY <1>1, <1>4, LinkFacts
  <2>4. Reached(r, l, s)
    BY <1>2, <2>2
  <2>5. s \in Seqs
    BY <1>1, <2>1, <2>4, Consts DEF Reached, Seqs
  <2>6. IsPipe(s) \/ broken[r] # {}
    BY <2>3, <2>4 DEF Reached
  <2>7. ~IsPipe(s)
    <3>1. SUFFICES ASSUME IsPipe(s) PROVE FALSE
      OBVIOUS
    <3>2. s \in 1 .. epoch[r]
      BY <1>1, <2>1
    <3>3. DoneInv(r)
      BY OrderWords
    <3>4. s <= pipe_done[r] /\ pipe_done[r] <= s
      BY <3>1, <3>2, <3>3 DEF DoneInv
    <3>5. pipe_done[r] = s
      BY <1>1, <2>1, <3>4
    <3> QED
      BY <1>4, <3>3, <3>5 DEF DoneInv
  <2>8. PICK m \in broken[r] : \A f \in FlagWords(r, m) : f <= last_seq[r]
    BY <2>6, <2>7, OrderWords DEF BrokenInv
  <2>9. m \in Links(r)
    BY OrderWords
  <2>10. PICK f \in FlagWords(r, m) : f = s
    BY <2>2, <2>9
  <2> QED
    BY <1>1, <2>8, <2>10
<1> QED
  BY <1>3, <1>4

\* The operation the proxy has open.
LEMMA OpenFacts ==
    ASSUME KernelLayer, OrderLayer, NEW r \in Ranks, Posting(r)
    PROVE  /\ last_seq[r] + 1 \in Seqs /\ last_seq[r] + 1 \in Nat \ {0}
           /\ Succ(last_seq[r]) = last_seq[r] + 1
           /\ last_seq[r] + 1 <= upto[r] /\ last_seq[r] + 1 <= seq[r]
           /\ last_seq[r] <= epoch[r] /\ plan \in Plans
           /\ cur[r] = (IF IsPipe(last_seq[r] + 1) THEN 1 ELSE 0)
           /\ todo[r] # {} => pipe_done[r] < last_seq[r] + 1
<1>1. /\ last_seq[r] \in Nat /\ upto[r] \in Nat /\ seq[r] \in Nat /\ seq[r] \in Seqs
      /\ last_seq[r] <= upto[r] /\ upto[r] <= seq[r] /\ upto[r] # last_seq[r]
      /\ epoch[r] \in Nat /\ seq[r] <= epoch[r] + 1 /\ last_seq[r] \in Seqs
      /\ pipe_done[r] \in Nat /\ plan \in Plans
  BY OrderWords, KernelWords DEF Posting
<1>2. last_seq[r] + 1 <= upto[r] /\ last_seq[r] + 1 <= seq[r] /\ last_seq[r] <= epoch[r]
  BY <1>1
<1>3. last_seq[r] + 1 \in Seqs
  BY <1>1, <1>2, Consts DEF Seqs
<1>4. Succ(last_seq[r]) = last_seq[r] + 1
  BY <1>1, <1>3, SuccFacts
<1>5. cur[r] = (IF IsPipe(last_seq[r] + 1) THEN 1 ELSE 0)
  BY OrderWords DEF OpenInv
<1>6. todo[r] # {} => pipe_done[r] < last_seq[r] + 1
  BY <1>1, OrderWords DEF DoneInv
<1> QED
  BY <1>1, <1>2, <1>3, <1>4, <1>5, <1>6

\* A queued write.
LEMMA QueueTypes ==
    ASSUME OrderTypes, NEW r \in Ranks, NEW l \in Links(r)
    PROVE  /\ Len(qp[r][l]) \in Nat
           /\ \A i \in 1 .. Len(qp[r][l]) : qp[r][l][i].s \in Seqs /\ qp[r][l][i].s \in Nat
<1> DEFINE W == [s : Seqs, n : Nat] \cup [s : Seqs, n : Nat, ph : Phases, c : Chunks]
<1>1. qp[r][l] \in Seq(W)
  BY DEF OrderTypes
<1>2. \A w \in W : w.s \in Seqs /\ w.s \in Nat
  BY DEF Seqs
<1> HIDE DEF W
<1>3. Len(qp[r][l]) \in Nat
  BY <1>1, LenProperties
<1>4. ASSUME NEW i \in 1 .. Len(qp[r][l]) PROVE qp[r][l][i] \in W
  BY <1>1, <1>4, ElementOfSeq
<1> QED
  BY <1>2, <1>3, <1>4

\* What a link has still to deliver is not older than the epoch, and a chunk is
\* one of the operation in flight.
LEMMA QueuedIsRecent ==
    ASSUME KernelLayer, OrderLayer, NEW r \in Ranks, NEW l \in Links(r),
           NEW i \in 1 .. Len(qp[r][l])
    PROVE  /\ qp[r][l][i].s >= epoch[r] /\ qp[r][l][i].s <= seq[r]
           /\ qp[r][l][i].s \in Seqs /\ qp[r][l][i].s \in Nat \ {0}
           /\ IsPipe(qp[r][l][i].s) => qp[r][l][i].s = Cur(r)
<1> DEFINE s == qp[r][l][i].s
<1>1. s \in Seqs /\ s \in Nat
  BY QueueTypes DEF OrderLayer
<1>2. WriteInv(r, l, qp[r][l][i])
  BY OrderWords DEF PostedInv
<1>3. pipe_done[r] < s /\ Reached(r, l, s) /\ \A f \in FlagWords(r, l) : InOrder(r, f, s)
  BY <1>2 DEF WriteInv
<1> HIDE DEF s
<1>4. /\ epoch[r] \in Nat /\ seq[r] \in Nat /\ seq[r] <= epoch[r] + 1 /\ pipe_done[r] \in Nat
      /\ Cur(r) = epoch[r] + 1 /\ last_seq[r] \in Nat
  BY OrderWords
<1>5. s <= seq[r] /\ s \in Nat \ {0}
  BY <1>1, <1>3, <1>4 DEF Reached
<1>6. PICK f \in FlagWords(r, l) : f \in Nat /\ f >= epoch[r] - 1
  BY Noticed
<1>7. ASSUME ~(s >= epoch[r]) PROVE FALSE
  <2>1. ~(f < s) /\ InOrder(r, f, s)
    BY <1>1, <1>3, <1>4, <1>6, <1>7
  <2>2. f = s /\ s = last_seq[r] + 1 /\ (IsPipe(s) \/ broken[r] # {})
    BY <2>1 DEF InOrder
  <2>3. s < epoch[r] /\ s \in 1 .. epoch[r]
    BY <1>1, <1>4, <1>5, <1>7
  <2>4. ~IsPipe(s)
    <3>1. IsPipe(s) => s <= pipe_done[r]
      BY <2>3, OrderWords DEF DoneInv
    <3> QED
      BY <1>1, <1>3, <1>4, <3>1
  <2>5. broken[r] # {}
    BY <2>2, <2>4
  <2>6. PICK m \in broken[r] : \A g \in FlagWords(r, m) : g <= last_seq[r]
    BY <2>2, <2>4, <2>5, OrderWords DEF BrokenInv
  <2>7. m \in Links(r)
    BY OrderWords
  <2>8. PICK g \in FlagWords(r, m) : g \in Nat /\ g >= epoch[r] - 1
    BY <2>7, Noticed
  <2>9. g <= last_seq[r]
    BY <2>6
  <2> QED
    BY <1>1, <1>4, <2>2, <2>3, <2>8, <2>9
<1>8. ASSUME IsPipe(s) PROVE s = Cur(r)
  <2>1. s \in 1 .. epoch[r] => s <= pipe_done[r]
    BY <1>8, OrderWords DEF DoneInv
  <2> QED
    BY <1>1, <1>3, <1>4, <1>5, <2>1
<1> QED
  BY <1>1, <1>5, <1>7, <1>8 DEF s

\* While its queue pairs work, a rank always finds room for a one-shot operation.
LEMMA RoomLeft ==
    ASSUME KernelLayer, OrderLayer, NEW r \in Ranks, broken[r] = {}, NEW l \in todo[r],
           ~IsPipe(last_seq[r] + 1)
    PROVE  Len(qp[r][l]) <= 1
<1>1. l \in Links(r) /\ Posting(r)
  BY OrderWords DEF OpenInv
<1>2. Len(qp[r][l]) \in Nat /\ \A i \in 1 .. Len(qp[r][l]) : qp[r][l][i].s \in Nat
  BY <1>1, QueueTypes DEF OrderLayer
<1>3. last_seq[r] <= epoch[r] /\ last_seq[r] \in Nat /\ epoch[r] \in Nat
  BY <1>1, OpenFacts, OrderWords
<1>4. ASSUME NEW i \in 1 .. Len(qp[r][l])
      PROVE  qp[r][l][i].s <= last_seq[r] /\ qp[r][l][i].s >= epoch[r]
  <2>1. Reached(r, l, qp[r][l][i].s)
    BY <1>1, OrderWords DEF PostedInv, WriteInv
  <2>2. qp[r][l][i].s # last_seq[r] + 1 /\ qp[r][l][i].s <= last_seq[r] + 1
    BY <2>1 DEF Reached
  <2>3. qp[r][l][i].s >= epoch[r]
    BY <1>1, QueuedIsRecent
  <2> QED
    BY SMTT(60), <1>2, <1>3, <2>2, <2>3
<1>5. SUFFICES ASSUME 2 <= Len(qp[r][l]) PROVE FALSE
  BY <1>2
<1>6. 1 \in 1 .. Len(qp[r][l]) /\ 2 \in 1 .. Len(qp[r][l])
  BY <1>2, <1>5
<1>7. InOrder(r, qp[r][l][1].s, qp[r][l][2].s)
  BY <1>1, <1>6, OrderWords DEF PostedInv
<1>8. qp[r][l][2].s <= last_seq[r] /\ qp[r][l][1].s >= epoch[r]
  BY <1>4, <1>6
<1>9. qp[r][l][1].s < qp[r][l][2].s
  BY <1>2, <1>3, <1>6, <1>7, <1>8 DEF InOrder
<1> QED
  BY <1>2, <1>3, <1>6, <1>8, <1>9

-----------------------------------------------------------------------------
(* The second layer: the steps of a kernel. *)

orderVars == <<flag, pipe_flag, pipe_done, last_seq, upto, cur, bytes, posted, piece, todo,
               broken, qp, written>>

\* What a rank waited for stays there, as its flags only grow.
LEMMA AwaitedKeep ==
    ASSUME KernelLayer, FlagsTyped, FlagsTyped', plan' = plan, NEW q \in Ranks,
           epoch'[q] = epoch[q], error'[q] = error[q], pc'[q] = pc[q], chunk'[q] = chunk[q],
           ready'[q] = ready[q], AwaitedInv(q), Got(q, epoch[q]),
           \A l \in Links(q) :
              /\ \A k \in SlotIds : flag[q][l[1]][k][l[2]] <= flag'[q][l[1]][k][l[2]]
              /\ \A ph \in Phases, c \in Chunks :
                    pipe_flag[q][l[1]][ph][l[2]][c] <= pipe_flag'[q][l[1]][ph][l[2]][c]
    PROVE  AwaitedInv(q)' /\ Got(q, epoch[q])'
<1>1. /\ Cur(q)' = Cur(q) /\ CurGrid(q)' = CurGrid(q) /\ PipeCur(q)' = PipeCur(q)
  BY CurFrame
<1>2. /\ chunks(Cur(q))' = chunks(Cur(q)) /\ PipeBlocks' = PipeBlocks
      /\ \A s : chunks(s)' = chunks(s) /\ IsPipe(s)' = IsPipe(s)
  BY <1>1, PlanFrame
<1>3. /\ Finished(q)' = Finished(q) /\ Working(q)' = Working(q)
      /\ \A b, ph, c : Beyond(q, b, ph, c)' = Beyond(q, b, ph, c)
      /\ \A b, c : Copied(q, b, c)' = Copied(q, b, c)
  BY <1>1 DEF Finished, Working, Beyond, Copied
<1>4. /\ Cur(q) \in Nat /\ epoch[q] \in Nat /\ epoch[q] \in Seqs /\ plan \in Plans
      /\ SlotOf(Cur(q)) \in SlotIds /\ SlotOf(epoch[q]) \in SlotIds /\ Seqs \subseteq Nat
  BY KernelWords
<1>5. \A l \in Links(q) : l[1] \in Ranks /\ l[2] \in Hcas
  BY LinkFacts
<1>6. ASSUME NEW l \in Links(q), NEW k \in SlotIds
      PROVE  flag[q][l[1]][k][l[2]] \in Nat /\ flag'[q][l[1]][k][l[2]] \in Nat
  <2>1. l[1] \in Ranks /\ l[2] \in Hcas
    BY <1>5
  <2>2. flag[q][l[1]][k][l[2]] \in Seqs
    BY <2>1 DEF FlagsTyped
  <2>3. flag'[q][l[1]][k][l[2]] \in Seqs
    BY <2>1 DEF FlagsTyped
  <2> QED
    BY <1>4, <2>2, <2>3
<1>7. ASSUME NEW l \in Links(q), NEW ph \in Phases, NEW c \in Chunks
      PROVE  /\ pipe_flag[q][l[1]][ph][l[2]][c] \in Nat
             /\ pipe_flag'[q][l[1]][ph][l[2]][c] \in Nat
  <2>1. l[1] \in Ranks /\ l[2] \in Hcas
    BY <1>5
  <2>2. pipe_flag[q][l[1]][ph][l[2]][c] \in Seqs
    BY <2>1 DEF FlagsTyped
  <2>3. pipe_flag'[q][l[1]][ph][l[2]][c] \in Seqs
    BY <2>1 DEF FlagsTyped
  <2> QED
    BY <1>4, <2>2, <2>3
<1>8. AllFlags(q) => AllFlags(q)'
  <2> SUFFICES ASSUME AllFlags(q), NEW l \in Links(q)
               PROVE  flag'[q][l[1]][SlotOf(Cur(q))][l[2]] >= Cur(q)
    BY <1>1 DEF AllFlags
  <2> QED
    BY <1>4, <1>6 DEF AllFlags
<1>9. ASSUME NEW ph \in Phases, NEW c \in Chunks, ChunkGot(q, ph, c) PROVE ChunkGot(q, ph, c)'
  <2> SUFFICES ASSUME NEW l \in Links(q)
               PROVE  pipe_flag'[q][l[1]][ph][l[2]][c] >= Cur(q)
    BY <1>1 DEF ChunkGot
  <2> QED
    BY SMTT(60), <1>4, <1>7, <1>9 DEF ChunkGot
<1>10. RS \in Phases /\ AG \in Phases
  BY DEF Phases
<1>11. ASSUME NEW b \in Blocks
       PROVE  /\ pc'[q][b] = "reduce" => AllFlags(q)'
              /\ pc'[q][b] = "sum" => ChunkGot(q, RS, chunk[q][b])'
              /\ pc'[q][b] = "copy" => ChunkGot(q, AG, chunk[q][b])'
  <2>1. ASSUME pc[q][b] \in {"sum", "copy"} PROVE chunk[q][b] \in Chunks
    <3>1. PipeCur(q)
      BY <2>1, KernelWords DEF RankKernel, PlaceInv, OneShotPlaces
    <3> QED
      BY <2>1, <3>1, PipeBlockFacts DEF LoopPlaces
  <2>2. ASSUME pc[q][b] = "sum" PROVE ChunkGot(q, RS, chunk[q][b])'
    <3>1. ChunkGot(q, RS, chunk[q][b])
      BY <2>2 DEF AwaitedInv
    <3>2. \A c \in Chunks : ChunkGot(q, RS, c) => \A l \in Links(q) :
             pipe_flag'[q][l[1]][RS][l[2]][c] >= Cur(q)'
      BY <1>9, <1>10 DEF ChunkGot
    <3> QED
      BY <2>1, <2>2, <3>1, <3>2 DEF ChunkGot
  <2>3. ASSUME pc[q][b] = "copy" PROVE ChunkGot(q, AG, chunk[q][b])'
    <3>1. ChunkGot(q, AG, chunk[q][b])
      BY <2>3 DEF AwaitedInv
    <3>2. \A c \in Chunks : ChunkGot(q, AG, c) => \A l \in Links(q) :
             pipe_flag'[q][l[1]][AG][l[2]][c] >= Cur(q)'
      BY <1>9, <1>10 DEF ChunkGot
    <3> QED
      BY <2>1, <2>3, <3>1, <3>2 DEF ChunkGot
  <2> QED
    BY <1>8, <2>2, <2>3 DEF AwaitedInv
<1>12. error'[q] = 0 /\ ~PipeCur(q)' /\ ~Finished(q)' =>
         \A b \in CurGrid(q)' : pc'[q][b] \in {"tail", "done"} => AllFlags(q)'
  BY <1>1, <1>3, <1>8 DEF AwaitedInv
<1>13. ASSUME error'[q] = 0, Working(q)'
       PROVE  \A b \in PipeBlocks', c \in 0 .. chunks(Cur(q))' - 1 :
                 /\ Beyond(q, b, AG, c)' => ChunkGot(q, RS, c)'
                 /\ Copied(q, b, c)' => ChunkGot(q, AG, c)'
  <2>1. error[q] = 0 /\ Working(q)
    BY <1>3, <1>13
  <2>2. 0 .. chunks(Cur(q)) - 1 \subseteq Chunks
    <3>1. epoch[q] < plan.ops
      BY <2>1, ActiveBlock DEF Working, Finished
    <3>2. IsPipe(Cur(q)) /\ Cur(q) \in Seqs
      BY <2>1, <3>1, InFlight DEF Working
    <3> QED
      BY <1>4, <3>2, ChunkIds
  <2> TAKE b \in PipeBlocks', c \in 0 .. chunks(Cur(q))' - 1
  <2>3. b \in PipeBlocks /\ c \in 0 .. chunks(Cur(q)) - 1 /\ c \in Chunks
    BY <1>2, <2>2
  <2>4. /\ Beyond(q, b, AG, c) => ChunkGot(q, RS, c)
        /\ Copied(q, b, c) => ChunkGot(q, AG, c)
    BY <2>1, <2>3 DEF AwaitedInv
  <2> QED
    BY <1>3, <1>9, <1>10, <2>3, <2>4
<1>14. \A c \in Chunks : ready'[q][AG][c] = Cur(q)' => ChunkGot(q, RS, c)'
  BY <1>1, <1>9, <1>10 DEF AwaitedInv
<1>15. AwaitedInv(q)'
  BY <1>11, <1>12, <1>13, <1>14 DEF AwaitedInv
<1>16. Got(q, epoch[q])'
  <2> DEFINE s == epoch[q]
  <2> SUFFICES ASSUME NEW l \in Links(q)
               PROVE  IF IsPipe(s)
                      THEN \A ph \in Phases, c \in 0 .. chunks(s) - 1 :
                              pipe_flag'[q][l[1]][ph][l[2]][c] >= s
                      ELSE flag'[q][l[1]][SlotOf(s)][l[2]] >= s
    BY <1>2 DEF Got
  <2>1. s \in Nat /\ SlotOf(s) \in SlotIds /\ s \in Seqs
    BY <1>4
  <2>2. Got(q, s)
    OBVIOUS
  <2> HIDE DEF s
  <2>3. CASE IsPipe(s)
    <3>1. 0 .. chunks(s) - 1 \subseteq Chunks
      BY <1>4, <2>1, <2>3, ChunkIds
    <3>2. ASSUME NEW ph \in Phases, NEW c \in 0 .. chunks(s) - 1
          PROVE  pipe_flag'[q][l[1]][ph][l[2]][c] >= s
      <4>1. pipe_flag[q][l[1]][ph][l[2]][c] >= s /\ c \in Chunks
        BY <2>2, <2>3, <3>1 DEF Got
      <4> QED
        BY SMTT(60), <1>7, <2>1, <4>1
    <3> QED
      BY <2>3, <3>2
  <2>4. CASE ~IsPipe(s)
    <3>1. flag[q][l[1]][SlotOf(s)][l[2]] >= s
      BY <2>2, <2>4 DEF Got
    <3> QED
      BY <1>6, <2>1, <2>4, <3>1
  <2> QED
    BY <2>3, <2>4
<1> QED
  BY <1>15, <1>16

\* Flags that did not change are not less than they were.
LEMMA FlagsLeft ==
    ASSUME FlagsTyped, UNCHANGED <<flag, pipe_flag>>, NEW q \in Ranks, NEW l \in Links(q)
    PROVE  /\ \A k \in SlotIds : flag[q][l[1]][k][l[2]] <= flag'[q][l[1]][k][l[2]]
           /\ \A ph \in Phases, c \in Chunks :
                 pipe_flag[q][l[1]][ph][l[2]][c] <= pipe_flag'[q][l[1]][ph][l[2]][c]
<1>1. l[1] \in Ranks /\ l[2] \in Hcas
  BY LinkFacts
<1>2. Seqs \subseteq Nat
  BY DEF Seqs
<1>3. ASSUME NEW k \in SlotIds PROVE flag[q][l[1]][k][l[2]] \in Seqs
  BY <1>1 DEF FlagsTyped
<1>4. ASSUME NEW ph \in Phases, NEW c \in Chunks PROVE pipe_flag[q][l[1]][ph][l[2]][c] \in Seqs
  BY <1>1 DEF FlagsTyped
<1>5. \A x \in Seqs : x <= x
  BY <1>2
<1> QED
  BY <1>3, <1>4, <1>5

\* A rank of which the kernel has gone no further.
Unmoved(q) ==
    /\ epoch'[q] = epoch[q] /\ seq'[q] = seq[q] /\ error'[q] = error[q]
    /\ pc'[q] = pc[q] /\ chunk'[q] = chunk[q] /\ ready'[q] = ready[q]

\* A step of rank r's kernel, given what it has waited for.
LEMMA OrderOf ==
    ASSUME KernelLayer, OrderLayer, plan' = plan, UNCHANGED orderVars, NEW r \in Ranks,
           \A q \in Ranks \ {r} : Unmoved(q),
           seq'[r] \in {seq[r], Cur(r)},
           \A ph \in Phases, c \in Chunks : ready'[r][ph][c] \in {ready[r][ph][c], Cur(r)},
           AwaitedInv(r)',
           \/ epoch'[r] = epoch[r]
           \/ /\ epoch'[r] = Cur(r) /\ Got(r, Cur(r))
              /\ IsPipe(Cur(r)) => pipe_done[r] = Cur(r)
    PROVE  OrderLayer'
<1>1. OrderTypes' /\ FlagsTyped /\ FlagsTyped'
  BY DEF OrderLayer, OrderTypes, FlagsTyped, orderVars
<1>2. \A s : chunks(s)' = chunks(s) /\ IsPipe(s)' = IsPipe(s) /\ packs(s)' = packs(s)
  BY PlanFrame
<1>3. ASSUME NEW q \in Ranks
      PROVE  /\ AwaitedInv(q)' /\ Got(q, epoch[q])'
             /\ seq[q] <= seq'[q]
             /\ \A ph \in Phases, c \in Chunks : ready[q][ph][c] <= ready'[q][ph][c]
             /\ \A s \in 1 .. epoch'[q] : IsPipe(s) => s <= pipe_done[q]
  <2>1. /\ Cur(q) \in Nat /\ seq[q] \in Nat /\ seq[q] <= epoch[q] + 1 /\ Cur(q) = epoch[q] + 1
        /\ epoch[q] \in Nat /\ pipe_done[q] \in Nat /\ DoneInv(q) /\ AwaitedInv(q)
        /\ Got(q, epoch[q])
    BY OrderWords
  <2>2. \A ph \in Phases, c \in Chunks : ready[q][ph][c] \in Nat /\ ready[q][ph][c] <= Cur(q)
    <3>1. \A ph \in Phases, c \in Chunks : ready[q][ph][c] <= Cur(q)
      BY KernelWords DEF RankKernel, ReadyInv
    <3>2. \A ph \in Phases, c \in Chunks : ready[q][ph][c] \in Seqs
      BY DEF KernelLayer, KernelTypes
    <3> QED
      BY <3>1, <3>2 DEF Seqs
  <2>3. \A s \in 1 .. epoch[q] : IsPipe(s) => s <= pipe_done[q]
    BY <2>1 DEF DoneInv
  <2>4. CASE q # r
    <3>1. Unmoved(q)
      BY <2>4
    <3>2. AwaitedInv(q)' /\ Got(q, epoch[q])'
      <4>1. \A l \in Links(q) :
              /\ \A k \in SlotIds : flag[q][l[1]][k][l[2]] <= flag'[q][l[1]][k][l[2]]
              /\ \A ph \in Phases, c \in Chunks :
                    pipe_flag[q][l[1]][ph][l[2]][c] <= pipe_flag'[q][l[1]][ph][l[2]][c]
        BY <1>1, FlagsLeft DEF orderVars
      <4> QED
        BY <1>1, <2>1, <3>1, <4>1, AwaitedKeep DEF Unmoved
    <3> QED
      BY <2>1, <2>2, <2>3, <3>1, <3>2 DEF Unmoved
  <2>5. CASE q = r
    <3>1. seq[q] <= seq'[q]
      BY <2>1, <2>5
    <3>2. \A ph \in Phases, c \in Chunks : ready[q][ph][c] <= ready'[q][ph][c]
      BY SMTT(60), <2>1, <2>2, <2>5
    <3>3. ASSUME epoch'[q] = epoch[q]
          PROVE  Got(q, epoch[q])' /\ \A s \in 1 .. epoch'[q] : IsPipe(s) => s <= pipe_done[q]
      BY ZenonT(30), <1>2, <2>1, <2>3, <3>3 DEF Got, orderVars
    <3>4. ASSUME epoch'[q] = Cur(q), Got(q, Cur(q)), IsPipe(Cur(q)) => pipe_done[q] = Cur(q)
          PROVE  Got(q, epoch[q])' /\ \A s \in 1 .. epoch'[q] : IsPipe(s) => s <= pipe_done[q]
      <4>1. Got(q, epoch[q])'
        BY <1>2, <3>4 DEF Got, orderVars
      <4>2. ASSUME NEW s \in 1 .. epoch'[q], IsPipe(s) PROVE s <= pipe_done[q]
        <5>1. s \in 1 .. epoch[q] \/ s = Cur(q)
          BY <2>1, <3>4
        <5> QED
          BY <2>1, <2>3, <3>4, <4>2, <5>1
      <4> QED
        BY SMTT(60), <4>1, <4>2
    <3> QED
      BY <2>5, <3>1, <3>2, <3>3, <3>4
  <2> QED
    BY <2>4, <2>5
<1>4. ASSUME NEW q \in Ranks PROVE RankOrder(q)'
  <2>1. /\ seq[q] \in Nat /\ seq'[q] \in Nat /\ upto[q] \in Nat
        /\ seq[q] <= seq'[q] /\ RankOrder(q) /\ Cur(q) \in Nat /\ last_seq[q] \in Nat
    <3>1. CASE q # r
      BY <3>1, OrderWords DEF Unmoved, OrderLayer
    <3>2. CASE q = r
      BY <1>3, <3>2, OrderWords DEF OrderLayer
    <3> QED
      BY <3>1, <3>2
  <2>2. \A ph \in Phases, c \in Chunks :
          /\ ready[q][ph][c] \in Nat /\ ready'[q][ph][c] \in Nat
          /\ ready[q][ph][c] <= ready'[q][ph][c]
    <3>1. \A ph \in Phases, c \in Chunks : ready[q][ph][c] \in Nat
      BY DEF KernelLayer, KernelTypes, Seqs
    <3>2. \A ph \in Phases, c \in Chunks : ready'[q][ph][c] \in Nat
      BY <2>1, <3>1 DEF Unmoved
    <3> QED
      BY <1>3, <3>1, <3>2
  <2>3. OpenInv(q)'
    <3>1. OpenInv(q) /\ Posting(q)' = Posting(q)
      BY <2>1 DEF RankOrder, Posting, orderVars
    <3>2. piece[q].ph \in Phases /\ piece[q].c \in Chunks
      BY DEF OrderLayer, OrderTypes
    <3>3. last_seq[q] + 1 <= ready[q][piece[q].ph][piece[q].c] =>
             last_seq[q] + 1 <= ready'[q][piece[q].ph][piece[q].c]
      BY <2>1, <2>2, <3>2
    <3> QED
      BY <1>2, <2>1, <3>1, <3>3 DEF OpenInv, orderVars
  <2>4. DoneInv(q)'
    BY <1>2, <1>3, <2>1 DEF RankOrder, DoneInv, NoneOutstanding, Posting, orderVars
  <2>5. BrokenInv(q)'
    BY <1>2, <2>1 DEF RankOrder, BrokenInv, FlagWords, orderVars
  <2>6. ASSUME NEW l \in Links(q) PROVE PostedInv(q, l)'
    <3>1. PostedInv(q, l) /\ FlagWords(q, l)' = FlagWords(q, l)
      BY <2>1 DEF RankOrder, FlagWords, orderVars
    <3>2. \A s \in Nat : Reached(q, l, s) => Reached(q, l, s)'
      BY <1>2, <2>1 DEF Reached, Posting, orderVars
    <3>3. \A s, t : InOrder(q, s, t)' = InOrder(q, s, t)
      BY <1>2 DEF InOrder, orderVars
    <3>4. FlagWords(q, l) \subseteq Nat
      BY FlagTypes DEF OrderLayer
    <3>5. \A i \in 1 .. Len(qp[q][l]) : qp[q][l][i].s \in Nat
      BY QueueTypes DEF OrderLayer
    <3>6. qp' = qp /\ broken' = broken /\ pipe_flag' = pipe_flag /\ pipe_done' = pipe_done
      BY DEF orderVars
    <3>7. ASSUME NEW i \in 1 .. Len(qp[q][l]) PROVE WriteInv(q, l, qp[q][l][i])'
      <4> DEFINE w == qp[q][l][i]
      <4>1. WriteInv(q, l, w) /\ w.s \in Nat
        BY <3>1, <3>5 DEF PostedInv
      <4> HIDE DEF w
      <4>2. IsPipe(w.s) => ready'[q][w.ph][w.c] >= w.s
        BY SMTT(60), <2>2, <4>1 DEF WriteInv
      <4>3. WriteInv(q, l, w)'
        BY <1>2, <3>1, <3>2, <3>3, <3>6, <4>1, <4>2 DEF WriteInv, w
      <4> QED
        BY <3>6, <4>3 DEF w
    <3>8. ASSUME NEW ph \in Phases, NEW c \in Chunks,
                 pipe_flag[l[1]][q][ph][l[2]][c] > 0
          PROVE  LET f == pipe_flag[l[1]][q][ph][l[2]][c]
                 IN  IsPipe(f) /\ c < chunks(f) /\ f <= ready'[q][ph][c]
      <4>1. pipe_flag[l[1]][q][ph][l[2]][c] \in Nat
        BY FlagTypes DEF OrderLayer
      <4> QED
        BY <2>2, <3>1, <3>8, <4>1 DEF PostedInv
    <3> QED
      BY <1>2, <3>1, <3>2, <3>3, <3>4, <3>6, <3>7, <3>8 DEF PostedInv
  <2> QED
    BY <1>3, <2>3, <2>4, <2>5, <2>6 DEF RankOrder
<1> QED
  BY <1>1, <1>4 DEF OrderLayer

\* A block of rank r moves on, and the epoch stays.
LEMMA AwaitedMove ==
    ASSUME KernelLayer, OrderLayer, plan' = plan, UNCHANGED <<flag, pipe_flag>>,
           NEW r \in Ranks, NEW b \in Blocks, pc[r][b] # "done", epoch'[r] = epoch[r],
           error'[r] = 0 => error[r] = 0,
           \A d \in Blocks \ {b} : pc'[r][d] = pc[r][d] /\ chunk'[r][d] = chunk[r][d],
           pc'[r][b] = "reduce" => AllFlags(r),
           pc'[r][b] = "sum" => ChunkGot(r, RS, chunk'[r][b]),
           pc'[r][b] = "copy" => ChunkGot(r, AG, chunk'[r][b]),
           error'[r] = 0 /\ ~PipeCur(r) /\ pc'[r][b] \in {"tail", "done"} => AllFlags(r),
           error'[r] = 0 /\ PipeCur(r) => \A c \in 0 .. chunks(Cur(r)) - 1 :
              /\ Beyond(r, b, AG, c)' => Beyond(r, b, AG, c) \/ ChunkGot(r, RS, c)
              /\ Copied(r, b, c)' => Copied(r, b, c) \/ ChunkGot(r, AG, c),
           \A c \in Chunks : ready'[r][AG][c] = ready[r][AG][c] \/ ChunkGot(r, RS, c)
    PROVE  AwaitedInv(r)'
<1>1. /\ Cur(r)' = Cur(r) /\ CurGrid(r)' = CurGrid(r) /\ PipeCur(r)' = PipeCur(r)
  BY CurFrame
<1>2. /\ chunks(Cur(r))' = chunks(Cur(r)) /\ PipeBlocks' = PipeBlocks
  BY <1>1, PlanFrame
<1>3. /\ AllFlags(r)' = AllFlags(r)
      /\ \A ph, c : ChunkGot(r, ph, c)' = ChunkGot(r, ph, c)
  BY <1>1 DEF AllFlags, ChunkGot
<1>4. /\ ChunkGot(r, RS, chunk[r][b])' <=> ChunkGot(r, RS, chunk'[r][b])
      /\ ChunkGot(r, AG, chunk[r][b])' <=> ChunkGot(r, AG, chunk'[r][b])
  BY SMTT(60), <1>1 DEF ChunkGot
<1>5. \A d \in Blocks \ {b} :
         /\ ChunkGot(r, RS, chunk[r][d])' <=> ChunkGot(r, RS, chunk[r][d])
         /\ ChunkGot(r, AG, chunk[r][d])' <=> ChunkGot(r, AG, chunk[r][d])
  BY ZenonT(30), <1>1 DEF ChunkGot
<1>6. AwaitedInv(r) /\ ~Finished(r) /\ CurGrid(r) \subseteq Blocks /\ PipeBlocks \subseteq Blocks
  BY OrderWords, KernelWords, ActiveBlock
<1>7. ASSUME NEW d \in Blocks
      PROVE  /\ pc'[r][d] = "reduce" => AllFlags(r)'
             /\ pc'[r][d] = "sum" => ChunkGot(r, RS, chunk[r][d])'
             /\ pc'[r][d] = "copy" => ChunkGot(r, AG, chunk[r][d])'
  <2>1. CASE d = b
    BY <1>3, <1>4, <2>1
  <2>2. CASE d # b
    BY <1>3, <1>5, <1>6, <2>2 DEF AwaitedInv
  <2> QED
    BY <2>1, <2>2
<1>8. ASSUME error'[r] = 0, ~PipeCur(r)', NEW d \in CurGrid(r)', pc'[r][d] \in {"tail", "done"}
      PROVE  AllFlags(r)'
  <2>1. d \in Blocks /\ d \in CurGrid(r) /\ ~PipeCur(r) /\ error[r] = 0
    BY <1>1, <1>6, <1>8
  <2>2. CASE d = b
    BY <1>3, <1>8, <2>1, <2>2
  <2>3. CASE d # b
    BY <1>3, <1>6, <1>8, <2>1, <2>3 DEF AwaitedInv
  <2> QED
    BY <2>2, <2>3
<1>9. ASSUME error'[r] = 0, Working(r)', NEW d \in PipeBlocks',
             NEW c \in 0 .. chunks(Cur(r))' - 1
      PROVE  /\ Beyond(r, d, AG, c)' => ChunkGot(r, RS, c)'
             /\ Copied(r, d, c)' => ChunkGot(r, AG, c)'
  <2>1. /\ d \in PipeBlocks /\ d \in Blocks /\ c \in 0 .. chunks(Cur(r)) - 1 /\ error[r] = 0
        /\ PipeCur(r) /\ Working(r)
    BY <1>1, <1>2, <1>6, <1>9 DEF Working
  <2>2. /\ Beyond(r, d, AG, c) => ChunkGot(r, RS, c)
        /\ Copied(r, d, c) => ChunkGot(r, AG, c)
    BY <1>6, <2>1 DEF AwaitedInv
  <2>3. /\ Beyond(r, d, AG, c)' => Beyond(r, d, AG, c) \/ ChunkGot(r, RS, c)
        /\ Copied(r, d, c)' => Copied(r, d, c) \/ ChunkGot(r, AG, c)
    <3>1. CASE d = b
      BY <1>9, <2>1, <3>1
    <3>2. CASE d # b
      BY <2>1, <3>2 DEF Beyond, Copied
    <3> QED
      BY <3>1, <3>2
  <2> QED
    BY <1>3, <2>2, <2>3
<1>10. \A c \in Chunks : ready'[r][AG][c] = Cur(r)' => ChunkGot(r, RS, c)'
  BY <1>1, <1>3, <1>6 DEF AwaitedInv
<1> QED
  BY <1>7, <1>8, <1>9, <1>10 DEF AwaitedInv

\* A launch: no block has begun.
LEMMA AwaitedLaunch ==
    ASSUME KernelLayer, OrderLayer, plan' = plan, UNCHANGED <<flag, pipe_flag>>,
           NEW r \in Ranks, epoch'[r] = epoch[r], ready'[r] = ready[r],
           \A b \in Blocks : pc'[r][b] = IF b \in CurBlocks(r) THEN "start" ELSE "done"
    PROVE  AwaitedInv(r)'
<1>1. /\ Cur(r)' = Cur(r) /\ CurGrid(r)' = CurGrid(r) /\ PipeCur(r)' = PipeCur(r)
  BY CurFrame
<1>2. PipeBlocks' = PipeBlocks
  BY PlanFrame
<1>3. \A ph, c : ChunkGot(r, ph, c)' = ChunkGot(r, ph, c)
  BY <1>1 DEF ChunkGot
<1>4. /\ AwaitedInv(r) /\ CurGrid(r) \subseteq Blocks /\ PipeBlocks \subseteq Blocks
      /\ (PipeCur(r) => CurBlocks(r) = PipeBlocks) /\ (~PipeCur(r) => CurBlocks(r) = CurGrid(r))
  BY OrderWords, KernelWords
<1>5. ~PipeCur(r) => \A b \in CurGrid(r) : pc'[r][b] = "start"
  BY <1>4
<1>6. PipeCur(r) => \A b \in PipeBlocks : pc'[r][b] = "start"
  BY <1>4
<1>7. Working(r)' => \A b \in PipeBlocks : \A c : ~Beyond(r, b, AG, c)' /\ ~Copied(r, b, c)'
  <2>1. AG # RS
    BY DEF AG, RS
  <2> QED
    BY <1>1, <1>6, <2>1 DEF Beyond, Copied, Working
<1>8. \A c \in Chunks : ready'[r][AG][c] = Cur(r)' => ChunkGot(r, RS, c)'
  BY <1>1, <1>3, <1>4 DEF AwaitedInv
<1> QED
  BY <1>1, <1>2, <1>4, <1>5, <1>7, <1>8 DEF AwaitedInv

\* The epoch is published.
LEMMA AwaitedPublished ==
    ASSUME KernelLayer, plan' = plan, NEW r \in Ranks, epoch'[r] = Cur(r),
           ready'[r] = ready[r], \A b \in Blocks : pc'[r][b] = "done"
    PROVE  AwaitedInv(r)'
<1>1. Finished(r)' /\ ~Working(r)'
  BY DEF Finished, Working
<1>2. Cur(r)' = Cur(r) + 1 /\ Cur(r) \in Nat
  BY KernelWords DEF Cur
<1>3. \A c \in Chunks : ready[r][AG][c] <= Cur(r) /\ ready[r][AG][c] \in Nat
  <2>1. AG \in Phases
    BY DEF Phases
  <2> QED
    BY <2>1 DEF KernelLayer, KernelTypes, RankKernel, ReadyInv, Seqs
<1>4. \A c \in Chunks : ready'[r][AG][c] # Cur(r)'
  BY <1>2, <1>3
<1> QED
  BY <1>1, <1>4 DEF AwaitedInv

\* A block of a one-shot kernel moves on, and the epoch stays.
LEMMA OneShotOrder ==
    ASSUME KernelLayer, OrderLayer, plan' = plan, UNCHANGED orderVars,
           UNCHANGED <<epoch, ready, chunk>>, NEW r \in Ranks, NEW b \in Blocks,
           pc[r][b] # "done", ~PipeCur(r),
           NEW w \in {"done", "stage", "arrive", "ring", "wait", "reduce", "tail"}, Goto(r, b, w),
           \A q \in Ranks \ {r} : seq'[q] = seq[q] /\ error'[q] = error[q],
           seq'[r] \in {seq[r], Cur(r)}, error'[r] = 0 => error[r] = 0,
           w = "reduce" => AllFlags(r),
           error'[r] = 0 /\ w \in {"tail", "done"} => AllFlags(r)
    PROVE  OrderLayer'
<1>1. w \in {"done", "start"} \cup OneShotPlaces \cup PipePlaces
  BY DEF OneShotPlaces
<1>2. /\ pc'[r][b] = w
      /\ \A q \in Ranks \ {r} : pc'[q] = pc[q]
      /\ \A d \in Blocks \ {b} : pc'[r][d] = pc[r][d]
  BY <1>1, MoveFacts DEF KernelLayer
<1>3. pc'[r][b] \notin {"sum", "copy"}
  BY <1>2
<1>4. UNCHANGED <<flag, pipe_flag>>
  BY DEF orderVars
<1>5. AwaitedInv(r)'
  BY <1>2, <1>3, <1>4, AwaitedMove
<1>6. \A q \in Ranks \ {r} : Unmoved(q)
  BY <1>2 DEF Unmoved
<1> QED
  BY <1>5, <1>6, OrderOf

LEMMA OStartBlock ==
    ASSUME KernelLayer, OrderLayer, plan' = plan, NEW r \in Ranks, NEW b \in Blocks,
           ~IsPipe(Succ(epoch[r])), StartBlock(r, b), UNCHANGED pipe
    PROVE  OrderLayer'
<1>1. pc[r][b] = "start" /\ ~PipeCur(r)
  BY DEF StartBlock, PipeCur
<1>2. Succ(epoch[r]) = Cur(r) /\ Cur(r) # 0 /\ error[r] = poison[r]
  BY <1>1, ActiveBlock, KernelWords DEF RankKernel, RungInv
<1> DEFINE w == IF poison[r] # 0 THEN "done" ELSE "stage"
<1>3. /\ Goto(r, b, w) /\ UNCHANGED orderVars /\ UNCHANGED <<epoch, ready, chunk, seq, error>>
  BY <1>2 DEF StartBlock, pipe, orderVars, proxy, net
<1>4. /\ w \in {"done", "stage", "arrive", "ring", "wait", "reduce", "tail"} /\ w # "reduce"
      /\ ~(error'[r] = 0 /\ w \in {"tail", "done"})
  BY <1>2, <1>3
<1> HIDE DEF w
<1> QED
  BY <1>1, <1>3, <1>4, OneShotOrder

LEMMA OStage ==
    ASSUME KernelLayer, OrderLayer, plan' = plan, NEW r \in Ranks, NEW b \in Blocks,
           ~IsPipe(op[r][b]), Stage(r, b), UNCHANGED pipe
    PROVE  OrderLayer'
<1>1. /\ pc[r][b] = "stage" /\ Goto(r, b, "arrive") /\ UNCHANGED orderVars
      /\ UNCHANGED <<epoch, ready, chunk, seq, error>>
  BY DEF Stage, pipe, orderVars, proxy, net, device
<1>2. ~PipeCur(r)
  BY <1>1, OneShotBlockFacts
<1> QED
  BY <1>1, <1>2, OneShotOrder

LEMMA OArrive ==
    ASSUME KernelLayer, OrderLayer, plan' = plan, NEW r \in Ranks, NEW b \in Blocks,
           ~IsPipe(op[r][b]), Arrive(r, b),
           UNCHANGED <<restOfPipe, cur, posted, piece>>
    PROVE  OrderLayer'
<1>1. /\ pc[r][b] = "arrive" /\ (Goto(r, b, "ring") \/ Goto(r, b, "wait"))
      /\ UNCHANGED orderVars /\ UNCHANGED <<epoch, ready, chunk, seq, error>>
  BY DEF Arrive, restOfPipe, orderVars, proxy, net
<1>2. ~PipeCur(r)
  BY <1>1, OneShotBlockFacts
<1>3. CASE Goto(r, b, "ring")
  BY <1>1, <1>2, <1>3, OneShotOrder
<1>4. CASE Goto(r, b, "wait")
  BY <1>1, <1>2, <1>4, OneShotOrder
<1> QED
  BY <1>1, <1>3, <1>4

LEMMA ORing ==
    ASSUME KernelLayer, OrderLayer, plan' = plan, NEW r \in Ranks, NEW b \in Blocks,
           ~IsPipe(op[r][b]), Ring(r, b), UNCHANGED pipe
    PROVE  OrderLayer'
<1>1. /\ pc[r][b] = "ring" /\ Goto(r, b, "wait") /\ UNCHANGED orderVars
      /\ UNCHANGED <<epoch, ready, chunk, error>> /\ seq' = [seq EXCEPT ![r] = op[r][b]]
  BY DEF Ring, pipe, orderVars, proxy, net, device
<1>2. ~PipeCur(r) /\ op[r][b] = Cur(r)
  BY <1>1, OneShotBlockFacts
<1>3. seq'[r] = Cur(r) /\ \A q \in Ranks \ {r} : seq'[q] = seq[q]
  BY <1>1, <1>2 DEF KernelLayer, KernelTypes
<1> QED
  BY <1>1, <1>2, <1>3, OneShotOrder

LEMMA OWait ==
    ASSUME KernelLayer, OrderLayer, plan' = plan, NEW r \in Ranks, NEW b \in Blocks,
           ~IsPipe(op[r][b]), Wait(r, b), UNCHANGED pipe
    PROVE  OrderLayer'
<1> DEFINE w == IF poison[r] = 0 THEN "reduce" ELSE "tail"
<1>1. /\ pc[r][b] = "wait" /\ Goto(r, b, w) /\ UNCHANGED orderVars
      /\ UNCHANGED <<epoch, ready, chunk, seq, error>> /\ Arrived(r, b)
  BY DEF Wait, pipe, orderVars, proxy, net, device, region
<1>2. ~PipeCur(r) /\ op[r][b] = Cur(r) /\ Cur(r) \in Nat
  BY <1>1, OneShotBlockFacts
<1>3. AllFlags(r)
  BY <1>1, <1>2 DEF Arrived, FlagSet, AllFlags
<1>4. w \in {"done", "stage", "arrive", "ring", "wait", "reduce", "tail"}
  OBVIOUS
<1> HIDE DEF w
<1> QED
  BY <1>1, <1>2, <1>3, <1>4, OneShotOrder

LEMMA OReduce ==
    ASSUME KernelLayer, OrderLayer, plan' = plan, NEW r \in Ranks, NEW b \in Blocks,
           ~IsPipe(op[r][b]), Reduce(r, b), UNCHANGED pipe
    PROVE  OrderLayer'
<1>1. /\ pc[r][b] = "reduce" /\ Goto(r, b, "tail") /\ UNCHANGED orderVars
      /\ UNCHANGED <<epoch, ready, chunk, seq, error>>
  BY DEF Reduce, pipe, orderVars, proxy, net, device, region
<1>2. ~PipeCur(r) /\ AllFlags(r)
  BY <1>1, OneShotBlockFacts, OrderWords DEF AwaitedInv
<1> QED
  BY <1>1, <1>2, OneShotOrder

LEMMA OTimeOut ==
    ASSUME KernelLayer, OrderLayer, plan' = plan, NEW r \in Ranks, NEW b \in Blocks,
           ~IsPipe(op[r][b]), TimeOut(r, b), UNCHANGED pipe
    PROVE  OrderLayer'
<1>1. /\ pc[r][b] = "wait" /\ Goto(r, b, "tail") /\ UNCHANGED orderVars
      /\ UNCHANGED <<epoch, ready, chunk, seq>> /\ error' = [error EXCEPT ![r] = op[r][b]]
  BY DEF TimeOut, Report, pipe, orderVars, proxy, net
<1>2. ~PipeCur(r) /\ op[r][b] = Cur(r) /\ Cur(r) # 0
  BY <1>1, OneShotBlockFacts
<1>3. error'[r] # 0 /\ \A q \in Ranks \ {r} : error'[q] = error[q]
  BY <1>1, <1>2 DEF KernelLayer, KernelTypes
<1> QED
  BY <1>1, <1>2, <1>3, OneShotOrder

LEMMA OFinish ==
    ASSUME KernelLayer, OrderLayer, plan' = plan, NEW r \in Ranks, NEW b \in Blocks,
           ~IsPipe(op[r][b]), Finish(r, b), UNCHANGED pipe
    PROVE  OrderLayer'
<1> DEFINE last == IsLast(tail, r, CurSize(r)) /\ NoError(r)
<1>1. /\ pc[r][b] = "tail" /\ Goto(r, b, "done") /\ UNCHANGED orderVars
      /\ UNCHANGED <<ready, chunk, seq, error>>
  BY DEF Finish, pipe, orderVars, proxy, net, region
<1>2. /\ op[r][b] = Cur(r) /\ ~PipeCur(r) /\ Cur(r) \in Seqs /\ b \in CurGrid(r)
      /\ CurSize(r) = Grid[Cur(r)] /\ ~IsPipe(Cur(r)) /\ ~Finished(r)
  BY <1>1, OneShotBlockFacts
<1>3. epoch' = IF last THEN [epoch EXCEPT ![r] = Cur(r)] ELSE epoch
  BY <1>2 DEF Finish
<1>4. error[r] = 0 => AllFlags(r)
  BY <1>1, <1>2, OrderWords DEF AwaitedInv
<1> HIDE DEF last
<1>5. CASE ~last
  <2>1. epoch' = epoch
    BY <1>3, <1>5
  <2> QED
    BY <1>1, <1>2, <1>4, <2>1, OneShotOrder
<1>6. CASE last
  <2>1. error[r] = 0 /\ \A d \in Blocks \ {b} : pc[r][d] = "done"
    BY <1>1, <1>6, LastOneShot DEF NoError, last
  <2>2. /\ epoch'[r] = Cur(r) /\ \A q \in Ranks \ {r} : epoch'[q] = epoch[q]
    BY <1>2, <1>3, <1>6 DEF KernelLayer, KernelTypes
  <2>3. /\ pc'[r][b] = "done"
        /\ \A q \in Ranks \ {r} : pc'[q] = pc[q]
        /\ \A d \in Blocks \ {b} : pc'[r][d] = pc[r][d]
    BY <1>1, MoveFacts DEF KernelLayer
  <2>4. AwaitedInv(r)'
    BY <1>1, <2>1, <2>2, <2>3, AwaitedPublished
  <2>5. Got(r, Cur(r))
    BY <1>2, <1>4, <2>1 DEF Got, AllFlags
  <2>6. \A q \in Ranks \ {r} : Unmoved(q)
    BY <1>1, <2>2, <2>3 DEF Unmoved
  <2> QED
    BY <1>1, <1>2, <2>2, <2>4, <2>5, <2>6, OrderOf
<1> QED
  BY <1>5, <1>6

-----------------------------------------------------------------------------
(* The second layer: the steps of a two-shot kernel. *)

\* Some places are of two-shot kernels only.
LEMMA OnlyPipe ==
    ASSUME KernelLayer, NEW r \in Ranks, NEW b \in Blocks,
           pc[r][b] \in {"rs", "sum", "ag", "copy", "release"}
    PROVE  PipeCur(r)
<1>1. PlaceInv(r, b) /\ pc[r][b] \notin {"done", "start"} \cup OneShotPlaces
  BY KernelWords DEF RankKernel, OneShotPlaces
<1> QED
  BY <1>1 DEF PlaceInv

\* A block of a two-shot kernel moves on, and the epoch stays.
LEMMA PipeOrder ==
    ASSUME KernelLayer, OrderLayer, plan' = plan, UNCHANGED orderVars, UNCHANGED epoch,
           NEW r \in Ranks, NEW b \in Blocks, pc[r][b] # "done", PipeCur(r),
           \A q \in Ranks \ {r} :
              /\ seq'[q] = seq[q] /\ error'[q] = error[q] /\ pc'[q] = pc[q]
              /\ chunk'[q] = chunk[q] /\ ready'[q] = ready[q],
           seq'[r] \in {seq[r], Cur(r)}, error'[r] = 0 => error[r] = 0,
           \A d \in Blocks \ {b} : pc'[r][d] = pc[r][d] /\ chunk'[r][d] = chunk[r][d],
           pc'[r][b] # "reduce",
           pc'[r][b] = "sum" => ChunkGot(r, RS, chunk'[r][b]),
           pc'[r][b] = "copy" => ChunkGot(r, AG, chunk'[r][b]),
           error'[r] = 0 => \A c \in 0 .. chunks(Cur(r)) - 1 :
              /\ Beyond(r, b, AG, c)' => Beyond(r, b, AG, c) \/ ChunkGot(r, RS, c)
              /\ Copied(r, b, c)' => Copied(r, b, c) \/ ChunkGot(r, AG, c),
           \A ph \in Phases, c \in Chunks : ready'[r][ph][c] \in {ready[r][ph][c], Cur(r)},
           \A c \in Chunks : ready'[r][AG][c] = ready[r][AG][c] \/ ChunkGot(r, RS, c)
    PROVE  OrderLayer'
<1>1. UNCHANGED <<flag, pipe_flag>> /\ epoch'[r] = epoch[r]
  BY DEF orderVars
<1>2. AwaitedInv(r)'
  BY <1>1, AwaitedMove
<1>3. \A q \in Ranks \ {r} : Unmoved(q)
  BY DEF Unmoved
<1> QED
  BY <1>1, <1>2, <1>3, OrderOf

LEMMA OLaunch ==
    ASSUME KernelLayer, OrderLayer, plan' = plan, NEW r \in Ranks,
           \/ PipeLaunch(r)
           \/ ~IsPipe(Succ(epoch[r])) /\ Launch(r) /\ UNCHANGED pipe
    PROVE  OrderLayer'
<1>1. /\ UNCHANGED orderVars /\ UNCHANGED <<epoch, seq, error, ready, chunk>>
  BY DEF PipeLaunch, Launch, device, region, pipe, proxy, net, orderVars
<1>2. /\ CurBlocks(r) \subseteq Blocks /\ CurSize(r) \in Nat /\ plan.pipe_blocks \in Nat
      /\ Blocks \subseteq Nat /\ \A b \in Blocks : b >= 1
  BY KernelWords, PlanFacts DEF Blocks
<1>3. pc' = [pc EXCEPT ![r] = [b \in Blocks |-> IF b \in CurBlocks(r) THEN "start" ELSE "done"]]
  <2>1. \A n \in Nat : \A b \in Nat : b >= 1 => (b <= n <=> b \in 1 .. n)
    OBVIOUS
  <2>2. CASE PipeLaunch(r)
    <3>1. CurBlocks(r) = 1 .. plan.pipe_blocks
      BY <2>2 DEF PipeLaunch, PipeCur, CurBlocks
    <3>2. \A b \in Blocks : b <= plan.pipe_blocks <=> b \in CurBlocks(r)
      BY <1>2, <2>1, <3>1
    <3> QED
      BY <2>2, <3>2 DEF PipeLaunch
  <2>3. CASE ~IsPipe(Succ(epoch[r])) /\ Launch(r)
    <3>1. CurBlocks(r) = 1 .. CurSize(r)
      BY <2>3 DEF PipeCur, CurBlocks, CurGrid
    <3>2. \A b \in Blocks : b <= CurSize(r) <=> b \in CurBlocks(r)
      BY <1>2, <2>1, <3>1
    <3> QED
      BY <2>3, <3>2 DEF Launch, CurSize
  <2> QED
    BY <2>2, <2>3
<1>4. /\ \A b \in Blocks : pc'[r][b] = IF b \in CurBlocks(r) THEN "start" ELSE "done"
      /\ \A q \in Ranks \ {r} : pc'[q] = pc[q]
  BY <1>3 DEF KernelLayer, KernelTypes
<1>5. UNCHANGED <<flag, pipe_flag>> /\ epoch'[r] = epoch[r] /\ ready'[r] = ready[r]
  BY <1>1 DEF orderVars
<1>6. AwaitedInv(r)'
  BY <1>4, <1>5, AwaitedLaunch
<1>7. \A q \in Ranks \ {r} : Unmoved(q)
  BY <1>1, <1>4 DEF Unmoved
<1>8. \A ph \in Phases, c \in Chunks : ready'[r][ph][c] \in {ready[r][ph][c], Cur(r)}
  BY <1>5
<1> QED
  BY <1>1, <1>5, <1>6, <1>7, <1>8, OrderOf

LEMMA OPipeStart ==
    ASSUME KernelLayer, OrderLayer, plan' = plan, NEW r \in Ranks, NEW b \in Blocks,
           PipeStart(r, b)
    PROVE  OrderLayer'
<1> DEFINE w == IF poison[r] # 0 THEN "tail" ELSE "stage"
<1>1. /\ pc[r][b] = "start" /\ IsPipe(Succ(epoch[r])) /\ Goto(r, b, w)
      /\ chunk' = [chunk EXCEPT ![r][b] = 0]
      /\ UNCHANGED orderVars /\ UNCHANGED <<epoch, seq, error, ready>>
  BY DEF PipeStart, device, region, proxy, net, orderVars
<1>2. w \in {"done", "start"} \cup OneShotPlaces \cup PipePlaces /\ w \in {"tail", "stage"}
  BY DEF OneShotPlaces
<1>3. PipeCur(r)
  BY <1>1 DEF PipeCur
<1>4. error[r] = poison[r]
  BY <1>1, <1>3, PipeBlockFacts
<1>5. error'[r] = 0 => w = "stage"
  BY <1>1, <1>4
<1>6. /\ pc'[r][b] = w
      /\ \A q \in Ranks \ {r} : pc'[q] = pc[q]
      /\ \A d \in Blocks \ {b} : pc'[r][d] = pc[r][d]
  BY <1>1, <1>2, MoveFacts DEF KernelLayer
<1> HIDE DEF w
<1>7. /\ \A q \in Ranks \ {r} : chunk'[q] = chunk[q]
      /\ \A d \in Blocks \ {b} : chunk'[r][d] = chunk[r][d]
  BY <1>1 DEF KernelLayer, KernelTypes
<1>8. error'[r] = 0 => \A c : ~Beyond(r, b, AG, c)' /\ ~Copied(r, b, c)'
  BY <1>5, <1>6 DEF Beyond, Copied, AG, RS
<1>9. pc[r][b] # "done" /\ pc'[r][b] \notin {"reduce", "sum", "copy"}
  BY <1>1, <1>2, <1>6
<1>10. /\ \A ph \in Phases, c \in Chunks : ready'[r][ph][c] \in {ready[r][ph][c], Cur(r)}
       /\ \A c \in Chunks : ready'[r][AG][c] = ready[r][AG][c]
  BY <1>1
<1> QED
  BY <1>1, <1>3, <1>6, <1>7, <1>8, <1>9, <1>10, PipeOrder

LEMMA ODoorbell ==
    ASSUME KernelLayer, OrderLayer, plan' = plan, NEW r \in Ranks, Doorbell(r)
    PROVE  OrderLayer'
<1>1. /\ 1 \in Blocks /\ pc[r][1] = "stage" /\ IsPipe(op[r][1])
      /\ UNCHANGED orderVars /\ UNCHANGED <<epoch, error, pc, ready, chunk>>
  BY KernelWords DEF Doorbell, device, kernel, proxy, net, orderVars
<1>2. PipeCur(r) /\ op[r][1] = Cur(r)
  BY <1>1, ActiveBlock
<1>3. seq' = [seq EXCEPT ![r] = Cur(r)]
  BY <1>2 DEF Doorbell
<1>4. seq'[r] = Cur(r) /\ \A q \in Ranks \ {r} : seq'[q] = seq[q]
  BY <1>3 DEF KernelLayer, KernelTypes
<1>5. \A c : (Beyond(r, 1, AG, c)' <=> Beyond(r, 1, AG, c)) /\ (Copied(r, 1, c)' <=> Copied(r, 1, c))
  BY <1>1 DEF Beyond, Copied
<1>6. pc[r][1] # "done" /\ pc'[r][1] \notin {"reduce", "sum", "copy"}
  BY <1>1
<1>7. /\ \A ph \in Phases, c \in Chunks : ready'[r][ph][c] \in {ready[r][ph][c], Cur(r)}
      /\ \A c \in Chunks : ready'[r][AG][c] = ready[r][AG][c]
  BY <1>1
<1> QED
  BY <1>1, <1>2, <1>4, <1>5, <1>6, <1>7, PipeOrder

LEMMA OStageChunk ==
    ASSUME KernelLayer, OrderLayer, plan' = plan, NEW r \in Ranks, NEW b \in Blocks,
           StageChunk(r, b)
    PROVE  OrderLayer'
<1>1. /\ pc[r][b] = "stage" /\ IsPipe(op[r][b]) /\ _arrive(r, b, RS)
      /\ NextChunk(r, b, "stage", "rs")
      /\ UNCHANGED orderVars /\ UNCHANGED <<epoch, seq, error>>
  BY DEF StageChunk, device, region, proxy, net, orderVars
<1>2. PipeCur(r) /\ op[r][b] = Cur(r)
  BY <1>1, ActiveBlock
<1>3. chunk[r][b] \in Chunks /\ RS \in Phases /\ AG \in Phases /\ AG # RS
  BY <1>1, <1>2, PipeBlockFacts DEF LoopPlaces, Phases, AG, RS
<1>4. /\ \A q \in Ranks \ {r} : pc'[q] = pc[q] /\ chunk'[q] = chunk[q]
      /\ \A d \in Blocks \ {b} : pc'[r][d] = pc[r][d] /\ chunk'[r][d] = chunk[r][d]
      /\ pc'[r][b] \in {"stage", "rs"}
      /\ \A c \in Nat : c < chunks(Cur(r)) =>
            /\ Beyond(r, b, AG, c)' <=> Beyond(r, b, AG, c)
            /\ Copied(r, b, c)' <=> Copied(r, b, c)
  BY <1>1, <1>2, LoopStep
<1>5. /\ \A q \in Ranks \ {r} : ready'[q] = ready[q]
      /\ \A ph \in Phases, c \in Chunks : ready'[r][ph][c] \in {ready[r][ph][c], Cur(r)}
      /\ \A c \in Chunks : ready'[r][AG][c] = ready[r][AG][c]
  <2>1. /\ \A q \in Ranks \ {r} : ready'[q] = ready[q]
        /\ \A p2 \in Phases, c2 \in Chunks : p2 # RS \/ c2 # chunk[r][b] =>
              ready'[r][p2][c2] = ready[r][p2][c2]
        /\ ready'[r][RS][chunk[r][b]] =
              IF (arrived[r][RS][chunk[r][b]] + 1) % plan.pipe_blocks = 0 /\ error[r] = 0
              THEN op[r][b] ELSE ready[r][RS][chunk[r][b]]
    BY <1>1, <1>3, ArriveFacts
  <2>2. ready'[r][RS][chunk[r][b]] \in {ready[r][RS][chunk[r][b]], Cur(r)}
    BY <1>2, <2>1
  <2> QED
    BY <1>3, <2>1, <2>2
<1>6. \A c \in 0 .. chunks(Cur(r)) - 1 : c \in Nat /\ c < chunks(Cur(r))
  BY <1>1, <1>2, PipeBlockFacts
<1>7. pc[r][b] # "done" /\ pc'[r][b] \notin {"reduce", "sum", "copy"}
  BY <1>1, <1>4
<1> QED
  BY <1>1, <1>2, <1>4, <1>5, <1>6, <1>7, PipeOrder

LEMMA OWaitChunk ==
    ASSUME KernelLayer, OrderLayer, plan' = plan, NEW r \in Ranks, NEW b \in Blocks,
           WaitChunk(r, b)
    PROVE  OrderLayer'
<1> DEFINE w == IF pc[r][b] = "rs" THEN "sum" ELSE "copy"
<1>1. /\ pc[r][b] \in {"rs", "ag"} /\ Goto(r, b, w) /\ ChunkArrived(r, b)
      /\ UNCHANGED orderVars /\ UNCHANGED <<epoch, seq, error, ready, chunk>>
  BY DEF WaitChunk, device, region, pipe, proxy, net, orderVars
<1>2. PipeCur(r)
  BY <1>1, OnlyPipe
<1>3. op[r][b] = Cur(r) /\ Cur(r) \in Nat
  BY <1>1, <1>2, PipeBlockFacts
<1>4. w \in {"done", "start"} \cup OneShotPlaces \cup PipePlaces
  BY DEF PipePlaces
<1>5. /\ pc'[r][b] = w
      /\ \A q \in Ranks \ {r} : pc'[q] = pc[q]
      /\ \A d \in Blocks \ {b} : pc'[r][d] = pc[r][d]
  BY <1>1, <1>4, MoveFacts DEF KernelLayer
<1>6. ChunkGot(r, PhaseOf(r, b), chunk[r][b])
  BY <1>1, <1>3 DEF ChunkArrived, ChunkGot
<1>7. /\ pc[r][b] = "rs" => PhaseOf(r, b) = RS
      /\ pc[r][b] = "ag" => PhaseOf(r, b) = AG
  BY DEF PhaseOf
<1>8. /\ pc'[r][b] = "sum" => ChunkGot(r, RS, chunk'[r][b])
      /\ pc'[r][b] = "copy" => ChunkGot(r, AG, chunk'[r][b])
      /\ pc'[r][b] # "reduce" /\ pc[r][b] # "done"
  BY <1>1, <1>5, <1>6, <1>7
<1>9. \A c : (Beyond(r, b, AG, c)' <=> Beyond(r, b, AG, c)) /\ (Copied(r, b, c)' <=> Copied(r, b, c))
  <2>1. CASE pc[r][b] = "rs"
    BY <1>1, <1>5, <2>1 DEF Beyond, Copied, AG, RS
  <2>2. CASE pc[r][b] = "ag"
    BY <1>1, <1>5, <2>2 DEF Beyond, Copied, AG, RS
  <2> QED
    BY <1>1, <2>1, <2>2
<1>10. /\ \A ph \in Phases, c \in Chunks : ready'[r][ph][c] \in {ready[r][ph][c], Cur(r)}
       /\ \A c \in Chunks : ready'[r][AG][c] = ready[r][AG][c]
  BY <1>1
<1> HIDE DEF w
<1> QED
  BY <1>1, <1>2, <1>5, <1>8, <1>9, <1>10, PipeOrder

LEMMA OChunkTimeOut ==
    ASSUME KernelLayer, OrderLayer, plan' = plan, NEW r \in Ranks, NEW b \in Blocks,
           ChunkTimeOut(r, b)
    PROVE  OrderLayer'
<1>1. /\ pc[r][b] \in {"rs", "ag"} /\ error' = [error EXCEPT ![r] = op[r][b]]
      /\ UNCHANGED orderVars /\ UNCHANGED <<epoch, seq, pc, ready, chunk>>
  BY DEF ChunkTimeOut, Report, kernel, pipe, proxy, net, orderVars
<1>2. PipeCur(r)
  BY <1>1, OnlyPipe
<1>3. op[r][b] = Cur(r) /\ Cur(r) # 0
  BY <1>1, <1>2, PipeBlockFacts
<1>4. error'[r] # 0 /\ \A q \in Ranks \ {r} : error'[q] = error[q]
  BY <1>1, <1>3 DEF KernelLayer, KernelTypes
<1>5. pc[r][b] # "done" /\ pc'[r][b] \notin {"reduce", "sum", "copy"}
  BY <1>1
<1>6. /\ \A ph \in Phases, c \in Chunks : ready'[r][ph][c] \in {ready[r][ph][c], Cur(r)}
      /\ \A c \in Chunks : ready'[r][AG][c] = ready[r][AG][c]
  BY <1>1
<1> QED
  BY <1>1, <1>2, <1>4, <1>5, <1>6, PipeOrder

LEMMA OSkipChunk ==
    ASSUME KernelLayer, OrderLayer, plan' = plan, NEW r \in Ranks, NEW b \in Blocks,
           SkipChunk(r, b)
    PROVE  OrderLayer'
<1>1. /\ pc[r][b] \in {"rs", "ag"} /\ poison[r] # 0
      /\ IF pc[r][b] = "rs"
         THEN _arrive(r, b, AG) /\ NextChunk(r, b, "rs", "ag")
         ELSE NextChunk(r, b, "ag", "tail") /\ UNCHANGED <<arrived, ready>>
      /\ UNCHANGED orderVars /\ UNCHANGED <<epoch, seq, error>>
  BY DEF SkipChunk, device, region, proxy, net, orderVars
<1>2. PipeCur(r)
  BY <1>1, OnlyPipe
<1>3. error[r] = poison[r]
  BY <1>1, <1>2, PipeBlockFacts
<1>4. /\ \A q \in Ranks \ {r} : pc'[q] = pc[q] /\ chunk'[q] = chunk[q]
      /\ \A d \in Blocks \ {b} : pc'[r][d] = pc[r][d] /\ chunk'[r][d] = chunk[r][d]
      /\ pc'[r][b] \in {"rs", "ag", "tail"}
  <2>1. CASE pc[r][b] = "rs"
    <3>1. NextChunk(r, b, "rs", "ag")
      BY <1>1, <2>1
    <3> QED
      BY <1>2, <2>1, <3>1, LoopStep
  <2>2. CASE pc[r][b] = "ag"
    <3>1. NextChunk(r, b, "ag", "tail")
      BY <1>1, <2>2
    <3> QED
      BY <1>2, <2>2, <3>1, LoopStep
  <2> QED
    BY <1>1, <2>1, <2>2
<1>5. ready' = ready
  BY <1>1, <1>3 DEF _arrive, NoError
<1>6. error'[r] # 0 /\ pc[r][b] # "done" /\ pc'[r][b] \notin {"reduce", "sum", "copy"}
  BY <1>1, <1>3, <1>4
<1>7. /\ \A ph \in Phases, c \in Chunks : ready'[r][ph][c] \in {ready[r][ph][c], Cur(r)}
      /\ \A c \in Chunks : ready'[r][AG][c] = ready[r][AG][c]
  BY <1>5
<1> QED
  BY <1>1, <1>2, <1>4, <1>5, <1>6, <1>7, PipeOrder

LEMMA OReduceChunk ==
    ASSUME KernelLayer, OrderLayer, plan' = plan, NEW r \in Ranks, NEW b \in Blocks,
           ReduceChunk(r, b)
    PROVE  OrderLayer'
<1>1. /\ pc[r][b] = "sum" /\ _arrive(r, b, AG) /\ NextChunk(r, b, "rs", "ag")
      /\ UNCHANGED orderVars /\ UNCHANGED <<epoch, seq, error>>
  BY DEF ReduceChunk, device, region, proxy, net, orderVars
<1>2. PipeCur(r)
  BY <1>1, OnlyPipe
<1>3. chunk[r][b] \in Chunks /\ op[r][b] = Cur(r) /\ AG \in Phases
  BY <1>1, <1>2, PipeBlockFacts DEF LoopPlaces, Phases
<1>4. ChunkGot(r, RS, chunk[r][b])
  BY <1>1, OrderWords DEF AwaitedInv
<1>5. /\ \A q \in Ranks \ {r} : pc'[q] = pc[q] /\ chunk'[q] = chunk[q]
      /\ \A d \in Blocks \ {b} : pc'[r][d] = pc[r][d] /\ chunk'[r][d] = chunk[r][d]
      /\ pc'[r][b] \in {"rs", "ag"}
      /\ \A c \in Nat : c < chunks(Cur(r)) =>
            /\ Beyond(r, b, AG, c)' <=> Beyond(r, b, AG, c) \/ c = chunk[r][b]
            /\ Copied(r, b, c)' <=> Copied(r, b, c)
  BY <1>1, <1>2, LoopStep
<1>6. /\ \A q \in Ranks \ {r} : ready'[q] = ready[q]
      /\ \A p2 \in Phases, c2 \in Chunks : p2 # AG \/ c2 # chunk[r][b] =>
            ready'[r][p2][c2] = ready[r][p2][c2]
      /\ ready'[r][AG][chunk[r][b]] =
            IF (arrived[r][AG][chunk[r][b]] + 1) % plan.pipe_blocks = 0 /\ error[r] = 0
            THEN op[r][b] ELSE ready[r][AG][chunk[r][b]]
  BY <1>1, <1>3, ArriveFacts
<1>7. /\ \A ph \in Phases, c \in Chunks : ready'[r][ph][c] \in {ready[r][ph][c], Cur(r)}
      /\ \A c \in Chunks : ready'[r][AG][c] = ready[r][AG][c] \/ ChunkGot(r, RS, c)
  <2>1. ready'[r][AG][chunk[r][b]] \in {ready[r][AG][chunk[r][b]], Cur(r)}
    BY <1>3, <1>6
  <2>2. ASSUME NEW c \in Chunks
        PROVE  ready'[r][AG][c] = ready[r][AG][c] \/ ChunkGot(r, RS, c)
    BY <1>3, <1>4, <1>6
  <2> QED
    BY <1>6, <2>1, <2>2
<1>8. ASSUME NEW c \in 0 .. chunks(Cur(r)) - 1
      PROVE  /\ Beyond(r, b, AG, c)' => Beyond(r, b, AG, c) \/ ChunkGot(r, RS, c)
             /\ Copied(r, b, c)' => Copied(r, b, c) \/ ChunkGot(r, AG, c)
  <2>1. c \in Nat /\ c < chunks(Cur(r))
    BY <1>1, <1>2, PipeBlockFacts
  <2> QED
    BY <1>4, <1>5, <2>1
<1>9. pc[r][b] # "done" /\ pc'[r][b] \notin {"reduce", "sum", "copy"}
  BY <1>1, <1>5
<1> QED
  BY <1>1, <1>2, <1>5, <1>6, <1>7, <1>8, <1>9, PipeOrder

LEMMA OCopyChunk ==
    ASSUME KernelLayer, OrderLayer, plan' = plan, NEW r \in Ranks, NEW b \in Blocks,
           CopyChunk(r, b)
    PROVE  OrderLayer'
<1>1. /\ pc[r][b] = "copy" /\ NextChunk(r, b, "ag", "tail")
      /\ UNCHANGED orderVars /\ UNCHANGED <<epoch, seq, error, ready>>
  BY DEF CopyChunk, device, region, proxy, net, orderVars
<1>2. PipeCur(r)
  BY <1>1, OnlyPipe
<1>3. ChunkGot(r, AG, chunk[r][b])
  BY <1>1, OrderWords DEF AwaitedInv
<1>4. /\ \A q \in Ranks \ {r} : pc'[q] = pc[q] /\ chunk'[q] = chunk[q]
      /\ \A d \in Blocks \ {b} : pc'[r][d] = pc[r][d] /\ chunk'[r][d] = chunk[r][d]
      /\ pc'[r][b] \in {"ag", "tail"}
      /\ \A c \in Nat : c < chunks(Cur(r)) =>
            /\ Beyond(r, b, AG, c)' <=> Beyond(r, b, AG, c)
            /\ Copied(r, b, c)' <=> Copied(r, b, c) \/ c = chunk[r][b]
  BY <1>1, <1>2, LoopStep
<1>5. ASSUME NEW c \in 0 .. chunks(Cur(r)) - 1
      PROVE  /\ Beyond(r, b, AG, c)' => Beyond(r, b, AG, c) \/ ChunkGot(r, RS, c)
             /\ Copied(r, b, c)' => Copied(r, b, c) \/ ChunkGot(r, AG, c)
  <2>1. c \in Nat /\ c < chunks(Cur(r))
    BY <1>1, <1>2, PipeBlockFacts
  <2> QED
    BY <1>3, <1>4, <2>1
<1>6. pc[r][b] # "done" /\ pc'[r][b] \notin {"reduce", "sum", "copy"}
  BY <1>1, <1>4
<1>7. /\ \A ph \in Phases, c \in Chunks : ready'[r][ph][c] \in {ready[r][ph][c], Cur(r)}
      /\ \A c \in Chunks : ready'[r][AG][c] = ready[r][AG][c]
  BY <1>1
<1> QED
  BY <1>1, <1>2, <1>4, <1>5, <1>6, <1>7, PipeOrder

LEMMA OPipeTail ==
    ASSUME KernelLayer, OrderLayer, plan' = plan, NEW r \in Ranks, NEW b \in Blocks,
           PipeTail(r, b)
    PROVE  OrderLayer'
<1> DEFINE w == IF (pipe_tail[r] + 1) % plan.pipe_blocks = 0 /\ NoError(r)
                THEN "release" ELSE "done"
<1>1. /\ pc[r][b] = "tail" /\ IsPipe(op[r][b]) /\ Goto(r, b, w)
      /\ UNCHANGED orderVars /\ UNCHANGED <<epoch, seq, error, ready, chunk>>
  BY DEF PipeTail, device, region, proxy, net, orderVars
<1>2. PipeCur(r)
  BY <1>1, ActiveBlock
<1>3. w \in {"done", "start"} \cup OneShotPlaces \cup PipePlaces /\ w \in {"release", "done"}
  BY DEF PipePlaces
<1>4. /\ pc'[r][b] = w
      /\ \A q \in Ranks \ {r} : pc'[q] = pc[q]
      /\ \A d \in Blocks \ {b} : pc'[r][d] = pc[r][d]
  BY <1>1, <1>3, MoveFacts DEF KernelLayer
<1> HIDE DEF w
<1>5. \A c : Beyond(r, b, AG, c) /\ Copied(r, b, c)
  BY <1>1 DEF Beyond, Copied, AG, RS
<1>6. pc[r][b] # "done" /\ pc'[r][b] \notin {"reduce", "sum", "copy"}
  BY <1>1, <1>3, <1>4
<1>7. /\ \A ph \in Phases, c \in Chunks : ready'[r][ph][c] \in {ready[r][ph][c], Cur(r)}
      /\ \A c \in Chunks : ready'[r][AG][c] = ready[r][AG][c]
  BY <1>1
<1> QED
  BY <1>1, <1>2, <1>4, <1>5, <1>6, <1>7, PipeOrder

LEMMA OPublish ==
    ASSUME KernelLayer, OrderLayer, plan' = plan, NEW r \in Ranks, NEW b \in Blocks,
           Publish(r, b)
    PROVE  OrderLayer'
<1>1. /\ pc[r][b] = "release" /\ epoch' = [epoch EXCEPT ![r] = op[r][b]] /\ Goto(r, b, "done")
      /\ pipe_done[r] = op[r][b]
      /\ UNCHANGED orderVars /\ UNCHANGED <<seq, error, ready, chunk>>
  BY DEF Publish, region, pipe, proxy, net, orderVars
<1>2. PipeCur(r)
  BY <1>1, OnlyPipe
<1>3. /\ op[r][b] = Cur(r) /\ IsPipe(Cur(r)) /\ Working(r) /\ b \in PipeBlocks /\ PlaceInv(r, b)
      /\ Cur(r) \in Seqs
  BY <1>1, <1>2, PipeBlockFacts
<1>4. error[r] = 0 /\ \A d \in Blocks \ {b} : pc[r][d] = "done"
  BY <1>1, <1>3 DEF PlaceInv
<1>5. /\ pc'[r][b] = "done"
      /\ \A q \in Ranks \ {r} : pc'[q] = pc[q]
      /\ \A d \in Blocks \ {b} : pc'[r][d] = pc[r][d]
  BY <1>1, MoveFacts DEF KernelLayer
<1>6. /\ epoch'[r] = Cur(r) /\ \A q \in Ranks \ {r} : epoch'[q] = epoch[q]
  BY <1>1, <1>3 DEF KernelLayer, KernelTypes
<1>7. \A c \in 0 .. chunks(Cur(r)) - 1 : ChunkGot(r, RS, c) /\ ChunkGot(r, AG, c)
  <2>1. \A c : Beyond(r, b, AG, c) /\ Copied(r, b, c)
    BY <1>1 DEF Beyond, Copied, AG, RS
  <2> QED
    BY <1>3, <1>4, <2>1, OrderWords DEF AwaitedInv
<1>8. Got(r, Cur(r))
  BY <1>3, <1>7 DEF Got, ChunkGot, Phases
<1>9. \A d \in Blocks : pc'[r][d] = "done"
  BY <1>4, <1>5
<1>10. AwaitedInv(r)'
  BY <1>1, <1>6, <1>9, AwaitedPublished
<1>11. \A q \in Ranks \ {r} : Unmoved(q)
  BY <1>1, <1>5, <1>6 DEF Unmoved
<1>12. pipe_done[r] = Cur(r)
  BY <1>1, <1>3
<1>13. \A ph \in Phases, c \in Chunks : ready'[r][ph][c] \in {ready[r][ph][c], Cur(r)}
  BY <1>1
<1> QED
  BY <1>1, <1>6, <1>8, <1>10, <1>11, <1>12, <1>13, OrderOf

LEMMA OReleaseTimeOut ==
    ASSUME KernelLayer, OrderLayer, plan' = plan, NEW r \in Ranks, NEW b \in Blocks,
           ReleaseTimeOut(r, b)
    PROVE  OrderLayer'
<1>1. /\ pc[r][b] = "release" /\ error' = [error EXCEPT ![r] = op[r][b]] /\ Goto(r, b, "done")
      /\ UNCHANGED orderVars /\ UNCHANGED <<epoch, seq, ready, chunk>>
  BY DEF ReleaseTimeOut, Report, pipe, proxy, net, orderVars
<1>2. PipeCur(r)
  BY <1>1, OnlyPipe
<1>3. op[r][b] = Cur(r) /\ Cur(r) # 0
  BY <1>1, <1>2, PipeBlockFacts
<1>4. error'[r] # 0 /\ \A q \in Ranks \ {r} : error'[q] = error[q]
  BY <1>1, <1>3 DEF KernelLayer, KernelTypes
<1>5. /\ pc'[r][b] = "done"
      /\ \A q \in Ranks \ {r} : pc'[q] = pc[q]
      /\ \A d \in Blocks \ {b} : pc'[r][d] = pc[r][d]
  BY <1>1, MoveFacts DEF KernelLayer
<1>6. pc[r][b] # "done" /\ pc'[r][b] \notin {"reduce", "sum", "copy"}
  BY <1>1, <1>5
<1>7. /\ \A ph \in Phases, c \in Chunks : ready'[r][ph][c] \in {ready[r][ph][c], Cur(r)}
      /\ \A c \in Chunks : ready'[r][AG][c] = ready[r][AG][c]
  BY <1>1
<1> QED
  BY <1>1, <1>2, <1>4, <1>5, <1>6, <1>7, PipeOrder

-----------------------------------------------------------------------------
(* The second layer: the steps of a proxy and of the network. *)

\* A rank of which no proxy or network variable has changed.
LeftAlone(q) ==
    /\ pipe_done'[q] = pipe_done[q] /\ last_seq'[q] = last_seq[q] /\ upto'[q] = upto[q]
    /\ cur'[q] = cur[q] /\ bytes'[q] = bytes[q] /\ piece'[q] = piece[q]
    /\ todo'[q] = todo[q] /\ broken'[q] = broken[q] /\ qp'[q] = qp[q]

\* What the second layer says of a rank's proxy depends on these variables only.
LEMMA LeftAloneFrame ==
    ASSUME OrderTypes, UNCHANGED kernelVars, NEW q \in Ranks, LeftAlone(q), RankOrder(q),
           \A l \in Links(q) : /\ flag'[l[1]][q] = flag[l[1]][q]
                               /\ pipe_flag'[l[1]][q] = pipe_flag[l[1]][q]
    PROVE  /\ OpenInv(q)' /\ DoneInv(q)' /\ BrokenInv(q)'
           /\ \A l \in Links(q) : PostedInv(q, l)'
<1>1. plan' = plan /\ epoch' = epoch /\ seq' = seq /\ ready' = ready
  BY DEF kernelVars
<1>2. \A s : chunks(s)' = chunks(s) /\ IsPipe(s)' = IsPipe(s) /\ packs(s)' = packs(s)
  BY <1>1, PlanFrame
<1>3. Posting(q)' = Posting(q) /\ NoneOutstanding(q)' = NoneOutstanding(q)
  BY DEF Posting, NoneOutstanding, LeftAlone
<1>4. \A l \in Links(q) : FlagWords(q, l)' = FlagWords(q, l)
  BY DEF FlagWords
<1>5. OpenInv(q)'
  BY <1>1, <1>2, <1>3 DEF RankOrder, OpenInv, LeftAlone
<1>6. DoneInv(q)'
  BY <1>1, <1>2, <1>3 DEF RankOrder, DoneInv, LeftAlone
<1>7. BrokenInv(q)'
  <2>1. broken[q] \subseteq Links(q)
    BY DEF OrderTypes
  <2> QED
    BY <1>2, <1>4, <2>1 DEF RankOrder, BrokenInv, LeftAlone
<1>8. ASSUME NEW l \in Links(q) PROVE PostedInv(q, l)'
  <2>1. PostedInv(q, l) /\ FlagWords(q, l)' = FlagWords(q, l)
    BY <1>4 DEF RankOrder
  <2>2. \A s : Reached(q, l, s)' = Reached(q, l, s)
    BY <1>1, <1>2, <1>3 DEF Reached, LeftAlone
  <2>3. \A s, t : InOrder(q, s, t)' = InOrder(q, s, t)
    BY <1>2 DEF InOrder, LeftAlone
  <2>4. \A w : WriteInv(q, l, w)' = WriteInv(q, l, w)
    BY <1>1, <1>2, <2>1, <2>2, <2>3 DEF WriteInv, LeftAlone
  <2> QED
    BY SMTT(60), <1>1, <1>2, <2>1, <2>2, <2>3, <2>4 DEF PostedInv, LeftAlone
<1> QED
  BY <1>5, <1>6, <1>7, <1>8

\* A step of rank r's proxy, of its links or of the host.
LEMMA OrderElse ==
    ASSUME KernelLayer, OrderLayer, UNCHANGED kernelVars, OrderTypes', NEW r \in Ranks,
           \A q \in Ranks \ {r} :
              /\ LeftAlone(q)
              /\ \A l \in Links(q) : /\ flag'[l[1]][q] = flag[l[1]][q]
                                     /\ pipe_flag'[l[1]][q] = pipe_flag[l[1]][q],
           \A q \in Ranks : \A l \in Links(q) :
              /\ \A k \in SlotIds : flag[q][l[1]][k][l[2]] <= flag'[q][l[1]][k][l[2]]
              /\ \A ph \in Phases, c \in Chunks :
                    pipe_flag[q][l[1]][ph][l[2]][c] <= pipe_flag'[q][l[1]][ph][l[2]][c],
           OpenInv(r)', DoneInv(r)', BrokenInv(r)', \A l \in Links(r) : PostedInv(r, l)'
    PROVE  OrderLayer'
<1>1. /\ plan' = plan /\ epoch' = epoch /\ error' = error /\ pc' = pc /\ chunk' = chunk
      /\ ready' = ready
  BY DEF kernelVars
<1>2. FlagsTyped /\ FlagsTyped' /\ OrderTypes
  BY DEF OrderTypes, OrderLayer
<1>3. ASSUME NEW q \in Ranks PROVE AwaitedInv(q)' /\ Got(q, epoch[q])'
  <2>1. AwaitedInv(q) /\ Got(q, epoch[q])
    BY OrderWords
  <2>2. \A l \in Links(q) :
          /\ \A k \in SlotIds : flag[q][l[1]][k][l[2]] <= flag'[q][l[1]][k][l[2]]
          /\ \A ph \in Phases, c \in Chunks :
                pipe_flag[q][l[1]][ph][l[2]][c] <= pipe_flag'[q][l[1]][ph][l[2]][c]
    OBVIOUS
  <2>3. /\ epoch'[q] = epoch[q] /\ error'[q] = error[q] /\ pc'[q] = pc[q]
        /\ chunk'[q] = chunk[q] /\ ready'[q] = ready[q]
    BY <1>1
  <2> QED
    BY <1>1, <1>2, <2>1, <2>2, <2>3, AwaitedKeep
<1>4. ASSUME NEW q \in Ranks
      PROVE  /\ OpenInv(q)' /\ DoneInv(q)' /\ BrokenInv(q)'
             /\ \A l \in Links(q) : PostedInv(q, l)'
  <2>1. CASE q = r
    BY <2>1
  <2>2. CASE q # r
    <3>1. RankOrder(q) /\ LeftAlone(q)
          /\ \A l \in Links(q) : /\ flag'[l[1]][q] = flag[l[1]][q]
                                 /\ pipe_flag'[l[1]][q] = pipe_flag[l[1]][q]
      BY <2>2 DEF OrderLayer
    <3> QED
      BY <1>2, <3>1, LeftAloneFrame
  <2> QED
    BY <2>1, <2>2
<1>5. ASSUME NEW q \in Ranks PROVE RankOrder(q)'
  BY <1>3, <1>4 DEF RankOrder
<1> QED
  BY <1>5 DEF OrderLayer

\* A step of rank r's proxy: no flag is written.
LEMMA OrderProxy ==
    ASSUME KernelLayer, OrderLayer, UNCHANGED kernelVars, UNCHANGED <<flag, pipe_flag>>,
           OrderTypes', NEW r \in Ranks, \A q \in Ranks \ {r} : LeftAlone(q),
           OpenInv(r)', DoneInv(r)', BrokenInv(r)', \A l \in Links(r) : PostedInv(r, l)'
    PROVE  OrderLayer'
<1>1. FlagsTyped
  BY DEF OrderTypes, OrderLayer
<1>2. \A q \in Ranks : \A l \in Links(q) :
              /\ \A k \in SlotIds : flag[q][l[1]][k][l[2]] <= flag'[q][l[1]][k][l[2]]
              /\ \A ph \in Phases, c \in Chunks :
                    pipe_flag[q][l[1]][ph][l[2]][c] <= pipe_flag'[q][l[1]][ph][l[2]][c]
  <2> TAKE q \in Ranks
  <2> TAKE l \in Links(q)
  <2> QED
    BY <1>1, FlagsLeft
<1>3. \A q \in Ranks \ {r} :
         /\ LeftAlone(q)
         /\ \A l \in Links(q) : /\ flag'[l[1]][q] = flag[l[1]][q]
                                /\ pipe_flag'[l[1]][q] = pipe_flag[l[1]][q]
  OBVIOUS
<1> QED
  BY <1>2, <1>3, OrderElse

\* A step of the host, or of a thread between operations.
LEMMA OrderQuiet ==
    ASSUME KernelLayer, OrderLayer, UNCHANGED kernelVars, UNCHANGED orderVars
    PROVE  OrderLayer'
<1>1. PICK r \in Ranks : TRUE
  BY Consts DEF Ranks
<1>2. UNCHANGED <<flag, pipe_flag>> /\ \A q \in Ranks : LeftAlone(q)
  BY DEF orderVars, LeftAlone
<1>3. OrderTypes /\ OrderTypes' /\ RankOrder(r)
  BY DEF OrderLayer, OrderTypes, FlagsTyped, orderVars
<1>4. \A l \in Links(r) : /\ flag'[l[1]][r] = flag[l[1]][r]
                          /\ pipe_flag'[l[1]][r] = pipe_flag[l[1]][r]
  BY <1>2
<1>5. OpenInv(r)' /\ DoneInv(r)' /\ BrokenInv(r)' /\ \A l \in Links(r) : PostedInv(r, l)'
  BY <1>2, <1>3, <1>4, LeftAloneFrame
<1> QED
  BY <1>2, <1>3, <1>5, OrderProxy

\* A link to which nothing is posted.
LEMMA PostedKeep ==
    ASSUME KernelLayer, OrderLayer, UNCHANGED kernelVars, UNCHANGED <<flag, pipe_flag>>,
           NEW r \in Ranks, NEW l \in Links(r),
           qp'[r][l] = qp[r][l], broken'[r] = broken[r],
           \A s \in Nat : Reached(r, l, s) => Reached(r, l, s)',
           qp[r][l] # <<>> =>
              /\ pipe_done'[r] = pipe_done[r]
              /\ \A s, t \in Nat : InOrder(r, s, t) => InOrder(r, s, t)'
    PROVE  PostedInv(r, l)'
<1>1. plan' = plan /\ ready' = ready
  BY DEF kernelVars
<1>2. \A s : chunks(s)' = chunks(s) /\ IsPipe(s)' = IsPipe(s)
  BY <1>1, PlanFrame
<1>3. FlagWords(r, l)' = FlagWords(r, l)
  BY DEF FlagWords
<1>4. PostedInv(r, l) /\ FlagWords(r, l) \subseteq Nat
      /\ Len(qp[r][l]) \in Nat /\ \A i \in 1 .. Len(qp[r][l]) : qp[r][l][i].s \in Nat
  BY OrderWords, FlagTypes, QueueTypes DEF OrderLayer
<1>5. 1 .. Len(qp[r][l]) # {} => qp[r][l] # <<>>
  OBVIOUS
<1>6. ASSUME NEW i \in 1 .. Len(qp[r][l]) PROVE WriteInv(r, l, qp[r][l][i])'
  <2> DEFINE w == qp[r][l][i]
  <2>1. WriteInv(r, l, w) /\ w.s \in Nat
    BY <1>4 DEF PostedInv
  <2>2. /\ pipe_done'[r] = pipe_done[r]
        /\ \A s, t \in Nat : InOrder(r, s, t) => InOrder(r, s, t)'
    BY <1>5
  <2> HIDE DEF w
  <2>3. WriteInv(r, l, w)'
    BY <1>1, <1>2, <1>3, <1>4, <2>1, <2>2 DEF WriteInv, w
  <2> QED
    BY <2>3 DEF w
<1>7. ASSUME NEW i \in 1 .. Len(qp[r][l]), NEW j \in 1 .. Len(qp[r][l]), i < j
      PROVE  InOrder(r, qp[r][l][i].s, qp[r][l][j].s)'
  <2>1. \A s, t \in Nat : InOrder(r, s, t) => InOrder(r, s, t)'
    BY <1>5
  <2>2. InOrder(r, qp[r][l][i].s, qp[r][l][j].s)
    BY <1>4, <1>7 DEF PostedInv
  <2> QED
    BY <1>4, <2>1, <2>2
<1>8. \A f \in FlagWords(r, l) : Reached(r, l, f)'
  BY <1>4 DEF PostedInv
<1> QED
  BY <1>1, <1>2, <1>3, <1>4, <1>6, <1>7, <1>8 DEF PostedInv

\* The proxy gives up: what it has posted of the operation stays posted.
LEMMA OFail ==
    ASSUME KernelLayer, OrderLayer, UNCHANGED kernelVars, NEW r \in Ranks, Fail(r),
           UNCHANGED <<flag, pipe_flag, pipe_done, last_seq, cur, bytes, posted, piece>>,
           UNCHANGED net,
           IsPipe(last_seq[r] + 1) \/ broken[r] # {} \/ ~Posting(r),
           pipe_done[r] # last_seq[r] + 1
    PROVE  OrderLayer'
<1>1. /\ upto' = [upto EXCEPT ![r] = last_seq[r]] /\ todo' = [todo EXCEPT ![r] = {}]
      /\ qp' = qp /\ written' = written /\ broken' = broken
      /\ plan' = plan /\ epoch' = epoch /\ seq' = seq /\ ready' = ready
  BY DEF Fail, net, kernelVars
<1>2. /\ last_seq[r] \in Seqs /\ last_seq[r] \in Nat /\ upto[r] \in Nat /\ seq[r] \in Nat
      /\ last_seq[r] <= upto[r] /\ upto[r] <= seq[r] /\ pipe_done[r] \in Nat
      /\ DoneInv(r) /\ BrokenInv(r) /\ OpenInv(r) /\ broken[r] \subseteq Links(r)
  BY OrderWords
<1>3. /\ upto' \in [Ranks -> Seqs] /\ upto'[r] = last_seq[r] /\ todo'[r] = {}
      /\ DOMAIN todo' = Ranks
      /\ \A q \in Ranks \ {r} : upto'[q] = upto[q] /\ todo'[q] = todo[q]
  BY <1>1, <1>2 DEF OrderLayer, OrderTypes
<1>4. OrderTypes'
  <2>1. ASSUME NEW q \in Ranks PROVE todo'[q] \subseteq Links(q)
    BY <1>3 DEF OrderLayer, OrderTypes
  <2> QED
    BY <1>1, <1>3, <2>1 DEF OrderLayer, OrderTypes, FlagsTyped
<1>5. \A q \in Ranks \ {r} : LeftAlone(q)
  BY <1>1, <1>3 DEF LeftAlone
<1>6. \A s : chunks(s)' = chunks(s) /\ IsPipe(s)' = IsPipe(s) /\ packs(s)' = packs(s)
  BY <1>1, PlanFrame
<1>7. ~Posting(r)'
  BY <1>3 DEF Posting
<1>8. OpenInv(r)'
  BY <1>1, <1>2, <1>3, <1>7 DEF OpenInv
<1>9. DoneInv(r)'
  BY <1>1, <1>2, <1>6, <1>7 DEF DoneInv
<1>10. BrokenInv(r)'
  <2>1. \A l \in broken[r] : FlagWords(r, l)' = FlagWords(r, l)
    BY DEF FlagWords
  <2> QED
    BY <1>1, <1>2, <1>6, <2>1 DEF BrokenInv
<1>11. ASSUME NEW l \in Links(r) PROVE PostedInv(r, l)'
  <2>1. \A s \in Nat : Reached(r, l, s) => Reached(r, l, s)'
    <3> SUFFICES ASSUME NEW s \in Nat, Reached(r, l, s) PROVE Reached(r, l, s)'
      OBVIOUS
    <3>1. s = last_seq[r] + 1 => IsPipe(s) \/ broken[r] # {}
      BY DEF Reached
    <3>2. s <= seq[r] /\ s <= last_seq[r] + 1
      BY DEF Reached
    <3> QED
      BY <1>1, <1>6, <3>1, <3>2 DEF Reached
  <2>2. \A s, t \in Nat : InOrder(r, s, t) => InOrder(r, s, t)'
    BY <1>1, <1>6 DEF InOrder
  <2> QED
    BY <1>1, <2>1, <2>2, PostedKeep
<1> QED
  BY <1>4, <1>5, <1>8, <1>9, <1>10, <1>11, OrderProxy

\* The record of the next operation to be opened.
LEMMA NextRecord ==
    ASSUME KernelLayer, OrderLayer, NEW r \in Ranks, NEW s \in Nat, s > 0,
           epoch[r] <= s, s <= seq[r]
    PROVE  /\ nbytes[r][SlotOf(s)] = IF IsPipe(s) THEN packs(s) ELSE Grid[s]
           /\ kind[r][SlotOf(s)] = IF IsPipe(s) THEN 1 ELSE 0
<1>1. epoch[r] \in Nat /\ seq[r] \in Nat /\ RungInv(r)
  BY OrderWords, KernelWords DEF RankKernel
<1>2. s \in epoch[r] .. seq[r]
  BY <1>1
<1>3. Record(r, s)
  BY <1>1, <1>2 DEF RungInv, Launched
<1> QED
  BY <1>3 DEF Record

\* Operation s is opened, with its record.
LEMMA Opened ==
    ASSUME KernelLayer, OrderLayer, UNCHANGED kernelVars, NEW r \in Ranks,
           NEW s \in Nat, s > 0, epoch[r] <= s, s <= seq[r], last_seq'[r] + 1 = s,
           upto'[r] = seq[r] \/ upto'[r] = upto[r], s <= upto'[r], last_seq'[r] \in Nat,
           bytes'[r] = nbytes[r][SlotOf(s)], cur'[r] = kind[r][SlotOf(s)],
           todo'[r] = Links(r), piece'[r] = NoPiece
    PROVE  OpenInv(r)'
<1>1. plan' = plan /\ seq' = seq /\ ready' = ready
  BY DEF kernelVars
<1>2. \A t : chunks(t)' = chunks(t) /\ IsPipe(t)' = IsPipe(t) /\ packs(t)' = packs(t)
  BY <1>1, PlanFrame
<1>3. upto[r] \in Nat /\ seq[r] \in Nat /\ upto[r] <= seq[r]
  BY OrderWords
<1>4. /\ bytes'[r] = (IF IsPipe(s) THEN packs(s) ELSE Grid[s])
      /\ cur'[r] = IF IsPipe(s) THEN 1 ELSE 0
  BY NextRecord
<1>5. last_seq'[r] <= upto'[r] /\ upto'[r] <= seq'[r] /\ last_seq'[r] # upto'[r]
  BY <1>1, <1>3
<1>6. Posting(r)'
  BY <1>5 DEF Posting
<1>7. piece'[r].left = {}
  BY DEF NoPiece
<1> QED
  BY <1>1, <1>2, <1>4, <1>5, <1>6, <1>7 DEF OpenInv

LEMMA OPoll ==
    ASSUME KernelLayer, OrderLayer, UNCHANGED kernelVars, NEW r \in Ranks, Poll(r), Dispatch(r),
           UNCHANGED <<kind, restOfPipe>>
    PROVE  OrderLayer'
<1>1. /\ ~Posting(r) /\ seq[r] # last_seq[r] /\ last_seq' = last_seq
      /\ UNCHANGED <<flag, pipe_flag, pipe_done>> /\ UNCHANGED net
  BY DEF Poll, restOfPipe, region
<1>2. /\ last_seq[r] \in Seqs /\ last_seq[r] \in Nat /\ upto[r] \in Nat /\ seq[r] \in Nat
      /\ last_seq[r] <= upto[r] /\ upto[r] <= seq[r] /\ pipe_done[r] \in Nat /\ epoch[r] \in Nat
      /\ DoneInv(r) /\ BrokenInv(r) /\ OpenInv(r) /\ broken[r] \subseteq Links(r)
      /\ seq[r] \in Seqs
  BY OrderWords, KernelWords
<1>3. upto[r] = last_seq[r] /\ todo[r] = {} /\ pipe_done[r] # last_seq[r] + 1
  BY <1>1, <1>2 DEF Posting, OpenInv, DoneInv
<1>4. Links(r) # {}
  BY LinkFacts
<1>5. CASE Fail(r) /\ UNCHANGED bytes
  <2>1. ~(Posting(r)' /\ todo'[r] = Links(r))
    <3>1. upto'[r] = last_seq[r]
      BY <1>5 DEF Fail, OrderLayer, OrderTypes
    <3> QED
      BY <1>1, <3>1 DEF Posting
  <2>2. UNCHANGED <<cur, posted, piece>>
    BY <2>1 DEF Dispatch
  <2> QED
    BY <1>1, <1>3, <1>5, <2>2, OFail
<1>6. CASE /\ upto' = [upto EXCEPT ![r] = seq[r]]
           /\ OpenOp(r, Succ(last_seq[r]))
  <2> DEFINE s == last_seq[r] + 1
  <2>1. s \in Nat /\ s <= seq[r] /\ s > 0 /\ epoch[r] <= s
    BY <1>1, <1>2, <1>3, Trailing
  <2>2. s \in Seqs
    BY <1>2, <2>1, Consts DEF Seqs
  <2>3. Succ(last_seq[r]) = s
    BY <1>2, <2>2, SuccFacts
  <2>4. /\ bytes' = [bytes EXCEPT ![r] = nbytes[r][SlotOf(s)]]
        /\ todo' = [todo EXCEPT ![r] = Links(r)]
    BY <1>6, <2>3 DEF OpenOp
  <2> HIDE DEF s
  <2>5. /\ upto' \in [Ranks -> Seqs] /\ upto'[r] = seq[r] /\ DOMAIN bytes' = Ranks
        /\ bytes'[r] = nbytes[r][SlotOf(s)] /\ DOMAIN todo' = Ranks /\ todo'[r] = Links(r)
        /\ \A q \in Ranks \ {r} : upto'[q] = upto[q] /\ bytes'[q] = bytes[q] /\ todo'[q] = todo[q]
    BY <1>2, <1>6, <2>4 DEF OrderLayer, OrderTypes
  <2>6. Posting(r)' /\ Succ(last_seq'[r]) = s
    BY <1>1, <2>3, <2>5 DEF Posting
  <2>7. /\ cur' = [cur EXCEPT ![r] = kind[r][SlotOf(s)]]
        /\ posted' = [posted EXCEPT ![r] = [ph \in Phases |-> 0]]
        /\ piece' = [piece EXCEPT ![r] = NoPiece]
    BY <2>5, <2>6 DEF Dispatch
  <2>8. /\ DOMAIN cur' = Ranks /\ cur'[r] = kind[r][SlotOf(s)]
        /\ posted' \in [Ranks -> [Phases -> Nat]]
        /\ piece' \in [Ranks -> [ph : Phases, c : Chunks, left : SUBSET (Ranks \X Hcas)]]
        /\ piece'[r] = NoPiece
        /\ \A q \in Ranks \ {r} : cur'[q] = cur[q] /\ piece'[q] = piece[q]
    <3>1. NoPiece \in [ph : Phases, c : Chunks, left : SUBSET (Ranks \X Hcas)]
      BY Consts, PipeAssumption DEF NoPiece, Phases, Chunks
    <3> QED
      BY <2>7, <3>1 DEF OrderLayer, OrderTypes
  <2>9. OrderTypes'
    <3>1. ASSUME NEW q \in Ranks PROVE todo'[q] \subseteq Links(q)
      BY ZenonT(30), <2>5 DEF OrderLayer, OrderTypes
    <3> QED
      BY <1>1, <2>5, <2>8, <3>1 DEF OrderLayer, OrderTypes, FlagsTyped, net
  <2>10. \A q \in Ranks \ {r} : LeftAlone(q)
    BY <1>1, <2>5, <2>8 DEF LeftAlone, net
  <2>11. OpenInv(r)'
    BY <1>1, <1>2, <2>1, <2>5, <2>8, Opened DEF s
  <2>12. plan' = plan /\ epoch' = epoch /\ seq' = seq
    BY DEF kernelVars
  <2>13. \A t : IsPipe(t)' = IsPipe(t)
    BY <2>12, PlanFrame
  <2>14. DoneInv(r)'
    BY <1>1, <1>2, <1>3, <1>4, <2>5, <2>12, <2>13 DEF DoneInv
  <2>15. BrokenInv(r)'
    <3>1. \A l \in broken[r] : FlagWords(r, l)' = FlagWords(r, l)
      BY <1>1 DEF FlagWords
    <3> QED
      BY <1>1, <1>2, <2>13, <3>1 DEF BrokenInv, net
  <2>16. ASSUME NEW l \in Links(r) PROVE PostedInv(r, l)'
    <3>1. \A t \in Nat : Reached(r, l, t) => Reached(r, l, t)'
      BY <1>1, <2>12, <2>13 DEF Reached, net
    <3>2. \A t, u \in Nat : InOrder(r, t, u) => InOrder(r, t, u)'
      BY <1>1, <2>13 DEF InOrder, net
    <3> QED
      BY <1>1, <3>1, <3>2, PostedKeep DEF net
  <2> QED
    BY <1>1, <2>9, <2>10, <2>11, <2>14, <2>15, <2>16, OrderProxy
<1> QED
  BY <1>5, <1>6 DEF Poll

\* The end of an operation: every completion was seen, or a write had failed.
LEMMA OEndOp ==
    ASSUME KernelLayer, OrderLayer, UNCHANGED kernelVars, NEW r \in Ranks, EndOp(r),
           Dispatch(r), UNCHANGED <<kind, restOfPipe>>
    PROVE  OrderLayer'
<1> DEFINE s == last_seq[r] + 1
<1>1. /\ Posting(r) /\ todo[r] = {} /\ UNCHANGED <<flag, pipe_flag, pipe_done>> /\ UNCHANGED net
  BY DEF EndOp, restOfPipe, region
<1>2. /\ last_seq[r] \in Seqs /\ last_seq[r] \in Nat /\ upto[r] \in Nat /\ seq[r] \in Nat
      /\ last_seq[r] <= upto[r] /\ upto[r] <= seq[r] /\ pipe_done[r] \in Nat /\ epoch[r] \in Nat
      /\ DoneInv(r) /\ broken[r] \subseteq Links(r) /\ upto[r] \in Seqs
      /\ \A l \in Links(r) : PostedInv(r, l)
  BY OrderWords
<1>3. /\ s \in Seqs /\ s \in Nat \ {0} /\ Succ(last_seq[r]) = s /\ s <= upto[r]
      /\ epoch[r] <= s + 1
  BY <1>1, OpenFacts, Trailing, OrderWords
<1>4. CASE DrainFails(r, Links(r)) /\ Fail(r) /\ UNCHANGED <<last_seq, bytes>>
  <2>1. PICK l \in broken[r] : l \in Links(r)
    BY <1>4 DEF DrainFails
  <2>2. qp[r][l] # <<>>
    BY <1>2, <2>1 DEF PostedInv
  <2>3. pipe_done[r] # s
    BY <1>2, <2>1, <2>2 DEF DoneInv, NoneOutstanding
  <2>4. ~(Posting(r)' /\ todo'[r] = Links(r))
    <3>1. upto'[r] = last_seq[r]
      BY <1>4 DEF Fail, OrderLayer, OrderTypes
    <3> QED
      BY <1>4, <3>1 DEF Posting
  <2>5. UNCHANGED <<cur, posted, piece>>
    BY <2>4 DEF Dispatch
  <2> QED
    BY <1>1, <1>4, <2>1, <2>3, <2>5, OFail
<1>5. CASE /\ ~DrainFails(r, Links(r)) /\ last_seq' = [last_seq EXCEPT ![r] = s]
           /\ IF s # upto[r] THEN OpenOp(r, Succ(s)) ELSE UNCHANGED <<bytes, todo>>
           /\ UNCHANGED <<thread, failed, upto>>
  <2>1. broken[r] = {} /\ broken'[r] = {} /\ qp' = qp
    BY <1>1, <1>2, <1>5 DEF DrainFails, net
  <2>2. IsPipe(s) => \A l \in Links(r) : qp[r][l] = <<>>
    BY <1>1, <1>2 DEF DoneInv, NoneOutstanding
  <2>3. pipe_done[r] <= s
    BY <1>2 DEF DoneInv
  <2> HIDE DEF s
  <2>4. /\ last_seq' \in [Ranks -> Seqs] /\ last_seq'[r] = s
        /\ \A q \in Ranks \ {r} : last_seq'[q] = last_seq[q]
    BY <1>3, <1>5 DEF OrderLayer, OrderTypes
  <2>5. plan' = plan /\ epoch' = epoch /\ seq' = seq
    BY DEF kernelVars
  <2>6. \A t : IsPipe(t)' = IsPipe(t) /\ chunks(t)' = chunks(t) /\ packs(t)' = packs(t)
    BY <2>5, PlanFrame
  <2>7. /\ DOMAIN bytes' = Ranks /\ DOMAIN todo' = Ranks /\ DOMAIN cur' = Ranks
        /\ todo'[r] \in {{}, Links(r)}
        /\ posted' \in [Ranks -> [Phases -> Nat]]
        /\ piece' \in [Ranks -> [ph : Phases, c : Chunks, left : SUBSET (Ranks \X Hcas)]]
        /\ \A q \in Ranks \ {r} : /\ cur'[q] = cur[q] /\ piece'[q] = piece[q]
                                  /\ bytes'[q] = bytes[q] /\ todo'[q] = todo[q]
        /\ OpenInv(r)' /\ (Posting(r)' => todo'[r] # {})
    <3>1. CASE s # upto[r]
      <4>1. s + 1 \in Nat /\ s + 1 <= upto[r] /\ s + 1 <= seq[r] /\ s + 1 > 0
            /\ epoch[r] <= s + 1
        BY <1>2, <1>3, <3>1
      <4>2. s + 1 \in Seqs
        BY <1>2, <4>1, Consts DEF Seqs
      <4>3. Succ(s) = s + 1
        BY <1>3, <4>2, SuccFacts
      <4>4. /\ bytes' = [bytes EXCEPT ![r] = nbytes[r][SlotOf(s + 1)]]
            /\ todo' = [todo EXCEPT ![r] = Links(r)]
        BY <1>5, <3>1, <4>3 DEF OpenOp
      <4>5. /\ DOMAIN bytes' = Ranks /\ bytes'[r] = nbytes[r][SlotOf(s + 1)]
            /\ DOMAIN todo' = Ranks /\ todo'[r] = Links(r)
            /\ \A q \in Ranks \ {r} : bytes'[q] = bytes[q] /\ todo'[q] = todo[q]
        BY <4>4 DEF OrderLayer, OrderTypes
      <4>6. Posting(r)' /\ Succ(last_seq'[r]) = s + 1
        BY <1>5, <2>4, <3>1, <4>3 DEF Posting
      <4>7. /\ cur' = [cur EXCEPT ![r] = kind[r][SlotOf(s + 1)]]
            /\ posted' = [posted EXCEPT ![r] = [ph \in Phases |-> 0]]
            /\ piece' = [piece EXCEPT ![r] = NoPiece]
        BY <4>5, <4>6 DEF Dispatch
      <4>8. NoPiece \in [ph : Phases, c : Chunks, left : SUBSET (Ranks \X Hcas)]
        BY Consts, PipeAssumption DEF NoPiece, Phases, Chunks
      <4>9. /\ DOMAIN cur' = Ranks /\ cur'[r] = kind[r][SlotOf(s + 1)]
            /\ posted' \in [Ranks -> [Phases -> Nat]]
            /\ piece' \in [Ranks -> [ph : Phases, c : Chunks, left : SUBSET (Ranks \X Hcas)]]
            /\ piece'[r] = NoPiece
            /\ \A q \in Ranks \ {r} : cur'[q] = cur[q] /\ piece'[q] = piece[q]
        BY <4>7, <4>8 DEF OrderLayer, OrderTypes
      <4>10. OpenInv(r)'
        <5>1. last_seq'[r] + 1 = s + 1 /\ last_seq'[r] \in Nat /\ upto'[r] = upto[r]
              /\ s + 1 <= upto'[r]
          BY <1>3, <1>5, <2>4, <4>1
        <5> QED
          BY <4>1, <4>5, <4>9, <5>1, Opened
      <4>11. Links(r) # {}
        BY LinkFacts
      <4> QED
        BY <4>5, <4>9, <4>10, <4>11
    <3>2. CASE s = upto[r]
      <4>1. ~Posting(r)' /\ bytes' = bytes /\ todo' = todo
        BY <1>5, <2>4, <3>2 DEF Posting
      <4>2. UNCHANGED <<cur, posted, piece>>
        BY <4>1 DEF Dispatch
      <4>3. last_seq'[r] <= upto'[r] /\ upto'[r] <= seq'[r] /\ todo'[r] = {}
        BY <1>1, <1>2, <1>3, <1>5, <2>4, <2>5, <3>2, <4>1
      <4>4. OpenInv(r)'
        BY <4>1, <4>3 DEF OpenInv
      <4> QED
        BY <4>1, <4>2, <4>3, <4>4 DEF OrderLayer, OrderTypes
    <3> QED
      BY <3>1, <3>2
  <2>8. OrderTypes'
    <3>1. ASSUME NEW q \in Ranks PROVE todo'[q] \subseteq Links(q)
      BY ZenonT(30), <2>7 DEF OrderLayer, OrderTypes
    <3>2. UNCHANGED <<upto, flag, pipe_flag, pipe_done, qp, written, broken>>
      BY <1>1, <1>5 DEF net
    <3>3. FlagsTyped'
      BY <3>2 DEF OrderLayer, OrderTypes, FlagsTyped
    <3>4. last_seq' \in [Ranks -> Seqs]
      BY <2>4
    <3> QED
      BY <2>7, <3>1, <3>2, <3>3, <3>4 DEF OrderLayer, OrderTypes
  <2>9. \A q \in Ranks \ {r} : LeftAlone(q)
    BY <1>1, <1>5, <2>4, <2>7 DEF LeftAlone, net
  <2>10. DoneInv(r)'
    <3>1. pipe_done'[r] <= last_seq'[r] + 1 /\ pipe_done'[r] # last_seq'[r] + 1
      BY <1>1, <1>2, <1>3, <2>3, <2>4
    <3> QED
      BY <1>1, <1>2, <2>5, <2>6, <2>7, <3>1 DEF DoneInv
  <2>11. BrokenInv(r)'
    BY <2>1 DEF BrokenInv
  <2>12. ASSUME NEW l \in Links(r) PROVE PostedInv(r, l)'
    <3>1. ASSUME NEW t \in Nat, Reached(r, l, t) PROVE Reached(r, l, t)'
      <4>1. t <= seq[r] /\ t <= s
        BY <3>1 DEF Reached, s
      <4>2. t <= seq'[r] /\ t <= last_seq'[r] + 1 /\ t # last_seq'[r] + 1
        BY <1>3, <2>4, <2>5, <4>1
      <4> QED
        BY <4>2 DEF Reached
    <3>2. qp[r][l] # <<>> => \A t, u \in Nat : InOrder(r, t, u) => InOrder(r, t, u)'
      BY <2>1, <2>2 DEF InOrder, s
    <3> QED
      BY <1>1, <2>1, <3>1, <3>2, PostedKeep
  <2> QED
    BY <1>1, <2>7, <2>8, <2>9, <2>10, <2>11, <2>12, OrderProxy
<1> QED
  BY <1>3, <1>4, <1>5 DEF EndOp

\* Polls that find no doorbell, and a thread that leaves.
LEMMA OBetween ==
    ASSUME KernelLayer, OrderLayer, UNCHANGED kernelVars, NEW r \in Ranks,
           IdlePoll(r) \/ Leave(r), UNCHANGED pipe
    PROVE  OrderLayer'
<1>1. CASE Leave(r)
  <2>1. UNCHANGED orderVars
    BY <1>1 DEF Leave, region, net, pipe, orderVars
  <2> QED
    BY <2>1, OrderQuiet
<1>2. CASE IdlePoll(r)
  <2>1. /\ ~Posting(r) /\ Fail(r) /\ UNCHANGED net
        /\ UNCHANGED <<flag, pipe_flag, pipe_done, last_seq, cur, bytes, posted, piece>>
    BY <1>2 DEF IdlePoll, region, pipe
  <2>2. pipe_done[r] # last_seq[r] + 1
    BY <2>1, OrderWords DEF DoneInv
  <2> QED
    BY <2>1, <2>2, OFail
<1> QED
  BY <1>1, <1>2

\* On a full send queue the proxy gives up only when a queue pair is broken.
LEMMA OThrottle ==
    ASSUME Depth >= 2, KernelLayer, OrderLayer, UNCHANGED kernelVars, NEW r \in Ranks,
           cur[r] = 0, Throttle(r), UNCHANGED pipe
    PROVE  OrderLayer'
<1>1. /\ Posting(r) /\ todo[r] # {} /\ ~HasRoom(r, NextLink(r)) /\ Fail(r) /\ UNCHANGED net
      /\ UNCHANGED <<flag, pipe_flag, pipe_done, last_seq, cur, bytes, posted, piece>>
  BY DEF Throttle, region, pipe
<1>2. todo[r] \subseteq Links(r) /\ ~IsPipe(last_seq[r] + 1) /\ pipe_done[r] # last_seq[r] + 1
  BY <1>1, OpenFacts, OrderWords
<1>3. NextLink(r) \in todo[r] /\ NextLink(r) \in Links(r)
  BY <1>1, <1>2, NextLinkFound
<1>4. Len(qp[r][NextLink(r)]) \in Nat /\ Depth \in Nat
  BY <1>3, QueueTypes, Consts, RoceAssumption DEF OrderLayer
<1>5. broken[r] # {}
  <2>1. SUFFICES ASSUME broken[r] = {} PROVE FALSE
    OBVIOUS
  <2>2. Len(qp[r][NextLink(r)]) <= 1
    BY <1>2, <1>3, <2>1, RoomLeft
  <2> QED
    BY <1>1, <1>4, <2>2 DEF HasRoom
<1> QED
  BY <1>1, <1>2, <1>5, OFail

LEMMA OGiveUp ==
    ASSUME KernelLayer, OrderLayer, UNCHANGED kernelVars, NEW r \in Ranks, GiveUp(r)
    PROVE  OrderLayer'
<1>1. /\ PipeOpen(r) /\ Fail(r) /\ UNCHANGED net
      /\ UNCHANGED <<flag, pipe_flag, pipe_done, last_seq, cur, bytes, posted, piece>>
  BY DEF GiveUp, region, pipe
<1>2. Posting(r) /\ cur[r] = 1 /\ todo[r] # {}
  BY <1>1, LinkFacts DEF PipeOpen
<1>3. IsPipe(last_seq[r] + 1) /\ pipe_done[r] # last_seq[r] + 1
  BY SMTT(60), <1>2, OpenFacts, OrderWords
<1> QED
  BY <1>1, <1>3, OFail

\* A write of the open operation is queued on a link that still waits for it.
LEMMA QueuedOne ==
    ASSUME KernelLayer, OrderLayer, UNCHANGED kernelVars,
           UNCHANGED <<flag, pipe_flag, pipe_done, last_seq, broken>>,
           NEW r \in Ranks, NEW l \in todo[r], l \in Links(r), Posting(r),
           NEW w, w \in [s : Seqs, n : Nat] \cup [s : Seqs, n : Nat, ph : Phases, c : Chunks],
           w.s = last_seq[r] + 1,
           IsPipe(w.s) \/ (Posting(r)' /\ l \notin todo'[r]),
           IsPipe(w.s) => /\ w.ph \in Phases /\ w.c \in Chunks /\ w.c < chunks(w.s)
                          /\ ready[r][w.ph][w.c] >= w.s,
           qp'[r][l] = Append(qp[r][l], w)
    PROVE  PostedInv(r, l)'
<1> DEFINE W == [s : Seqs, n : Nat] \cup [s : Seqs, n : Nat, ph : Phases, c : Chunks]
           q == qp[r][l]
           s == w.s
           n == Len(q)
<1>1. plan' = plan /\ ready' = ready /\ seq' = seq
  BY DEF kernelVars
<1>2. \A t : chunks(t)' = chunks(t) /\ IsPipe(t)' = IsPipe(t)
  BY <1>1, PlanFrame
<1>3. FlagWords(r, l)' = FlagWords(r, l)
  BY DEF FlagWords
<1>4. PostedInv(r, l) /\ FlagWords(r, l) \subseteq Nat
      /\ n \in Nat /\ \A i \in 1 .. n : q[i].s \in Nat
  BY OrderWords, FlagTypes, QueueTypes DEF OrderLayer
<1>5. /\ last_seq[r] \in Nat /\ s \in Nat /\ s = last_seq[r] + 1 /\ s <= seq[r]
      /\ pipe_done[r] < s
  BY OpenFacts, OrderWords
<1>6. q \in Seq(W) /\ w \in W
  BY DEF OrderLayer, OrderTypes
<1> HIDE DEF W
<1>7. /\ Len(qp'[r][l]) = n + 1 /\ qp'[r][l] # <<>>
      /\ \A i \in 1 .. n : qp'[r][l][i] = q[i]
      /\ qp'[r][l][n + 1] = w
  BY SMTT(60), <1>6, AppendProperties
<1> HIDE DEF q, n, s
<1>8. ASSUME NEW t \in Nat, Reached(r, l, t)
      PROVE  Reached(r, l, t)' /\ InOrder(r, t, s)'
  <2>1. t <= seq[r] /\ t <= s /\ (t = s => IsPipe(s) \/ broken[r] # {})
    BY <1>5, <1>8 DEF Reached
  <2> QED
    BY <1>1, <1>2, <1>5, <2>1 DEF Reached, InOrder
<1>9. Reached(r, l, s)'
  BY <1>1, <1>2, <1>5 DEF Reached, s
<1>10. \A t, u \in Nat : InOrder(r, t, u) => InOrder(r, t, u)'
  BY <1>2 DEF InOrder
<1>11. ASSUME NEW f \in FlagWords(r, l) PROVE f \in Nat /\ Reached(r, l, f)
  BY <1>4 DEF PostedInv
<1>12. ASSUME NEW i \in 1 .. n PROVE q[i].s \in Nat /\ WriteInv(r, l, q[i])
  BY <1>4 DEF PostedInv, q, n
<1>13. ASSUME NEW v, WriteInv(r, l, v), v.s \in Nat PROVE WriteInv(r, l, v)'
  <2>1. Reached(r, l, v.s)'
    BY <1>8, <1>13 DEF WriteInv
  <2>2. \A f \in FlagWords(r, l) : InOrder(r, f, v.s)'
    BY <1>4, <1>10, <1>13 DEF WriteInv
  <2> QED
    BY <1>1, <1>2, <1>3, <1>13, <2>1, <2>2 DEF WriteInv
<1>14. WriteInv(r, l, w)'
  <2>1. ASSUME NEW t, t = w.s PROVE \A f \in FlagWords(r, l) : InOrder(r, f, t)'
    <3>1. \A f \in FlagWords(r, l) : InOrder(r, f, s)'
      BY <1>8, <1>11
    <3> QED
      BY <2>1, <3>1 DEF s, InOrder
  <2>2. Reached(r, l, w.s)'
    BY <1>9 DEF s
  <2> QED
    BY <1>1, <1>2, <1>3, <1>5, <2>1, <2>2 DEF WriteInv, s
<1>15. ASSUME NEW i \in 1 .. n + 1, NEW v, v = qp'[r][l][i]
       PROVE  WriteInv(r, l, v)' /\ v.s \in Nat
  <2>1. CASE i = n + 1
    <3>1. v = w
      BY <1>7, <1>15, <2>1
    <3> QED
      BY <1>5, <1>14, <3>1 DEF s
  <2>2. CASE i \in 1 .. n
    <3>1. v = q[i]
      BY <1>7, <1>15, <2>2
    <3> QED
      BY <1>12, <1>13, <2>2, <3>1
  <2> QED
    BY <1>4, <2>1, <2>2
<1>16. ASSUME NEW i \in 1 .. n + 1, NEW j \in 1 .. n + 1, i < j,
              NEW t, NEW u, t = qp'[r][l][i].s, u = qp'[r][l][j].s
       PROVE  InOrder(r, t, u)'
  <2>1. i \in 1 .. n /\ t = q[i].s /\ t \in Nat
    <3>1. i \in 1 .. n
      BY <1>4, <1>16
    <3>2. qp'[r][l][i] = q[i] /\ q[i].s \in Nat
      BY <1>7, <1>12, <3>1
    <3> QED
      BY <1>16, <3>1, <3>2
  <2>2. CASE j = n + 1
    <3>1. Reached(r, l, t)
      BY <1>12, <2>1 DEF WriteInv
    <3>2. InOrder(r, t, s)' /\ u = w.s
      BY <1>7, <1>8, <1>16, <2>1, <2>2, <3>1
    <3> QED
      BY <3>2 DEF s, InOrder
  <2>3. CASE j \in 1 .. n
    <3>1. u = q[j].s
      BY <1>7, <1>16, <2>3
    <3>2. InOrder(r, t, u) /\ u \in Nat
      BY <1>4, <1>12, <1>16, <2>1, <2>3, <3>1 DEF PostedInv, q, n
    <3> QED
      BY <1>10, <2>1, <3>2
  <2> QED
    BY <1>4, <2>2, <2>3
<1> QED
  <2>1. \A f \in FlagWords(r, l)' : Reached(r, l, f)'
    BY SMTT(60), <1>3, <1>8, <1>11
  <2>2. ASSUME NEW i \in 1 .. Len(qp'[r][l]) PROVE WriteInv(r, l, qp[r][l][i])'
    <3>1. PICK v : v = qp'[r][l][i]
      OBVIOUS
    <3>2. WriteInv(r, l, v)'
      BY <1>7, <1>15, <2>2, <3>1
    <3> QED
      BY <3>1, <3>2 DEF WriteInv, Reached, InOrder
  <2>3. ASSUME NEW i \in 1 .. Len(qp'[r][l]), NEW j \in 1 .. Len(qp'[r][l]), i < j
        PROVE  InOrder(r, qp[r][l][i].s, qp[r][l][j].s)'
    <3>1. PICK t : t = qp'[r][l][i].s
      OBVIOUS
    <3>2. PICK u : u = qp'[r][l][j].s
      OBVIOUS
    <3>3. InOrder(r, t, u)'
      BY <1>7, <1>16, <2>3, <3>1, <3>2
    <3> QED
      BY <3>1, <3>2, <3>3 DEF InOrder
  <2> QED
    BY <1>1, <1>2, <1>4, <1>7, <2>1, <2>2, <2>3 DEF PostedInv

\* The queues stay typed when a write is appended.
LEMMA QueuedTypes ==
    ASSUME OrderTypes, NEW r \in Ranks, NEW l \in Links(r),
           NEW w \in [s : Seqs, n : Nat] \cup [s : Seqs, n : Nat, ph : Phases, c : Chunks],
           qp' = [qp EXCEPT ![r][l] = Append(@, w)], UNCHANGED written
    PROVE  /\ DOMAIN qp' = Ranks /\ qp'[r][l] = Append(qp[r][l], w)
           /\ \A m \in Links(r) \ {l} : qp'[r][m] = qp[r][m]
           /\ \A q \in Ranks \ {r} : qp'[q] = qp[q]
           /\ \A q \in Ranks : DOMAIN qp'[q] = Links(q) /\ DOMAIN written'[q] = Links(q)
           /\ \A q \in Ranks : \A m \in Links(q) :
                 /\ qp'[q][m] \in Seq([s : Seqs, n : Nat] \cup
                                      [s : Seqs, n : Nat, ph : Phases, c : Chunks])
                 /\ written'[q][m] \in {0, 1}
                 /\ written'[q][m] = 1 => qp'[q][m] # <<>>
<1> DEFINE W == [s : Seqs, n : Nat] \cup [s : Seqs, n : Nat, ph : Phases, c : Chunks]
<1>1. /\ DOMAIN qp' = Ranks /\ DOMAIN qp'[r] = Links(r) /\ qp'[r][l] = Append(qp[r][l], w)
      /\ \A m \in Links(r) \ {l} : qp'[r][m] = qp[r][m]
      /\ \A q \in Ranks \ {r} : qp'[q] = qp[q]
  BY DEF OrderTypes
<1>2. \A q \in Ranks : DOMAIN qp'[q] = Links(q) /\ DOMAIN written'[q] = Links(q)
  BY <1>1 DEF OrderTypes
<1>3. ASSUME NEW q \in Ranks, NEW m \in Links(q)
      PROVE  /\ qp'[q][m] \in Seq(W) /\ written'[q][m] \in {0, 1}
             /\ written'[q][m] = 1 => qp'[q][m] # <<>>
  <2>1. /\ qp[q][m] \in Seq(W) /\ written'[q][m] \in {0, 1}
        /\ written'[q][m] = 1 => qp[q][m] # <<>>
    BY DEF OrderTypes
  <2>2. w \in W
    OBVIOUS
  <2> HIDE DEF W
  <2>3. CASE q = r /\ m = l
    <3>1. qp[r][l] \in Seq(W)
      BY <2>1, <2>3
    <3>2. Append(qp[r][l], w) \in Seq(W) /\ Append(qp[r][l], w) # <<>>
      BY <2>2, <3>1, AppendProperties
    <3> QED
      BY <1>1, <2>1, <2>3, <3>2
  <2>4. CASE ~(q = r /\ m = l)
    <3>1. qp'[q][m] = qp[q][m]
      BY <1>1, <2>4
    <3> QED
      BY <2>1, <3>1
  <2> QED
    BY <2>3, <2>4
<1> QED
  BY <1>1, <1>2, <1>3

LEMMA OPost ==
    ASSUME KernelLayer, OrderLayer, UNCHANGED kernelVars, NEW r \in Ranks, cur[r] = 0,
           Post(r), UNCHANGED pipe
    PROVE  OrderLayer'
<1> DEFINE s == last_seq[r] + 1
<1>1. /\ Posting(r) /\ todo[r] # {}
      /\ UNCHANGED <<flag, pipe_flag, pipe_done, last_seq, upto, bytes, written, broken,
                     cur, posted, piece>>
  BY DEF Post, region, pipe
<1>2. /\ s \in Seqs /\ s \in Nat \ {0} /\ Succ(last_seq[r]) = s /\ ~IsPipe(s)
      /\ pipe_done[r] < s /\ plan \in Plans
  BY <1>1, OpenFacts
<1>3. PICK l : l = NextLink(r)
  OBVIOUS
<1>4. PICK w : w = [s |-> s, n |-> bytes[r]]
  OBVIOUS
<1>5. l \in todo[r] /\ l \in Links(r) /\ todo[r] \subseteq Links(r)
  BY <1>1, <1>3, NextLinkFound, OrderWords
<1>6. /\ qp' = [qp EXCEPT ![r][l] = Append(@, w)]
      /\ todo' = [todo EXCEPT ![r] = @ \ {l}]
  BY <1>2, <1>3, <1>4 DEF Post
<1>7. w \in [s : Seqs, n : Nat] /\ bytes[r] \in Nat
  <2>1. bytes[r] = Grid[s]
    BY <1>1, <1>2, OrderWords DEF OpenInv
  <2>2. Grid[s] \in Nat
    BY <1>2, Consts DEF Blocks
  <2> QED
    BY <1>2, <1>4, <2>1, <2>2
<1>8. /\ DOMAIN qp' = Ranks /\ DOMAIN qp'[r] = Links(r)
      /\ qp'[r][l] = Append(qp[r][l], w)
      /\ \A m \in Links(r) \ {l} : qp'[r][m] = qp[r][m]
      /\ DOMAIN todo' = Ranks /\ todo'[r] = todo[r] \ {l}
      /\ \A q \in Ranks \ {r} : qp'[q] = qp[q] /\ todo'[q] = todo[q]
  BY <1>5, <1>6 DEF OrderLayer, OrderTypes
<1>9. \A t : chunks(t)' = chunks(t) /\ IsPipe(t)' = IsPipe(t) /\ packs(t)' = packs(t)
  BY PlanFrame DEF kernelVars
<1>10. Posting(r)'
  BY <1>1 DEF Posting
<1>11. PostedInv(r, l)'
  <2>1. w.s = s
    BY <1>4
  <2>2. ~IsPipe(w.s)
    BY <1>2, <2>1
  <2>3. Posting(r)' /\ l \notin todo'[r]
    BY <1>8, <1>10
  <2>4. IsPipe(w.s) => /\ w.ph \in Phases /\ w.c \in Chunks /\ w.c < chunks(w.s)
                       /\ ready[r][w.ph][w.c] >= w.s
    BY <2>2
  <2>5. w \in [s : Seqs, n : Nat] \cup [s : Seqs, n : Nat, ph : Phases, c : Chunks]
    BY <1>7
  <2> QED
    BY <1>1, <1>5, <1>8, <2>1, <2>3, <2>4, <2>5, QueuedOne
<1>12. ASSUME NEW m \in Links(r) \ {l} PROVE PostedInv(r, m)'
  <2>1. \A t \in Nat : Reached(r, m, t) => Reached(r, m, t)'
    BY <1>1, <1>8, <1>9, <1>10 DEF Reached, kernelVars
  <2>2. \A t, u \in Nat : InOrder(r, t, u) => InOrder(r, t, u)'
    BY <1>1, <1>9 DEF InOrder
  <2> QED
    BY <1>1, <1>8, <2>1, <2>2, PostedKeep
<1>13. OrderTypes'
  <2>1. ASSUME NEW q \in Ranks
        PROVE  /\ todo'[q] \subseteq Links(q) /\ broken'[q] \subseteq Links(q)
               /\ DOMAIN qp'[q] = Links(q) /\ DOMAIN written'[q] = Links(q)
    BY ZenonT(30), <1>1, <1>5, <1>8 DEF OrderLayer, OrderTypes
  <2>2. \A q \in Ranks : \A m \in Links(q) :
                 /\ qp'[q][m] \in Seq([s : Seqs, n : Nat] \cup
                                      [s : Seqs, n : Nat, ph : Phases, c : Chunks])
                 /\ written'[q][m] \in {0, 1}
                 /\ written'[q][m] = 1 => qp'[q][m] # <<>>
    BY <1>1, <1>5, <1>6, <1>7, QueuedTypes DEF OrderLayer
  <2>3. FlagsTyped'
    BY <1>1 DEF OrderLayer, OrderTypes, FlagsTyped
  <2>4. DOMAIN qp' = Ranks /\ DOMAIN todo' = Ranks
    BY <1>8
  <2> QED
    BY <1>1, <2>1, <2>2, <2>3, <2>4 DEF OrderLayer, OrderTypes
<1>14. \A q \in Ranks \ {r} : LeftAlone(q)
  BY <1>1, <1>8 DEF LeftAlone
<1>15. /\ last_seq'[r] = last_seq[r] /\ upto'[r] = upto[r] /\ seq' = seq /\ epoch' = epoch
       /\ pipe_done'[r] = pipe_done[r] /\ broken'[r] = broken[r]
  BY <1>1 DEF kernelVars
<1>16. OpenInv(r)'
  BY <1>1, <1>2, <1>9, <1>10, <1>15, OrderWords DEF OpenInv
<1>17. DoneInv(r)'
  BY <1>2, <1>9, <1>15, OrderWords DEF DoneInv
<1>18. BrokenInv(r)'
  <2>1. \A m \in broken[r] : FlagWords(r, m)' = FlagWords(r, m)
    BY <1>1 DEF FlagWords
  <2> QED
    BY <1>9, <1>15, <2>1, OrderWords DEF BrokenInv
<1>19. \A m \in Links(r) : PostedInv(r, m)'
  <2> SUFFICES ASSUME NEW m \in Links(r) PROVE PostedInv(r, m)'
    OBVIOUS
  <2>1. CASE m = l
    BY <1>11, <2>1
  <2> QED
    BY <1>12, <2>1
<1> QED
  BY <1>1, <1>13, <1>14, <1>16, <1>17, <1>18, <1>19, OrderProxy

\* The proxy finds a chunk of the open two-shot operation released.
LEMMA OTakeChunk ==
    ASSUME KernelLayer, OrderLayer, UNCHANGED kernelVars, NEW r \in Ranks, NEW ph \in Phases,
           TakeChunk(r, ph)
    PROVE  OrderLayer'
<1> DEFINE s == last_seq[r] + 1
           c == posted[r][ph]
           new == [ph |-> ph, c |-> c, left |-> Links(r)]
<1>1. /\ Posting(r) /\ cur[r] = 1 /\ todo[r] = Links(r) /\ Links(r) # {}
      /\ UNCHANGED <<flag, pipe_flag, pipe_done, last_seq, upto, bytes, todo, qp, written,
                     broken, cur, posted>>
  BY LinkFacts DEF TakeChunk, PipeOpen, vars, proxy, net, region
<1>2. /\ s \in Seqs /\ s \in Nat \ {0} /\ Succ(last_seq[r]) = s /\ IsPipe(s) /\ plan \in Plans
  BY <1>1, OpenFacts
<1>3. c < chunks(s) /\ ready[r][ph][c] = s /\ piece' = [piece EXCEPT ![r] = new]
  BY <1>2 DEF TakeChunk
<1>4. c \in Chunks
  <2>1. c \in Nat
    BY DEF OrderLayer, OrderTypes
  <2>2. 0 .. chunks(s) - 1 \subseteq Chunks /\ chunks(s) \in Nat
    BY <1>2, ChunkIds
  <2> QED
    BY <1>3, <2>1, <2>2
<1>5. Links(r) \subseteq Ranks \X Hcas
  BY DEF Links, Peers
<1> HIDE DEF c, s
<1>6. /\ piece' \in [Ranks -> [ph : Phases, c : Chunks, left : SUBSET (Ranks \X Hcas)]]
      /\ piece'[r] = new /\ \A q \in Ranks \ {r} : piece'[q] = piece[q]
  BY <1>3, <1>4, <1>5 DEF OrderLayer, OrderTypes
<1>7. piece'[r].ph = ph /\ piece'[r].c = c /\ piece'[r].left = Links(r)
  BY <1>6
<1> HIDE DEF new
<1>8. \A t : chunks(t)' = chunks(t) /\ IsPipe(t)' = IsPipe(t) /\ packs(t)' = packs(t)
  BY PlanFrame DEF kernelVars
<1>9. Posting(r)' /\ NoneOutstanding(r)' = NoneOutstanding(r)
  BY <1>1 DEF Posting, NoneOutstanding
<1>10. /\ seq' = seq /\ epoch' = epoch /\ ready' = ready
  BY DEF kernelVars
<1>11. OrderTypes'
  BY <1>1, <1>6 DEF OrderLayer, OrderTypes, FlagsTyped
<1>12. \A q \in Ranks \ {r} : LeftAlone(q)
  BY <1>1, <1>6 DEF LeftAlone
<1>13. ready'[r][ph][c] = s /\ s \in Nat
  BY <1>2, <1>3, <1>10
<1>14. OpenInv(r)'
  <2>1. OpenInv(r)
    BY OrderWords
  <2>2. /\ cur'[r] = (IF IsPipe(s) THEN 1 ELSE 0)
        /\ bytes'[r] = (IF IsPipe(s) THEN packs(s) ELSE Grid[s])
        /\ last_seq'[r] <= upto'[r] /\ upto'[r] <= seq'[r] /\ last_seq'[r] + 1 = s
    BY <1>1, <1>10, <2>1 DEF OpenInv, s
  <2>3. /\ todo'[r] = Links(r) /\ piece'[r].left \subseteq Links(r)
        /\ piece'[r].c < chunks(s) /\ s <= ready'[r][piece'[r].ph][piece'[r].c]
    BY <1>1, <1>3, <1>7, <1>13
  <2> QED
    BY <1>8, <1>9, <2>2, <2>3 DEF OpenInv
<1>15. DoneInv(r)'
  BY <1>1, <1>8, <1>9, <1>10, OrderWords DEF DoneInv
<1>16. BrokenInv(r)'
  <2>1. \A m \in broken[r] : FlagWords(r, m)' = FlagWords(r, m)
    BY <1>1 DEF FlagWords
  <2> QED
    BY <1>1, <1>8, <2>1, OrderWords DEF BrokenInv
<1>17. ASSUME NEW m \in Links(r) PROVE PostedInv(r, m)'
  <2>1. \A t \in Nat : Reached(r, m, t) => Reached(r, m, t)'
    BY <1>1, <1>8, <1>9, <1>10 DEF Reached
  <2>2. \A t, u \in Nat : InOrder(r, t, u) => InOrder(r, t, u)'
    BY <1>1, <1>8 DEF InOrder
  <2> QED
    BY <1>1, <2>1, <2>2, PostedKeep
<1> QED
  BY <1>1, <1>11, <1>12, <1>14, <1>15, <1>16, <1>17, OrderProxy

LEMMA OPostChunk ==
    ASSUME KernelLayer, OrderLayer, UNCHANGED kernelVars, NEW r \in Ranks, PostChunk(r)
    PROVE  OrderLayer'
<1> DEFINE s == last_seq[r] + 1
<1>1. /\ Posting(r) /\ cur[r] = 1 /\ todo[r] = Links(r) /\ Links(r) # {}
      /\ UNCHANGED <<flag, pipe_flag, pipe_done, last_seq, upto, bytes, todo, written,
                     broken, cur>>
  BY LinkFacts DEF PostChunk, PipeOpen, proxy, region
<1>2. /\ s \in Seqs /\ s \in Nat \ {0} /\ Succ(last_seq[r]) = s /\ IsPipe(s) /\ plan \in Plans
  BY <1>1, OpenFacts
<1>3. PICK l \in piece[r].left :
         /\ qp' = [qp EXCEPT ![r][l] =
                      Append(@, [s |-> s, n |-> bytes[r], ph |-> piece[r].ph, c |-> piece[r].c])]
         /\ piece' = [piece EXCEPT ![r].left = @ \ {l}]
         /\ posted' = IF piece[r].left = {l}
                      THEN [posted EXCEPT ![r][piece[r].ph] = @ + 1] ELSE posted
  BY <1>2 DEF PostChunk
<1>4. PICK w : w = [s |-> s, n |-> bytes[r], ph |-> piece[r].ph, c |-> piece[r].c]
  OBVIOUS
<1>5. /\ l \in Links(r) /\ l \in todo[r] /\ piece[r].left \subseteq Links(r)
      /\ piece[r].c < chunks(s) /\ s <= ready[r][piece[r].ph][piece[r].c]
      /\ bytes[r] = packs(s) /\ last_seq[r] <= upto[r] /\ upto[r] <= seq[r]
  BY <1>1, <1>2, <1>3, OrderWords DEF OpenInv
<1>6. /\ piece[r] \in [ph : Phases, c : Chunks, left : SUBSET (Ranks \X Hcas)]
      /\ piece[r].ph \in Phases /\ piece[r].c \in Chunks
  BY DEF OrderLayer, OrderTypes
<1>7. packs(s) \in Nat
  BY <1>2, PlanFacts
<1>8. /\ w \in [s : Seqs, n : Nat] \cup [s : Seqs, n : Nat, ph : Phases, c : Chunks]
      /\ w.s = s /\ w.ph = piece[r].ph /\ w.c = piece[r].c
      /\ qp' = [qp EXCEPT ![r][l] = Append(@, w)]
  BY <1>2, <1>3, <1>4, <1>5, <1>6, <1>7
<1> HIDE DEF s
<1>9. /\ DOMAIN qp' = Ranks /\ qp'[r][l] = Append(qp[r][l], w)
      /\ \A m \in Links(r) \ {l} : qp'[r][m] = qp[r][m]
      /\ \A q \in Ranks \ {r} : qp'[q] = qp[q]
      /\ \A q \in Ranks : DOMAIN qp'[q] = Links(q) /\ DOMAIN written'[q] = Links(q)
      /\ \A q \in Ranks : \A m \in Links(q) :
            /\ qp'[q][m] \in Seq([s : Seqs, n : Nat] \cup
                                 [s : Seqs, n : Nat, ph : Phases, c : Chunks])
            /\ written'[q][m] \in {0, 1}
            /\ written'[q][m] = 1 => qp'[q][m] # <<>>
  BY <1>1, <1>5, <1>8, QueuedTypes DEF OrderLayer
<1>10. /\ piece' \in [Ranks -> [ph : Phases, c : Chunks, left : SUBSET (Ranks \X Hcas)]]
       /\ piece'[r].left = piece[r].left \ {l}
       /\ piece'[r].ph = piece[r].ph /\ piece'[r].c = piece[r].c
       /\ \A q \in Ranks \ {r} : piece'[q] = piece[q]
  BY <1>3, <1>6 DEF OrderLayer, OrderTypes
<1>11. posted' \in [Ranks -> [Phases -> Nat]]
  BY <1>3, <1>6 DEF OrderLayer, OrderTypes
<1>12. \A t : chunks(t)' = chunks(t) /\ IsPipe(t)' = IsPipe(t) /\ packs(t)' = packs(t)
  BY PlanFrame DEF kernelVars
<1>13. Posting(r)' /\ seq' = seq /\ epoch' = epoch /\ ready' = ready
  BY <1>1 DEF Posting, kernelVars
<1>14. OrderTypes'
  <2>1. FlagsTyped'
    BY <1>1 DEF OrderLayer, OrderTypes, FlagsTyped
  <2> QED
    BY <1>1, <1>9, <1>10, <1>11, <2>1 DEF OrderLayer, OrderTypes
<1>15. \A q \in Ranks \ {r} : LeftAlone(q)
  BY <1>1, <1>9, <1>10 DEF LeftAlone
<1>16. OpenInv(r)'
  <2>1. OpenInv(r)
    BY OrderWords
  <2>2. /\ cur'[r] = (IF IsPipe(s) THEN 1 ELSE 0)
        /\ bytes'[r] = (IF IsPipe(s) THEN packs(s) ELSE Grid[s])
        /\ last_seq'[r] <= upto'[r] /\ upto'[r] <= seq'[r] /\ last_seq'[r] + 1 = s
    BY <1>1, <1>13, <2>1 DEF OpenInv, s
  <2>3. /\ todo'[r] = Links(r) /\ piece'[r].left \subseteq Links(r)
        /\ piece'[r].c < chunks(s) /\ s <= ready'[r][piece'[r].ph][piece'[r].c]
    BY <1>1, <1>5, <1>10, <1>13
  <2> QED
    BY <1>12, <1>13, <2>2, <2>3 DEF OpenInv
<1>17. DoneInv(r)'
  BY <1>1, <1>12, <1>13, OrderWords DEF DoneInv
<1>18. BrokenInv(r)'
  <2>1. \A m \in broken[r] : FlagWords(r, m)' = FlagWords(r, m)
    BY <1>1 DEF FlagWords
  <2> QED
    BY <1>1, <1>12, <2>1, OrderWords DEF BrokenInv
<1>19. PostedInv(r, l)'
  <2>1. w.s = last_seq[r] + 1 /\ IsPipe(w.s)
    BY <1>2, <1>8 DEF s
  <2>2. /\ w.ph \in Phases /\ w.c \in Chunks /\ w.c < chunks(w.s)
        /\ ready[r][w.ph][w.c] >= w.s
    <3>1. ready[r][w.ph][w.c] \in Nat /\ s \in Nat
      BY <1>2, <1>6, <1>8 DEF KernelLayer, KernelTypes, Seqs
    <3> QED
      BY <1>5, <1>6, <1>8, <3>1
  <2>3. IsPipe(w.s) => /\ w.ph \in Phases /\ w.c \in Chunks /\ w.c < chunks(w.s)
                       /\ ready[r][w.ph][w.c] >= w.s
    BY <2>2
  <2>4. IsPipe(w.s) \/ (Posting(r)' /\ l \notin todo'[r])
    BY <2>1
  <2>5. /\ Posting(r) /\ l \in todo[r] /\ l \in Links(r) /\ w.s = last_seq[r] + 1
        /\ qp'[r][l] = Append(qp[r][l], w)
        /\ w \in [s : Seqs, n : Nat] \cup [s : Seqs, n : Nat, ph : Phases, c : Chunks]
    BY <1>1, <1>5, <1>8, <1>9, <2>1
  <2>6. UNCHANGED <<flag, pipe_flag, pipe_done, last_seq, broken>>
    BY <1>1
  <2> QED
    BY <2>3, <2>4, <2>5, <2>6, QueuedOne
<1>20. ASSUME NEW m \in Links(r) PROVE PostedInv(r, m)'
  <2>1. CASE m = l
    BY <1>19, <2>1
  <2>2. CASE m # l
    <3>1. \A t \in Nat : Reached(r, m, t) => Reached(r, m, t)'
      BY <1>1, <1>12, <1>13 DEF Reached
    <3>2. \A t, u \in Nat : InOrder(r, t, u) => InOrder(r, t, u)'
      BY <1>1, <1>12 DEF InOrder
    <3> QED
      BY <1>1, <1>9, <2>2, <3>1, <3>2, PostedKeep
  <2> QED
    BY <2>1, <2>2
<1> QED
  BY <1>1, <1>14, <1>15, <1>16, <1>17, <1>18, <1>20, OrderProxy

\* No write is outstanding: the proxy releases pipe_send.
LEMMA ORelease ==
    ASSUME KernelLayer, OrderLayer, UNCHANGED kernelVars, NEW r \in Ranks, Release(r)
    PROVE  OrderLayer'
<1> DEFINE s == last_seq[r] + 1
<1>1. /\ Posting(r) /\ cur[r] = 1 /\ todo[r] = Links(r) /\ Links(r) # {}
      /\ NoneOutstanding(r) /\ todo' = [todo EXCEPT ![r] = {}]
      /\ UNCHANGED <<flag, pipe_flag, last_seq, upto, bytes, qp, written, broken, cur,
                     posted, piece>>
  BY LinkFacts DEF Release, PipeOpen, net, region
<1>2. /\ s \in Seqs /\ s \in Nat \ {0} /\ Succ(last_seq[r]) = s /\ IsPipe(s) /\ plan \in Plans
      /\ last_seq[r] <= epoch[r] /\ s <= seq[r] /\ pipe_done[r] < s
      /\ last_seq[r] \in Nat /\ epoch[r] \in Nat /\ pipe_done[r] \in Nat /\ OpenInv(r)
  BY <1>1, OpenFacts, OrderWords
<1>3. pipe_done' = [pipe_done EXCEPT ![r] = s]
  BY <1>2 DEF Release
<1>4. /\ pipe_done' \in [Ranks -> Seqs] /\ pipe_done'[r] = s
      /\ DOMAIN todo' = Ranks /\ todo'[r] = {}
      /\ \A q \in Ranks \ {r} : pipe_done'[q] = pipe_done[q] /\ todo'[q] = todo[q]
  BY <1>1, <1>2, <1>3 DEF OrderLayer, OrderTypes
<1>5. \A t : chunks(t)' = chunks(t) /\ IsPipe(t)' = IsPipe(t) /\ packs(t)' = packs(t)
  BY PlanFrame DEF kernelVars
<1>6. Posting(r)' /\ NoneOutstanding(r)' /\ seq' = seq /\ epoch' = epoch /\ ready' = ready
  BY <1>1 DEF Posting, NoneOutstanding, kernelVars
<1>7. OrderTypes'
  <2>1. ASSUME NEW q \in Ranks PROVE todo'[q] \subseteq Links(q)
    BY <1>4 DEF OrderLayer, OrderTypes
  <2>2. FlagsTyped'
    BY <1>1 DEF OrderLayer, OrderTypes, FlagsTyped
  <2> QED
    BY <1>1, <1>4, <2>1, <2>2 DEF OrderLayer, OrderTypes
<1>8. \A q \in Ranks \ {r} : LeftAlone(q)
  BY <1>1, <1>4 DEF LeftAlone
<1>9. OpenInv(r)'
  BY <1>1, <1>2, <1>4, <1>5, <1>6 DEF OpenInv
<1>10. DoneInv(r)'
  <2>1. \A t \in 1 .. epoch[r] : IsPipe(t) => t <= pipe_done'[r]
    <3>1. \A t \in 1 .. epoch[r] : IsPipe(t) => t <= pipe_done[r]
      BY OrderWords DEF DoneInv
    <3> QED
      BY <1>2, <1>4, <3>1
  <2>2. pipe_done'[r] = last_seq'[r] + 1
    BY <1>1, <1>4
  <2>3. pipe_done'[r] <= last_seq'[r] + 1
    BY <1>1, <1>2, <2>2
  <2> QED
    BY <1>4, <1>5, <1>6, <2>1, <2>2, <2>3 DEF DoneInv
<1>11. BrokenInv(r)'
  BY <1>1, <1>2, <1>5 DEF BrokenInv
<1>12. ASSUME NEW m \in Links(r) PROVE PostedInv(r, m)'
  <2>1. ASSUME NEW t \in Nat, Reached(r, m, t) PROVE Reached(r, m, t)'
    BY <1>1, <1>2, <1>5, <1>6, <2>1 DEF Reached
  <2>2. qp[r][m] = <<>>
    BY <1>1 DEF NoneOutstanding
  <2> QED
    BY <1>1, <2>1, <2>2, PostedKeep
<1> QED
  BY <1>1, <1>7, <1>8, <1>9, <1>10, <1>11, <1>12, OrderProxy

\* A payload is written: the flags, the queues and the proxy stay.
LEMMA OPayload ==
    ASSUME KernelLayer, OrderLayer, UNCHANGED kernelVars, NEW r \in Ranks, NEW l \in Links(r),
           Live(r, l), written' = [written EXCEPT ![r][l] = 1],
           UNCHANGED <<flag, pipe_flag, pipe_done, last_seq, upto, cur, bytes, posted, piece,
                       todo, qp, broken>>
    PROVE  OrderLayer'
<1>1. OrderTypes /\ qp[r][l] # <<>>
  BY DEF OrderLayer, Live
<1>2. /\ DOMAIN written' = Ranks
      /\ \A q \in Ranks : DOMAIN written'[q] = Links(q)
      /\ \A q \in Ranks : \A m \in Links(q) :
            \/ written'[q][m] = written[q][m]
            \/ q = r /\ m = l /\ written'[q][m] = 1
  BY <1>1 DEF OrderTypes
<1>3. ASSUME NEW q \in Ranks, NEW m \in Links(q)
      PROVE  written'[q][m] \in {0, 1} /\ (written'[q][m] = 1 => qp[q][m] # <<>>)
  <2>1. written[q][m] \in {0, 1} /\ (written[q][m] = 1 => qp[q][m] # <<>>)
    BY <1>1 DEF OrderTypes
  <2> QED
    BY <1>1, <1>2, <2>1
<1>4. OrderTypes'
  BY <1>1, <1>2, <1>3 DEF OrderTypes, FlagsTyped
<1>5. \A q \in Ranks : LeftAlone(q)
  BY DEF LeftAlone
<1>6. RankOrder(r) /\ \A m \in Links(r) : /\ flag'[m[1]][r] = flag[m[1]][r]
                                          /\ pipe_flag'[m[1]][r] = pipe_flag[m[1]][r]
  BY DEF OrderLayer
<1>7. OpenInv(r)' /\ DoneInv(r)' /\ BrokenInv(r)' /\ \A m \in Links(r) : PostedInv(r, m)'
  BY <1>1, <1>5, <1>6, LeftAloneFrame
<1> QED
  BY <1>4, <1>5, <1>7, OrderProxy

\* A link of a rank on which nothing was written.
LEMMA PostedSame ==
    ASSUME UNCHANGED kernelVars, NEW r \in Ranks, NEW m \in Links(r), PostedInv(r, m),
           qp'[r][m] = qp[r][m], todo'[r] = todo[r], last_seq'[r] = last_seq[r],
           upto'[r] = upto[r], pipe_done'[r] = pipe_done[r], broken'[r] = broken[r],
           \A k \in SlotIds : flag'[m[1]][r][k][m[2]] = flag[m[1]][r][k][m[2]],
           \A ph \in Phases, c \in Chunks :
              pipe_flag'[m[1]][r][ph][m[2]][c] = pipe_flag[m[1]][r][ph][m[2]][c]
    PROVE  PostedInv(r, m)' /\ FlagWords(r, m)' = FlagWords(r, m)
<1>1. plan' = plan /\ seq' = seq /\ ready' = ready
  BY DEF kernelVars
<1>2. \A s : chunks(s)' = chunks(s) /\ IsPipe(s)' = IsPipe(s)
  BY <1>1, PlanFrame
<1>3. FlagWords(r, m)' = FlagWords(r, m)
  <2>1. \A f : f \in FlagWords(r, m) <=>
           \/ \E k \in SlotIds : f = flag[m[1]][r][k][m[2]]
           \/ \E ph \in Phases : \E c \in Chunks : f = pipe_flag[m[1]][r][ph][m[2]][c]
    BY DEF FlagWords
  <2>2. \A f : f \in FlagWords(r, m)' <=>
           \/ \E k \in SlotIds : f = flag'[m[1]][r][k][m[2]]
           \/ \E ph \in Phases : \E c \in Chunks : f = pipe_flag'[m[1]][r][ph][m[2]][c]
    BY DEF FlagWords
  <2>3. \A f : f \in FlagWords(r, m)' <=> f \in FlagWords(r, m)
    <3> TAKE f
    <3>1. (\E k \in SlotIds : f = flag'[m[1]][r][k][m[2]])
            <=> \E k \in SlotIds : f = flag[m[1]][r][k][m[2]]
      OBVIOUS
    <3>2. (\E ph \in Phases : \E c \in Chunks : f = pipe_flag'[m[1]][r][ph][m[2]][c])
            <=> \E ph \in Phases : \E c \in Chunks : f = pipe_flag[m[1]][r][ph][m[2]][c]
      OBVIOUS
    <3> QED
      BY <2>1, <2>2, <3>1, <3>2
  <2> QED
    BY <2>3
<1>4. \A s : Reached(r, m, s)' = Reached(r, m, s)
  BY <1>1, <1>2 DEF Reached, Posting
<1>5. \A s, t : InOrder(r, s, t)' = InOrder(r, s, t)
  BY <1>2 DEF InOrder
<1>6. \A w : WriteInv(r, m, w)' = WriteInv(r, m, w)
  BY <1>1, <1>2, <1>3, <1>4, <1>5 DEF WriteInv
<1>7. PostedInv(r, m)'
  <2>1. /\ \A i \in 1 .. Len(qp[r][m]) : WriteInv(r, m, qp[r][m][i])'
        /\ \A i, j \in 1 .. Len(qp[r][m]) :
              i < j => InOrder(r, qp[r][m][i].s, qp[r][m][j].s)'
    BY SMTT(60), <1>5, <1>6 DEF PostedInv
  <2>2. m \in broken[r] => qp[r][m] # <<>>
    BY DEF PostedInv
  <2>3. \A f \in FlagWords(r, m) : Reached(r, m, f)'
    BY <1>4 DEF PostedInv
  <2>4. ASSUME NEW ph \in Phases, NEW c \in Chunks,
               NEW f, f = pipe_flag'[m[1]][r][ph][m[2]][c], f > 0
        PROVE  IsPipe(f)' /\ c < chunks(f)' /\ f <= ready'[r][ph][c]
    <3>1. f = pipe_flag[m[1]][r][ph][m[2]][c]
      BY <2>4
    <3>2. IsPipe(f) /\ c < chunks(f) /\ f <= ready[r][ph][c]
      BY <2>4, <3>1 DEF PostedInv
    <3> QED
      BY <1>1, <1>2, <3>2
  <2> QED
    BY SMTT(60), <1>3, <2>1, <2>2, <2>3, <2>4 DEF PostedInv
<1> QED
  BY <1>3, <1>7

\* The write at the head of a queue.
LEMMA AtHead ==
    ASSUME OrderTypes, NEW r \in Ranks, NEW l \in Links(r), qp[r][l] # <<>>
    PROVE  /\ 1 \in 1 .. Len(qp[r][l]) /\ Head(qp[r][l]) = qp[r][l][1]
           /\ Head(qp[r][l]) \in [s : Seqs, n : Nat] \cup
                                 [s : Seqs, n : Nat, ph : Phases, c : Chunks]
           /\ Tail(qp[r][l]) \in Seq([s : Seqs, n : Nat] \cup
                                     [s : Seqs, n : Nat, ph : Phases, c : Chunks])
           /\ Len(qp[r][l]) \in Nat /\ Len(Tail(qp[r][l])) = Len(qp[r][l]) - 1
           /\ \A i \in 1 .. Len(qp[r][l]) - 1 :
                 i + 1 \in 1 .. Len(qp[r][l]) /\ Tail(qp[r][l])[i] = qp[r][l][i + 1]
<1> DEFINE W == [s : Seqs, n : Nat] \cup [s : Seqs, n : Nat, ph : Phases, c : Chunks]
           q == qp[r][l]
<1>1. q \in Seq(W) /\ q # <<>>
  BY DEF OrderTypes
<1> HIDE DEF W, q
<1>2. Len(q) \in Nat
  BY <1>1, LenProperties
<1>3. Head(q) = q[1] /\ 1 \in 1 .. Len(q)
  BY <1>1, <1>2
<1>4. Head(q) \in W /\ Tail(q) \in Seq(W) /\ Len(Tail(q)) = Len(q) - 1
      /\ \A i \in 1 .. Len(Tail(q)) : Tail(q)[i] = q[i + 1]
  BY <1>1, HeadTailProperties
<1>5. \A i \in 1 .. Len(q) - 1 : i + 1 \in 1 .. Len(q)
  BY <1>2
<1> QED
  BY <1>2, <1>3, <1>4, <1>5 DEF W, q

\* The queues stay typed when their head is taken off.
LEMMA TakenTypes ==
    ASSUME OrderTypes, NEW r \in Ranks, NEW l \in Links(r), qp[r][l] # <<>>,
           qp' = [qp EXCEPT ![r][l] = Tail(@)], written' = [written EXCEPT ![r][l] = 0]
    PROVE  /\ DOMAIN qp' = Ranks /\ qp'[r][l] = Tail(qp[r][l])
           /\ \A m \in Links(r) \ {l} : qp'[r][m] = qp[r][m]
           /\ \A q \in Ranks \ {r} : qp'[q] = qp[q]
           /\ DOMAIN written' = Ranks
           /\ \A q \in Ranks : DOMAIN qp'[q] = Links(q) /\ DOMAIN written'[q] = Links(q)
           /\ \A q \in Ranks : \A m \in Links(q) :
                 /\ qp'[q][m] \in Seq([s : Seqs, n : Nat] \cup
                                      [s : Seqs, n : Nat, ph : Phases, c : Chunks])
                 /\ written'[q][m] \in {0, 1}
                 /\ written'[q][m] = 1 => qp'[q][m] # <<>>
<1> DEFINE W == [s : Seqs, n : Nat] \cup [s : Seqs, n : Nat, ph : Phases, c : Chunks]
<1>1. /\ DOMAIN qp' = Ranks /\ DOMAIN qp'[r] = Links(r) /\ qp'[r][l] = Tail(qp[r][l])
      /\ \A m \in Links(r) \ {l} : qp'[r][m] = qp[r][m]
      /\ \A q \in Ranks \ {r} : qp'[q] = qp[q]
  BY DEF OrderTypes
<1>2. /\ DOMAIN written' = Ranks /\ DOMAIN written'[r] = Links(r) /\ written'[r][l] = 0
      /\ \A m \in Links(r) \ {l} : written'[r][m] = written[r][m]
      /\ \A q \in Ranks \ {r} : written'[q] = written[q]
  BY DEF OrderTypes
<1>3. \A q \in Ranks : DOMAIN qp'[q] = Links(q) /\ DOMAIN written'[q] = Links(q)
  BY <1>1, <1>2 DEF OrderTypes
<1>4. ASSUME NEW q \in Ranks, NEW m \in Links(q)
      PROVE  /\ qp'[q][m] \in Seq(W) /\ written'[q][m] \in {0, 1}
             /\ written'[q][m] = 1 => qp'[q][m] # <<>>
  <2>1. /\ qp[q][m] \in Seq(W) /\ written[q][m] \in {0, 1}
        /\ written[q][m] = 1 => qp[q][m] # <<>>
    BY DEF OrderTypes
  <2>2. Tail(qp[r][l]) \in Seq(W)
    BY AtHead
  <2> HIDE DEF W
  <2>3. CASE q = r /\ m = l
    BY <1>1, <1>2, <2>2, <2>3
  <2>4. CASE ~(q = r /\ m = l)
    <3>1. qp'[q][m] = qp[q][m] /\ written'[q][m] = written[q][m]
      BY <1>1, <1>2, <2>4
    <3> QED
      BY <2>1, <3>1
  <2> QED
    BY <2>3, <2>4
<1> QED
  BY <1>1, <1>2, <1>3, <1>4

\* The words of FlagWords, before and after a step.
LEMMA FlagWordsAre ==
    ASSUME NEW r, NEW l
    PROVE  /\ \A f : f \in FlagWords(r, l) <=>
                 \/ \E k \in SlotIds : f = flag[l[1]][r][k][l[2]]
                 \/ \E ph \in Phases : \E c \in Chunks : f = pipe_flag[l[1]][r][ph][l[2]][c]
           /\ \A f : f \in FlagWords(r, l)' <=>
                 \/ \E k \in SlotIds : f = flag'[l[1]][r][k][l[2]]
                 \/ \E ph \in Phases : \E c \in Chunks : f = pipe_flag'[l[1]][r][ph][l[2]][c]
<1>1. \A f : f \in FlagWords(r, l) <=>
                 \/ \E k \in SlotIds : f = flag[l[1]][r][k][l[2]]
                 \/ \E ph \in Phases : \E c \in Chunks : f = pipe_flag[l[1]][r][ph][l[2]][c]
  BY DEF FlagWords
<1>2. \A f : f \in FlagWords(r, l)' <=>
                 \/ \E k \in SlotIds : f = flag'[l[1]][r][k][l[2]]
                 \/ \E ph \in Phases : \E c \in Chunks : f = pipe_flag'[l[1]][r][ph][l[2]][c]
  BY DEF FlagWords
<1> QED
  BY <1>1, <1>2

\* A ready word is a number.
LEMMA ReadyWord ==
    ASSUME KernelLayer, NEW r \in Ranks, NEW ph \in Phases, NEW c \in Chunks
    PROVE  ready[r][ph][c] \in Nat
<1>1. ready[r][ph][c] \in Seqs
  BY DEF KernelLayer, KernelTypes
<1> QED
  BY <1>1 DEF Seqs

\* A flag of write w on link l of rank r is written, or none.
Flagged(r, l, w) ==
    /\ \A q \in Ranks \ {r} : \A m \in Links(q) :
          flag'[m[1]][q] = flag[m[1]][q] /\ pipe_flag'[m[1]][q] = pipe_flag[m[1]][q]
    /\ \A m \in Links(r) \ {l} :
          /\ \A k \in SlotIds : flag'[m[1]][r][k][m[2]] = flag[m[1]][r][k][m[2]]
          /\ \A ph \in Phases, c \in Chunks :
                pipe_flag'[m[1]][r][ph][m[2]][c] = pipe_flag[m[1]][r][ph][m[2]][c]
    /\ \A k \in SlotIds : flag'[l[1]][r][k][l[2]] \in {flag[l[1]][r][k][l[2]], w.s}
    /\ \A ph \in Phases, c \in Chunks :
          \/ pipe_flag'[l[1]][r][ph][l[2]][c] = pipe_flag[l[1]][r][ph][l[2]][c]
          \/ /\ pipe_flag'[l[1]][r][ph][l[2]][c] = w.s
             /\ IsPipe(w.s) /\ ph = w.ph /\ c = w.c

\* The head of a queue is taken off.
Taken(r, l) ==
    /\ qp' = [qp EXCEPT ![r][l] = Tail(@)]
    /\ written' = [written EXCEPT ![r][l] = 0]

\* A flag is written, and its write leaves the queue.
LEMMA OFlag ==
    ASSUME KernelLayer, OrderLayer, UNCHANGED kernelVars, NEW r \in Ranks, NEW l \in Links(r),
           Live(r, l), NEW w, w = Head(qp[r][l]), FlagsTyped', Flagged(r, l, w), Taken(r, l),
           UNCHANGED <<pipe_done, last_seq, upto, cur, bytes, posted, piece, todo, broken>>
    PROVE  OrderLayer'
<1> DEFINE n == Len(qp[r][l])
<1>1. OrderTypes /\ FlagsTyped /\ qp[r][l] # <<>> /\ l \notin broken[r]
  BY DEF OrderLayer, OrderTypes, Live
<1>2. /\ 1 \in 1 .. n /\ w = qp[r][l][1] /\ n \in Nat
      /\ Len(Tail(qp[r][l])) = n - 1
      /\ \A i \in 1 .. n - 1 : i + 1 \in 1 .. n /\ Tail(qp[r][l])[i] = qp[r][l][i + 1]
  BY <1>1, AtHead
<1>3. /\ DOMAIN qp' = Ranks /\ qp'[r][l] = Tail(qp[r][l])
      /\ \A m \in Links(r) \ {l} : qp'[r][m] = qp[r][m]
      /\ \A q \in Ranks \ {r} : qp'[q] = qp[q]
      /\ DOMAIN written' = Ranks
      /\ \A q \in Ranks : DOMAIN qp'[q] = Links(q) /\ DOMAIN written'[q] = Links(q)
      /\ \A q \in Ranks : \A m \in Links(q) :
            /\ qp'[q][m] \in Seq([s : Seqs, n : Nat] \cup
                                 [s : Seqs, n : Nat, ph : Phases, c : Chunks])
            /\ written'[q][m] \in {0, 1}
            /\ written'[q][m] = 1 => qp'[q][m] # <<>>
  BY <1>1, TakenTypes DEF Taken
<1>4. OrderTypes'
  BY <1>1, <1>3 DEF OrderTypes
<1> HIDE DEF n
<1>5. PostedInv(r, l) /\ DoneInv(r) /\ BrokenInv(r) /\ OpenInv(r) /\ broken[r] \subseteq Links(r)
  BY OrderWords
<1>6. WriteInv(r, l, w) /\ w.s \in Nat \ {0}
  BY <1>2, <1>5, QueuedIsRecent DEF PostedInv, n
<1>7. plan' = plan /\ seq' = seq /\ epoch' = epoch /\ ready' = ready
  BY DEF kernelVars
<1>8. \A s : chunks(s)' = chunks(s) /\ IsPipe(s)' = IsPipe(s) /\ packs(s)' = packs(s)
  BY <1>7, PlanFrame
<1>9. \A s : Reached(r, l, s)' = Reached(r, l, s)
  BY <1>7, <1>8 DEF Reached, Posting
<1>10. \A s, t : InOrder(r, s, t)' = InOrder(r, s, t)
  BY <1>8 DEF InOrder
<1>11. FlagWords(r, l) \subseteq Nat
       /\ (\A k \in SlotIds : flag[l[1]][r][k][l[2]] \in FlagWords(r, l))
       /\ \A ph \in Phases, c \in Chunks : pipe_flag[l[1]][r][ph][l[2]][c] \in FlagWords(r, l)
  BY SMTT(60), <1>1, FlagTypes
<1>12. ASSUME NEW f \in FlagWords(r, l)' PROVE f \in FlagWords(r, l) \/ f = w.s
  <2>1. \/ \E k \in SlotIds : f = flag'[l[1]][r][k][l[2]]
        \/ \E ph \in Phases : \E c \in Chunks : f = pipe_flag'[l[1]][r][ph][l[2]][c]
    BY SMTT(60), <1>12, FlagWordsAre
  <2>2. ASSUME NEW k \in SlotIds, f = flag'[l[1]][r][k][l[2]]
        PROVE  f \in FlagWords(r, l) \/ f = w.s
    BY SMTT(60), <1>11, <2>2 DEF Flagged
  <2>3. ASSUME NEW ph \in Phases, NEW c \in Chunks, f = pipe_flag'[l[1]][r][ph][l[2]][c]
        PROVE  f \in FlagWords(r, l) \/ f = w.s
    BY <1>11, <2>3 DEF Flagged
  <2> QED
    BY <2>1, <2>2, <2>3
<1>13. ASSUME NEW f \in FlagWords(r, l) PROVE f \in Nat /\ f <= w.s /\ InOrder(r, f, w.s)
  <2>1. InOrder(r, f, w.s) /\ f \in Nat
    BY <1>6, <1>11 DEF WriteInv
  <2>2. f < w.s \/ f = w.s
    BY <2>1 DEF InOrder
  <2>3. PICK s : s = w.s
    OBVIOUS
  <2>4. f <= s
    BY <1>6, <2>1, <2>2, <2>3
  <2> QED
    BY <2>1, <2>3, <2>4
<1>14. ASSUME NEW i \in 1 .. n - 1, NEW v, v = qp[r][l][i + 1]
       PROVE  WriteInv(r, l, v)'
  <2>1. WriteInv(r, l, v) /\ InOrder(r, w.s, v.s)
    <3>1. 1 < i + 1 /\ i + 1 \in 1 .. n
      BY <1>2
    <3> QED
      BY <1>2, <1>5, <1>14, <3>1 DEF PostedInv, n
  <2>2. \A f \in FlagWords(r, l)' : InOrder(r, f, v.s)
    BY <1>12, <2>1 DEF WriteInv
  <2> QED
    BY <1>7, <1>8, <1>9, <1>10, <2>1, <2>2 DEF WriteInv
<1>15. PostedInv(r, l)'
  <2>1. ASSUME NEW i \in 1 .. Len(qp'[r][l]) PROVE WriteInv(r, l, qp[r][l][i])'
    <3>1. PICK v : v = qp'[r][l][i]
      OBVIOUS
    <3>2. i \in 1 .. n - 1 /\ v = qp[r][l][i + 1]
      BY <1>2, <1>3, <3>1
    <3>3. WriteInv(r, l, v)'
      BY <1>14, <3>2
    <3> QED
      BY <3>1, <3>3 DEF WriteInv, Reached, InOrder
  <2>2. ASSUME NEW i \in 1 .. Len(qp'[r][l]), NEW j \in 1 .. Len(qp'[r][l]), i < j
        PROVE  InOrder(r, qp[r][l][i].s, qp[r][l][j].s)'
    <3>1. PICK t : t = qp'[r][l][i].s
      OBVIOUS
    <3>2. PICK u : u = qp'[r][l][j].s
      OBVIOUS
    <3>3. /\ i \in 1 .. n - 1 /\ t = qp[r][l][i + 1].s
          /\ j \in 1 .. n - 1 /\ u = qp[r][l][j + 1].s
      BY <1>2, <1>3, <3>1, <3>2
    <3>4. i + 1 \in 1 .. n /\ j + 1 \in 1 .. n /\ i + 1 < j + 1
      BY <1>2, <2>2, <3>3
    <3>5. InOrder(r, qp[r][l][i + 1].s, qp[r][l][j + 1].s)
      BY <1>5, <3>4 DEF PostedInv, n
    <3>6. InOrder(r, t, u)'
      BY SMTT(60), <1>8, <3>3, <3>5 DEF InOrder
    <3> QED
      BY <3>1, <3>2, <3>6 DEF InOrder
  <2>3. \A f \in FlagWords(r, l)' : Reached(r, l, f)'
    BY <1>5, <1>6, <1>9, <1>12 DEF PostedInv, WriteInv
  <2>4. l \notin broken'[r]
    BY SMTT(60), <1>1
  <2>5. ASSUME NEW ph \in Phases, NEW c \in Chunks, NEW f, f = pipe_flag'[l[1]][r][ph][l[2]][c],
               f > 0
        PROVE  IsPipe(f) /\ c < chunks(f) /\ f <= ready[r][ph][c]
    <3>1. CASE f = pipe_flag[l[1]][r][ph][l[2]][c]
      BY SMTT(60), <1>5, <2>5, <3>1 DEF PostedInv
    <3>2. CASE f = w.s /\ IsPipe(w.s) /\ ph = w.ph /\ c = w.c
      <4>1. ready[r][ph][c] \in Nat
        BY SMTT(60), ReadyWord
      <4>2. w.c < chunks(w.s) /\ ready[r][w.ph][w.c] >= w.s
        BY <1>6, <3>2 DEF WriteInv
      <4> QED
        BY <1>6, <3>2, <4>1, <4>2
    <3> QED
      BY ZenonT(30), <2>5, <3>1, <3>2 DEF Flagged
  <2>6. \A ph \in Phases, c \in Chunks :
          LET f == pipe_flag'[l[1]][r][ph][l[2]][c]
          IN  f > 0 => IsPipe(f) /\ c < chunks(f) /\ f <= ready[r][ph][c]
    BY <2>5
  <2> QED
    BY SMTT(60), <1>7, <1>8, <2>1, <2>2, <2>3, <2>4, <2>6 DEF PostedInv
<1>16. ASSUME NEW m \in Links(r) \ {l}
       PROVE  PostedInv(r, m)' /\ FlagWords(r, m)' = FlagWords(r, m)
  <2>1. /\ qp'[r][m] = qp[r][m] /\ PostedInv(r, m) /\ todo'[r] = todo[r]
        /\ last_seq'[r] = last_seq[r] /\ upto'[r] = upto[r]
        /\ pipe_done'[r] = pipe_done[r] /\ broken'[r] = broken[r]
    BY SMTT(60), <1>3, OrderWords
  <2>2. /\ \A k \in SlotIds : flag'[m[1]][r][k][m[2]] = flag[m[1]][r][k][m[2]]
        /\ \A ph \in Phases, c \in Chunks :
              pipe_flag'[m[1]][r][ph][m[2]][c] = pipe_flag[m[1]][r][ph][m[2]][c]
    BY DEF Flagged
  <2> QED
    BY <2>1, <2>2, PostedSame
<1>17. \A m \in Links(r) : PostedInv(r, m)'
  BY <1>15, <1>16
<1>18. OpenInv(r)'
  BY <1>5, <1>7, <1>8 DEF OpenInv, Posting
<1>19. DoneInv(r)'
  <2>1. ~NoneOutstanding(r)
    BY <1>1 DEF NoneOutstanding
  <2> QED
    BY <1>5, <1>7, <1>8, <2>1 DEF DoneInv, Posting
<1>20. BrokenInv(r)'
  BY <1>1, <1>5, <1>8, <1>16 DEF BrokenInv
<1>21. \A q \in Ranks \ {r} : LeftAlone(q)
  BY <1>3 DEF LeftAlone
<1>22. ASSUME NEW q \in Ranks, NEW m \in Links(q)
       PROVE  /\ \A k \in SlotIds : flag[q][m[1]][k][m[2]] <= flag'[q][m[1]][k][m[2]]
              /\ \A ph \in Phases, c \in Chunks :
                    pipe_flag[q][m[1]][ph][m[2]][c] <= pipe_flag'[q][m[1]][ph][m[2]][c]
  <2> DEFINE p == m[1]
             b == <<q, m[2]>>
  <2>1. p \in Ranks /\ b \in Links(p) /\ b[1] = q /\ b[2] = m[2]
    BY LinkFacts
  <2> HIDE DEF p, b
  <2>2. FlagWords(p, b) \subseteq Nat
        /\ (\A k \in SlotIds : flag[b[1]][p][k][b[2]] \in FlagWords(p, b))
        /\ \A ph \in Phases, c \in Chunks : pipe_flag[b[1]][p][ph][b[2]][c] \in FlagWords(p, b)
    BY <1>1, <2>1, FlagTypes
  <2>3. \A x \in Nat : x <= x
    OBVIOUS
  <2>4. ASSUME NEW k \in SlotIds PROVE flag[q][p][k][m[2]] <= flag'[q][p][k][m[2]]
    <3>1. flag[b[1]][p][k][b[2]] \in FlagWords(p, b)
      BY <2>2
    <3>2. CASE p = r /\ b = l
      <4>1. flag'[b[1]][p][k][b[2]] \in {flag[b[1]][p][k][b[2]], w.s}
        BY ZenonT(30), <3>2 DEF Flagged
      <4>2. flag[b[1]][p][k][b[2]] <= w.s /\ flag[b[1]][p][k][b[2]] \in Nat
        BY <1>13, <3>1, <3>2
      <4> QED
        BY SMTT(60), <2>1, <2>3, <4>1, <4>2
    <3>3. CASE ~(p = r /\ b = l)
      <4>1. flag'[b[1]][p][k][b[2]] = flag[b[1]][p][k][b[2]]
        <5>1. CASE p # r
          <6>1. flag'[b[1]][p] = flag[b[1]][p]
            BY ZenonT(30), <2>1, <5>1 DEF Flagged
          <6> QED
            BY <6>1
        <5>2. CASE p = r /\ b \in Links(r) \ {l}
          BY ZenonT(30), <5>2 DEF Flagged
        <5> QED
          BY <2>1, <3>3, <5>1, <5>2
      <4> QED
        BY <2>1, <2>2, <2>3, <3>1, <4>1
    <3> QED
      BY <3>2, <3>3
  <2>5. ASSUME NEW ph \in Phases, NEW c \in Chunks
        PROVE  pipe_flag[q][p][ph][m[2]][c] <= pipe_flag'[q][p][ph][m[2]][c]
    <3>1. pipe_flag[b[1]][p][ph][b[2]][c] \in FlagWords(p, b)
      BY <2>2
    <3>2. CASE p = r /\ b = l
      <4>1. pipe_flag'[b[1]][p][ph][b[2]][c] \in {pipe_flag[b[1]][p][ph][b[2]][c], w.s}
        BY ZenonT(30), <3>2 DEF Flagged
      <4>2. pipe_flag[b[1]][p][ph][b[2]][c] <= w.s /\ pipe_flag[b[1]][p][ph][b[2]][c] \in Nat
        BY <1>13, <3>1, <3>2
      <4> QED
        BY ZenonT(30), <2>1, <2>3, <4>1, <4>2
    <3>3. CASE ~(p = r /\ b = l)
      <4>1. pipe_flag'[b[1]][p][ph][b[2]][c] = pipe_flag[b[1]][p][ph][b[2]][c]
        <5>1. CASE p # r
          <6>1. pipe_flag'[b[1]][p] = pipe_flag[b[1]][p]
            BY SMTT(60), <2>1, <5>1 DEF Flagged
          <6> QED
            BY SMTT(60), <6>1
        <5>2. CASE p = r /\ b \in Links(r) \ {l}
          BY SMTT(60), <5>2 DEF Flagged
        <5> QED
          BY <2>1, <3>3, <5>1, <5>2
      <4> QED
        BY <2>1, <2>2, <2>3, <3>1, <4>1
    <3> QED
      BY <3>2, <3>3
  <2> QED
    BY <2>4, <2>5 DEF p
<1>23. \A q \in Ranks \ {r} :
          /\ LeftAlone(q)
          /\ \A m \in Links(q) : /\ flag'[m[1]][q] = flag[m[1]][q]
                                 /\ pipe_flag'[m[1]][q] = pipe_flag[m[1]][q]
  BY <1>21 DEF Flagged
<1> QED
  BY <1>4, <1>17, <1>18, <1>19, <1>20, <1>22, <1>23, OrderElse

LEMMA OWriteFlag ==
    ASSUME KernelLayer, OrderLayer, UNCHANGED kernelVars, NEW r \in Ranks, NEW l \in Links(r),
           WriteFlag(r, l), UNCHANGED pipe
    PROVE  OrderLayer'
<1>1. PICK w : w = Head(qp[r][l])
  OBVIOUS
<1>2. PICK k : k = SlotOf(w.s)
  OBVIOUS
<1>3. PICK s : s = w.s
  BY SMTT(60)
<1>4. /\ Live(r, l) /\ Taken(r, l)
      /\ UNCHANGED <<pipe_flag, pipe_done, last_seq, upto, cur, bytes, posted, piece, todo,
                     broken>>
      /\ flag' = [flag EXCEPT ![l[1]][r][k][l[2]] = s]
  BY ZenonT(30), <1>1, <1>2, <1>3 DEF WriteFlag, Taken, proxy, pipe
<1>5. OrderTypes /\ FlagsTyped /\ qp[r][l] # <<>>
  BY <1>4 DEF OrderLayer, OrderTypes, Live
<1>6. s \in Seqs
  BY <1>1, <1>3, <1>5, AtHead, QueuedIsRecent
<1>7. k \in SlotIds
  BY <1>2, <1>3, <1>6, s \in Nat, SlotFacts DEF Seqs
<1>8. l[1] \in Ranks /\ l[2] \in Hcas
  BY LinkFacts
<1>9. flag \in [Ranks -> [Ranks -> [SlotIds -> [Hcas -> Seqs]]]]
  BY <1>5 DEF FlagsTyped
<1>10. /\ flag' \in [Ranks -> [Ranks -> [SlotIds -> [Hcas -> Seqs]]]]
       /\ flag'[l[1]][r][k][l[2]] = s
       /\ \A j \in SlotIds \ {k} : flag'[l[1]][r][j] = flag[l[1]][r][j]
       /\ \A h \in Hcas \ {l[2]} : flag'[l[1]][r][k][h] = flag[l[1]][r][k][h]
       /\ \A p \in Ranks \ {l[1]} : flag'[p] = flag[p]
       /\ \A q \in Ranks \ {r} : flag'[l[1]][q] = flag[l[1]][q]
  BY <1>4, <1>6, <1>7, <1>8, <1>9
<1>11. \A q \in Ranks \ {r} : \A m \in Links(q) : flag'[m[1]][q] = flag[m[1]][q]
  BY <1>10, LinkFacts
<1>12. \A m \in Links(r) \ {l} : \A j \in SlotIds :
          flag'[m[1]][r][j][m[2]] = flag[m[1]][r][j][m[2]]
  <2> TAKE m \in Links(r) \ {l}
  <2> TAKE j \in SlotIds
  <2>1. m[1] \in Ranks /\ m[2] \in Hcas /\ (m[1] # l[1] \/ m[2] # l[2])
    BY LinkFacts
  <2> QED
    BY ZenonT(30), <1>10, <2>1
<1>13. \A j \in SlotIds : flag'[l[1]][r][j][l[2]] \in {flag[l[1]][r][j][l[2]], s}
  BY <1>10
<1>14. Flagged(r, l, w)
  BY <1>3, <1>4, <1>11, <1>12, <1>13 DEF Flagged
<1>15. FlagsTyped'
  BY <1>4, <1>5, <1>10 DEF FlagsTyped
<1> QED
  BY <1>1, <1>4, <1>14, <1>15, OFlag

\* One chunk flag is set.
LEMMA ChunkFlagSet ==
    ASSUME NEW F \in [Ranks -> [Ranks -> [Phases -> [Hcas -> [Chunks -> Seqs]]]]],
           NEW p \in Ranks, NEW r \in Ranks, NEW ph \in Phases, NEW h \in Hcas,
           NEW c \in Chunks, NEW s \in Seqs,
           NEW G, G = [F EXCEPT ![p][r][ph][h][c] = s]
    PROVE  /\ G \in [Ranks -> [Ranks -> [Phases -> [Hcas -> [Chunks -> Seqs]]]]]
           /\ G[p][r][ph][h][c] = s
           /\ \A d \in Chunks \ {c} : G[p][r][ph][h][d] = F[p][r][ph][h][d]
           /\ \A j \in Phases \ {ph} : G[p][r][j] = F[p][r][j]
           /\ \A i \in Hcas \ {h} : G[p][r][ph][i] = F[p][r][ph][i]
           /\ \A q \in Ranks \ {p} : G[q] = F[q]
           /\ \A q \in Ranks \ {r} : G[p][q] = F[p][q]
<1> DEFINE D == [F[p][r][ph][h] EXCEPT ![c] = s]
           C == [F[p][r][ph] EXCEPT ![h] = D]
           B == [F[p][r] EXCEPT ![ph] = C]
           A == [F[p] EXCEPT ![r] = B]
<1>1. G = [F EXCEPT ![p] = A]
  OBVIOUS
<1>2. /\ F[p] \in [Ranks -> [Phases -> [Hcas -> [Chunks -> Seqs]]]]
      /\ F[p][r] \in [Phases -> [Hcas -> [Chunks -> Seqs]]]
      /\ F[p][r][ph] \in [Hcas -> [Chunks -> Seqs]]
      /\ F[p][r][ph][h] \in [Chunks -> Seqs]
  OBVIOUS
<1>3. D \in [Chunks -> Seqs] /\ D[c] = s /\ \A d \in Chunks \ {c} : D[d] = F[p][r][ph][h][d]
  BY <1>2
<1> HIDE DEF D
<1>4. /\ C \in [Hcas -> [Chunks -> Seqs]] /\ C[h] = D
      /\ \A i \in Hcas \ {h} : C[i] = F[p][r][ph][i]
  BY <1>2, <1>3
<1> HIDE DEF C
<1>5. /\ B \in [Phases -> [Hcas -> [Chunks -> Seqs]]] /\ B[ph] = C
      /\ \A j \in Phases \ {ph} : B[j] = F[p][r][j]
  BY <1>2, <1>4
<1> HIDE DEF B
<1>6. /\ A \in [Ranks -> [Phases -> [Hcas -> [Chunks -> Seqs]]]] /\ A[r] = B
      /\ \A q \in Ranks \ {r} : A[q] = F[p][q]
  BY <1>2, <1>5
<1> HIDE DEF A
<1>7. /\ G \in [Ranks -> [Ranks -> [Phases -> [Hcas -> [Chunks -> Seqs]]]]] /\ G[p] = A
      /\ \A q \in Ranks \ {p} : G[q] = F[q]
  BY <1>1, <1>6
<1> QED
  BY <1>3, <1>4, <1>5, <1>6, <1>7

\* A step that writes a chunk flag sets one flag, to the operation of the head.
LEMMA ChunkFlagged ==
    ASSUME KernelLayer, OrderLayer, NEW r \in Ranks, NEW l \in Links(r), WriteChunkFlag(r, l),
           NEW w, w = Head(qp[r][l])
    PROVE  /\ Live(r, l) /\ Taken(r, l) /\ Flagged(r, l, w) /\ FlagsTyped' /\ IsPipe(w.s)
           /\ UNCHANGED <<flag, pipe_done, last_seq, upto, cur, bytes, posted, piece, todo, broken>>
<1>1. PICK s : s = w.s
  OBVIOUS
<1>2. PICK ph : ph = w.ph
  OBVIOUS
<1>3. PICK c : c = w.c
  BY SMTT(60)
<1>4. /\ Live(r, l) /\ Taken(r, l) /\ IsPipe(s)
      /\ UNCHANGED <<flag, pipe_done, last_seq, upto, cur, bytes, posted, piece, todo, broken>>
      /\ pipe_flag' = [pipe_flag EXCEPT ![l[1]][r][ph][l[2]][c] = s]
  BY ZenonT(30), <1>1, <1>2, <1>3 DEF WriteChunkFlag, PipeHead, Taken, proxy, region
<1>5. OrderTypes /\ FlagsTyped /\ qp[r][l] # <<>>
  BY <1>4 DEF OrderLayer, OrderTypes, Live
<1>6. 1 \in 1 .. Len(qp[r][l]) /\ w = qp[r][l][1]
  BY <1>5, AtHead
<1>7. s \in Seqs
  BY <1>1, <1>6, QueuedIsRecent
<1>8. WriteInv(r, l, w)
  BY SMTT(60), <1>6, OrderWords DEF PostedInv
<1>9. ph \in Phases /\ c \in Chunks
  BY ZenonT(30), <1>1, <1>2, <1>3, <1>4, <1>8 DEF WriteInv
<1>10. l[1] \in Ranks /\ l[2] \in Hcas
  BY LinkFacts
<1>11. pipe_flag \in [Ranks -> [Ranks -> [Phases -> [Hcas -> [Chunks -> Seqs]]]]]
  BY <1>5 DEF FlagsTyped
<1>12. /\ pipe_flag' \in [Ranks -> [Ranks -> [Phases -> [Hcas -> [Chunks -> Seqs]]]]]
       /\ pipe_flag'[l[1]][r][ph][l[2]][c] = s
       /\ \A d \in Chunks \ {c} :
             pipe_flag'[l[1]][r][ph][l[2]][d] = pipe_flag[l[1]][r][ph][l[2]][d]
       /\ \A j \in Phases \ {ph} : pipe_flag'[l[1]][r][j] = pipe_flag[l[1]][r][j]
       /\ \A h \in Hcas \ {l[2]} : pipe_flag'[l[1]][r][ph][h] = pipe_flag[l[1]][r][ph][h]
       /\ \A p \in Ranks \ {l[1]} : pipe_flag'[p] = pipe_flag[p]
       /\ \A q \in Ranks \ {r} : pipe_flag'[l[1]][q] = pipe_flag[l[1]][q]
  <2>1. PICK p : p = l[1]
    OBVIOUS
  <2>2. PICK h : h = l[2]
    OBVIOUS
  <2>3. PICK F : F = pipe_flag
    OBVIOUS
  <2>4. PICK G : G = pipe_flag'
    OBVIOUS
  <2>5. G = [F EXCEPT ![p][r][ph][h][c] = s]
    BY <1>4, <2>1, <2>2, <2>3, <2>4
  <2>6. /\ F \in [Ranks -> [Ranks -> [Phases -> [Hcas -> [Chunks -> Seqs]]]]]
        /\ p \in Ranks /\ h \in Hcas /\ ph \in Phases /\ c \in Chunks /\ s \in Seqs
    BY <1>7, <1>9, <1>10, <1>11, <2>1, <2>2, <2>3
  <2>7. /\ G \in [Ranks -> [Ranks -> [Phases -> [Hcas -> [Chunks -> Seqs]]]]]
        /\ G[p][r][ph][h][c] = s
        /\ \A d \in Chunks \ {c} : G[p][r][ph][h][d] = F[p][r][ph][h][d]
        /\ \A j \in Phases \ {ph} : G[p][r][j] = F[p][r][j]
        /\ \A i \in Hcas \ {h} : G[p][r][ph][i] = F[p][r][ph][i]
        /\ \A q \in Ranks \ {p} : G[q] = F[q]
        /\ \A q \in Ranks \ {r} : G[p][q] = F[p][q]
    BY <2>5, <2>6, ChunkFlagSet
  <2> QED
    BY <2>1, <2>2, <2>3, <2>4, <2>7
<1>13. \A q \in Ranks \ {r} : \A m \in Links(q) : pipe_flag'[m[1]][q] = pipe_flag[m[1]][q]
  BY <1>12, LinkFacts
<1>14. ASSUME NEW m \in Links(r) \ {l}, NEW j \in Phases, NEW d \in Chunks
       PROVE  pipe_flag'[m[1]][r][j][m[2]][d] = pipe_flag[m[1]][r][j][m[2]][d]
  <2>1. m[1] \in Ranks /\ m[2] \in Hcas /\ (m[1] # l[1] \/ m[2] # l[2])
    BY LinkFacts
  <2>2. CASE m[1] # l[1]
    BY <1>12, <2>1, <2>2
  <2>3. CASE m[1] = l[1] /\ j # ph
    BY <1>12, <2>3
  <2>4. CASE m[1] = l[1] /\ j = ph /\ m[2] # l[2]
    BY <1>12, <2>1, <2>4
  <2> QED
    BY <2>1, <2>2, <2>3, <2>4
<1>15. ASSUME NEW j \in Phases, NEW d \in Chunks
       PROVE  \/ pipe_flag'[l[1]][r][j][l[2]][d] = pipe_flag[l[1]][r][j][l[2]][d]
              \/ pipe_flag'[l[1]][r][j][l[2]][d] = s /\ j = ph /\ d = c
  BY SMTT(60), <1>12
<1>16. Flagged(r, l, w)
  BY ZenonT(30), <1>1, <1>2, <1>3, <1>4, <1>13, <1>14, <1>15 DEF Flagged
<1>17. FlagsTyped'
  BY ZenonT(30), <1>4, <1>5, <1>12 DEF FlagsTyped
<1> QED
  BY <1>1, <1>4, <1>16, <1>17

LEMMA OWriteChunkFlag ==
    ASSUME KernelLayer, OrderLayer, UNCHANGED kernelVars, NEW r \in Ranks, NEW l \in Links(r),
           WriteChunkFlag(r, l)
    PROVE  OrderLayer'
<1>1. PICK w : w = Head(qp[r][l])
  OBVIOUS
<1> QED
  BY <1>1, ChunkFlagged, OFlag

\* A queue pair breaks: its head is either a chunk of the open operation, or of
\* an operation after every flag of the link.
LEMMA OBreak ==
    ASSUME KernelLayer, OrderLayer, UNCHANGED kernelVars, NEW r \in Ranks, NEW l \in Links(r),
           Break(r, l), UNCHANGED pipe
    PROVE  OrderLayer'
<1>1. /\ UNCHANGED <<flag, pipe_flag, pipe_done, last_seq, upto, cur, bytes, posted, piece, todo,
                     qp, written>>
      /\ broken' = [broken EXCEPT ![r] = @ \cup {l}] /\ qp[r][l] # <<>>
  BY DEF Break, Live, proxy, pipe, region
<1>2. /\ DOMAIN broken' = Ranks /\ broken'[r] = broken[r] \cup {l}
      /\ \A q \in Ranks \ {r} : broken'[q] = broken[q]
  BY <1>1 DEF OrderLayer, OrderTypes
<1>3. OrderTypes'
  <2>1. ASSUME NEW q \in Ranks PROVE broken'[q] \subseteq Links(q)
    BY <1>2 DEF OrderLayer, OrderTypes
  <2>2. FlagsTyped'
    BY <1>1 DEF OrderLayer, OrderTypes, FlagsTyped
  <2> QED
    BY <1>1, <1>2, <2>1, <2>2 DEF OrderLayer, OrderTypes
<1>4. \A s : chunks(s)' = chunks(s) /\ IsPipe(s)' = IsPipe(s) /\ packs(s)' = packs(s)
  BY PlanFrame DEF kernelVars
<1>5. seq' = seq /\ epoch' = epoch /\ ready' = ready
  BY DEF kernelVars
<1>6. \A q \in Ranks \ {r} : LeftAlone(q)
  BY <1>1, <1>2 DEF LeftAlone
<1>7. OpenInv(r)'
  BY <1>1, <1>4, <1>5, OrderWords DEF OpenInv, Posting
<1>8. DoneInv(r)'
  BY <1>1, <1>4, <1>5, OrderWords DEF DoneInv, Posting, NoneOutstanding
<1>9. \A m \in Links(r) : FlagWords(r, m)' = FlagWords(r, m)
  BY <1>1 DEF FlagWords
<1>10. BrokenInv(r)'
  <2>1. CASE broken[r] # {}
    BY <1>1, <1>2, <1>4, <1>9, <2>1, OrderWords DEF BrokenInv
  <2>2. CASE broken[r] = {}
    <3>1. PICK w : w = qp[r][l][1]
      OBVIOUS
    <3>2. 1 \in 1 .. Len(qp[r][l])
      BY <1>1, AtHead DEF OrderLayer
    <3>3. WriteInv(r, l, w) /\ w.s \in Nat /\ w.s \in Seqs
      BY <3>1, <3>2, OrderWords, QueuedIsRecent DEF PostedInv
    <3>4. w.s <= last_seq[r] + 1 /\ last_seq[r] \in Nat
      BY <3>3, OrderWords DEF WriteInv, Reached
    <3>5. \A f \in FlagWords(r, l) : f \in Nat /\ InOrder(r, f, w.s)
      BY <3>3, FlagTypes DEF WriteInv, OrderLayer
    <3>6. CASE w.s = last_seq[r] + 1 /\ IsPipe(w.s)
      BY <1>1, <1>4, <3>3, <3>6 DEF BrokenInv
    <3>7. CASE ~(w.s = last_seq[r] + 1 /\ IsPipe(w.s))
      <4>1. ASSUME NEW f \in FlagWords(r, l) PROVE f <= last_seq[r]
        <5>1. f < w.s /\ f \in Nat
          BY <2>2, <3>5, <3>7 DEF InOrder
        <5> QED
          BY <3>3, <3>4, <5>1
      <4>2. l \in broken'[r]
        BY <1>2
      <4> QED
        BY <1>1, <1>9, <4>1, <4>2 DEF BrokenInv
    <3> QED
      BY <3>6, <3>7
  <2> QED
    BY <2>1, <2>2
<1>11. ASSUME NEW m \in Links(r) PROVE PostedInv(r, m)'
  <2>1. \A s : Reached(r, m, s) => Reached(r, m, s)'
    BY <1>1, <1>2, <1>4, <1>5 DEF Reached, Posting
  <2>2. \A s, t : InOrder(r, s, t) => InOrder(r, s, t)'
    BY <1>1, <1>2, <1>4 DEF InOrder
  <2>3. \A w : WriteInv(r, m, w) => WriteInv(r, m, w)'
    BY <1>1, <1>4, <1>5, <1>9, <2>1, <2>2 DEF WriteInv
  <2>4. PostedInv(r, m)
    BY OrderWords
  <2>5. m \in broken'[r] => qp'[r][m] # <<>>
    BY <1>1, <1>2, <2>4 DEF PostedInv
  <2> QED
    BY <1>1, <1>4, <1>5, <1>9, <2>1, <2>2, <2>3, <2>4, <2>5 DEF PostedInv
<1> QED
  BY <1>1, <1>3, <1>6, <1>7, <1>8, <1>10, <1>11, OrderProxy

-----------------------------------------------------------------------------
(* The second layer as a whole. *)

\* It holds at the start ...
LEMMA OrderInit == PipeInit => OrderLayer
<1> SUFFICES ASSUME PipeInit PROVE OrderLayer
  OBVIOUS
<1>1. 0 \in Seqs /\ plan \in Plans /\ Init /\ KernelLayer /\ MaxChunks \in Nat \ {0}
  BY Consts, KernelInit, PipeAssumption DEF Seqs, PipeInit
<1>2. FlagsTyped
  BY <1>1 DEF PipeInit, Init, FlagsTyped
<1>3. piece \in [Ranks -> [ph : Phases, c : Chunks, left : SUBSET (Ranks \X Hcas)]]
  <2>1. NoPiece \in [ph : Phases, c : Chunks, left : SUBSET (Ranks \X Hcas)]
    BY <1>1 DEF NoPiece, Phases, Chunks
  <2> QED
    BY <2>1 DEF PipeInit
<1>4. ASSUME NEW r \in Ranks
      PROVE  /\ todo[r] = {} /\ broken[r] = {} /\ epoch[r] = 0 /\ seq[r] = 0 /\ last_seq[r] = 0
             /\ upto[r] = 0 /\ pipe_done[r] = 0
             /\ DOMAIN qp[r] = Links(r) /\ DOMAIN written[r] = Links(r)
             /\ (\A l \in Links(r) : qp[r][l] = <<>> /\ written[r][l] = 0)
             /\ (\A b \in Blocks : pc[r][b] = "done")
             /\ (\A ph \in Phases, c \in Chunks : ready[r][ph][c] = 0)
  BY <1>1 DEF PipeInit, Init
<1>5. OrderTypes
  <2>1. ASSUME NEW r \in Ranks, NEW l \in Links(r)
        PROVE  qp[r][l] \in Seq([s : Seqs, n : Nat] \cup
                                [s : Seqs, n : Nat, ph : Phases, c : Chunks])
    BY <1>4, EmptySeq
  <2>2. /\ pipe_done \in [Ranks -> Seqs] /\ last_seq \in [Ranks -> Seqs] /\ upto \in [Ranks -> Seqs]
        /\ DOMAIN cur = Ranks /\ DOMAIN bytes = Ranks /\ posted \in [Ranks -> [Phases -> Nat]]
        /\ DOMAIN todo = Ranks /\ DOMAIN broken = Ranks /\ DOMAIN qp = Ranks
        /\ DOMAIN written = Ranks
    BY <1>1 DEF PipeInit, Init
  <2> QED
    BY <1>2, <1>3, <1>4, <2>1, <2>2 DEF OrderTypes
<1>6. ASSUME NEW r \in Ranks, NEW l \in Links(r)
      PROVE  /\ \A k \in SlotIds : flag[r][l[1]][k][l[2]] = 0 /\ flag[l[1]][r][k][l[2]] = 0
             /\ \A ph \in Phases, c \in Chunks : pipe_flag[l[1]][r][ph][l[2]][c] = 0
  <2>1. l[1] \in Ranks /\ l[2] \in Hcas
    BY LinkFacts
  <2> QED
    BY <1>1, <2>1 DEF PipeInit, Init
<1>7. ASSUME NEW r \in Ranks PROVE RankOrder(r)
  <2>1. ~Posting(r)
    BY <1>4 DEF Posting
  <2>2. /\ Cur(r) = 1 /\ ~IsPipe(0) /\ SlotOf(0) \in SlotIds
    <3>1. Cur(r) = 1
      BY <1>4 DEF Cur
    <3>2. packs(0) = 0
      BY <1>1, PlanFacts
    <3>3. ~IsPipe(0)
      BY <3>2 DEF IsPipe
    <3>4. SlotOf(0) \in SlotIds
      BY SlotFacts
    <3> QED BY <3>1, <3>3, <3>4
  <2>3. OpenInv(r)
    BY <1>4, <2>1 DEF OpenInv
  <2>4. DoneInv(r)
    BY <1>4, <2>1 DEF DoneInv
  <2>5. ASSUME NEW l \in Links(r) PROVE PostedInv(r, l)
    <3>1. \A f \in FlagWords(r, l) : f = 0
      BY <1>6, FlagWordsAre
    <3>2. Reached(r, l, 0)
      BY <1>4 DEF Reached
    <3>3. qp[r][l] = <<>> /\ Len(qp[r][l]) = 0
      BY <1>4
    <3> QED
      BY <1>4, <1>6, <3>1, <3>2, <3>3 DEF PostedInv
  <2>6. Got(r, epoch[r])
    BY <1>4, <1>6, <2>2 DEF Got
  <2>7. BrokenInv(r)
    BY <1>4 DEF BrokenInv
  <2>8. AwaitedInv(r)
    <3>1. Finished(r) /\ ~Working(r)
      BY <1>4 DEF Finished, Working
    <3>2. \A c \in Chunks : ready[r][AG][c] # Cur(r)
      BY <1>4, <2>2 DEF Phases
    <3> QED
      BY <1>4, <3>1, <3>2 DEF AwaitedInv
  <2> QED
    BY <2>3, <2>4, <2>5, <2>6, <2>7, <2>8 DEF RankOrder
<1> QED
  BY <1>5, <1>7 DEF OrderLayer

\* ... and every step keeps it.
LEMMA OrderNext ==
    ASSUME Depth >= 2, KernelLayer, OrderLayer, [PipeNext]_allVars
    PROVE  OrderLayer'
<1>1. CASE UNCHANGED allVars
  <2>1. UNCHANGED kernelVars /\ UNCHANGED orderVars
    BY <1>1 DEF allVars, vars, device, region, kernel, proxy, net, pipe, kernelVars, orderVars
  <2> QED
    BY <2>1, OrderQuiet
<1>2. CASE Progress
  <2>1. plan' = plan
    BY <1>2 DEF Progress
  <2>2. PICK r \in Ranks :
         \/ /\ epoch[r] < plan.ops /\ poison[r] = 0
            /\ \/ PipeLaunch(r)
               \/ ~IsPipe(Succ(epoch[r])) /\ Launch(r) /\ UNCHANGED pipe
         \/ \E b \in Blocks : OneShotBlock(r, b) \/ PipeBlock(r, b)
         \/ OneShotProxy(r) \/ PipeProxy(r)
         \/ Start(r) /\ UNCHANGED pipe
         \/ \E l \in Links(r) : PipeNetwork(r, l)
    BY <1>2 DEF Progress
  <2>3. CASE /\ epoch[r] < plan.ops /\ poison[r] = 0
             /\ \/ PipeLaunch(r)
                \/ ~IsPipe(Succ(epoch[r])) /\ Launch(r) /\ UNCHANGED pipe
    BY <2>1, <2>3, OLaunch
  <2>4. ASSUME NEW b \in Blocks, OneShotBlock(r, b) PROVE OrderLayer'
    BY <2>1, <2>4, OStartBlock, OStage, ORing, OWait, OReduce, OFinish, OArrive
       DEF OneShotBlock
  <2>5. ASSUME NEW b \in Blocks, PipeBlock(r, b) PROVE OrderLayer'
    BY <2>1, <2>5, OPipeStart, OStageChunk, OWaitChunk, OSkipChunk, OReduceChunk, OCopyChunk,
       OPipeTail, OPublish, ODoorbell DEF PipeBlock
  <2>6. CASE OneShotProxy(r)
    <3>1. UNCHANGED kernelVars
      BY <2>1, <2>6 DEF OneShotProxy, Poll, EndOp, IdlePoll, Leave, Post, Throttle, kernelVars,
         device, region, kernel, pipe, restOfPipe
    <3>2. \/ (Poll(r) \/ EndOp(r)) /\ Dispatch(r) /\ UNCHANGED <<kind, restOfPipe>>
          \/ (IdlePoll(r) \/ Leave(r)) /\ UNCHANGED pipe
          \/ cur[r] = 0 /\ (Post(r) \/ Throttle(r)) /\ UNCHANGED pipe
      BY <2>6 DEF OneShotProxy
    <3> QED
      BY <3>1, <3>2, OPoll, OEndOp, OBetween, OPost, OThrottle
  <2>7. CASE PipeProxy(r)
    <3>1. UNCHANGED kernelVars
      BY <2>1, <2>7 DEF PipeProxy, TakeChunk, PostChunk, GiveUp, Release, kernelVars,
         vars, device, region, kernel, pipe
    <3>2. (\E ph \in Phases : TakeChunk(r, ph)) \/ PostChunk(r) \/ GiveUp(r) \/ Release(r)
      BY <2>7 DEF PipeProxy
    <3> QED
      BY <3>1, <3>2, OTakeChunk, OPostChunk, OGiveUp, ORelease
  <2>8. CASE Start(r) /\ UNCHANGED pipe
    <3>1. UNCHANGED kernelVars /\ UNCHANGED orderVars
      BY <2>1, <2>8 DEF Start, kernelVars, orderVars, device, region, kernel, net, pipe
    <3> QED
      BY <3>1, OrderQuiet
  <2>9. ASSUME NEW l \in Links(r), PipeNetwork(r, l) PROVE OrderLayer'
    <3>1. UNCHANGED kernelVars
      BY ZenonT(30), <2>1, <2>9 DEF PipeNetwork, WriteChunk, WriteChunkFlag, Network, WritePayload,
         WriteFlag, kernelVars, device, region, kernel, pipe
    <3>2. CASE WriteChunk(r, l)
      <4>1. /\ Live(r, l) /\ written' = [written EXCEPT ![r][l] = 1]
            /\ UNCHANGED <<flag, pipe_flag, pipe_done, last_seq, upto, cur, bytes, posted, piece,
                           todo, qp, broken>>
        BY ZenonT(30), <3>2 DEF WriteChunk, proxy, region
      <4> QED
        BY ZenonT(30), <3>1, <4>1, OPayload
    <3>3. CASE WriteChunkFlag(r, l)
      BY <3>1, <3>3, OWriteChunkFlag
    <3>4. CASE WritePayload(r, l) /\ UNCHANGED pipe
      <4>1. /\ Live(r, l) /\ written' = [written EXCEPT ![r][l] = 1]
            /\ UNCHANGED <<flag, pipe_flag, pipe_done, last_seq, upto, cur, bytes, posted, piece,
                           todo, qp, broken>>
        BY ZenonT(30), <3>4 DEF WritePayload, proxy, pipe
      <4> QED
        BY ZenonT(30), <3>1, <4>1, OPayload
    <3>5. CASE WriteFlag(r, l) /\ UNCHANGED pipe
      BY <3>1, <3>5, OWriteFlag
    <3> QED
      BY <2>9, <3>2, <3>3, <3>4, <3>5 DEF PipeNetwork, Network
  <2> QED
    BY <2>2, <2>3, <2>4, <2>5, <2>6, <2>7, <2>8, <2>9
<1>3. CASE Trouble
  <2>1. plan' = plan
    BY <1>3 DEF Trouble
  <2>2. PICK r \in Ranks :
         \/ CheckHealth(r) /\ UNCHANGED pipe
         \/ r \in plan.stopped /\ Stop(r) /\ UNCHANGED pipe
         \/ /\ plan.faulty
            /\ \/ \E b \in Blocks :
                    \/ ChunkTimeOut(r, b) \/ ReleaseTimeOut(r, b)
                    \/ ~IsPipe(op[r][b]) /\ TimeOut(r, b) /\ UNCHANGED pipe
               \/ \E l \in Links(r) : Break(r, l) /\ UNCHANGED pipe
    BY <1>3 DEF Trouble
  <2>3. CASE UNCHANGED pipe /\ (CheckHealth(r) \/ Stop(r))
    <3>1. UNCHANGED kernelVars /\ UNCHANGED orderVars
      BY <2>1, <2>3 DEF CheckHealth, Stop, kernelVars, orderVars, device, region, kernel, proxy,
         net, pipe
    <3> QED
      BY <3>1, OrderQuiet
  <2>4. ASSUME NEW b \in Blocks,
               \/ ChunkTimeOut(r, b) \/ ReleaseTimeOut(r, b)
               \/ ~IsPipe(op[r][b]) /\ TimeOut(r, b) /\ UNCHANGED pipe
        PROVE  OrderLayer'
    BY <2>1, <2>4, OChunkTimeOut, OReleaseTimeOut, OTimeOut
  <2>5. ASSUME NEW l \in Links(r), Break(r, l), UNCHANGED pipe PROVE OrderLayer'
    <3>1. UNCHANGED kernelVars
      BY <2>1, <2>5 DEF Break, kernelVars, device, region, kernel, pipe
    <3> QED
      BY <2>5, <3>1, OBreak
  <2> QED
    BY <2>2, <2>3, <2>4, <2>5
<1> QED
  BY <1>1, <1>2, <1>3 DEF PipeNext

\* What the proxy opened is what was launched; flags, queued writes and broken
\* queue pairs are of operations a rank has rung for, in their order; and a rank
\* whose kernel has gone past a wait has the flags of every peer.
THEOREM PipeOrderInvariant ==
    ASSUME Depth >= 2
    PROVE  PipeSpec => [](KernelLayer /\ OrderLayer)
<1>1. PipeInit => KernelLayer /\ OrderLayer
  BY KernelInit, OrderInit
<1>2. KernelLayer /\ OrderLayer /\ [PipeNext]_allVars => (KernelLayer /\ OrderLayer)'
  BY KernelNext, OrderNext
<1> QED
  BY <1>1, <1>2, PTL DEF PipeSpec

\* However late the proxy opens an operation, it reads the kind and the size that
\* this operation's kernel wrote.
THEOREM TwoShotOpensAsLaunched ==
    ASSUME Depth >= 2
    PROVE  PipeSpec => []OpensAsLaunched
<1>1. KernelLayer /\ OrderLayer => OpensAsLaunched
  <2> SUFFICES ASSUME KernelLayer, OrderLayer, NEW r \in Ranks, Posting(r)
               PROVE  LET s == Succ(last_seq[r])
                      IN  /\ cur[r] = IF IsPipe(s) THEN 1 ELSE 0
                          /\ bytes[r] = IF IsPipe(s) THEN packs(s) ELSE Grid[s]
    BY DEF OpensAsLaunched
  <2>1. OpenInv(r) /\ Succ(last_seq[r]) = last_seq[r] + 1
    BY OrderWords, OpenFacts
  <2> QED
    BY <2>1 DEF OpenInv
<1> QED
  BY <1>1, PipeOrderInvariant, PTL

-----------------------------------------------------------------------------
(* Chunk writes. *)

\* A queued chunk write is of the operation in flight, and of a chunk it released.
LEMMA QueuedIsReleased ==
    ASSUME KernelLayer, OrderLayer, NEW r \in Ranks, NEW l \in Links(r),
           NEW i \in 1 .. Len(qp[r][l]), NEW w, w = qp[r][l][i], IsPipe(w.s)
    PROVE  /\ w.s = Cur(r) /\ w.s \in Seqs /\ w.s \in Nat \ {0}
           /\ w.ph \in Phases /\ w.c \in Chunks /\ w.c < chunks(w.s)
           /\ ready[r][w.ph][w.c] = w.s /\ Filled(r, w.ph, w.c)
<1>1. w.s = Cur(r) /\ w.s \in Seqs /\ w.s \in Nat \ {0}
  BY QueuedIsRecent
<1>2. WriteInv(r, l, w)
  BY OrderWords DEF PostedInv
<1>3. w.ph \in Phases /\ w.c \in Chunks /\ w.c < chunks(w.s) /\ ready[r][w.ph][w.c] >= w.s
  BY <1>2 DEF WriteInv
<1>4. ReadyInv(r) /\ Cur(r) \in Nat
  BY KernelWords DEF RankKernel
<1>5. ready[r][w.ph][w.c] \in Nat
  BY SMTT(60), <1>3, ReadyWord
<1>6. ready[r][w.ph][w.c] <= Cur(r)
  BY SMTT(60), <1>3, <1>4 DEF ReadyInv
<1>7. ready[r][w.ph][w.c] = w.s
  BY <1>1, <1>3, <1>4, <1>5, <1>6
<1>8. Filled(r, w.ph, w.c)
  BY <1>1, <1>3, <1>4, <1>7 DEF ReadyInv
<1> QED
  BY <1>1, <1>3, <1>7, <1>8

\* It still finds the data it was posted for.
LEMMA QueuedIsFilled ==
    ASSUME KernelLayer, OrderLayer, NEW r \in Ranks, NEW l \in Links(r),
           NEW i \in 1 .. Len(qp[r][l]), NEW w, w = qp[r][l][i], IsPipe(w.s),
           NEW x \in Carries(r, l, w)
    PROVE  pipe_send[r][x] = IF w.ph = RS THEN In(w.s) ELSE Sum(w.s)
<1>1. w.s = Cur(r) /\ Filled(r, w.ph, w.c)
  BY QueuedIsReleased
<1>2. CASE w.ph = RS
  <2>1. l[1] \in Peers(r)
    BY DEF Links
  <2> QED
    BY <1>1, <1>2, <2>1 DEF Filled, Carries
<1>3. CASE w.ph # RS
  BY <1>1, <1>3 DEF Filled, Carries
<1> QED
  BY <1>2, <1>3

\* What the proxy has still to post was launched.
LEMMA UnsentIsLaunched ==
    ASSUME KernelLayer, OrderLayer, NEW r \in Ranks, NEW s \in Unsent(r)
    PROVE  Launched(r, s)
<1>1. /\ last_seq[r] \in Nat /\ epoch[r] \in Nat /\ seq[r] \in Nat /\ seq[r] \in Seqs
      /\ last_seq[r] <= upto[r] /\ upto[r] <= seq[r] /\ upto[r] \in Nat
      /\ seq[r] <= epoch[r] + 1
  BY OrderWords, KernelWords
<1>2. SeqMod \in Nat \ {0} /\ seq[r] < SeqMod
  BY <1>1, Consts DEF Seqs
<1>3. \A t \in epoch[r] .. seq[r] : t > 0 => Launched(r, t)
  BY KernelWords DEF RankKernel, RungInv
<1>4. Posted(r) \in Nat /\ Posted(r) <= seq[r] /\ Posted(r) + 1 >= epoch[r]
  <2>1. CASE Posting(r) /\ todo[r] = {}
    <3>1. Posted(r) = last_seq[r] + 1 /\ last_seq[r] + 1 <= seq[r]
      BY <2>1, OpenFacts DEF Posted
    <3>2. epoch[r] <= last_seq[r] + 2
      BY Trailing
    <3> QED
      BY <1>1, <3>1, <3>2
  <2>2. CASE ~(Posting(r) /\ todo[r] = {})
    <3>1. epoch[r] <= last_seq[r] + 1
      BY <2>2, Trailing
    <3>2. Posted(r) = last_seq[r]
      BY <2>2 DEF Posted
    <3> QED
      BY <1>1, <3>1, <3>2
  <2> QED
    BY <2>1, <2>2
<1>5. Unposted(r) = seq[r] - Posted(r)
  BY <1>1, <1>2, <1>4, ModSmall DEF Unposted
<1>6. CASE \E i \in 1 .. Unposted(r) : s = (Posted(r) + i) % SeqMod
  <2>1. PICK i \in 1 .. Unposted(r) : s = (Posted(r) + i) % SeqMod
    BY <1>6
  <2>2. s = Posted(r) + i
    <3>1. Posted(r) + i \in 0 .. SeqMod - 1
      BY <1>1, <1>2, <1>4, <1>5
    <3> QED
      BY <1>2, <2>1, <3>1, ModSmall
  <2>3. s \in epoch[r] .. seq[r] /\ s > 0
    BY <1>1, <1>4, <1>5, <2>1, <2>2
  <2> QED
    BY <1>3, <2>3
<1>7. CASE \E l \in Links(r) : \E i \in (1 + written[r][l]) .. Len(qp[r][l]) : s = qp[r][l][i].s
  <2>1. PICK l \in Links(r) : \E i \in (1 + written[r][l]) .. Len(qp[r][l]) : s = qp[r][l][i].s
    BY <1>7
  <2>2. Len(qp[r][l]) \in Nat /\ written[r][l] \in {0, 1}
    BY QueueTypes DEF OrderLayer, OrderTypes
  <2>3. PICK i \in 1 .. Len(qp[r][l]) : s = qp[r][l][i].s
    BY <2>1, <2>2
  <2>4. s \in Nat \ {0} /\ s >= epoch[r] /\ s <= seq[r]
    BY <2>3, QueuedIsRecent
  <2>5. s \in epoch[r] .. seq[r] /\ s > 0
    BY <1>1, <2>4
  <2> QED
    BY <1>3, <2>5
<1> QED
  BY <1>6, <1>7 DEF Unsent

\* "... so the NIC no longer reads the shard the next op will overwrite": every
\* queued chunk write still finds in pipe_send what it was posted for, and every
\* queued or unposted one-shot operation its send slot.
THEOREM TwoShotSendIntact ==
    ASSUME Depth >= 2
    PROVE  PipeSpec => []PipeSendIntact
<1>1. KernelLayer /\ OrderLayer => PipeSendIntact
  <2> SUFFICES ASSUME KernelLayer, OrderLayer, NEW r \in Ranks
               PROVE  /\ \A l \in Links(r) : \A i \in (1 + written[r][l]) .. Len(qp[r][l]) :
                           LET w == qp[r][l][i]
                           IN  IsPipe(w.s) => \A x \in Carries(r, l, w) :
                                 pipe_send[r][x] = IF w.ph = RS THEN In(w.s) ELSE Sum(w.s)
                      /\ \A s \in Unsent(r) : IsPipe(s) \/
                           \A b \in 1 .. Grid[s] : send[r][SlotOf(s)][b] = s
    BY DEF PipeSendIntact
  <2>1. ASSUME NEW l \in Links(r), NEW i \in (1 + written[r][l]) .. Len(qp[r][l]),
               NEW w, w = qp[r][l][i], IsPipe(w.s), NEW x \in Carries(r, l, w)
        PROVE  pipe_send[r][x] = IF w.ph = RS THEN In(w.s) ELSE Sum(w.s)
    <3>1. Len(qp[r][l]) \in Nat /\ written[r][l] \in {0, 1}
      BY QueueTypes DEF OrderLayer, OrderTypes
    <3>2. i \in 1 .. Len(qp[r][l])
      BY <3>1
    <3> QED
      BY <2>1, <3>2, QueuedIsFilled
  <2>2. \A s \in Unsent(r) : IsPipe(s) \/ \A b \in 1 .. Grid[s] : send[r][SlotOf(s)][b] = s
    BY UnsentIsLaunched DEF Launched
  <2> QED
    BY <2>1, <2>2
<1> QED
  BY <1>1, PipeOrderInvariant, PTL

\* A chunk flag is of a two-shot operation whose chunk its sender has released.
LEMMA ChunkFlag ==
    ASSUME KernelLayer, OrderLayer, NEW r \in Ranks, NEW l \in Links(r), NEW ph \in Phases,
           NEW c \in Chunks, NEW f, f = pipe_flag[l[1]][r][ph][l[2]][c]
    PROVE  /\ f \in Nat /\ f \in Seqs /\ ready[r][ph][c] \in Nat /\ ready[r][ph][c] <= Cur(r)
           /\ f <= Cur(r)
           /\ f > 0 => IsPipe(f) /\ c < chunks(f) /\ f <= ready[r][ph][c]
<1>1. f \in FlagWords(r, l)
  BY FlagTypes DEF OrderLayer
<1>2. f \in Nat /\ f \in Seqs
  BY <1>1, FlagTypes DEF OrderLayer
<1>3. ready[r][ph][c] \in Nat
  BY ReadyWord
<1>4. ready[r][ph][c] <= Cur(r) /\ Cur(r) \in Nat
  BY KernelWords DEF RankKernel, ReadyInv
<1>5. f > 0 => IsPipe(f) /\ c < chunks(f) /\ f <= ready[r][ph][c]
  BY OrderWords DEF PostedInv
<1> QED
  BY <1>2, <1>3, <1>4, <1>5

\* Once a peer has published an operation, every chunk of it was released.
LEMMA PublishedMeansReleased ==
    ASSUME KernelLayer, OrderLayer, NEW r \in Ranks, NEW l \in Links(r), NEW s,
           s = epoch[r], IsPipe(s), NEW ph \in Phases, NEW c \in Chunks, c < chunks(s)
    PROVE  ready[l[1]][ph][c] >= s
<1>1. l[1] \in Ranks /\ <<r, l[2]>> \in Links(l[1])
  BY LinkFacts
<1>2. s \in Seqs /\ s \in Nat /\ plan \in Plans /\ s > 0
  BY KernelWords, ChunkCount, PlanFacts DEF IsPipe
<1>3. c \in 0 .. chunks(s) - 1
  BY <1>2, ChunkIds
<1>4. Got(r, s)
  BY OrderWords
<1>5. pipe_flag[r][l[1]][ph][l[2]][c] >= s
  BY <1>3, <1>4 DEF Got
<1>6. PICK f : f = pipe_flag[r][l[1]][ph][l[2]][c]
  OBVIOUS
<1>7. PICK m : m = <<r, l[2]>>
  OBVIOUS
<1>8. f = pipe_flag[m[1]][l[1]][ph][m[2]][c] /\ m \in Links(l[1])
  BY <1>1, <1>6, <1>7
<1>9. /\ f \in Nat /\ ready[l[1]][ph][c] \in Nat /\ (f > 0 => f <= ready[l[1]][ph][c])
  BY <1>1, <1>8, ChunkFlag
<1> QED
  BY <1>2, <1>5, <1>6, <1>9

\* A rank has released a reduced chunk only when every peer released its own share
\* of it.
LEMMA ReducedMeansStaged ==
    ASSUME KernelLayer, OrderLayer, NEW r \in Ranks, NEW l \in Links(r), NEW c \in Chunks,
           ready[r][AG][c] = Cur(r)
    PROVE  Cur(r) <= Cur(l[1])
<1>1. l[1] \in Ranks /\ <<r, l[2]>> \in Links(l[1]) /\ RS \in Phases
  BY LinkFacts DEF Phases
<1>2. ChunkGot(r, RS, c)
  BY OrderWords DEF AwaitedInv
<1>3. PICK f : f = pipe_flag[r][l[1]][RS][l[2]][c]
  OBVIOUS
<1>4. PICK m : m = <<r, l[2]>>
  OBVIOUS
<1>5. f = pipe_flag[m[1]][l[1]][RS][m[2]][c] /\ m \in Links(l[1])
  BY <1>1, <1>3, <1>4
<1>6. f \in Nat /\ f <= Cur(l[1])
  BY <1>1, <1>5, ChunkFlag
<1>7. f >= Cur(r)
  BY <1>2, <1>3 DEF ChunkGot
<1>8. Cur(r) \in Nat /\ Cur(l[1]) \in Nat
  BY <1>1, KernelWords
<1> QED
  BY <1>6, <1>7, <1>8

\* Once a rank has released a chunk in a phase, there is none of an older operation.
LEMMA NothingUnread ==
    ASSUME KernelLayer, OrderLayer, NEW r \in Ranks, NEW l \in Links(r),
           NEW ph \in Phases, NEW c \in Chunks, ready[r][ph][c] = Cur(r),
           NEW d \in Chunks, NEW t, Unread(r, l, ph, d, t)
    PROVE  t = Cur(r)
<1>1. PICK p : p = l[1]
  BY SMTT(60)
<1>2. /\ t \in Nat /\ t <= Cur(r) /\ (t > 0 => IsPipe(t) /\ d < chunks(t))
  BY ChunkFlag DEF Unread
<1>3. p \in Ranks /\ RS \in Phases /\ AG \in Phases
  BY <1>1, LinkFacts DEF Phases
<1>4. /\ epoch[r] \in Nat /\ epoch[p] \in Nat /\ Cur(r) = epoch[r] + 1 /\ Cur(p) = epoch[p] + 1
  BY <1>3, OrderWords
<1>5. epoch[r] <= epoch[p] + 1
  BY <1>3, Abreast
<1>6. t >= Cur(p)
  BY <1>1 DEF Unread
<1>7. SUFFICES ASSUME t # Cur(r) PROVE FALSE
  OBVIOUS
<1>8. t = epoch[r] /\ t = Cur(p) /\ t > 0
  BY <1>2, <1>4, <1>5, <1>6, <1>7
<1>9. CASE ph = RS
  <2>1. ready[p][AG][d] >= t
    BY <1>1, <1>2, <1>3, <1>8, PublishedMeansReleased
  <2>2. ready[p][AG][d] \in Nat
    BY <1>3, ReadyWord
  <2>3. ready[p][AG][d] <= Cur(p)
    BY <1>3, KernelWords DEF RankKernel, ReadyInv
  <2>4. ready[p][AG][d] = t
    BY <1>2, <1>8, <2>1, <2>2, <2>3
  <2> QED
    BY <1>1, <1>9, <2>4 DEF Unread
<1>10. CASE ph = AG
  <2>1. Cur(r) <= Cur(p)
    BY <1>1, <1>10, ReducedMeansStaged
  <2> QED
    BY <1>4, <1>8, <2>1
<1> QED
  BY <1>9, <1>10 DEF Phases

\* A flag that a rank waited for is of its current operation, exactly.
LEMMA FlagIsCurrent ==
    ASSUME KernelLayer, OrderLayer, NEW r \in Ranks, NEW l \in Links(r), NEW ph \in Phases,
           NEW c \in Chunks, PipeCur(r), Cur(r) \in Seqs, c < chunks(Cur(r)),
           NEW f, f = pipe_flag[r][l[1]][ph][l[2]][c], f >= Cur(r),
           ph = RS => ready[r][AG][c] # Cur(r)
    PROVE  f = Cur(r)
<1> DEFINE p == l[1]
<1>1. PICK m : m = <<r, l[2]>>
  OBVIOUS
<1>2. p \in Ranks /\ m \in Links(p) /\ m[1] = r /\ m[2] = l[2] /\ AG \in Phases /\ RS \in Phases
  BY <1>1, LinkFacts DEF Phases
<1>3. f = pipe_flag[m[1]][p][ph][m[2]][c]
  BY <1>2
<1>4. /\ f \in Nat /\ f <= Cur(p) /\ ready[p][ph][c] \in Nat /\ ready[p][ph][c] <= Cur(p)
      /\ f > 0 => f <= ready[p][ph][c]
  BY <1>2, <1>3, ChunkFlag
<1>5. /\ epoch[r] \in Nat /\ epoch[p] \in Nat /\ Cur(r) = epoch[r] + 1 /\ Cur(p) = epoch[p] + 1
  BY <1>2, OrderWords
<1>6. epoch[p] <= epoch[r] + 1
  BY <1>2, Abreast
<1>7. SUFFICES ASSUME f # Cur(r) PROVE FALSE
  OBVIOUS
<1>8. f = Cur(p) /\ epoch[p] = Cur(r) /\ ready[p][ph][c] = Cur(p) /\ f = Cur(r) + 1
  BY <1>4, <1>5, <1>6, <1>7
<1>9. CASE ph = RS
  <2>1. IsPipe(Cur(r)) /\ Cur(r) \in Nat
    <3>1. Succ(epoch[r]) = Cur(r)
      BY <1>5, SuccFacts, KernelWords
    <3> QED
      BY <1>5, <3>1 DEF PipeCur
  <2>2. ready[m[1]][AG][c] >= Cur(r)
    BY <1>2, <1>8, <2>1, PublishedMeansReleased
  <2>3. ready[r][AG][c] \in Nat
    BY <1>2, ReadyWord
  <2>4. ready[r][AG][c] <= Cur(r)
    BY <1>2, KernelWords DEF RankKernel, ReadyInv
  <2> QED
    BY <1>2, <1>9, <2>1, <2>2, <2>3, <2>4
<1>10. CASE ph = AG
  <2>1. Cur(p) <= Cur(m[1])
    BY <1>2, <1>8, <1>10, ReducedMeansStaged
  <2> QED
    BY <1>2, <1>5, <1>8, <2>1
<1> QED
  BY <1>9, <1>10 DEF Phases

-----------------------------------------------------------------------------
(* The third layer: what it says of a state. *)

\* A chunk that a block has waited for is there, and of its own operation.
LEMMA AwaitedIsThere ==
    ASSUME KernelLayer, OrderLayer, DataLayer, NEW r \in Ranks, NEW l \in Links(r),
           NEW ph \in Phases, NEW c \in Chunks, PipeCur(r), Cur(r) \in Seqs,
           c < chunks(Cur(r)), ChunkGot(r, ph, c), ph = RS => ready[r][AG][c] # Cur(r),
           NEW j, j = (IF ph = RS THEN r ELSE l[1]),
           NEW x \in ChunkOf(Cur(r), j, c)
    PROVE  pipe_recv[r][l[1]][ph][l[2]][x - shard_start(j, Cur(r))]
             = IF ph = RS THEN In(Cur(r)) ELSE Sum(Cur(r))
<1>1. PICK p : p = l[1]
  OBVIOUS
<1>2. PICK m : m = <<r, l[2]>>
  OBVIOUS
<1>3. p \in Ranks /\ m \in Links(p) /\ m[1] = r /\ m[2] = l[2]
  BY <1>1, <1>2, LinkFacts
<1>4. PICK f : f = pipe_flag[r][p][ph][l[2]][c]
  OBVIOUS
<1>5. f >= Cur(r)
  BY <1>1, <1>4 DEF ChunkGot
<1>6. f = Cur(r)
  BY <1>1, <1>4, <1>5, FlagIsCurrent
<1>7. Cur(r) \in Nat
  BY KernelWords
<1>8. Unread(p, m, ph, c, Cur(r))
  BY <1>3, <1>4, <1>6, <1>7 DEF Unread
<1>9. LinkData(p, m)
  BY <1>3 DEF DataLayer
<1>10. Delivered(p, m, ph, Cur(r), c)
  BY <1>8, <1>9 DEF LinkData
<1>11. ShardOn(p, m, ph) = j
  BY <1>1, <1>3 DEF ShardOn
<1> QED
  BY <1>1, <1>3, <1>10, <1>11 DEF Delivered

\* While a block reduces or copies, it reads what that operation put there.
LEMMA ReadsAreOwn ==
    ASSUME KernelLayer, OrderLayer, DataLayer, NEW r \in Ranks, NEW b \in Blocks,
           NEW l \in Links(r), NEW ph \in Phases, pc[r][b] = (IF ph = RS THEN "sum" ELSE "copy"),
           NEW j, j = (IF ph = RS THEN r ELSE l[1]),
           NEW x \in Share(op[r][b], j, chunk[r][b], b)
    PROVE  pipe_recv[r][l[1]][ph][l[2]][x - shard_start(j, op[r][b])]
             = IF ph = RS THEN In(op[r][b]) ELSE Sum(op[r][b])
<1> DEFINE c == chunk[r][b]
<1>1. pc[r][b] \in {"sum", "copy"}
  OBVIOUS
<1>2. /\ Cur(r) \in Seqs /\ (PipeCur(r) <=> IsPipe(Cur(r))) /\ PlaceInv(r, b)
      /\ op[r][b] = Cur(r) /\ b \in CurBlocks(r)
  BY <1>1, ActiveBlock
<1>3. PipeCur(r)
  BY <1>1, <1>2 DEF PlaceInv, OneShotPlaces
<1>4. c < chunks(Cur(r))
  BY <1>1, <1>2, <1>3 DEF PlaceInv, LoopPlaces
<1>5. c \in Nat /\ plan \in Plans
  BY KernelWords DEF KernelLayer, KernelTypes
<1>6. c \in Chunks
  BY <1>2, <1>3, <1>4, <1>5, ChunkIds
<1>7. ChunkGot(r, ph, c)
  <2>1. AwaitedInv(r)
    BY OrderWords
  <2>2. CASE ph = RS
    BY <2>1, <2>2 DEF AwaitedInv
  <2>3. CASE ph = AG
    BY <2>1, <2>3 DEF AwaitedInv, RS, AG
  <2> QED
    BY <2>2, <2>3 DEF Phases
<1>8. ph = RS => ready[r][AG][c] # Cur(r)
  <2>1. SUFFICES ASSUME ph = RS, ready[r][AG][c] = Cur(r) PROVE FALSE
    OBVIOUS
  <2>2. b \in PipeBlocks
    BY <1>2, <1>3, KernelWords
  <2>3. Beyond(r, b, AG, c)
    BY <1>6, <2>1, <2>2, KernelWords DEF RankKernel, ReadyInv, Phases
  <2>4. pc[r][b] = "sum" /\ ~(c < c)
    BY <1>5, <2>1
  <2> QED
    BY <2>3, <2>4 DEF Beyond, RS, AG
<1>9. l[1] \in Ranks
  BY LinkFacts
<1>10. x \in ChunkOf(Cur(r), j, c)
  BY <1>2 DEF Share
<1> QED
  BY <1>2, <1>3, <1>4, <1>6, <1>7, <1>8, <1>10, AwaitedIsThere

-----------------------------------------------------------------------------
(* The third layer: its steps. *)

\* Epochs and ready words move on to the operation in flight, or stay.
Advances ==
    \A q \in Ranks :
        /\ epoch'[q] \in {epoch[q], Cur(q)}
        /\ \A ph \in Phases, c \in Chunks : ready'[q][ph][c] \in {ready[q][ph][c], Cur(q)}

\* So nothing becomes readable again without a flag.
LEMMA UnreadBefore ==
    ASSUME KernelLayer, OrderLayer, Advances, NEW r \in Ranks, NEW l \in Links(r),
           NEW ph \in Phases, NEW c \in Chunks, NEW t,
           pipe_flag'[l[1]][r][ph][l[2]][c] = pipe_flag[l[1]][r][ph][l[2]][c],
           Unread(r, l, ph, c, t)'
    PROVE  Unread(r, l, ph, c, t)
<1>1. PICK p : p = l[1]
  OBVIOUS
<1>2. p \in Ranks /\ AG \in Phases
  BY <1>1, LinkFacts DEF Phases
<1>3. t = pipe_flag[l[1]][r][ph][l[2]][c] /\ t >= Cur(p)' /\ (ph = RS => ready'[p][AG][c] # t)
  BY <1>1 DEF Unread
<1>4. t \in Nat
  BY ZenonT(30), <1>3, ChunkFlag
<1>5. /\ epoch[p] \in Nat /\ Cur(p) = epoch[p] + 1 /\ Cur(p)' = epoch'[p] + 1
      /\ epoch'[p] \in {epoch[p], Cur(p)}
  BY SMTT(60), <1>2, OrderWords DEF Advances, Cur
<1>6. t >= Cur(p)
  BY SMTT(60), <1>3, <1>4, <1>5
<1>7. ASSUME ph = RS, ready[p][AG][c] = t PROVE FALSE
  <2>1. ready[p][AG][c] <= Cur(p)
    BY <1>2, KernelWords DEF RankKernel, ReadyInv
  <2>2. t = Cur(p)
    BY <1>4, <1>5, <1>6, <1>7, <2>1
  <2>3. ready'[p][AG][c] \in {ready[p][AG][c], Cur(p)}
    BY <1>2 DEF Advances
  <2> QED
    BY ZenonT(30), <1>3, <1>7, <2>2, <2>3
<1> QED
  BY <1>1, <1>3, <1>6, <1>7 DEF Unread

\* What has left its payload is still at the head of a link, or is no chunk.
HeadKept(r, l) ==
    written'[r][l] = 1 => /\ Head(qp'[r][l]) = Head(qp[r][l])
                          /\ written[r][l] = 1 \/ ~PipeHead(r, l)

\* A link whose receive buffer and flags have not changed.
BufferKept(r, l) ==
    \A ph \in Phases :
        /\ pipe_recv'[l[1]][r][ph][l[2]] = pipe_recv[l[1]][r][ph][l[2]]
        /\ \A c \in Chunks : pipe_flag'[l[1]][r][ph][l[2]][c] = pipe_flag[l[1]][r][ph][l[2]][c]

\* What was delivered stays while the buffer does.
LEMMA DeliveredFrame ==
    ASSUME plan' = plan, NEW r \in Ranks, NEW l \in Links(r), NEW ph \in Phases,
           pipe_recv'[l[1]][r][ph][l[2]] = pipe_recv[l[1]][r][ph][l[2]],
           NEW s, NEW c, Delivered(r, l, ph, s, c)
    PROVE  Delivered(r, l, ph, s, c)'
<1>1. ShardOn(r, l, ph)' = ShardOn(r, l, ph)
  BY DEF ShardOn
<1>2. PICK j : j = ShardOn(r, l, ph)
  OBVIOUS
<1>3. shard_start(j, s)' = shard_start(j, s) /\ ChunkOf(s, j, c)' = ChunkOf(s, j, c)
  BY PlanFrame
<1> QED
  BY <1>1, <1>2, <1>3 DEF Delivered

\* The head of a link that has left its payload, if it is a chunk, is a chunk of a phase.
LEMMA HeadChunk ==
    ASSUME KernelLayer, OrderLayer, NEW r \in Ranks, NEW l \in Links(r), qp[r][l] # <<>>,
           NEW w, w = Head(qp[r][l]), IsPipe(w.s)
    PROVE  /\ w.ph \in Phases /\ w.c \in Chunks /\ w.s \in Seqs
           /\ w.s = Cur(r) /\ ready[r][w.ph][w.c] = w.s /\ 1 \in 1 .. Len(qp[r][l])
           /\ w = qp[r][l][1] /\ w.c < chunks(w.s)
<1>1. 1 \in 1 .. Len(qp[r][l]) /\ w = qp[r][l][1]
  BY AtHead DEF OrderLayer
<1> QED
  BY <1>1, QueuedIsReleased

\* The third layer is kept on a link whose buffer and flags stay ...
LEMMA LinkKept ==
    ASSUME KernelLayer, OrderLayer, plan' = plan, Advances, NEW r \in Ranks,
           NEW l \in Links(r), HeadKept(r, l), BufferKept(r, l), LinkData(r, l)
    PROVE  LinkData(r, l)'
<1>1. ASSUME written'[r][l] = 1, PipeHead(r, l)', NEW w, w = Head(qp'[r][l])
      PROVE  Delivered(r, l, w.ph, w.s, w.c)'
  <2>1. w = Head(qp[r][l]) /\ (written[r][l] = 1 \/ ~PipeHead(r, l))
    BY <1>1 DEF HeadKept
  <2>2. IsPipe(w.s) /\ written[r][l] = 1
    BY <1>1, <2>1, PlanFrame DEF PipeHead
  <2>3. Delivered(r, l, w.ph, w.s, w.c)
    BY <2>1, <2>2 DEF LinkData, PipeHead
  <2>4. w.ph \in Phases
    BY <2>1, <2>2, HeadChunk DEF OrderLayer, OrderTypes
  <2>5. PICK ph \in Phases : ph = w.ph
    BY <2>4
  <2>6. PICK s : s = w.s
    OBVIOUS
  <2>7. PICK c : c = w.c
    OBVIOUS
  <2>8. Delivered(r, l, ph, s, c)'
    BY <2>3, <2>5, <2>6, <2>7, DeliveredFrame DEF BufferKept
  <2> QED
    BY <2>5, <2>6, <2>7, <2>8
<1>2. ASSUME NEW ph \in Phases, NEW c \in Chunks, NEW t \in Seqs, Unread(r, l, ph, c, t)'
      PROVE  Delivered(r, l, ph, t, c)'
  <2>1. Unread(r, l, ph, c, t)
    BY <1>2, UnreadBefore DEF BufferKept
  <2>2. Delivered(r, l, ph, t, c)
    BY <2>1 DEF LinkData
  <2> QED
    BY <2>2, DeliveredFrame DEF BufferKept
<1> QED
  BY <1>1, <1>2 DEF LinkData

\* ... and so on all links.
LEMMA DataKept ==
    ASSUME KernelLayer, OrderLayer, DataLayer, plan' = plan, Advances,
           UNCHANGED <<pipe_recv, pipe_flag>>,
           \A q \in Ranks : \A m \in Links(q) : HeadKept(q, m)
    PROVE  DataLayer'
<1>1. ASSUME NEW q \in Ranks, NEW m \in Links(q) PROVE LinkData(q, m)'
  <2>1. BufferKept(q, m)
    BY DEF BufferKept
  <2> QED
    BY <2>1, LinkKept DEF DataLayer
<1> QED
  BY <1>1 DEF DataLayer, ReceiveTypes

\* One receive buffer is written.
LEMMA BufferSet ==
    ASSUME NEW F, DOMAIN F = Ranks, \A p \in Ranks : DOMAIN F[p] = Ranks,
           \A p, q \in Ranks : DOMAIN F[p][q] = Phases,
           \A p, q \in Ranks : \A i \in Phases : DOMAIN F[p][q][i] = Hcas,
           NEW p \in Ranks, NEW r \in Ranks, NEW ph \in Phases, NEW h \in Hcas, NEW V,
           NEW G, G = [F EXCEPT ![p][r][ph][h] = V]
    PROVE  /\ DOMAIN G = Ranks /\ (\A q \in Ranks : DOMAIN G[q] = Ranks)
           /\ \A q, o \in Ranks : DOMAIN G[q][o] = Phases
           /\ \A q, o \in Ranks : \A i \in Phases : DOMAIN G[q][o][i] = Hcas
           /\ G[p][r][ph][h] = V
           /\ \A i \in Phases \ {ph} : G[p][r][i] = F[p][r][i]
           /\ \A i \in Hcas \ {h} : G[p][r][ph][i] = F[p][r][ph][i]
           /\ \A q \in Ranks \ {p} : G[q] = F[q]
           /\ \A q \in Ranks \ {r} : G[p][q] = F[p][q]
<1> DEFINE C == [F[p][r][ph] EXCEPT ![h] = V]
           B == [F[p][r] EXCEPT ![ph] = C]
           A == [F[p] EXCEPT ![r] = B]
<1>1. G = [F EXCEPT ![p] = A]
  OBVIOUS
<1>2. DOMAIN C = Hcas /\ C[h] = V /\ \A i \in Hcas \ {h} : C[i] = F[p][r][ph][i]
  OBVIOUS
<1> HIDE DEF C
<1>3. DOMAIN B = Phases /\ B[ph] = C /\ \A i \in Phases \ {ph} : B[i] = F[p][r][i]
  OBVIOUS
<1> HIDE DEF B
<1>4. DOMAIN A = Ranks /\ A[r] = B /\ \A q \in Ranks \ {r} : A[q] = F[p][q]
  OBVIOUS
<1> HIDE DEF A
<1>5. DOMAIN G = Ranks /\ G[p] = A /\ \A q \in Ranks \ {p} : G[q] = F[q]
  BY <1>1
<1>6. \A q \in Ranks : DOMAIN G[q] = Ranks
  BY <1>4, <1>5
<1>7. ASSUME NEW q \in Ranks, NEW o \in Ranks
      PROVE  G[q][o] = F[q][o] \/ (q = p /\ o = r /\ G[q][o] = B)
  BY <1>4, <1>5
<1>8. \A q, o \in Ranks : DOMAIN G[q][o] = Phases
  BY <1>3, <1>7
<1>9. \A q, o \in Ranks : \A i \in Phases : DOMAIN G[q][o][i] = Hcas
  <2> TAKE q, o \in Ranks
  <2> TAKE i \in Phases
  <2>1. CASE G[q][o] = F[q][o]
    BY <2>1
  <2>2. CASE G[q][o] = B
    <3>1. B[i] = C \/ B[i] = F[p][r][i]
      BY <1>3
    <3> QED
      BY <1>2, <2>2, <3>1
  <2> QED
    BY <1>7, <2>1, <2>2
<1> QED
  BY <1>2, <1>3, <1>4, <1>5, <1>6, <1>8, <1>9

\* A chunk is written: what it overwrites is read by nobody, or is the same.
LEMMA DWriteChunk ==
    ASSUME KernelLayer, OrderLayer, DataLayer, plan' = plan, NEW r \in Ranks,
           NEW l \in Links(r), WriteChunk(r, l)
    PROVE  DataLayer'
<1>1. PICK w : w = Head(qp[r][l])
  OBVIOUS
<1>2. PICK s : s = w.s
  OBVIOUS
<1>3. PICK ph : ph = w.ph
  OBVIOUS
<1>4. PICK c : c = w.c
  OBVIOUS
<1>5. PICK p : p = l[1]
  OBVIOUS
<1>6. PICK h : h = l[2]
  OBVIOUS
<1>7. PICK j : j = ShardOn(r, l, ph)
  OBVIOUS
<1>8. PICK first : first = shard_start(j, s)
  OBVIOUS
<1>9. PICK C : C = ChunkOf(s, j, c)
  OBVIOUS
<1>10. PICK V : V = [x \in Packs |-> IF x + first \in C THEN pipe_send[r][x + first]
                                     ELSE pipe_recv[p][r][ph][h][x]]
  BY ZenonT(30)
<1>11. /\ pipe_recv' = [pipe_recv EXCEPT ![p][r][ph][h] = V]
       /\ C = Carries(r, l, w)
  BY ZenonT(30), <1>1, <1>2, <1>3, <1>4, <1>5, <1>6, <1>7, <1>8, <1>9, <1>10
     DEF WriteChunk, Carries, ShardOn
<1>12. /\ written' = [written EXCEPT ![r][l] = 1] /\ qp[r][l] # <<>> /\ IsPipe(s)
       /\ UNCHANGED <<qp, pipe_flag, pipe_send, ready, epoch>>
  BY ZenonT(30), <1>1, <1>2 DEF WriteChunk, Live, PipeHead, device
<1>13. /\ ph \in Phases /\ c \in Chunks /\ s \in Seqs /\ s = Cur(r) /\ ready[r][ph][c] = s
       /\ 1 \in 1 .. Len(qp[r][l]) /\ w = qp[r][l][1]
  BY <1>1, <1>2, <1>3, <1>4, <1>12, HeadChunk
<1>14. p \in Ranks /\ h \in Hcas /\ j \in Ranks /\ plan \in Plans /\ c \in Nat
  BY <1>5, <1>6, <1>7, <1>12, <1>13, LinkFacts, KernelWords, ChunkIds DEF ShardOn
<1>15. /\ ReceiveTypes'
       /\ pipe_recv'[p][r][ph][h] = V
       /\ \A i \in Phases \ {ph} : pipe_recv'[p][r][i] = pipe_recv[p][r][i]
       /\ \A i \in Hcas \ {h} : pipe_recv'[p][r][ph][i] = pipe_recv[p][r][ph][i]
       /\ \A q \in Ranks \ {p} : pipe_recv'[q] = pipe_recv[q]
       /\ \A q \in Ranks \ {r} : pipe_recv'[p][q] = pipe_recv[p][q]
  <2>1. PICK F : F = pipe_recv
    OBVIOUS
  <2>2. PICK G : G = pipe_recv'
    OBVIOUS
  <2>3. G = [F EXCEPT ![p][r][ph][h] = V]
    BY <1>11, <2>1, <2>2
  <2>4. /\ DOMAIN F = Ranks /\ (\A q \in Ranks : DOMAIN F[q] = Ranks)
        /\ (\A q, o \in Ranks : DOMAIN F[q][o] = Phases)
        /\ (\A q, o \in Ranks : \A i \in Phases : DOMAIN F[q][o][i] = Hcas)
    BY <2>1 DEF DataLayer, ReceiveTypes
  <2>5. /\ DOMAIN G = Ranks /\ (\A q \in Ranks : DOMAIN G[q] = Ranks)
        /\ (\A q, o \in Ranks : DOMAIN G[q][o] = Phases)
        /\ (\A q, o \in Ranks : \A i \in Phases : DOMAIN G[q][o][i] = Hcas)
        /\ G[p][r][ph][h] = V
        /\ \A i \in Phases \ {ph} : G[p][r][i] = F[p][r][i]
        /\ \A i \in Hcas \ {h} : G[p][r][ph][i] = F[p][r][ph][i]
        /\ \A q \in Ranks \ {p} : G[q] = F[q]
        /\ \A q \in Ranks \ {r} : G[p][q] = F[p][q]
    BY <1>13, <1>14, <2>3, <2>4, BufferSet
  <2> QED
    BY <2>1, <2>2, <2>5 DEF ReceiveTypes
<1>16. Advances
  BY <1>12 DEF Advances
<1>17. Delivered(r, l, ph, s, c)'
  <2>1. ASSUME NEW x \in ChunkOf(s, j, c)
        PROVE  pipe_recv'[p][r][ph][h][x - shard_start(j, s)]
                 = IF ph = RS THEN In(s) ELSE Sum(s)
    <3>1. x \in Packs /\ x - first \in Packs /\ first \in Nat /\ x \in Nat
      <4>1. x \in Packs /\ x - first \in Packs /\ first \in Nat
        BY <1>8, <1>12, <1>13, <1>14, <2>1, ChunkInside
      <4> QED
        BY <4>1, PlanFacts, <1>14 DEF Packs
    <3>2. (x - first) + first = x /\ x \in C
      BY <1>9, <2>1, <3>1
    <3>3. V[x - first] = pipe_send[r][x]
      BY SMTT(60), <1>10, <3>1, <3>2
    <3>4. pipe_send[r][x] = IF ph = RS THEN In(s) ELSE Sum(s)
      <4>1. 1 \in 1 .. Len(qp[r][l]) /\ w = qp[r][l][1]
        BY <1>13
      <4>2. IsPipe(w.s) /\ x \in Carries(r, l, w)
        BY <1>2, <1>11, <1>12, <3>2
      <4>3. pipe_send[r][x] = IF w.ph = RS THEN In(w.s) ELSE Sum(w.s)
        BY <4>1, <4>2, QueuedIsFilled
      <4> QED
        BY <1>2, <1>3, <4>3
    <3> QED
      BY <1>8, <1>15, <3>3, <3>4
  <2>2. /\ ShardOn(r, l, ph)' = j /\ ChunkOf(s, j, c)' = ChunkOf(s, j, c)
        /\ shard_start(j, s)' = shard_start(j, s)
    <3>1. ShardOn(r, l, ph)' = ShardOn(r, l, ph)
      BY DEF ShardOn
    <3> QED
      BY <1>7, <3>1, PlanFrame
  <2> QED
    BY <1>5, <1>6, <2>1, <2>2 DEF Delivered
<1>18. ASSUME NEW d \in Chunks, d # c, Delivered(r, l, ph, s, d)
       PROVE  Delivered(r, l, ph, s, d)'
  <2>1. ASSUME NEW x \in ChunkOf(s, j, d)
        PROVE  pipe_recv'[p][r][ph][h][x - shard_start(j, s)]
                 = IF ph = RS THEN In(s) ELSE Sum(s)
    <3>1. d \in Nat
      BY <1>12, <1>13, <1>14, ChunkIds
    <3>2. x \in Packs /\ x - first \in Packs /\ first \in Nat /\ x \in Nat
      <4>1. x \in Packs /\ x - first \in Packs /\ first \in Nat
        BY <1>8, <1>12, <1>13, <1>14, <2>1, <3>1, ChunkInside
      <4> QED
        BY <4>1, PlanFacts, <1>14 DEF Packs
    <3>3. x \notin C
      BY <1>9, <1>12, <1>13, <1>14, <1>18, <2>1, <3>1, ChunksApart
    <3>4. (x - first) + first = x
      BY <3>2
    <3>5. V[x - first] = pipe_recv[p][r][ph][h][x - first]
      BY <1>10, <3>2, <3>3, <3>4
    <3>6. pipe_recv[p][r][ph][h][x - first] = IF ph = RS THEN In(s) ELSE Sum(s)
      BY <1>5, <1>6, <1>7, <1>8, <1>18, <2>1 DEF Delivered
    <3> QED
      BY <1>8, <1>15, <3>5, <3>6
  <2>2. /\ ShardOn(r, l, ph)' = j /\ ChunkOf(s, j, d)' = ChunkOf(s, j, d)
        /\ shard_start(j, s)' = shard_start(j, s)
    <3>1. ShardOn(r, l, ph)' = ShardOn(r, l, ph)
      BY DEF ShardOn
    <3> QED
      BY <1>7, <3>1, PlanFrame
  <2> QED
    BY <1>5, <1>6, <2>1, <2>2 DEF Delivered
<1>19. LinkData(r, l)'
  <2>1. ASSUME NEW i \in Phases, NEW d \in Chunks, NEW t \in Seqs, Unread(r, l, i, d, t)'
        PROVE  Delivered(r, l, i, t, d)'
    <3>1. Unread(r, l, i, d, t)
      BY <1>12, <1>16, <2>1, UnreadBefore
    <3>2. Delivered(r, l, i, t, d)
      BY <3>1 DEF DataLayer, LinkData
    <3>3. CASE i # ph
      <4>1. pipe_recv'[l[1]][r][i][l[2]] = pipe_recv[l[1]][r][i][l[2]]
        BY <1>5, <1>15, <3>3
      <4> QED
        BY <3>2, <4>1, DeliveredFrame
    <3>4. CASE i = ph
      <4>1. t = s
        BY <1>13, <3>1, <3>4, NothingUnread
      <4> QED
        BY <1>17, <1>18, <3>2, <3>4, <4>1
    <3> QED
      BY <3>3, <3>4
  <2>2. Head(qp'[r][l]) = w
    BY <1>1, <1>12
  <2>3. Delivered(r, l, w.ph, w.s, w.c)'
    BY <1>2, <1>3, <1>4, <1>17
  <2> QED
    BY <2>1, <2>2, <2>3 DEF LinkData
<1>20. ASSUME NEW q \in Ranks, NEW m \in Links(q), ~(q = r /\ m = l) PROVE LinkData(q, m)'
  <2>1. m[1] \in Ranks /\ m[2] \in Hcas /\ (q = r => m[1] # p \/ m[2] # h)
    BY <1>5, <1>6, <1>20, LinkFacts
  <2>2. HeadKept(q, m)
    <3>1. written'[q][m] = written[q][m]
      BY <1>12, <1>20 DEF OrderLayer, OrderTypes
    <3> QED
      BY <1>12, <3>1 DEF HeadKept
  <2>3. BufferKept(q, m)
    <3>1. ASSUME NEW i \in Phases
          PROVE  pipe_recv'[m[1]][q][i][m[2]] = pipe_recv[m[1]][q][i][m[2]]
      <4>1. CASE m[1] # p
        BY <1>15, <2>1, <4>1
      <4>2. CASE m[1] = p /\ q # r
        BY <1>15, <4>2
      <4>3. CASE m[1] = p /\ q = r /\ i # ph
        BY <1>15, <4>3
      <4>4. CASE m[1] = p /\ q = r /\ i = ph /\ m[2] # h
        BY <1>15, <2>1, <4>4
      <4> QED
        BY <2>1, <4>1, <4>2, <4>3, <4>4
    <3> QED
      BY <1>12, <3>1 DEF BufferKept
  <2> QED
    BY <1>16, <2>2, <2>3, LinkKept DEF DataLayer
<1> QED
  BY <1>15, <1>19, <1>20 DEF DataLayer

\* A delivered write leaves its link with nothing half written.
LEMMA HeadsTaken ==
    ASSUME OrderLayer, NEW r \in Ranks, NEW l \in Links(r), Live(r, l), Taken(r, l)
    PROVE  /\ written'[r][l] = 0
           /\ \A q \in Ranks : \A m \in Links(q) : HeadKept(q, m)
<1>1. OrderTypes /\ qp[r][l] # <<>>
  BY DEF OrderLayer, Live
<1>2. /\ qp' = [qp EXCEPT ![r][l] = Tail(@)] /\ written' = [written EXCEPT ![r][l] = 0]
  BY DEF Taken
<1>3. /\ \A m \in Links(r) \ {l} : qp'[r][m] = qp[r][m]
      /\ \A q \in Ranks \ {r} : qp'[q] = qp[q]
  BY <1>1, <1>2, TakenTypes
<1>4. /\ written'[r][l] = 0 /\ \A m \in Links(r) \ {l} : written'[r][m] = written[r][m]
      /\ \A q \in Ranks \ {r} : written'[q] = written[q]
  BY <1>1, <1>2 DEF OrderTypes
<1>5. ASSUME NEW q \in Ranks, NEW m \in Links(q) PROVE HeadKept(q, m)
  <2>1. CASE q = r /\ m = l
    BY <1>4, <2>1 DEF HeadKept
  <2>2. CASE ~(q = r /\ m = l)
    <3>1. qp'[q][m] = qp[q][m] /\ written'[q][m] = written[q][m]
      BY <1>3, <1>4, <2>2
    <3> QED
      BY <3>1 DEF HeadKept
  <2> QED
    BY <2>1, <2>2
<1> QED
  BY <1>4, <1>5

\* A write that is posted does not come before what is queued.
LEMMA HeadsPosted ==
    ASSUME OrderLayer, NEW r, NEW l, NEW w, qp' = [qp EXCEPT ![r][l] = Append(@, w)],
           UNCHANGED written
    PROVE  \A q \in Ranks : \A m \in Links(q) : HeadKept(q, m)
<1> SUFFICES ASSUME NEW q \in Ranks, NEW m \in Links(q), written[q][m] = 1
             PROVE  Head(qp'[q][m]) = Head(qp[q][m])
  BY DEF HeadKept
<1> DEFINE W == [s : Seqs, n : Nat] \cup [s : Seqs, n : Nat, ph : Phases, c : Chunks]
<1>1. qp[q][m] \in Seq(W) /\ qp[q][m] # <<>>
  BY DEF OrderLayer, OrderTypes
<1> HIDE DEF W
<1>2. PICK o : o = qp[q][m]
  OBVIOUS
<1>3. CASE q = r /\ m = l
  <2>1. qp'[q][m] = Append(o, w)
    BY <1>2, <1>3 DEF OrderLayer, OrderTypes
  <2>2. o \in Seq(W \cup {w}) /\ Len(o) >= 1 /\ Len(o) \in Nat
    BY <1>1, <1>2
  <2>3. Append(o, w)[1] = o[1] /\ Head(o) = o[1]
    BY <2>2, AppendProperties
  <2>4. Append(o, w) \in Seq(W \cup {w}) /\ Append(o, w) # <<>>
    BY <2>2, AppendProperties
  <2>5. Head(Append(o, w)) = Append(o, w)[1]
    BY <2>4
  <2> QED
    BY <1>2, <2>1, <2>3, <2>5
<1>4. CASE ~(q = r /\ m = l)
  BY <1>4 DEF OrderLayer, OrderTypes
<1> QED
  BY <1>3, <1>4

\* A payload of the other kind is written.
LEMMA HeadsWritten ==
    ASSUME OrderLayer, NEW r \in Ranks, NEW l \in Links(r), ~PipeHead(r, l),
           written' = [written EXCEPT ![r][l] = 1], UNCHANGED qp
    PROVE  \A q \in Ranks : \A m \in Links(q) : HeadKept(q, m)
<1> SUFFICES ASSUME NEW q \in Ranks, NEW m \in Links(q) PROVE HeadKept(q, m)
  OBVIOUS
<1>1. CASE q = r /\ m = l
  BY <1>1 DEF HeadKept
<1>2. CASE ~(q = r /\ m = l)
  <2>1. written'[q][m] = written[q][m]
    BY <1>2 DEF OrderLayer, OrderTypes
  <2> QED
    BY <2>1 DEF HeadKept
<1> QED
  BY <1>1, <1>2

\* A chunk flag is written, over the chunk that came before it.
LEMMA DWriteChunkFlag ==
    ASSUME KernelLayer, OrderLayer, DataLayer, plan' = plan, NEW r \in Ranks,
           NEW l \in Links(r), WriteChunkFlag(r, l)
    PROVE  DataLayer'
<1>1. PICK w : w = Head(qp[r][l])
  OBVIOUS
<1>2. Live(r, l) /\ Taken(r, l) /\ Flagged(r, l, w) /\ IsPipe(w.s)
  BY <1>1, ChunkFlagged
<1>3. written'[r][l] = 0 /\ \A q \in Ranks : \A m \in Links(q) : HeadKept(q, m)
  BY SMTT(60), <1>2, HeadsTaken
<1>4. pipe_recv' = pipe_recv /\ epoch' = epoch /\ ready' = ready /\ written[r][l] = 1
  BY ZenonT(30) DEF WriteChunkFlag, device
<1>5. Advances
  BY <1>4 DEF Advances
<1>6. Delivered(r, l, w.ph, w.s, w.c)
  BY <1>1, <1>2, <1>4 DEF DataLayer, LinkData, PipeHead
<1>7. LinkData(r, l)'
  <2>1. ASSUME NEW ph \in Phases, NEW c \in Chunks, NEW t \in Seqs, Unread(r, l, ph, c, t)'
        PROVE  Delivered(r, l, ph, t, c)'
    <3>1. Delivered(r, l, ph, t, c)
      <4>1. CASE pipe_flag'[l[1]][r][ph][l[2]][c] = pipe_flag[l[1]][r][ph][l[2]][c]
        <5>1. Unread(r, l, ph, c, t)
          BY <1>5, <2>1, <4>1, UnreadBefore
        <5> QED
          BY <5>1 DEF DataLayer, LinkData
      <4>2. CASE pipe_flag'[l[1]][r][ph][l[2]][c] = w.s /\ ph = w.ph /\ c = w.c
        <5>1. t = w.s
          BY <2>1, <4>2 DEF Unread
        <5> QED
          BY <1>6, <4>2, <5>1
      <4> QED
        BY <1>2, <4>1, <4>2 DEF Flagged
    <3> QED
      BY SMTT(60), <1>4, <3>1, DeliveredFrame
  <2> QED
    BY <1>3, <2>1 DEF LinkData
<1>8. ASSUME NEW q \in Ranks, NEW m \in Links(q), ~(q = r /\ m = l) PROVE LinkData(q, m)'
  <2>1. ASSUME NEW ph \in Phases, NEW c \in Chunks
        PROVE  pipe_flag'[m[1]][q][ph][m[2]][c] = pipe_flag[m[1]][q][ph][m[2]][c]
    <3>1. CASE q # r
      <4>1. pipe_flag'[m[1]][q] = pipe_flag[m[1]][q]
        BY SMTT(60), <1>2, <3>1 DEF Flagged
      <4> QED
        BY SMTT(60), <4>1
    <3>2. CASE q = r
      <4>1. m \in Links(r) \ {l}
        BY <1>8, <3>2
      <4> QED
        BY <1>2, <3>2, <4>1 DEF Flagged
    <3> QED
      BY <3>1, <3>2
  <2>2. BufferKept(q, m)
    BY <1>4, <2>1 DEF BufferKept
  <2> QED
    BY <1>3, <1>5, <2>2, LinkKept DEF DataLayer
<1> QED
  BY <1>4, <1>7, <1>8 DEF DataLayer, ReceiveTypes

\* What the steps of a kernel leave alone.
KernelOnly == UNCHANGED <<pipe_recv, pipe_flag, qp, written>>

\* A block publishes its own operation, or releases a chunk of it.
LEMMA AdvanceOne ==
    ASSUME KernelLayer, NEW r \in Ranks, NEW b \in Blocks, pc[r][b] \notin {"done", "start"},
           epoch' = epoch \/ epoch' = [epoch EXCEPT ![r] = op[r][b]],
           \/ ready' = ready
           \/ \E ph \in Phases : ready' = [ready EXCEPT ![r][ph][chunk[r][b]] = op[r][b]]
    PROVE  Advances
<1>1. op[r][b] = Cur(r)
  BY ActiveBlock
<1>2. /\ epoch \in [Ranks -> Seqs] /\ ready \in [Ranks -> [Phases -> [Chunks -> Seqs]]]
  BY DEF KernelLayer, KernelTypes
<1>3. ASSUME NEW q \in Ranks PROVE epoch'[q] \in {epoch[q], Cur(q)}
  BY <1>1, <1>2
<1>4. ASSUME NEW q \in Ranks, NEW i \in Phases, NEW c \in Chunks
      PROVE  ready'[q][i][c] \in {ready[q][i][c], Cur(q)}
  <2>1. CASE ready' = ready
    BY <2>1
  <2>2. CASE \E ph \in Phases : ready' = [ready EXCEPT ![r][ph][chunk[r][b]] = op[r][b]]
    <3>1. PICK ph \in Phases : ready' = [ready EXCEPT ![r][ph][chunk[r][b]] = Cur(r)]
      BY <1>1, <2>2
    <3>2. CASE q # r
      BY <1>2, <3>1, <3>2
    <3>3. CASE q = r /\ i # ph
      BY <1>2, <3>1, <3>3
    <3>4. CASE q = r /\ i = ph
      BY <1>2, <3>1, <3>4
    <3> QED
      BY <3>2, <3>3, <3>4
  <2> QED
    BY <2>1, <2>2
<1> QED
  BY <1>3, <1>4 DEF Advances

\* Or nothing advances.
LEMMA AdvanceStill ==
    ASSUME UNCHANGED <<epoch, ready>>
    PROVE  Advances
BY DEF Advances

\* The third layer is kept by every step of a kernel.
LEMMA DKernel ==
    ASSUME KernelLayer, OrderLayer, DataLayer, plan' = plan, Advances, KernelOnly
    PROVE  DataLayer'
<1>1. \A q \in Ranks : \A m \in Links(q) : HeadKept(q, m)
  BY DEF HeadKept, KernelOnly
<1> QED
  BY <1>1, DataKept DEF KernelOnly

\* The kernel steps of both kinds.
LEMMA DOneShotBlock ==
    ASSUME KernelLayer, NEW r \in Ranks, NEW b \in Blocks, OneShotBlock(r, b)
    PROVE  Advances /\ KernelOnly
<1>1. CASE StartBlock(r, b) /\ UNCHANGED pipe
  <2>1. UNCHANGED <<epoch, ready>> /\ KernelOnly
    BY <1>1 DEF StartBlock, pipe, net, KernelOnly
  <2> QED
    BY <2>1, AdvanceStill
<1>2. CASE (Stage(r, b) \/ Ring(r, b) \/ Wait(r, b) \/ Reduce(r, b)) /\ UNCHANGED pipe
  <2>1. UNCHANGED <<epoch, ready>> /\ KernelOnly
    BY <1>2 DEF Stage, Ring, Wait, Reduce, pipe, net, device, KernelOnly
  <2> QED
    BY <2>1, AdvanceStill
<1>3. CASE Finish(r, b) /\ UNCHANGED pipe
  <2>1. /\ pc[r][b] = "tail" /\ ready' = ready /\ KernelOnly
        /\ epoch' = epoch \/ epoch' = [epoch EXCEPT ![r] = op[r][b]]
    BY <1>3 DEF Finish, pipe, net, KernelOnly
  <2>2. pc[r][b] \notin {"done", "start"}
    BY <2>1
  <2> QED
    BY <2>1, <2>2, AdvanceOne
<1>4. CASE Arrive(r, b) /\ UNCHANGED <<restOfPipe, cur, posted, piece>>
  <2>1. UNCHANGED <<epoch, ready>> /\ KernelOnly
    BY <1>4 DEF Arrive, restOfPipe, net, KernelOnly
  <2> QED
    BY <2>1, AdvanceStill
<1> QED
  BY <1>1, <1>2, <1>3, <1>4 DEF OneShotBlock

\* The same for the blocks of a two-shot kernel.
LEMMA DPipeBlock ==
    ASSUME KernelLayer, NEW r \in Ranks, NEW b \in Blocks, PipeBlock(r, b)
    PROVE  Advances /\ KernelOnly
<1>1. CASE PipeStart(r, b) \/ WaitChunk(r, b) \/ CopyChunk(r, b) \/ PipeTail(r, b) \/ Doorbell(r)
  <2>1. UNCHANGED <<epoch, ready>> /\ KernelOnly
    BY <1>1 DEF PipeStart, WaitChunk, CopyChunk, PipeTail, Doorbell, pipe, net, device, KernelOnly
  <2> QED
    BY <2>1, AdvanceStill
<1>2. ASSUME NEW ph \in Phases, _arrive(r, b, ph)
      PROVE  \/ ready' = ready
             \/ \E i \in Phases : ready' = [ready EXCEPT ![r][i][chunk[r][b]] = op[r][b]]
  BY <1>2 DEF _arrive
<1>3. CASE StageChunk(r, b) \/ ReduceChunk(r, b)
  <2>1. /\ epoch' = epoch /\ KernelOnly /\ pc[r][b] \in {"stage", "sum"}
        /\ _arrive(r, b, RS) \/ _arrive(r, b, AG)
    BY <1>3 DEF StageChunk, ReduceChunk, device, net, KernelOnly
  <2>2. pc[r][b] \notin {"done", "start"} /\ RS \in Phases /\ AG \in Phases
    BY <2>1 DEF Phases
  <2> QED
    BY <1>2, <2>1, <2>2, AdvanceOne
<1>4. CASE SkipChunk(r, b)
  <2>1. /\ epoch' = epoch /\ KernelOnly /\ pc[r][b] \in {"rs", "ag"}
        /\ _arrive(r, b, AG) \/ ready' = ready
    BY <1>4 DEF SkipChunk, device, net, KernelOnly
  <2>2. pc[r][b] \notin {"done", "start"} /\ AG \in Phases
    BY <2>1 DEF Phases
  <2> QED
    BY <1>2, <2>1, <2>2, AdvanceOne
<1>5. CASE Publish(r, b)
  <2>1. /\ pc[r][b] = "release" /\ ready' = ready /\ KernelOnly
        /\ epoch' = [epoch EXCEPT ![r] = op[r][b]]
    BY <1>5 DEF Publish, pipe, net, KernelOnly
  <2>2. pc[r][b] \notin {"done", "start"}
    BY <2>1
  <2> QED
    BY <2>1, <2>2, AdvanceOne
<1> QED
  BY <1>1, <1>3, <1>4, <1>5 DEF PipeBlock

-----------------------------------------------------------------------------
(* The third layer as a whole. *)

\* It holds at the start, when every flag is clear, ...
LEMMA DataInit == PipeInit => DataLayer
<1> SUFFICES ASSUME PipeInit PROVE DataLayer
  OBVIOUS
<1>1. ReceiveTypes
  BY DEF PipeInit, ReceiveTypes
<1>2. ASSUME NEW r \in Ranks, NEW l \in Links(r) PROVE LinkData(r, l)
  <2>1. l[1] \in Ranks /\ l[2] \in Hcas
    BY LinkFacts
  <2>2. written[r][l] = 0 /\ epoch[l[1]] = 0
    BY <2>1 DEF PipeInit, Init
  <2>3. \A ph \in Phases, c \in Chunks : pipe_flag[l[1]][r][ph][l[2]][c] = 0
    BY <2>1 DEF PipeInit
  <2>4. Cur(l[1]) = 1
    BY <2>2 DEF Cur
  <2>5. \A ph \in Phases, c \in Chunks : \A t \in Seqs : ~Unread(r, l, ph, c, t)
    BY <2>3, <2>4 DEF Unread
  <2> QED
    BY <2>2, <2>5 DEF LinkData
<1> QED
  BY <1>1, <1>2 DEF DataLayer

\* ... and every step keeps it.
LEMMA DataNext ==
    ASSUME KernelLayer, OrderLayer, DataLayer, [PipeNext]_allVars
    PROVE  DataLayer'
<1>1. CASE UNCHANGED allVars
  <2>1. plan' = plan /\ UNCHANGED <<epoch, ready>> /\ KernelOnly
    BY <1>1 DEF allVars, vars, device, net, pipe, KernelOnly
  <2> QED
    BY <2>1, AdvanceStill, DKernel
<1>2. CASE Progress
  <2>1. plan' = plan
    BY <1>2 DEF Progress
  <2>2. PICK r \in Ranks :
         \/ /\ epoch[r] < plan.ops /\ poison[r] = 0
            /\ \/ PipeLaunch(r)
               \/ ~IsPipe(Succ(epoch[r])) /\ Launch(r) /\ UNCHANGED pipe
         \/ \E b \in Blocks : OneShotBlock(r, b) \/ PipeBlock(r, b)
         \/ OneShotProxy(r) \/ PipeProxy(r)
         \/ Start(r) /\ UNCHANGED pipe
         \/ \E l \in Links(r) : PipeNetwork(r, l)
    BY <1>2 DEF Progress
  <2>3. CASE PipeLaunch(r) \/ ((Launch(r) \/ Start(r)) /\ UNCHANGED pipe)
    <3>1. UNCHANGED <<epoch, ready>> /\ KernelOnly
      BY <2>3 DEF PipeLaunch, Launch, Start, device, net, pipe, KernelOnly
    <3> QED
      BY <2>1, <3>1, AdvanceStill, DKernel
  <2>4. ASSUME NEW b \in Blocks, OneShotBlock(r, b) \/ PipeBlock(r, b) PROVE DataLayer'
    BY <2>1, <2>4, DOneShotBlock, DPipeBlock, DKernel
  <2>5. CASE OneShotProxy(r) \/ PipeProxy(r)
    <3>1. UNCHANGED <<epoch, ready, pipe_recv, pipe_flag, written>>
      <4>1. CASE OneShotProxy(r)
        BY <4>1 DEF OneShotProxy, Poll, EndOp, IdlePoll, Leave, Post, Throttle, device, net, pipe,
           restOfPipe
      <4>2. CASE PipeProxy(r)
        BY <4>2 DEF PipeProxy, TakeChunk, PostChunk, GiveUp, Release, vars, device, net, pipe
      <4> QED
        BY <2>5, <4>1, <4>2
    <3>2. \/ qp' = qp
          \/ \E l, w : qp' = [qp EXCEPT ![r][l] = Append(@, w)]
      <4>1. CASE OneShotProxy(r)
        <5>1. CASE Post(r)
          BY <5>1 DEF Post
        <5>2. CASE ~Post(r)
          BY <4>1, <5>2 DEF OneShotProxy, Poll, EndOp, IdlePoll, Leave, Throttle, net
        <5> QED
          BY <5>1, <5>2
      <4>2. CASE PipeProxy(r)
        <5>1. CASE PostChunk(r)
          BY <5>1 DEF PostChunk
        <5>2. CASE ~PostChunk(r)
          BY <4>2, <5>2 DEF PipeProxy, TakeChunk, GiveUp, Release, vars, net
        <5> QED
          BY <5>1, <5>2
      <4> QED
        BY <2>5, <4>1, <4>2
    <3>3. \A q \in Ranks : \A m \in Links(q) : HeadKept(q, m)
      <4>1. CASE qp' = qp
        BY <3>1, <4>1 DEF HeadKept
      <4>2. CASE \E l, w : qp' = [qp EXCEPT ![r][l] = Append(@, w)]
        BY <3>1, <4>2, HeadsPosted
      <4> QED
        BY <3>2, <4>1, <4>2
    <3> QED
      BY <2>1, <3>1, <3>3, AdvanceStill, DataKept
  <2>6. ASSUME NEW l \in Links(r), PipeNetwork(r, l) PROVE DataLayer'
    <3>1. CASE WriteChunk(r, l)
      BY <2>1, <3>1, DWriteChunk
    <3>2. CASE WriteChunkFlag(r, l)
      BY <2>1, <3>2, DWriteChunkFlag
    <3>3. CASE WritePayload(r, l) /\ ~PipeHead(r, l) /\ UNCHANGED pipe
      <4>1. /\ UNCHANGED <<epoch, ready, pipe_recv, pipe_flag, qp>>
            /\ written' = [written EXCEPT ![r][l] = 1]
        BY ZenonT(30), <3>3 DEF WritePayload, device, pipe
      <4> QED
        BY ZenonT(30), <2>1, <3>3, <4>1, HeadsWritten, AdvanceStill, DataKept
    <3>4. CASE WriteFlag(r, l) /\ UNCHANGED pipe
      <4>1. UNCHANGED <<epoch, ready, pipe_recv, pipe_flag>> /\ Live(r, l) /\ Taken(r, l)
        BY ZenonT(30), <3>4 DEF WriteFlag, device, pipe, Taken
      <4> QED
        BY SMTT(60), <2>1, <4>1, HeadsTaken, AdvanceStill, DataKept
    <3> QED
      BY <2>6, <3>1, <3>2, <3>3, <3>4 DEF PipeNetwork, Network
  <2> QED
    BY <2>2, <2>3, <2>4, <2>5, <2>6
<1>3. CASE Trouble
  <2>1. plan' = plan
    BY <1>3 DEF Trouble
  <2>2. PICK r \in Ranks :
         \/ CheckHealth(r) /\ UNCHANGED pipe
         \/ r \in plan.stopped /\ Stop(r) /\ UNCHANGED pipe
         \/ /\ plan.faulty
            /\ \/ \E b \in Blocks :
                    \/ ChunkTimeOut(r, b) \/ ReleaseTimeOut(r, b)
                    \/ ~IsPipe(op[r][b]) /\ TimeOut(r, b) /\ UNCHANGED pipe
               \/ \E l \in Links(r) : Break(r, l) /\ UNCHANGED pipe
    BY <1>3 DEF Trouble
  <2>3. CASE (CheckHealth(r) \/ Stop(r) \/ \E l \in Links(r) : Break(r, l)) /\ UNCHANGED pipe
    <3>1. UNCHANGED <<epoch, ready>> /\ KernelOnly
      BY <2>3 DEF CheckHealth, Stop, Break, device, net, pipe, KernelOnly
    <3> QED
      BY <2>1, <3>1, AdvanceStill, DKernel
  <2>4. ASSUME NEW b \in Blocks,
               \/ ChunkTimeOut(r, b) \/ ReleaseTimeOut(r, b)
               \/ ~IsPipe(op[r][b]) /\ TimeOut(r, b) /\ UNCHANGED pipe
        PROVE  DataLayer'
    <3>1. UNCHANGED <<epoch, ready>> /\ KernelOnly
      BY <2>4 DEF ChunkTimeOut, ReleaseTimeOut, TimeOut, net, pipe, KernelOnly
    <3> QED
      BY <2>1, <3>1, AdvanceStill, DKernel
  <2> QED
    BY <2>2, <2>3, <2>4
<1> QED
  BY <1>1, <1>2, <1>3 DEF PipeNext

\* "The two-shot buffers need one copy only": every chunk that a block reduces or
\* copies is what the peer put there for the same operation, on every HCA.
THEOREM TwoShotReadsOwnOp ==
    ASSUME Depth >= 2
    PROVE  PipeSpec => []PipeReadsOwnOp
<1>1. PipeInit => KernelLayer /\ OrderLayer /\ DataLayer
  BY KernelInit, OrderInit, DataInit
<1>2. KernelLayer /\ OrderLayer /\ DataLayer /\ [PipeNext]_allVars
        => (KernelLayer /\ OrderLayer /\ DataLayer)'
  BY KernelNext, OrderNext, DataNext
<1>3. KernelLayer /\ OrderLayer /\ DataLayer => PipeReadsOwnOp
  <2> SUFFICES ASSUME KernelLayer, OrderLayer, DataLayer, NEW r \in Ranks, NEW b \in Blocks,
                      NEW l \in Links(r)
               PROVE  /\ pc[r][b] = "sum" =>
                           \A x \in Share(op[r][b], r, chunk[r][b], b) :
                              pipe_recv[r][l[1]][RS][l[2]][x - shard_start(r, op[r][b])]
                                = In(op[r][b])
                      /\ pc[r][b] = "copy" =>
                           \A x \in Share(op[r][b], l[1], chunk[r][b], b) :
                              pipe_recv[r][l[1]][AG][l[2]][x - shard_start(l[1], op[r][b])]
                                = Sum(op[r][b])
    BY DEF PipeReadsOwnOp
  <2>1. RS \in Phases /\ AG \in Phases /\ RS # AG
    BY DEF Phases, RS, AG
  <2>2. ASSUME pc[r][b] = "sum", NEW x \in Share(op[r][b], r, chunk[r][b], b)
        PROVE  pipe_recv[r][l[1]][RS][l[2]][x - shard_start(r, op[r][b])] = In(op[r][b])
    BY <2>1, <2>2, ReadsAreOwn
  <2>3. ASSUME pc[r][b] = "copy", NEW x \in Share(op[r][b], l[1], chunk[r][b], b)
        PROVE  pipe_recv[r][l[1]][AG][l[2]][x - shard_start(l[1], op[r][b])] = Sum(op[r][b])
    BY <2>1, <2>3, ReadsAreOwn
  <2> QED
    BY <2>2, <2>3
<1> QED
  BY <1>1, <1>2, <1>3, PTL DEF PipeSpec

=============================================================================
