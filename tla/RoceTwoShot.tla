---------------------------- MODULE RoceTwoShot ----------------------------
(***************************************************************************)
(* The pipelined two-shot all-reduce, on the runtime of RoceOneShot: the   *)
(* same epoch, doorbell, proxy and queue pairs carry operations of both    *)
(* kinds.  Rank j reduces shard j of a message.  Every kernel stages its   *)
(* peers' shards chunk by chunk in pipe_send, reduces the chunks of its    *)
(* own shard as they arrive, leaves the sums in pipe_send, and gathers the *)
(* peers' sums; the proxy posts a chunk when its ready word turns.         *)
(*                                                                         *)
(* A pack of pipe_send or pipe_recv holds In(s), an input of operation s,  *)
(* Sum(s), a reduced value of it, or Zero.  Only pipe_send is indexed by   *)
(* the packs of the message: two messages of different lengths have        *)
(* different shards there.                                                 *)
(***************************************************************************)
EXTENDS RoceOneShot

CONSTANTS
    Plans,      \* what the engine may run, and what may go wrong meanwhile
    MaxPacks,   \* pipe_bytes / 16
    ChunkMin,   \* pipe_chunk_bytes / 16
    MaxChunks   \* ROCE_MAX_CHUNKS

\* A plan gives the packs of operation s, 0 for a one-shot one, and the fixed
\* grid pipe_blocks of the others.  It bounds the operations launched and what
\* may go wrong: spins that expire and queue pairs that break; the ranks whose
\* proxy is stopped.
PlanType == [packs : [Seqs -> 0 .. MaxPacks], pipe_blocks : Blocks, ops : Seqs,
             faulty : BOOLEAN, stopped : SUBSET Ranks]

ASSUME PipeAssumption ==
    /\ MaxPacks \in Nat /\ ChunkMin \in Nat \ {0} /\ MaxChunks \in Nat \ {0}
    /\ \A p \in Plans : p \in PlanType /\ p.packs[0] = 0

VARIABLES
    plan,       \* the collectives the engine runs, the same on every rank
    kind,       \* kind of the operation in a slot's record
    pipe_send, pipe_recv, pipe_flag, ready, pipe_done,  \* pinned region
    arrived, pipe_tail,        \* device counters
    chunk,                     \* the chunk a block is at
    cur, posted, piece         \* proxy: the open operation's kind, the chunks
                               \* posted, and the links one is to be posted to

pipe  == <<kind, pipe_send, pipe_recv, pipe_flag, ready, pipe_done, arrived,
           pipe_tail, chunk, cur, posted, piece>>
allVars == <<vars, plan, pipe>>

RS == 0   \* reduce-scatter
AG == 1   \* all-gather
Phases == {RS, AG}
Packs  == 0 .. MaxPacks - 1
Chunks == 0 .. MaxChunks - 1

Zero   == <<"zero", 0>>
In(s)  == <<"in", s>>
Sum(s) == <<"sum", s>>

packs(s)  == plan.packs[s]
IsPipe(s) == packs(s) > 0
CeilDiv(a, b) == (a + b - 1) \div b

\* The geometry of operation s, computed alike by kernel and proxy.
shard_start(j, s) == (j * packs(s)) \div World
WidestShard(s) == CeilDiv(packs(s), World)
chunk_packs(s) ==
    LET least == CeilDiv(WidestShard(s), MaxChunks)
    IN  IF least > ChunkMin THEN least ELSE ChunkMin
chunks(s) == CeilDiv(WidestShard(s), chunk_packs(s))

\* The packs of chunk c of shard j; none when the shard is short.
ChunkOf(s, j, c) ==
    {x \in Packs : /\ shard_start(j, s) + c * chunk_packs(s) <= x
                   /\ x < shard_start(j, s) + (c + 1) * chunk_packs(s)
                   /\ x < shard_start(j + 1, s)}

\* Block b's packs of it: the grid strides over the chunk.
Share(s, j, c, b) ==
    {x \in ChunkOf(s, j, c) :
        (x - shard_start(j, s) - c * chunk_packs(s)) % plan.pipe_blocks = b - 1}

NoPiece == [ph |-> RS, c |-> 0, left |-> {}]

PipeInit ==
    /\ Init
    /\ plan \in Plans
    /\ kind = [r \in Ranks |-> [k \in SlotIds |-> 0]]
    /\ pipe_send = [r \in Ranks |-> [x \in Packs |-> Zero]]
    /\ pipe_recv = [r \in Ranks |-> [p \in Ranks |-> [ph \in Phases |->
                       [h \in Hcas |-> [x \in Packs |-> Zero]]]]]
    /\ pipe_flag = [r \in Ranks |-> [p \in Ranks |-> [ph \in Phases |->
                       [h \in Hcas |-> [c \in Chunks |-> 0]]]]]
    /\ ready = [r \in Ranks |-> [ph \in Phases |-> [c \in Chunks |-> 0]]]
    /\ pipe_done = [r \in Ranks |-> 0]
    /\ arrived = [r \in Ranks |-> [ph \in Phases |-> [c \in Chunks |-> 0]]]
    /\ pipe_tail = [r \in Ranks |-> 0]
    /\ chunk = [r \in Ranks |-> [b \in Blocks |-> 0]]
    /\ cur = [r \in Ranks |-> 0]
    /\ posted = [r \in Ranks |-> [ph \in Phases |-> 0]]
    /\ piece = [r \in Ranks |-> NoPiece]

-----------------------------------------------------------------------------
(* The kernel. *)

\* A launch of a two-shot kernel.
PipeLaunch(r) ==
    /\ host[r] = "ok" /\ Finished(r) /\ IsPipe(Succ(epoch[r]))
    /\ pc' = [pc EXCEPT ![r] = [b \in Blocks |->
                  IF b <= plan.pipe_blocks THEN "start" ELSE "done"]]
    /\ stored' = [stored EXCEPT ![r] = {}]
    /\ UNCHANGED <<device, region, op, proxy, net, host, pipe>>

\* As StartBlock, except that a poisoned kernel still arrives at the tail.
PipeStart(r, b) ==
    /\ pc[r][b] = "start"
    /\ IsPipe(Succ(epoch[r]))
    /\ op' = [op EXCEPT ![r][b] = Succ(epoch[r])]
    /\ Goto(r, b, IF poison[r] # 0 THEN "tail" ELSE "stage")
    /\ chunk' = [chunk EXCEPT ![r][b] = 0]
    /\ UNCHANGED <<device, region, stored, proxy, net, host, kind, pipe_send,
                   pipe_recv, pipe_flag, ready, pipe_done, arrived, pipe_tail,
                   cur, posted, piece>>

\* Block 0 writes the record and rings before anything is staged.
Doorbell(r) ==
    /\ pc[r][1] = "stage" /\ IsPipe(op[r][1]) /\ seq[r] # op[r][1]
    /\ LET s == op[r][1]
       IN  /\ nbytes' = [nbytes EXCEPT ![r][SlotOf(s)] = packs(s)]
           /\ kind' = [kind EXCEPT ![r][SlotOf(s)] = 1]
           /\ seq' = [seq EXCEPT ![r] = s]
    /\ UNCHANGED <<device, error, send, recv, flag, kernel, proxy, net, host,
                   pipe_send, pipe_recv, pipe_flag, ready, pipe_done, arrived,
                   pipe_tail, chunk, cur, posted, piece>>

\* The last block to arrive at a chunk releases it to the proxy, unless a
\* wait has failed.
_arrive(r, b, ph) ==
    LET c == chunk[r][b]
    IN  /\ arrived' = [arrived EXCEPT ![r][ph][c] = (@ + 1) % plan.pipe_blocks]
        /\ ready' = IF /\ (arrived[r][ph][c] + 1) % plan.pipe_blocks = 0
                       /\ NoError(r)
                    THEN [ready EXCEPT ![r][ph][c] = op[r][b]] ELSE ready

\* To the next chunk of a loop that begins at `here', or past the loop.
NextChunk(r, b, here, past) ==
    LET more == chunk[r][b] + 1 < chunks(op[r][b])
    IN  /\ chunk' = [chunk EXCEPT ![r][b] = IF more THEN @ + 1 ELSE 0]
        /\ Goto(r, b, IF more THEN here ELSE past)

\* Stage the block's share of a chunk of every peer's shard, and arrive.
StageChunk(r, b) ==
    /\ pc[r][b] = "stage" /\ IsPipe(op[r][b])
    /\ b = 1 => seq[r] = op[r][b]
    /\ LET s == op[r][b]
           mine == UNION {Share(s, j, chunk[r][b], b) : j \in Peers(r)}
       IN  pipe_send' = [pipe_send EXCEPT ![r] =
                            [x \in Packs |-> IF x \in mine THEN In(s) ELSE @[x]]]
    /\ _arrive(r, b, RS)
    /\ NextChunk(r, b, "stage", "rs")
    /\ UNCHANGED <<device, region, op, stored, proxy, net, host, kind,
                   pipe_recv, pipe_flag, pipe_done, pipe_tail, cur, posted,
                   piece>>

PhaseOf(r, b) == IF pc[r][b] \in {"rs", "sum"} THEN RS ELSE AG

\* Mutant of ChunkArrived: only the first HCA's flags are waited for.
ChunkArrivedOnFirst(r, b) ==
    \A p \in Peers(r) :
        pipe_flag[r][p][PhaseOf(r, b)][0][chunk[r][b]] = op[r][b]

\* Every stripe flag of the block's chunk has arrived.
ChunkArrived(r, b) ==
    \A l \in Links(r) :
        pipe_flag[r][l[1]][PhaseOf(r, b)][l[2]][chunk[r][b]] = op[r][b]

\* _wait_chunk on a healthy runtime: go on to reduce or to copy the chunk.
WaitChunk(r, b) ==
    /\ pc[r][b] \in {"rs", "ag"} /\ poison[r] = 0
    /\ ChunkArrived(r, b)
    /\ Goto(r, b, IF pc[r][b] = "rs" THEN "sum" ELSE "copy")
    /\ UNCHANGED <<device, region, op, stored, proxy, net, host, pipe>>

\* Its spin expires: the error word, then the poison word.
ChunkTimeOut(r, b) ==
    /\ MayTimeOut
    /\ pc[r][b] \in {"rs", "ag"} /\ poison[r] = 0
    /\ ~ChunkArrived(r, b)
    /\ Report(r, op[r][b])
    /\ poison' = [poison EXCEPT ![r] = op[r][b]]
    /\ UNCHANGED <<epoch, stage, tail, seq, nbytes, send, recv, flag, kernel,
                   proxy, net, host, pipe>>

\* On a poisoned runtime a chunk is neither waited for nor reduced nor copied,
\* but the arrival after a reduction is unconditional.
SkipChunk(r, b) ==
    /\ pc[r][b] \in {"rs", "ag"} /\ poison[r] # 0
    /\ IF pc[r][b] = "rs"
       THEN _arrive(r, b, AG) /\ NextChunk(r, b, "rs", "ag")
       ELSE NextChunk(r, b, "ag", "tail") /\ UNCHANGED <<arrived, ready>>
    /\ UNCHANGED <<device, region, op, stored, proxy, net, host, kind,
                   pipe_send, pipe_recv, pipe_flag, pipe_done, pipe_tail, cur,
                   posted, piece>>

\* Sum the block's share of a chunk of the own shard into the output and into
\* pipe_send, and arrive.
ReduceChunk(r, b) ==
    /\ pc[r][b] = "sum"
    /\ LET s == op[r][b]
           mine == Share(s, r, chunk[r][b], b)
       IN  /\ pipe_send' = [pipe_send EXCEPT ![r] =
                  [x \in Packs |-> IF x \in mine THEN Sum(s) ELSE @[x]]]
           /\ stored' = [stored EXCEPT ![r] = @ \cup mine]
    /\ _arrive(r, b, AG)
    /\ NextChunk(r, b, "rs", "ag")
    /\ UNCHANGED <<device, region, op, proxy, net, host, kind, pipe_recv,
                   pipe_flag, pipe_done, pipe_tail, cur, posted, piece>>

\* Copy the block's share of a chunk of every peer's reduced shard.
CopyChunk(r, b) ==
    /\ pc[r][b] = "copy"
    /\ stored' = [stored EXCEPT ![r] = @ \cup
                     UNION {Share(op[r][b], j, chunk[r][b], b) : j \in Peers(r)}]
    /\ NextChunk(r, b, "ag", "tail")
    /\ UNCHANGED <<device, region, op, proxy, net, host, kind, pipe_send,
                   pipe_recv, pipe_flag, ready, pipe_done, arrived, pipe_tail,
                   cur, posted, piece>>

\* Arrive at the tail; the last block goes on to publish, unless a wait failed.
PipeTail(r, b) ==
    /\ pc[r][b] = "tail" /\ IsPipe(op[r][b])
    /\ pipe_tail' = [pipe_tail EXCEPT ![r] = (@ + 1) % plan.pipe_blocks]
    /\ Goto(r, b, IF (pipe_tail[r] + 1) % plan.pipe_blocks = 0 /\ NoError(r)
                  THEN "release" ELSE "done")
    /\ UNCHANGED <<device, region, op, stored, proxy, net, host, kind,
                   pipe_send, pipe_recv, pipe_flag, ready, pipe_done, arrived,
                   chunk, cur, posted, piece>>

\* It publishes the epoch once the proxy has released pipe_send ...
Publish(r, b) ==
    /\ pc[r][b] = "release"
    /\ pipe_done[r] = op[r][b]
    /\ epoch' = [epoch EXCEPT ![r] = op[r][b]]
    /\ Goto(r, b, "done")
    /\ UNCHANGED <<poison, stage, tail, region, op, stored, proxy, net, host,
                   pipe>>

\* ... or the spin on pipe_done expires.
ReleaseTimeOut(r, b) ==
    /\ MayTimeOut
    /\ pc[r][b] = "release" /\ pipe_done[r] # op[r][b]
    /\ Report(r, op[r][b])
    /\ poison' = [poison EXCEPT ![r] = op[r][b]]
    /\ Goto(r, b, "done")
    /\ UNCHANGED <<epoch, stage, tail, seq, nbytes, send, recv, flag, op,
                   stored, proxy, net, host, pipe>>

-----------------------------------------------------------------------------
(* The proxy: proxy_main's dispatch and run_pipe_op. *)

\* A step that opens an operation reads its kind from the slot's record.
Dispatch(r) ==
    IF Posting(r)' /\ todo'[r] = Links(r)
    THEN /\ cur' = [cur EXCEPT ![r] = kind[r][SlotOf(Succ(last_seq'[r]))]]
         /\ posted' = [posted EXCEPT ![r] = [ph \in Phases |-> 0]]
         /\ piece' = [piece EXCEPT ![r] = NoPiece]
    ELSE UNCHANGED <<cur, posted, piece>>

PipeOpen(r) == Posting(r) /\ cur[r] = 1 /\ todo[r] = Links(r)

\* A poll finds the next chunk of a phase ready.
TakeChunk(r, ph) ==
    /\ PipeOpen(r) /\ piece[r].left = {}
    /\ LET s == Succ(last_seq[r])
           c == posted[r][ph]
       IN  /\ c < chunks(s) /\ ready[r][ph][c] = s
           /\ piece' = [piece EXCEPT ![r] = [ph |-> ph, c |-> c, left |-> Links(r)]]
    /\ UNCHANGED <<vars, kind, pipe_send, pipe_recv, pipe_flag, ready,
                   pipe_done, arrived, pipe_tail, chunk, cur, posted>>

\* post_pipe_chunk for one peer and HCA.
PostChunk(r) ==
    /\ PipeOpen(r)
    /\ \E l \in piece[r].left :
         /\ \A m \in piece[r].left :
               l[1] < m[1] \/ (l[1] = m[1] /\ l[2] <= m[2])
         /\ HasRoom(r, l)
         /\ qp' = [qp EXCEPT ![r][l] =
                      Append(@, [s |-> Succ(last_seq[r]), n |-> bytes[r],
                                 ph |-> piece[r].ph, c |-> piece[r].c])]
         /\ piece' = [piece EXCEPT ![r].left = @ \ {l}]
         /\ posted' = IF piece[r].left = {l}
                      THEN [posted EXCEPT ![r][piece[r].ph] = @ + 1] ELSE posted
    /\ UNCHANGED <<device, region, kernel, proxy, written, broken, host, kind,
                   pipe_send, pipe_recv, pipe_flag, ready, pipe_done, arrived,
                   pipe_tail, chunk, cur>>

\* The polls of run_pipe_op that find no chunk, and its release loop, give up
\* on a failed write, on the kernel's error word and on a stop; a full send
\* queue on the first and the last.
GiveUp(r) ==
    /\ PipeOpen(r)
    /\ \/ DrainFails(r, Links(r)) \/ thread[r] = "stopping"
       \/ error[r] # 0 /\ piece[r].left = {}
    /\ Fail(r)
    /\ UNCHANGED <<device, region, kernel, last_seq, bytes, stops, net, host,
                   pipe>>

\* Mutant of NoneOutstanding: completions are not waited for.
PostedIsEnough(r) == TRUE

NoneOutstanding(r) == \A l \in Links(r) : qp[r][l] = <<>>

\* Every chunk was posted and no write is outstanding: release pipe_send.
Release(r) ==
    /\ PipeOpen(r) /\ piece[r].left = {}
    /\ LET s == Succ(last_seq[r])
       IN  /\ \A ph \in Phases : posted[r][ph] = chunks(s)
           /\ pipe_done' = [pipe_done EXCEPT ![r] = s]
    /\ NoneOutstanding(r)
    /\ todo' = [todo EXCEPT ![r] = {}]
    /\ UNCHANGED <<device, region, kernel, thread, failed, last_seq, upto, bytes,
                   stops, net, host, kind, pipe_send, pipe_recv, pipe_flag,
                   ready, arrived, pipe_tail, chunk, cur, posted, piece>>

-----------------------------------------------------------------------------
(* The queue pairs. *)

PipeHead(r, l) == IsPipe(Head(qp[r][l]).s)

\* The packs a queued chunk write reads from pipe_send.
Carries(r, l, w) == ChunkOf(w.s, IF w.ph = RS THEN l[1] ELSE r, w.c)

WriteChunk(r, l) ==
    /\ Live(r, l) /\ written[r][l] = 0 /\ PipeHead(r, l)
    /\ LET w == Head(qp[r][l])
           first == shard_start(IF w.ph = RS THEN l[1] ELSE r, w.s)
       IN  pipe_recv' = [pipe_recv EXCEPT ![l[1]][r][w.ph][l[2]] =
               [x \in Packs |-> IF x + first \in Carries(r, l, w)
                                THEN pipe_send[r][x + first] ELSE @[x]]]
    /\ written' = [written EXCEPT ![r][l] = 1]
    /\ UNCHANGED <<device, region, kernel, proxy, qp, broken, host, kind,
                   pipe_send, pipe_flag, ready, pipe_done, arrived, pipe_tail,
                   chunk, cur, posted, piece>>

WriteChunkFlag(r, l) ==
    /\ Live(r, l) /\ written[r][l] = 1 /\ PipeHead(r, l)
    /\ LET w == Head(qp[r][l])
       IN  pipe_flag' = [pipe_flag EXCEPT ![l[1]][r][w.ph][l[2]][w.c] = w.s]
    /\ qp' = [qp EXCEPT ![r][l] = Tail(@)]
    /\ written' = [written EXCEPT ![r][l] = 0]
    /\ UNCHANGED <<device, region, kernel, proxy, broken, host, kind,
                   pipe_send, pipe_recv, ready, pipe_done, arrived, pipe_tail,
                   chunk, cur, posted, piece>>

-----------------------------------------------------------------------------
(* The operations of RoceOneShot, on the shared runtime. *)

\* Mutant of OneShotRecord: the one-shot kernel leaves the kind word alone.
KeepKind(r, b) == UNCHANGED kind

\* The last block of a one-shot kernel to stage also resets the kind word.
OneShotRecord(r, b) ==
    kind' = IF IsLast(stage, r, Grid[op[r][b]])
            THEN [kind EXCEPT ![r][SlotOf(op[r][b])] = 0] ELSE kind

restOfPipe == <<pipe_send, pipe_recv, pipe_flag, ready, pipe_done, arrived,
                pipe_tail, chunk>>

OneShotBlock(r, b) ==
    \/ /\ ~IsPipe(Succ(epoch[r])) /\ StartBlock(r, b)
       /\ UNCHANGED pipe
    \/ /\ ~IsPipe(op[r][b])
       /\ \/ Stage(r, b) \/ Ring(r, b) \/ Wait(r, b) \/ Reduce(r, b)
          \/ Finish(r, b)
       /\ UNCHANGED pipe
    \/ /\ ~IsPipe(op[r][b]) /\ Arrive(r, b)
       /\ OneShotRecord(r, b)
       /\ UNCHANGED <<restOfPipe, cur, posted, piece>>

OneShotProxy(r) ==
    \/ (Poll(r) \/ EndOp(r)) /\ Dispatch(r) /\ UNCHANGED <<kind, restOfPipe>>
    \/ (IdlePoll(r) \/ Leave(r)) /\ UNCHANGED pipe
    \/ cur[r] = 0 /\ (Post(r) \/ Throttle(r)) /\ UNCHANGED pipe

PipeBlock(r, b) ==
    \/ PipeStart(r, b) \/ StageChunk(r, b) \/ WaitChunk(r, b)
    \/ SkipChunk(r, b) \/ ReduceChunk(r, b) \/ CopyChunk(r, b)
    \/ PipeTail(r, b) \/ Publish(r, b)
    \/ b = 1 /\ Doorbell(r)

PipeProxy(r) ==
    \/ \E ph \in Phases : TakeChunk(r, ph)
    \/ PostChunk(r) \/ GiveUp(r) \/ Release(r)

PipeNetwork(r, l) ==
    \/ WriteChunk(r, l) \/ WriteChunkFlag(r, l)
    \/ Live(r, l) /\ ~PipeHead(r, l) /\ Network(r, l) /\ UNCHANGED pipe

\* What ranks and queue pairs do unless something goes wrong.  A bound: a
\* poisoned rank is not launched again, for that kernel would do nothing.
Progress ==
    /\ UNCHANGED plan
    /\ \E r \in Ranks :
         \/ /\ epoch[r] < plan.ops /\ poison[r] = 0
            /\ \/ PipeLaunch(r)
               \/ ~IsPipe(Succ(epoch[r])) /\ Launch(r) /\ UNCHANGED pipe
         \/ \E b \in Blocks : OneShotBlock(r, b) \/ PipeBlock(r, b)
         \/ OneShotProxy(r) \/ PipeProxy(r)
         \/ Start(r) /\ UNCHANGED pipe
         \/ \E l \in Links(r) : PipeNetwork(r, l)

\* Spins that expire, queue pairs that break, a stop, a failed health check.
Trouble ==
    /\ UNCHANGED plan
    /\ \E r \in Ranks :
         \/ CheckHealth(r) /\ UNCHANGED pipe
         \/ r \in plan.stopped /\ Stop(r) /\ UNCHANGED pipe
         \/ /\ plan.faulty
            /\ \/ \E b \in Blocks :
                    \/ ChunkTimeOut(r, b) \/ ReleaseTimeOut(r, b)
                    \/ ~IsPipe(op[r][b]) /\ TimeOut(r, b) /\ UNCHANGED pipe
               \/ \E l \in Links(r) : Break(r, l) /\ UNCHANGED pipe

PipeNext == Progress \/ Trouble

PipeSpec == PipeInit /\ [][PipeNext]_allVars

\* While some thread, block or queue pair can go on, one of them does.
FairPipeSpec == PipeSpec /\ WF_allVars(Progress)

-----------------------------------------------------------------------------
(* Properties. *)

\* "The two-shot buffers need one copy only": while a block reduces its share
\* of a chunk, every stripe of it is the peer's input of the same operation,
\* and while it copies one, the peer's finished sums of the same operation,
\* never a staged input, an unreduced chunk or the next operation's.
PipeReadsOwnOp ==
    \A r \in Ranks, b \in Blocks : \A l \in Links(r) :
        LET s == op[r][b]
            Reads(j, ph) ==
                {pipe_recv[r][l[1]][ph][l[2]][x - shard_start(j, s)] :
                    x \in Share(s, j, chunk[r][b], b)}
        IN  /\ pc[r][b] = "sum"  => Reads(r, RS) \subseteq {In(s)}
            /\ pc[r][b] = "copy" => Reads(l[1], AG) \subseteq {Sum(s)}

\* "... so the NIC no longer reads the shard the next op will overwrite": every
\* queued chunk write still finds in pipe_send the data it was posted for,
\* also when the next message is split into other shards, a wait failed, a
\* queue pair broke or the proxy was restarted and posts the chunks again; and
\* the one-shot operations among them find their send slots intact.
PipeSendIntact ==
    \A r \in Ranks :
        /\ \A l \in Links(r) : \A i \in (1 + written[r][l]) .. Len(qp[r][l]) :
             LET w == qp[r][l][i]
             IN  IsPipe(w.s) => \A x \in Carries(r, l, w) :
                   pipe_send[r][x] = IF w.ph = RS THEN In(w.s) ELSE Sum(w.s)
        /\ \A s \in Unsent(r) : IsPipe(s) \/
             \A b \in 1 .. Grid[s] : send[r][SlotOf(s)][b] = s

\* The doorbell holds only the newest sequence and a slot's record is reused by
\* every second operation: however late the proxy opens an operation, it reads
\* the kind and the size that this operation's kernel wrote.
OpensAsLaunched ==
    \A r \in Ranks : Posting(r) =>
        LET s == Succ(last_seq[r])
        IN  /\ cur[r] = IF IsPipe(s) THEN 1 ELSE 0
            /\ bytes[r] = IF IsPipe(s) THEN packs(s) ELSE Grid[s]

\* A rank whose error word is clear after a two-shot kernel has stored every
\* pack of the result: a chunk skipped anywhere is visible to check_health.
HealthyIsWhole ==
    \A r \in Ranks : Finished(r) /\ error[r] = 0 /\ IsPipe(epoch[r]) =>
        stored[r] = 0 .. packs(epoch[r]) - 1

\* Neither kind of collective is lost on the shared doorbell: without faults
\* every rank completes every operation of its plan, although its proxy is
\* stopped inside a two-shot operation and runs it again from its first chunk;
\* unless check_health raised before a proxy that gave up was restarted.
PipeComplete ==
    <>(\/ plan.faulty
       \/ \A r \in Ranks : epoch[r] = plan.ops
       \/ \E r \in Ranks : host[r] = "raised")

=============================================================================
