---------------------------- MODULE RoceOneShot ----------------------------
(***************************************************************************)
(* The one-shot all-reduce of b12x.comm.roce_twoshot.  On every rank a GPU *)
(* kernel of several blocks stages its input in a send slot and rings a    *)
(* doorbell; a proxy thread posts the slot to every peer, striped over the *)
(* HCAs, each stripe followed by its flag on the same queue pair; the      *)
(* peers' kernels wait for the flags, reduce, and publish the next epoch.  *)
(*                                                                         *)
(* Data is abstracted to the sequence number of the operation it belongs   *)
(* to: cell b of a slot is the part of the payload that block b stages and *)
(* reduces, and a stripe carries a share of every cell.  SeqMod stands for *)
(* 2^32, so the wrap of the sequence is part of every behaviour.           *)
(***************************************************************************)
EXTENDS Integers, Sequences, FiniteSets

CONSTANTS
    World,       \* ranks
    HcaCount,    \* HCAs of a rank
    Grid,        \* Grid[s]: blocks of operation s, a power of two
    MaxBlocks,   \* the largest grid
    SeqMod,      \* modulus of the sequence counter (2^32)
    Guard,       \* SEQUENCE_GUARD
    Depth,       \* ROCE_SEND_DEPTH / 4
    MayTimeOut,  \* whether a bounded spin may expire
    MaxFaults,   \* bound: queue pairs that break
    MaxStops     \* bound: MaxStops[r], stop requests of rank r's proxy

Ranks  == 0 .. World - 1
Hcas   == 0 .. HcaCount - 1
Blocks == 1 .. MaxBlocks
Seqs   == 0 .. SeqMod - 1
Slots  == 2
SlotIds == 0 .. Slots - 1

ASSUME RoceAssumption ==
    /\ World \in Nat \ {0, 1} /\ HcaCount \in Nat \ {0}
    /\ MaxBlocks \in Nat \ {0}
    /\ SeqMod \in Nat \ {0, 1} /\ SeqMod % Slots = 0
    /\ Grid \in [Seqs -> Blocks]
    /\ Guard \in Nat /\ Depth \in Nat \ {0}
    /\ MayTimeOut \in BOOLEAN /\ MaxFaults \in Nat
    /\ MaxStops \in [Ranks -> Nat]

ASSUME GridAssumption == \A s \in Seqs : MaxBlocks % Grid[s] = 0

VARIABLES
    \* device memory of a rank
    epoch, poison, stage, tail,
    \* its pinned region: the doorbell record, the slots and the flags
    seq, nbytes, error, send, recv, flag,
    \* blocks of the kernel in flight, and the blocks that stored a result
    pc, op, stored,
    \* the proxy thread
    thread, failed, last_seq, upto, bytes, todo, stops,
    \* the network: posted writes, whether the head's payload was written
    qp, written, broken,
    \* the host
    host

device == <<epoch, poison, stage, tail>>
region == <<seq, nbytes, error, send, recv, flag>>
kernel == <<pc, op, stored>>
proxy  == <<thread, failed, last_seq, upto, bytes, todo, stops>>
net    == <<qp, written, broken>>
vars   == <<device, region, kernel, proxy, net, host>>

\* Mutant of SlotOf: no double buffering.
OneSlot(s) == 0

SlotOf(s)   == s % Slots
Succ(s)     == (s + 1) % SeqMod
Peers(r)    == Ranks \ {r}
Links(r)    == Peers(r) \X Hcas
Sentinel    == SeqMod   \* the error and peer words of an exhausted sequence

\* Mutant of CounterClass: one counter for every grid size.
OneCounter(g) == 1

\* Stage and tail counters are kept apart by grid size; a counter is kept
\* modulo the largest grid, which every grid size and 2^32 divide or are
\* divided by.
CounterClass(g) == g

Init ==
    /\ epoch  = [r \in Ranks |-> 0]
    /\ poison = [r \in Ranks |-> 0]
    /\ stage  = [r \in Ranks |-> [g \in Blocks |-> 0]]
    /\ tail   = [r \in Ranks |-> [g \in Blocks |-> 0]]
    /\ seq    = [r \in Ranks |-> 0]
    /\ nbytes = [r \in Ranks |-> [k \in SlotIds |-> 0]]
    /\ error  = [r \in Ranks |-> 0]
    /\ send   = [r \in Ranks |-> [k \in SlotIds |-> [b \in Blocks |-> 0]]]
    /\ recv   = [r \in Ranks |-> [p \in Ranks |-> [k \in SlotIds |->
                    [h \in Hcas |-> [b \in Blocks |-> 0]]]]]
    /\ flag   = [r \in Ranks |-> [p \in Ranks |-> [k \in SlotIds |->
                    [h \in Hcas |-> 0]]]]
    /\ pc     = [r \in Ranks |-> [b \in Blocks |-> "done"]]
    /\ op     = [r \in Ranks |-> [b \in Blocks |-> 0]]
    /\ stored = [r \in Ranks |-> {}]
    /\ thread = [r \in Ranks |-> "running"]
    /\ failed = [r \in Ranks |-> 0]
    /\ last_seq = [r \in Ranks |-> 0]
    /\ upto   = [r \in Ranks |-> 0]
    /\ bytes  = [r \in Ranks |-> 0]
    /\ todo   = [r \in Ranks |-> {}]
    /\ stops  = [r \in Ranks |-> 0]
    /\ qp      = [r \in Ranks |-> [l \in Links(r) |-> <<>>]]
    /\ written = [r \in Ranks |-> [l \in Links(r) |-> 0]]
    /\ broken  = [r \in Ranks |-> {}]
    /\ host    = [r \in Ranks |-> "ok"]

-----------------------------------------------------------------------------
(* The host: all_reduce, graph replays, check_health and close. *)

Finished(r) == \A b \in Blocks : pc[r][b] = "done"

\* A launch, eager or replayed: collectives run one after the other in stream
\* order, and a replay launches without a health check.
Launch(r) ==
    /\ host[r] = "ok"
    /\ Finished(r)
    /\ LET g == Grid[Succ(epoch[r])]
       IN  pc' = [pc EXCEPT ![r] =
                    [b \in Blocks |-> IF b <= g THEN "start" ELSE "done"]]
    /\ stored' = [stored EXCEPT ![r] = {}]
    /\ UNCHANGED <<device, region, op, proxy, net, host>>

\* check_health raises: a dead proxy, an exhausted sequence, a failed wait.
CheckHealth(r) ==
    /\ host[r] = "ok"
    /\ failed[r] = 1 \/ seq[r] >= Guard \/ error[r] # 0
    /\ host' = [host EXCEPT ![r] = "raised"]
    /\ UNCHANGED <<device, region, kernel, proxy, net>>

-----------------------------------------------------------------------------
(* The kernel, one block at a time. *)

Goto(r, b, where) == pc' = [pc EXCEPT ![r][b] = where]

\* Read the epoch; a sequence that wrapped to 0 poisons the runtime, and a
\* poisoned runtime does nothing.
StartBlock(r, b) ==
    /\ pc[r][b] = "start"
    /\ LET s == Succ(epoch[r])
       IN  /\ op' = [op EXCEPT ![r][b] = s]
           /\ IF s = 0
              THEN /\ error'  = [error EXCEPT ![r] = Sentinel]
                   /\ poison' = [poison EXCEPT ![r] = Sentinel]
              ELSE UNCHANGED <<error, poison>>
           /\ Goto(r, b, IF s = 0 \/ poison[r] # 0 THEN "done" ELSE "stage")
    /\ UNCHANGED <<epoch, stage, tail, seq, nbytes, send, recv, flag, stored,
                   proxy, net, host>>

\* Copy the block's share of the input to the send slot.
Stage(r, b) ==
    /\ pc[r][b] = "stage"
    /\ send' = [send EXCEPT ![r][SlotOf(op[r][b])][b] = op[r][b]]
    /\ Goto(r, b, "arrive")
    /\ UNCHANGED <<device, seq, nbytes, error, recv, flag, op, stored, proxy,
                   net, host>>

\* counter' is one more, and the arrival is the last of a grid of g blocks.
Arrival(counter, r, g) ==
    [counter EXCEPT ![r][CounterClass(g)] = (@ + 1) % MaxBlocks]

IsLast(counter, r, g) == (counter[r][CounterClass(g)] + 1) % g = 0

\* Arrive at the stage counter; the last block records the payload size ...
Arrive(r, b) ==
    /\ pc[r][b] = "arrive"
    /\ LET s == op[r][b]
           g == Grid[s]
       IN  /\ stage' = Arrival(stage, r, g)
           /\ IF IsLast(stage, r, g)
              THEN /\ nbytes' = [nbytes EXCEPT ![r][SlotOf(s)] = g]
                   /\ Goto(r, b, "ring")
              ELSE /\ Goto(r, b, "wait")
                   /\ UNCHANGED nbytes
    /\ UNCHANGED <<epoch, poison, tail, seq, error, send, recv, flag, op,
                   stored, proxy, net, host>>

\* ... and rings the doorbell.
Ring(r, b) ==
    /\ pc[r][b] = "ring"
    /\ seq' = [seq EXCEPT ![r] = op[r][b]]
    /\ Goto(r, b, "wait")
    /\ UNCHANGED <<device, nbytes, error, send, recv, flag, op, stored, proxy,
                   net, host>>

FlagSet(r, b, l) == flag[r][l[1]][SlotOf(op[r][b])][l[2]] = op[r][b]

\* Mutant of Arrived: a flag of an earlier operation will do.
ArrivedEarlier(r, b) ==
    \A l \in Links(r) : flag[r][l[1]][SlotOf(op[r][b])][l[2]] # 0

\* Mutant of Arrived: only the first HCA's flags are waited for.
ArrivedOnFirst(r, b) == \A l \in Links(r) : l[2] = 0 => FlagSet(r, b, l)

\* Mutant of Arrived: one peer is enough.
ArrivedFromAny(r, b) == \E l \in Links(r) : FlagSet(r, b, l)

Arrived(r, b) == \A l \in Links(r) : FlagSet(r, b, l)

\* Every flag of every peer arrived; then the poison word is read again.
Wait(r, b) ==
    /\ pc[r][b] = "wait"
    /\ Arrived(r, b)
    /\ Goto(r, b, IF poison[r] = 0 THEN "reduce" ELSE "tail")
    /\ UNCHANGED <<device, region, op, stored, proxy, net, host>>

\* Mutant of Report: the host's error word is not written.
ReportNothing(r, s) == UNCHANGED error

Report(r, s) == error' = [error EXCEPT ![r] = s]

\* A bounded spin expires: the error word, then the poison word.
TimeOut(r, b) ==
    /\ MayTimeOut
    /\ pc[r][b] = "wait"
    /\ ~Arrived(r, b)
    /\ Report(r, op[r][b])
    /\ poison' = [poison EXCEPT ![r] = op[r][b]]
    /\ Goto(r, b, "tail")
    /\ UNCHANGED <<epoch, stage, tail, seq, nbytes, send, recv, flag, op,
                   stored, proxy, net, host>>

\* Sum the block's cells in rank order and store them.
Reduce(r, b) ==
    /\ pc[r][b] = "reduce"
    /\ stored' = [stored EXCEPT ![r] = @ \cup {b}]
    /\ Goto(r, b, "tail")
    /\ UNCHANGED <<device, region, op, proxy, net, host>>

\* Mutant of NoError: the error word is not looked at.
AnyError(r) == TRUE

NoError(r) == error[r] = 0

\* Arrive at the tail counter; the last block publishes the epoch, unless a
\* wait of this sequence failed.
Finish(r, b) ==
    /\ pc[r][b] = "tail"
    /\ LET g == Grid[op[r][b]]
       IN  /\ tail' = Arrival(tail, r, g)
           /\ epoch' = IF IsLast(tail, r, g) /\ NoError(r)
                       THEN [epoch EXCEPT ![r] = op[r][b]] ELSE epoch
    /\ Goto(r, b, "done")
    /\ UNCHANGED <<poison, stage, region, op, stored, proxy, net, host>>

-----------------------------------------------------------------------------
(* The proxy thread: proxy_main, post_op, post_striped and drain_cq. *)

Posting(r) == upto[r] # last_seq[r]

\* The error paths of proxy_main; a thread that was not asked to stop leaves
\* running set.
Fail(r) ==
    /\ failed' = [failed EXCEPT ![r] = 1]
    /\ thread' = [thread EXCEPT ![r] =
                     IF @ = "stopping" THEN "stopped" ELSE "dead"]
    /\ upto' = [upto EXCEPT ![r] = last_seq[r]]
    /\ todo' = [todo EXCEPT ![r] = {}]

\* drain_cq finds a failed write on one of these links.  Completions polled
\* are not counted apart: a writer that waits for room in a send queue polls
\* that queue itself, so what it waits for is the number of writes in flight.
DrainFails(r, links) == links \cap broken[r] # {}

OnHca(r, h) == {l \in Links(r) : l[2] = h}

\* How many operations rang the doorbell since the last one posted.
Pending(r) == (seq[r] - last_seq[r]) % SeqMod

\* Open the next operation of the catch-up loop, reading its slot's size.
OpenOp(r, s) ==
    /\ bytes' = [bytes EXCEPT ![r] = nbytes[r][SlotOf(s)]]
    /\ todo'  = [todo EXCEPT ![r] = Links(r)]

\* Mutant of Poll: only the newest doorbell is posted.
PollNewest(r) ==
    /\ thread[r] = "running" /\ ~Posting(r)
    /\ seq[r] # last_seq[r]
    /\ upto' = [upto EXCEPT ![r] = seq[r]]
    /\ last_seq' = [last_seq EXCEPT ![r] = (seq[r] - 1) % SeqMod]
    /\ OpenOp(r, seq[r])
    /\ UNCHANGED <<device, region, kernel, thread, failed, stops, net, host>>

\* A poll that finds a new doorbell.
Poll(r) ==
    /\ thread[r] = "running" /\ ~Posting(r)
    /\ seq[r] # last_seq[r]
    /\ IF Pending(r) > Slots
       THEN Fail(r) /\ UNCHANGED bytes
       ELSE /\ upto' = [upto EXCEPT ![r] = seq[r]]
            /\ OpenOp(r, Succ(last_seq[r]))
            /\ UNCHANGED <<thread, failed>>
    /\ UNCHANGED <<device, region, kernel, last_seq, stops, net, host>>

\* A poll that finds none, on a turn that polls the completions.
IdlePoll(r) ==
    /\ thread[r] = "running" /\ ~Posting(r)
    /\ seq[r] = last_seq[r]
    /\ DrainFails(r, Links(r))
    /\ Fail(r)
    /\ UNCHANGED <<device, region, kernel, last_seq, bytes, stops, net, host>>

\* Peers in order, and for each peer the HCAs in order.
NextLink(r) ==
    CHOOSE l \in todo[r] : \A m \in todo[r] :
        l[1] < m[1] \/ (l[1] = m[1] /\ l[2] <= m[2])

\* Mutant of HasRoom: the send queue's depth is not looked at.
AlwaysRoom(r, l) == TRUE

HasRoom(r, l) == Len(qp[r][l]) < Depth

\* post_striped for one peer and HCA: the stripe and its flag, as one entry.
Post(r) ==
    /\ Posting(r) /\ todo[r] # {}
    /\ LET l == NextLink(r)
       IN  /\ HasRoom(r, l)
           /\ qp' = [qp EXCEPT ![r][l] =
                        Append(@, [s |-> Succ(last_seq[r]), n |-> bytes[r]])]
           /\ todo' = [todo EXCEPT ![r] = @ \ {l}]
    /\ UNCHANGED <<device, region, kernel, thread, failed, last_seq, upto, bytes,
                   stops, written, broken, host>>

\* post_striped on a full send queue: give up on a failed write or a stop.
Throttle(r) ==
    /\ Posting(r) /\ todo[r] # {}
    /\ LET l == NextLink(r)
       IN  /\ ~HasRoom(r, l)
           /\ DrainFails(r, OnHca(r, l[2])) \/ thread[r] = "stopping"
    /\ Fail(r)
    /\ UNCHANGED <<device, region, kernel, last_seq, bytes, stops, net, host>>

\* The end of post_op: poll every completion queue, then count the operation
\* as posted and take the next missed one.
EndOp(r) ==
    /\ Posting(r) /\ todo[r] = {}
    /\ IF DrainFails(r, Links(r))
       THEN Fail(r) /\ UNCHANGED <<last_seq, bytes>>
       ELSE LET s == Succ(last_seq[r])
            IN  /\ last_seq' = [last_seq EXCEPT ![r] = s]
                /\ IF s # upto[r] THEN OpenOp(r, Succ(s))
                   ELSE UNCHANGED <<bytes, todo>>
                /\ UNCHANGED <<thread, failed, upto>>
    /\ UNCHANGED <<device, region, kernel, stops, net, host>>

\* roce_stop: clear running and join; a live thread leaves at the top of its
\* loop.
Stop(r) ==
    /\ thread[r] \in {"running", "dead"} /\ stops[r] < MaxStops[r]
    /\ thread' = [thread EXCEPT ![r] =
                     IF @ = "running" THEN "stopping" ELSE "stopped"]
    /\ stops' = [stops EXCEPT ![r] = @ + 1]
    /\ UNCHANGED <<device, region, kernel, failed, last_seq, upto, bytes, todo,
                   net, host>>

Leave(r) ==
    /\ thread[r] = "stopping" /\ ~Posting(r)
    /\ thread' = [thread EXCEPT ![r] = "stopped"]
    /\ UNCHANGED <<device, region, kernel, failed, last_seq, upto, bytes, todo,
                   stops, net, host>>

\* roce_start after a stop: failed is cleared, last_seq is kept.
Start(r) ==
    /\ thread[r] = "stopped"
    /\ thread' = [thread EXCEPT ![r] = "running"]
    /\ failed' = [failed EXCEPT ![r] = 0]
    /\ UNCHANGED <<device, region, kernel, last_seq, upto, bytes, todo,
                   stops, net, host>>

-----------------------------------------------------------------------------
(* The reliable queue pairs: a link delivers its writes in order. *)

Live(r, l) == qp[r][l] # <<>> /\ l \notin broken[r]

\* The payload stripe: the HCA reads the send slot and fills the peer's.
WritePayload(r, l) ==
    /\ Live(r, l) /\ written[r][l] = 0
    /\ LET w == Head(qp[r][l])
           k == SlotOf(w.s)
       IN  recv' = [recv EXCEPT ![l[1]][r][k][l[2]] =
                      [b \in Blocks |-> IF b <= w.n THEN send[r][k][b] ELSE @[b]]]
    /\ written' = [written EXCEPT ![r][l] = 1]
    /\ UNCHANGED <<device, seq, nbytes, error, send, flag, kernel, proxy, qp,
                   broken, host>>

\* The flag write that follows it.
WriteFlag(r, l) ==
    /\ Live(r, l) /\ written[r][l] = 1
    /\ LET w == Head(qp[r][l])
       IN  flag' = [flag EXCEPT ![l[1]][r][SlotOf(w.s)][l[2]] = w.s]
    /\ qp' = [qp EXCEPT ![r][l] = Tail(@)]
    /\ written' = [written EXCEPT ![r][l] = 0]
    /\ UNCHANGED <<device, seq, nbytes, error, send, recv, kernel, proxy,
                   broken, host>>

\* A queue pair breaks with writes in flight: nothing more is delivered.
Break(r, l) ==
    /\ Live(r, l)
    /\ Cardinality(UNION {{r2} \X broken[r2] : r2 \in Ranks}) < MaxFaults
    /\ broken' = [broken EXCEPT ![r] = @ \cup {l}]
    /\ UNCHANGED <<device, region, kernel, proxy, qp, written, host>>

-----------------------------------------------------------------------------

Block(r, b) ==
    \/ StartBlock(r, b) \/ Stage(r, b) \/ Arrive(r, b) \/ Ring(r, b)
    \/ Wait(r, b) \/ Reduce(r, b) \/ Finish(r, b)

Proxy(r) ==
    \/ Poll(r) \/ IdlePoll(r) \/ Post(r) \/ Throttle(r) \/ EndOp(r)
    \/ Leave(r)

Network(r, l) == WritePayload(r, l) \/ WriteFlag(r, l)

Next ==
    \E r \in Ranks :
        \/ Launch(r) \/ CheckHealth(r)
        \/ \E b \in Blocks : Block(r, b) \/ TimeOut(r, b)
        \/ Proxy(r) \/ Stop(r) \/ Start(r)
        \/ \E l \in Links(r) : Network(r, l) \/ Break(r, l)

Spec == Init /\ [][Next]_vars

-----------------------------------------------------------------------------
(* Properties. *)

\* The words of the region, the counters and the queues keep their types, and
\* no send queue holds more than its share.
TypeOK ==
    /\ epoch \in [Ranks -> Seqs] /\ seq \in [Ranks -> Seqs]
    /\ poison \in [Ranks -> Seqs \cup {Sentinel}]
    /\ error \in [Ranks -> Seqs \cup {Sentinel}]
    /\ stage \in [Ranks -> [Blocks -> 0 .. MaxBlocks - 1]]
    /\ tail \in [Ranks -> [Blocks -> 0 .. MaxBlocks - 1]]
    /\ nbytes \in [Ranks -> [SlotIds -> 0 .. MaxBlocks]]
    /\ send \in [Ranks -> [SlotIds -> [Blocks -> Seqs]]]
    /\ recv \in [Ranks -> [Ranks -> [SlotIds -> [Hcas -> [Blocks -> Seqs]]]]]
    /\ flag \in [Ranks -> [Ranks -> [SlotIds -> [Hcas -> Seqs]]]]
    /\ pc \in [Ranks -> [Blocks -> {"done", "start", "stage", "arrive", "ring",
                                    "wait", "reduce", "tail"}]]
    /\ op \in [Ranks -> [Blocks -> Seqs]]
    /\ stored \in [Ranks -> SUBSET Blocks]
    /\ thread \in [Ranks -> {"running", "stopping", "stopped", "dead"}]
    /\ failed \in [Ranks -> {0, 1}]
    /\ last_seq \in [Ranks -> Seqs] /\ upto \in [Ranks -> Seqs]
    /\ bytes \in [Ranks -> 0 .. MaxBlocks]
    /\ \A r \in Ranks :
         /\ todo[r] \subseteq Links(r) /\ broken[r] \subseteq Links(r)
         /\ \A l \in Links(r) :
              /\ qp[r][l] \in Seq([s : Seqs, n : 0 .. MaxBlocks])
              /\ Len(qp[r][l]) <= Depth
              /\ written[r][l] \in 0 .. Len(qp[r][l])
    /\ host \in [Ranks -> {"ok", "raised"}]

\* "The GPU waits for every stripe flag before consuming the receive slot": for
\* as long as a block reduces, every stripe of its cell from every peer is the
\* payload of its own operation, neither late nor already overwritten.
ReducesOwnOp ==
    \A r \in Ranks, b \in Blocks : pc[r][b] = "reduce" =>
        \A l \in Links(r) : recv[r][l[1]][SlotOf(op[r][b])][l[2]][b] = op[r][b]

\* The last operation posted to every peer.
Posted(r) ==
    IF Posting(r) /\ todo[r] = {} THEN Succ(last_seq[r]) ELSE last_seq[r]

Unposted(r) == (seq[r] - Posted(r)) % SeqMod

\* The operations the proxy has still to post, or whose payload is queued.
Unsent(r) ==
    {(Posted(r) + i) % SeqMod : i \in 1 .. Unposted(r)}
      \cup UNION {{qp[r][l][i].s : i \in (1 + written[r][l]) .. Len(qp[r][l])} :
                     l \in Links(r)}

\* "At most ROCE_SLOTS doorbells are pending and every send slot is intact":
\* until the last HCA has read it, a send slot holds the whole payload of the
\* operation the proxy posts from it, however late the proxy runs, as long as
\* its queue pairs work.
SendSlotIntact ==
    \A r \in Ranks : broken[r] = {} =>
        /\ Unposted(r) <= Slots
        /\ \A s \in Unsent(r) : \A b \in 1 .. Grid[s] : send[r][SlotOf(s)][b] = s

\* "Peers cannot get further than one op ahead of us."
LockStep == \A r, p \in Ranks : epoch[p] <= epoch[r] + 1

\* A rank whose error word is clear after its kernel finished has stored every
\* block of the result and published the epoch: a wait that failed anywhere in
\* the kernel is always visible to check_health.
HealthyIsComplete ==
    \A r \in Ranks : Finished(r) /\ error[r] = 0 =>
        stored[r] = IF epoch[r] = 0 THEN {} ELSE 1 .. Grid[epoch[r]]

\* A failed sequence keeps the epoch: an epoch is published only over a kernel
\* all of whose blocks reduced, and never again once the error word is set.
EpochOverFailure ==
    [][\A r \in Ranks : epoch'[r] # epoch[r] =>
         /\ error[r] = 0 /\ epoch'[r] = Succ(epoch[r])
         /\ stored[r] = 1 .. Grid[epoch'[r]]]_vars

=============================================================================
