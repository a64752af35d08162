------------------------ MODULE EngramStreamsProofs ------------------------
(***************************************************************************)
(* Proofs about EngramStreams, for any number of layers and forwards: the  *)
(* gathers are exact until a prefetch raises, and through the forward in   *)
(* which it does; the two paths never share a layer's staging.             *)
(***************************************************************************)
EXTENDS EngramStreams, SequenceTheorems, TLAPS

-----------------------------------------------------------------------------
(* The inductive invariant. *)

Copies == {"ids", "lookup", "rows"}
Piece  == [kind : Copies \cup {"gather"}, l : LayerIds, f : Nat, n : Nat]
          \cup [kind : {"hash", "wait"}, l : Streams, f : Nat, n : Nat]

\* The host's place in the forward: the layers before Upto have enqueued their
\* gather, and Prefetched(l) says that the layer's prefetch is behind it.
Upto == IF step[1] = "hash" THEN Layers + 1
        ELSE IF step[1] = "owned" THEN step[2] ELSE 1

Prefetched(l) == step[1] = "prefetch" => l < step[2]

TypeInv ==
    /\ forward \in Nat /\ disabled \in {0, 1}
    /\ step \in {"hash", "prefetch", "owned"} \X Nat
    /\ pending \in [LayerIds -> Nat]
    /\ queue \in [Streams -> Seq(Piece)]
    /\ done \in [Streams -> Nat]
    /\ hash \in Nat
    /\ ids \in [LayerIds -> Int] /\ rows \in [LayerIds -> Int]
    /\ drows \in [LayerIds -> Int]
    /\ reading \in [Streams -> Int]

\* What the host knows of the forward it enqueues.
HostInv ==
    /\ step[1] # "hash" => step[2] \in LayerIds /\ forward > 0
    /\ step[1] = "prefetch" => disabled = 0
    /\ disabled = 1 => forward >= MaxForwards
    /\ \A l \in LayerIds :
         /\ disabled = 1 => pending[l] = 0
         /\ disabled = 0 /\ Prefetched(l) /\ l >= Upto => pending[l] = forward

\* The main stream: its work is in the order of the forwards, each opened by
\* its hash, a layer's work behind the layer's join.
MainOrder ==
    LET q == queue[Main] IN
    /\ \A i \in 1 .. Len(q) : \A j \in 1 .. Len(q) : i <= j => q[i].f <= q[j].f
    /\ \A i \in 1 .. Len(q) : hash <= q[i].f /\ q[i].f <= forward
    /\ IF q = <<>> THEN hash = forward ELSE q[Len(q)].f = forward
    /\ q # <<>> => (q[1].f = hash <=> q[1].kind # "hash")
    /\ \A i \in 1 .. Len(q) - 1 : q[i + 1].f = q[i].f <=> q[i + 1].kind # "hash"

Behind(a, b) ==
    /\ b.kind = "lookup" => a.kind = "ids" /\ a.l = b.l
    /\ b.kind = "rows" => a.kind = "lookup" /\ a.l = b.l
    /\ b.kind = "gather" => a.kind \in {"wait", "rows"} /\ a.l = b.l

MainWork ==
    LET q == queue[Main] IN
    /\ \A i \in 1 .. Len(q) : q[i].kind = "hash" \/ q[i].l \in LayerIds
    /\ \A i \in 1 .. Len(q) - 1 : Behind(q[i], q[i + 1])
    /\ \A i \in 1 .. Len(q) : \A j \in 1 .. Len(q) :
         q[j].kind = "wait" /\ q[i].l = q[j].l /\ q[i].f = q[j].f /\ q[i].kind # "hash" => j <= i
    /\ \A i \in 1 .. Len(q) : q[i].f = forward =>
         /\ q[i].kind # "hash" => q[i].l < Upto
         /\ q[i].kind = "wait" => disabled = 0

\* What stream s is reading, or has written for the copy or callback it runs
\* next, is of the forward that the device is in.
Reads(s) ==
    LET q == queue[s] IN
    /\ reading[s] # Nothing => reading[s] = hash /\ q # <<>> /\ q[1].kind \in Copies
    /\ q # <<>> =>
         /\ q[1].kind = "lookup" => ids[q[1].l] = hash
         /\ q[1].kind = "rows" => rows[q[1].l] = hash
         /\ q[1].kind = "gather" => drows[q[1].l] = hash

\* A side stream: rounds of a wait for the main stream and the three copies.
Follows(a, b) ==
    \/ /\ <<a.kind, b.kind>> \in {<<"wait", "ids">>, <<"ids", "lookup">>, <<"lookup", "rows">>}
       /\ a.f = b.f
    \/ a.kind = "rows" /\ b.kind = "wait"

SideWork(l) ==
    LET q == queue[l] IN
    /\ \A i \in 1 .. Len(q) : /\ q[i].kind \in Copies \cup {"wait"}
                              /\ q[i].l = IF q[i].kind = "wait" THEN Main ELSE l
    /\ \A i \in 1 .. Len(q) - 1 : Follows(q[i], q[i + 1])
    /\ q # <<>> => \/ q[Len(q)].kind = "rows"
                   \/ disabled = 1 /\ q[Len(q)].f = forward
    /\ q # <<>> /\ q[1].kind # "wait" => q[1].f = hash

\* A side stream's wait is for the hash of its forward.
Forked(l) ==
    \A i \in 1 .. Len(queue[l]) : queue[l][i].kind = "wait" =>
        LET w == queue[l][i] k == w.n - done[Main] IN
        IF w.n <= done[Main] THEN w.f <= hash
        ELSE /\ k <= Len(queue[Main])
             /\ queue[Main][k].kind = "hash" /\ queue[Main][k].f = w.f

\* Side work is joined by the main stream in its own forward, or will be.
Joined(l) ==
    \A j \in 1 .. Len(queue[l]) :
        \/ \E i \in 1 .. Len(queue[Main]) :
             LET w == queue[Main][i] IN
             w.kind = "wait" /\ w.l = l /\ w.f = queue[l][j].f /\ w.n >= done[l] + j
        \/ queue[l][j].f = forward /\ (disabled = 1 \/ l >= Upto)

\* The forwards whose prefetch of layer l has been enqueued in full.
Covered(l, f) == f < forward \/ (f = forward /\ disabled = 0 /\ Prefetched(l))

\* The prefetch of a forward the device is not in yet is still queued; that of
\* the forward it is in is queued or has filled the device rows.
Fetched(l) ==
    /\ \A f \in Nat : f > hash /\ Covered(l, f) =>
         \E j \in 1 .. Len(queue[l]) : queue[l][j].f = f
    /\ Covered(l, hash) =>
         \/ drows[l] = hash
         \/ \E j \in 1 .. Len(queue[l]) : queue[l][j].f = hash

StreamsInv ==
    /\ HostInv /\ MainOrder /\ MainWork /\ Reads(Main)
    /\ \A l \in LayerIds :
         SideWork(l) /\ Reads(l) /\ Forked(l) /\ Joined(l) /\ Fetched(l)

\* After an error with forwards still to come nothing is claimed.
Failed == disabled = 1 /\ RaiseAfter + 1 < MaxForwards

EngramInv == TypeInv /\ (Failed \/ StreamsInv)

-----------------------------------------------------------------------------
(* Sequences of work. *)

\* What is left of a queue when its head is done.
LEMMA Popped ==
    ASSUME NEW q \in Seq(Piece), q # <<>>
    PROVE  /\ Len(q) \in Nat /\ Len(q) >= 1 /\ Head(q) = q[1]
           /\ Tail(q) \in Seq(Piece) /\ Len(Tail(q)) = Len(q) - 1
           /\ \A i \in 1 .. Len(q) - 1 : Tail(q)[i] = q[i + 1]
           /\ Tail(q) = <<>> <=> Len(q) = 1
<1>1. /\ Head(q) = q[1] /\ Tail(q) \in Seq(Piece) /\ Len(Tail(q)) = Len(q) - 1
      /\ \A i \in 1 .. Len(Tail(q)) : Tail(q)[i] = q[i + 1]
  BY HeadTailProperties
<1>2. Len(q) \in Nat /\ Len(q) >= 1
  BY LenProperties, EmptySeq
<1>3. Tail(q) = <<>> <=> Len(Tail(q)) = 0
  BY <1>1, EmptySeq
<1> QED
  BY <1>1, <1>2, <1>3

\* What a queue is when work is enqueued.
LEMMA Pushed ==
    ASSUME NEW q \in Seq(Piece), NEW b \in Seq(Piece)
    PROVE  /\ q \o b \in Seq(Piece)
           /\ Len(q) \in Nat /\ Len(b) \in Nat /\ Len(q \o b) = Len(q) + Len(b)
           /\ \A i \in 1 .. Len(q) : (q \o b)[i] = q[i]
           /\ \A i \in 1 .. Len(b) : (q \o b)[Len(q) + i] = b[i]
           /\ \A i \in 1 .. Len(q \o b) : \/ i \in 1 .. Len(q)
                                          \/ i - Len(q) \in 1 .. Len(b)
<1>1. /\ q \o b \in Seq(Piece) /\ Len(q \o b) = Len(q) + Len(b)
      /\ \A i \in 1 .. Len(q) + Len(b) :
           (q \o b)[i] = IF i <= Len(q) THEN q[i] ELSE b[i - Len(q)]
  BY ConcatProperties
<1>2. Len(q) \in Nat /\ Len(b) \in Nat
  BY LenProperties
<1> HIDE DEF Piece
<1> QED
  BY <1>1, <1>2

LEMMA EmptyQueue ==
    ASSUME NEW q \in Seq(Piece)
    PROVE  /\ Len(q) \in Nat
           /\ q = <<>> <=> Len(q) = 0
           /\ q # <<>> <=> Len(q) >= 1
  BY LenProperties, EmptySeq

LEMMA PieceIn ==
    ASSUME NEW q \in Seq(Piece), NEW i \in 1 .. Len(q)
    PROVE  /\ q[i] \in Piece
           /\ q[i].kind \in Copies \cup {"hash", "wait", "gather"}
           /\ q[i].kind \in Copies \cup {"gather"} => q[i].l \in LayerIds
           /\ q[i].l \in Nat /\ q[i].l \in Streams /\ q[i].f \in Nat /\ q[i].n \in Nat
<1>1. q[i] \in Piece
  BY ElementOfSeq
<1>2. LayerIds \subseteq Streams /\ Streams \subseteq Nat
  BY DEF LayerIds, Streams, Main
<1> QED
  BY <1>1, <1>2 DEF Piece, Copies

LEMMA Queues ==
    ASSUME TypeInv
    PROVE  /\ \A s \in Streams : queue[s] \in Seq(Piece)
           /\ Main \in Streams /\ LayerIds \subseteq Streams
           /\ \A l \in LayerIds : l \in Nat /\ l >= 1 /\ l # Main
           /\ Main = 0
<1>1. queue \in [Streams -> Seq(Piece)]
  BY DEF TypeInv
<1>2. /\ Main \in Streams /\ LayerIds \subseteq Streams /\ Main = 0
      /\ \A l \in LayerIds : l \in Nat /\ l >= 1 /\ l # Main
  BY EngramStreamsAssumption DEF Streams, LayerIds, Main
<1> QED
  BY <1>1, <1>2

-----------------------------------------------------------------------------
(* What the host enqueues. *)

LEMMA LookupBlock ==
    ASSUME TypeInv, NEW l \in LayerIds
    PROVE  /\ Lookup(l) \in Seq(Piece) /\ Len(Lookup(l)) = 3
           /\ Lookup(l)[1] = Work("ids", l, forward, 0)
           /\ Lookup(l)[2] = Work("lookup", l, forward, 0)
           /\ Lookup(l)[3] = Work("rows", l, forward, 0)
           /\ Gather(l) \in Seq(Piece) /\ Len(Gather(l)) = 1
           /\ Gather(l)[1] = Work("gather", l, forward, 0)
<1>1. /\ Work("ids", l, forward, 0) \in Piece /\ Work("lookup", l, forward, 0) \in Piece
      /\ Work("rows", l, forward, 0) \in Piece /\ Work("gather", l, forward, 0) \in Piece
  <2>1. forward \in Nat /\ l \in Nat /\ 0 \in Nat
    BY Queues DEF TypeInv
  <2> QED
    BY <2>1 DEF Work, Piece, Copies
<1> HIDE DEF Piece, Work
<1> QED
  BY <1>1 DEF Lookup, Gather

LEMMA WaitPiece ==
    ASSUME TypeInv, NEW s \in Streams
    PROVE  /\ WaitFor(s) \in Piece
           /\ WaitFor(s).kind = "wait" /\ WaitFor(s).l = s /\ WaitFor(s).f = forward
           /\ WaitFor(s).n = done[s] + Len(queue[s])
<1>1. forward \in Nat /\ s \in Nat /\ done[s] \in Nat /\ queue[s] \in Seq(Piece)
  BY Queues DEF TypeInv, Streams, Main
<1>2. Len(queue[s]) \in Nat
  BY <1>1, LenProperties
<1> QED
  BY <1>1, <1>2 DEF WaitFor, Work, Piece, Copies

-----------------------------------------------------------------------------
(* Types. *)

LEMMA StepNext ==
    ASSUME NEW l \in LayerIds, NEW what \in {"prefetch", "owned"}
    PROVE  After(l, what) \in {"hash", "prefetch", "owned"} \X Nat
  BY Queues, EngramStreamsAssumption DEF After, LayerIds

\* The work of one joined gather, with the check's second lookup or without.
JoinedGather(l) == Join(l) \o Gather(l)
                       \o (IF Check THEN Lookup(l) \o Gather(l) ELSE <<>>)

LEMMA JoinedGatherTyped ==
    ASSUME TypeInv, NEW l \in LayerIds
    PROVE  JoinedGather(l) \in Seq(Piece)
<1> DEFINE c == IF Check THEN Lookup(l) \o Gather(l) ELSE <<>>
<1>1. Join(l) \in Seq(Piece)
  <2>1. WaitFor(l) \in Piece
    BY WaitPiece, Queues
  <2> QED
    BY <2>1 DEF Join
<1>2. Lookup(l) \o Gather(l) \in Seq(Piece)
  BY LookupBlock, ConcatProperties
<1>3. c \in Seq(Piece)
  BY <1>2
<1>4. Join(l) \o Gather(l) \in Seq(Piece)
  BY <1>1, LookupBlock, ConcatProperties
<1> QED
  BY <1>3, <1>4, ConcatProperties DEF JoinedGather

\* Appending typed work keeps the queues typed.
LEMMA EnqueueTyped ==
    ASSUME TypeInv, NEW s \in Streams, NEW b \in Seq(Piece), Enqueue(s, b)
    PROVE  queue' \in [Streams -> Seq(Piece)]
<1>1. queue[s] \o b \in Seq(Piece)
  BY Queues, ConcatProperties
<1> QED
  BY <1>1 DEF Enqueue, TypeInv

LEMMA HostTypes ==
    ASSUME TypeInv, NEW l \in LayerIds,
           Hash \/ Prefetch(l) \/ Raise(l) \/ OwnedPrefetched(l) \/ OwnedSynchronous(l)
    PROVE  TypeInv'
<1>0. /\ forward \in Nat /\ l \in Streams /\ Main \in Streams /\ l \in Nat
  BY Queues DEF TypeInv
<1>1. CASE Hash
  <2>1. <<Work("hash", 0, forward + 1, 0)>> \in Seq(Piece)
    <3>1. Work("hash", 0, forward + 1, 0) \in Piece
      BY <1>0 DEF Work, Piece, Copies, Main
    <3> QED
      BY <3>1
  <2>2. queue' \in [Streams -> Seq(Piece)]
    BY <1>1, <1>0, <2>1, EnqueueTyped DEF Hash
  <2> QED
    BY <1>1, <2>2 DEF Hash, TypeInv, buffers
<1>2. CASE Prefetch(l)
  <2>1. <<WaitFor(Main)>> \o Lookup(l) \in Seq(Piece)
    <3>1. <<WaitFor(Main)>> \in Seq(Piece)
      BY <1>0, WaitPiece
    <3> QED
      BY <3>1, LookupBlock, ConcatProperties
  <2>2. queue' \in [Streams -> Seq(Piece)]
    BY <1>2, <1>0, <2>1, EnqueueTyped DEF Prefetch
  <2> QED
    BY <1>2, <1>0, <2>2, StepNext DEF Prefetch, TypeInv, buffers
<1>3. CASE Raise(l)
  <2>1. <<WaitFor(Main), Work("ids", l, forward, 0)>> \in Seq(Piece)
    <3>1. Work("ids", l, forward, 0) \in Piece
      BY <1>0 DEF Work, Piece, Copies, Main
    <3>2. WaitFor(Main) \in Piece
      BY <1>0, WaitPiece
    <3> QED
      BY <3>1, <3>2
  <2>2. queue' \in [Streams -> Seq(Piece)]
    <3>1. CASE UNCHANGED queue
      BY <3>1 DEF TypeInv
    <3>2. CASE Enqueue(l, <<WaitFor(Main), Work("ids", l, forward, 0)>>)
      BY <3>2, <1>0, <2>1, EnqueueTyped
    <3> QED
      BY <1>3, <3>1, <3>2 DEF Raise
  <2> QED
    BY <1>3, <2>2 DEF Raise, TypeInv, buffers
<1>4. CASE OwnedPrefetched(l)
  <2>1. queue' \in [Streams -> Seq(Piece)]
    BY <1>4, <1>0, JoinedGatherTyped, EnqueueTyped DEF OwnedPrefetched, JoinedGather
  <2> QED
    BY <1>4, <2>1, StepNext DEF OwnedPrefetched, TypeInv, buffers
<1>5. CASE OwnedSynchronous(l)
  <2>1. Lookup(l) \o Gather(l) \in Seq(Piece)
    BY LookupBlock, ConcatProperties
  <2>2. queue' \in [Streams -> Seq(Piece)]
    BY <1>5, <1>0, <2>1, EnqueueTyped DEF OwnedSynchronous
  <2> QED
    BY <1>5, <2>2, StepNext DEF OwnedSynchronous, TypeInv, buffers
<1> QED
  BY <1>1, <1>2, <1>3, <1>4, <1>5

\* A piece of work done takes it off its queue.
LEMMA RunTypes ==
    ASSUME TypeInv, NEW s \in Streams, NEW k, Run(s, k)
    PROVE  /\ queue' \in [Streams -> Seq(Piece)] /\ done' \in [Streams -> Nat]
           /\ queue'[s] = Tail(queue[s]) /\ done'[s] = done[s] + 1
           /\ \A t \in Streams : t # s => queue'[t] = queue[t] /\ done'[t] = done[t]
           /\ queue[s] # <<>> /\ queue[s][1].kind = k
           /\ queue[s] \in Seq(Piece) /\ Head(queue[s]) = queue[s][1]
           /\ queue[s][1].l \in Nat /\ queue[s][1].f \in Nat
           /\ UNCHANGED host
<1>1. queue[s] \in Seq(Piece) /\ queue[s] # <<>>
  BY Queues DEF Run
<1>2. Tail(queue[s]) \in Seq(Piece) /\ Head(queue[s]) = queue[s][1] /\ 1 \in 1 .. Len(queue[s])
  BY <1>1, Popped
<1>3. queue[s][1].l \in Nat /\ queue[s][1].f \in Nat
  BY <1>1, <1>2, PieceIn
<1> HIDE DEF Piece, Streams
<1> QED
  BY <1>1, <1>2, <1>3 DEF Run, TypeInv

LEMMA DeviceTypes ==
    ASSUME TypeInv, NEW s \in Streams,
           \/ RunHash \/ RunGather
           \/ RunWait(s) \/ Read(s) \/ RunIds(s) \/ RunLookup(s) \/ RunRows(s)
    PROVE  TypeInv'
<1>0. Main \in Streams
  BY Queues
<1>1. CASE RunHash
  <2>1. /\ queue' \in [Streams -> Seq(Piece)] /\ done' \in [Streams -> Nat]
        /\ Head(queue[Main]).f \in Nat /\ UNCHANGED host
    BY <1>0, <1>1, RunTypes DEF RunHash
  <2> QED
    BY <1>1, <2>1 DEF RunHash, TypeInv, host
<1>2. CASE RunGather \/ RunWait(s)
  <2>1. /\ queue' \in [Streams -> Seq(Piece)] /\ done' \in [Streams -> Nat] /\ UNCHANGED host
    BY <1>0, <1>2, RunTypes DEF RunGather, RunWait
  <2> QED
    BY <1>2, <2>1 DEF RunGather, RunWait, TypeInv, host, buffers
<1>3. CASE Read(s)
  <2>0. queue[s] \in Seq(Piece) /\ queue[s] # <<>>
    BY <1>3, Queues DEF Read
  <2>1. 1 \in 1 .. Len(queue[s]) /\ Head(queue[s]) = queue[s][1]
    BY <2>0, Popped
  <2>2. /\ Head(queue[s]).kind \in Copies
        /\ Head(queue[s]).kind \in Copies => Head(queue[s]).l \in LayerIds
    BY <1>3, <2>0, <2>1, PieceIn DEF Read, Copies
  <2>3. PICK v \in Int : reading' = [reading EXCEPT ![s] = v]
    <3>1. hash \in Int /\ ids[Head(queue[s]).l] \in Int /\ rows[Head(queue[s]).l] \in Int
      BY <2>2 DEF TypeInv
    <3> QED
      BY <1>3, <2>2, <3>1 DEF Read, Copies
  <2> QED
    BY <1>3, <2>3 DEF Read, TypeInv, host
<1>4. CASE RunIds(s) \/ RunLookup(s) \/ RunRows(s)
  <2>1. /\ queue' \in [Streams -> Seq(Piece)] /\ done' \in [Streams -> Nat] /\ UNCHANGED host
    BY <1>4, RunTypes DEF RunIds, RunLookup, RunRows, Written
  <2>2. reading[s] \in Int /\ Nothing \in Int
    BY DEF TypeInv, Nothing
  <2>3. reading' \in [Streams -> Int]
    BY <1>4, <2>2 DEF RunIds, RunLookup, RunRows, Written, TypeInv
  <2>4. ids' \in [LayerIds -> Int] /\ rows' \in [LayerIds -> Int] /\ drows' \in [LayerIds -> Int]
    <3>1. CASE RunIds(s)
      BY <3>1, <2>2 DEF RunIds, Written, TypeInv
    <3>2. CASE RunLookup(s)
      BY <3>2, <2>2 DEF RunLookup, Written, TypeInv
    <3>3. CASE RunRows(s)
      BY <3>3, <2>2 DEF RunRows, Written, TypeInv
    <3> QED
      BY <1>4, <3>1, <3>2, <3>3
  <2>5. hash' = hash
    BY <1>4 DEF RunIds, RunLookup, RunRows
  <2> QED
    BY <2>1, <2>3, <2>4, <2>5 DEF TypeInv, host
<1> QED
  BY <1>1, <1>2, <1>3, <1>4

-----------------------------------------------------------------------------
(* A piece of work done on some stream. *)

\* Stream s has done a piece of work of this kind: every buffer keeps its
\* content or gets that of the forward the device is in.
Ran(s, k) ==
    LET w == queue[s][1] IN
    /\ Run(s, k)
    /\ hash' = IF k = "hash" THEN w.f ELSE hash
    /\ k = "wait" => done[w.l] >= w.n
    /\ reading'[s] = Nothing
    /\ \A t \in Streams : t # s => reading'[t] = reading[t]
    /\ \A l \in LayerIds : ids'[l] = ids[l] \/ (k # "hash" /\ ids'[l] = hash)
    /\ \A l \in LayerIds : rows'[l] = rows[l] \/ (k # "hash" /\ rows'[l] = hash)
    /\ \A l \in LayerIds : drows'[l] = drows[l] \/ (k # "hash" /\ drows'[l] = hash)
    /\ k = "ids" => ids'[w.l] = hash
    /\ k = "lookup" => rows'[w.l] = hash
    /\ k = "rows" => drows'[w.l] = hash

LEMMA DeviceRuns ==
    ASSUME TypeInv, NEW s \in Streams, Reads(s), NEW k \in Copies \cup {"hash", "wait", "gather"},
           \/ s = Main /\ k = "hash" /\ RunHash
           \/ s = Main /\ k = "gather" /\ RunGather
           \/ k = "wait" /\ RunWait(s)
           \/ k = "ids" /\ RunIds(s)
           \/ k = "lookup" /\ RunLookup(s)
           \/ k = "rows" /\ RunRows(s)
    PROVE  Ran(s, k)
<1>0. /\ queue[s] # <<>> /\ queue[s][1].kind = k /\ Head(queue[s]) = queue[s][1]
      /\ queue[s] \in Seq(Piece) /\ Run(s, k) /\ reading \in [Streams -> Int]
      /\ ids \in [LayerIds -> Int] /\ rows \in [LayerIds -> Int] /\ drows \in [LayerIds -> Int]
  <2>1. Run(s, k)
    BY DEF RunHash, RunGather, RunWait, RunIds, RunLookup, RunRows, Written
  <2> QED
    BY <2>1, RunTypes DEF TypeInv
<1>1. k \in Copies => queue[s][1].l \in LayerIds
  <2>1. 1 \in 1 .. Len(queue[s])
    BY <1>0, Popped
  <2> QED
    BY <1>0, <2>1, PieceIn
<1>2. CASE k \in {"hash", "gather", "wait"}
  <2>1. reading[s] = Nothing
    BY <1>0, <1>2 DEF Reads, Copies
  <2>2. /\ ids' = ids /\ rows' = rows /\ drows' = drows /\ reading' = reading
        /\ hash' = IF k = "hash" THEN queue[s][1].f ELSE hash
        /\ k = "wait" => done[queue[s][1].l] >= queue[s][1].n
    BY <1>0, <1>2 DEF RunHash, RunGather, RunWait, buffers, Copies
  <2>3. reading'[s] = Nothing /\ \A t \in Streams : t # s => reading'[t] = reading[t]
    BY <2>1, <2>2
  <2>4. /\ \A l \in LayerIds : ids'[l] = ids[l] /\ rows'[l] = rows[l] /\ drows'[l] = drows[l]
        /\ k # "ids" /\ k # "lookup" /\ k # "rows"
    BY <1>2, <2>2
  <2> QED
    BY <1>0, <2>2, <2>3, <2>4 DEF Ran
<1>3. CASE k \in Copies
  <2>1. /\ reading[s] # Nothing /\ reading[s] = hash /\ hash' = hash
        /\ reading' = [reading EXCEPT ![s] = Nothing]
    BY <1>3 DEF Reads, RunIds, RunLookup, RunRows, Written, Copies
  <2>2. CASE k = "ids"
    <3>1. /\ ids' = [ids EXCEPT ![queue[s][1].l] = hash]
          /\ rows' = rows /\ drows' = drows
      BY <1>0, <2>1, <2>2 DEF RunIds, Written, Copies
    <3>2. reading'[s] = Nothing /\ \A t \in Streams : t # s => reading'[t] = reading[t]
      BY <1>0, <2>1
    <3>3. /\ ids'[queue[s][1].l] = hash
          /\ \A l \in LayerIds : ids'[l] = ids[l] \/ ids'[l] = hash
      BY <1>0, <1>1, <1>3, <3>1
    <3>4. \A l \in LayerIds : rows'[l] = rows[l] /\ drows'[l] = drows[l]
      BY <3>1
    <3> QED
      BY <1>0, <2>1, <2>2, <3>2, <3>3, <3>4 DEF Ran
  <2>3. CASE k = "lookup"
    <3>1. /\ rows' = [rows EXCEPT ![queue[s][1].l] = hash]
          /\ ids' = ids /\ drows' = drows
      BY <1>0, <2>1, <2>3 DEF RunLookup, Written, Copies
    <3>2. reading'[s] = Nothing /\ \A t \in Streams : t # s => reading'[t] = reading[t]
      BY <1>0, <2>1
    <3>3. /\ rows'[queue[s][1].l] = hash
          /\ \A l \in LayerIds : rows'[l] = rows[l] \/ rows'[l] = hash
      BY <1>0, <1>1, <1>3, <3>1
    <3>4. \A l \in LayerIds : ids'[l] = ids[l] /\ drows'[l] = drows[l]
      BY <3>1
    <3> QED
      BY <1>0, <2>1, <2>3, <3>2, <3>3, <3>4 DEF Ran
  <2>4. CASE k = "rows"
    <3>1. /\ drows' = [drows EXCEPT ![queue[s][1].l] = hash]
          /\ ids' = ids /\ rows' = rows
      BY <1>0, <2>1, <2>4 DEF RunRows, Written, Copies
    <3>2. reading'[s] = Nothing /\ \A t \in Streams : t # s => reading'[t] = reading[t]
      BY <1>0, <2>1
    <3>3. /\ drows'[queue[s][1].l] = hash
          /\ \A l \in LayerIds : drows'[l] = drows[l] \/ drows'[l] = hash
      BY <1>0, <1>1, <1>3, <3>1
    <3>4. \A l \in LayerIds : ids'[l] = ids[l] /\ rows'[l] = rows[l]
      BY <3>1
    <3> QED
      BY <1>0, <2>1, <2>4, <3>2, <3>3, <3>4 DEF Ran
  <2> QED
    BY <1>3, <2>2, <2>3, <2>4 DEF Copies
<1> QED
  BY <1>2, <1>3

\* The queues after a piece of work on stream s, position by position.
LEMMA AfterRun ==
    ASSUME TypeInv, NEW s \in Streams, NEW k, Run(s, k)
    PROVE  /\ queue[s] # <<>> /\ queue[s][1].kind = k /\ 1 \in 1 .. Len(queue[s])
           /\ Len(queue[s]) \in Nat /\ Len(queue'[s]) = Len(queue[s]) - 1
           /\ \A i \in 1 .. Len(queue'[s]) : i + 1 \in 1 .. Len(queue[s])
           /\ \A i \in 1 .. Len(queue'[s]) : queue'[s][i] = queue[s][i + 1]
           /\ queue'[s] = <<>> <=> Len(queue[s]) = 1
           /\ done[s] \in Nat /\ done'[s] = done[s] + 1
           /\ \A t \in Streams : t # s => queue'[t] = queue[t] /\ done'[t] = done[t]
           /\ forward' = forward /\ step' = step /\ pending' = pending /\ disabled' = disabled
<1>1. /\ queue[s] \in Seq(Piece) /\ queue[s] # <<>> /\ queue[s][1].kind = k
      /\ queue'[s] = Tail(queue[s]) /\ done'[s] = done[s] + 1 /\ UNCHANGED host
      /\ \A t \in Streams : t # s => queue'[t] = queue[t] /\ done'[t] = done[t]
  BY RunTypes
<1>2. done[s] \in Nat
  BY DEF TypeInv
<1>3. /\ Len(queue[s]) \in Nat /\ Len(queue[s]) >= 1 /\ Len(Tail(queue[s])) = Len(queue[s]) - 1
      /\ \A i \in 1 .. Len(queue[s]) - 1 : Tail(queue[s])[i] = queue[s][i + 1]
      /\ Tail(queue[s]) = <<>> <=> Len(queue[s]) = 1
  BY <1>1, Popped
<1> QED
  BY <1>1, <1>2, <1>3 DEF host

\* The host's knowledge does not depend on the streams.
LEMMA HostKept ==
    ASSUME HostInv, UNCHANGED host
    PROVE  HostInv'
  BY DEF HostInv, host, Prefetched, Upto

-----------------------------------------------------------------------------
(* Work done on the main stream. *)

LEMMA MainOrderKept ==
    ASSUME TypeInv, MainOrder, NEW k, Ran(Main, k)
    PROVE  MainOrder'
<1> DEFINE q == queue[Main]
<1>1. /\ q # <<>> /\ q[1].kind = k /\ 1 \in 1 .. Len(q)
      /\ Len(q) \in Nat /\ Len(q') = Len(q) - 1
      /\ \A i \in 1 .. Len(q') : i + 1 \in 1 .. Len(q)
      /\ \A i \in 1 .. Len(q') : q'[i] = q[i + 1]
      /\ q' = <<>> <=> Len(q) = 1
      /\ forward' = forward /\ hash' = IF k = "hash" THEN q[1].f ELSE hash
  BY AfterRun, Queues DEF Ran
<1>2. \A i \in 1 .. Len(q) : q[i].f \in Nat
  BY Queues, PieceIn
<1>3. hash' = q[1].f
  BY <1>1 DEF MainOrder
<1>0. /\ \A i \in 1 .. Len(q) : \A j \in 1 .. Len(q) : i <= j => q[i].f <= q[j].f
      /\ \A i \in 1 .. Len(q) : q[i].f <= forward
      /\ \A i \in 1 .. Len(q) - 1 : q[i + 1].f = q[i].f <=> q[i + 1].kind # "hash"
  BY DEF MainOrder
<1> HIDE DEF q
<1>4. \A i \in 1 .. Len(q') : \A j \in 1 .. Len(q') : i <= j => q'[i].f <= q'[j].f
  BY <1>0, <1>1
<1>5. \A i \in 1 .. Len(q') : hash' <= q'[i].f /\ q'[i].f <= forward'
  <2> TAKE i \in 1 .. Len(q')
  <2>1. q'[i] = q[i + 1] /\ i + 1 \in 1 .. Len(q) /\ 1 <= i + 1
    BY <1>1
  <2>2. q[1].f <= q[i + 1].f /\ q[i + 1].f <= forward
    BY <1>0, <1>1, <2>1
  <2> QED
    BY <1>1, <1>3, <2>1, <2>2
<1>6. IF q' = <<>> THEN hash' = forward' ELSE q'[Len(q')].f = forward'
  <2>1. q[Len(q)].f = forward
    BY <1>1 DEF MainOrder, q
  <2> QED
    BY <1>1, <1>3, <2>1
<1>7. q' # <<>> => (q'[1].f = hash' <=> q'[1].kind # "hash")
  <2>1. SUFFICES ASSUME q' # <<>> PROVE q[2].f = q[1].f <=> q[2].kind # "hash"
    BY <1>1, <1>3
  <2> QED
    BY <1>1, <2>1 DEF MainOrder, q
<1>8. \A i \in 1 .. Len(q') - 1 : q'[i + 1].f = q'[i].f <=> q'[i + 1].kind # "hash"
  BY <1>0, <1>1
<1> QED
  BY <1>4, <1>5, <1>6, <1>7, <1>8 DEF MainOrder, q

LEMMA MainWorkKept ==
    ASSUME TypeInv, MainWork, NEW k, Run(Main, k)
    PROVE  MainWork'
<1> DEFINE q == queue[Main]
<1>1. /\ Len(q) \in Nat /\ Len(q') = Len(q) - 1
      /\ \A i \in 1 .. Len(q') : i + 1 \in 1 .. Len(q)
      /\ \A i \in 1 .. Len(q') : q'[i] = q[i + 1]
      /\ forward' = forward /\ step' = step /\ disabled' = disabled
  BY AfterRun, Queues
<1>2. Upto' = Upto
  BY <1>1 DEF Upto
<1> HIDE DEF q
<1>3. \A i \in 1 .. Len(q') : q'[i].kind = "hash" \/ q'[i].l \in LayerIds
  BY <1>1 DEF MainWork, q
<1>4. \A i \in 1 .. Len(q') - 1 : Behind(q'[i], q'[i + 1])
  <2>1. \A i \in 1 .. Len(q) - 1 : Behind(q[i], q[i + 1])
    BY DEF MainWork, q
  <2> QED
    BY <1>1, <2>1
<1>5. \A i \in 1 .. Len(q') : \A j \in 1 .. Len(q') :
         q'[j].kind = "wait" /\ q'[i].l = q'[j].l /\ q'[i].f = q'[j].f /\ q'[i].kind # "hash" => j <= i
  <2> TAKE i \in 1 .. Len(q')
  <2> TAKE j \in 1 .. Len(q')
  <2>1. q[j + 1].kind = "wait" /\ q[i + 1].l = q[j + 1].l /\ q[i + 1].f = q[j + 1].f
          /\ q[i + 1].kind # "hash" => j + 1 <= i + 1
    BY <1>1 DEF MainWork, q
  <2> QED
    BY <1>1, <2>1
<1>6. \A i \in 1 .. Len(q') : q'[i].f = forward' =>
         /\ q'[i].kind # "hash" => q'[i].l < Upto'
         /\ q'[i].kind = "wait" => disabled' = 0
  BY <1>1, <1>2 DEF MainWork, q
<1> QED
  BY <1>3, <1>4, <1>5, <1>6 DEF MainWork, q

LEMMA UptoNat ==
    ASSUME TypeInv
    PROVE  Upto \in Nat
<1>1. step[2] \in Nat /\ Layers + 1 \in Nat
  BY EngramStreamsAssumption DEF TypeInv
<1> QED
  BY <1>1 DEF Upto

LEMMA MainReadsKept ==
    ASSUME TypeInv, TypeInv', MainOrder, MainWork, Reads(Main),
           \A l \in LayerIds : Joined(l) /\ Fetched(l),
           NEW k, Ran(Main, k)
    PROVE  Reads(Main)'
<1> DEFINE q == queue[Main]
<1>1. /\ q # <<>> /\ q[1].kind = k /\ 1 \in 1 .. Len(q)
      /\ Len(q) \in Nat /\ Len(q') = Len(q) - 1
      /\ \A i \in 1 .. Len(q') : i + 1 \in 1 .. Len(q) /\ q'[i] = q[i + 1]
      /\ q' = <<>> <=> Len(q) = 1
      /\ reading'[Main] = Nothing
      /\ forward' = forward
  BY AfterRun, Queues DEF Ran
<1>2. SUFFICES ASSUME q' # <<>>
               PROVE  /\ q[2].kind = "lookup" => ids'[q[2].l] = hash'
                      /\ q[2].kind = "rows" => rows'[q[2].l] = hash'
                      /\ q[2].kind = "gather" => drows'[q[2].l] = hash'
  BY <1>1 DEF Reads
<1>3. 1 \in 1 .. Len(q) - 1 /\ 2 \in 1 .. Len(q)
  BY <1>1, <1>2
<1>4. Behind(q[1], q[2])
  BY <1>3 DEF MainWork
<1>5. /\ k = "ids" => ids'[q[1].l] = hash'
      /\ k = "lookup" => rows'[q[1].l] = hash'
      /\ k = "rows" => drows'[q[1].l] = hash'
  BY DEF Ran
<1>6. k = "wait" /\ q[1].l \in LayerIds => drows'[q[1].l] = hash'
  <2> SUFFICES ASSUME k = "wait", q[1].l \in LayerIds
               PROVE  drows'[q[1].l] = hash'
    OBVIOUS
  <2> DEFINE l == q[1].l
  <2>1. hash' = hash /\ done[l] >= q[1].n /\ (drows'[l] = drows[l] \/ drows'[l] = hash)
    BY DEF Ran
  <2>2. q[1].f = hash /\ q[1].f <= forward
    BY <1>1 DEF MainOrder
  <2>3. Covered(l, hash)
    <3>1. hash \in Nat /\ forward \in Nat /\ step[1] \in {"hash", "prefetch", "owned"} /\ l \in Nat
      BY Queues DEF TypeInv
    <3>2. hash = forward => l < Upto /\ disabled = 0
      BY <1>1, <2>2 DEF MainWork
    <3>3. l >= 1
      BY Queues
    <3> QED
      BY <2>2, <3>1, <3>2, <3>3 DEF Covered, Prefetched, Upto
  <2>4. ASSUME NEW j \in 1 .. Len(queue[l]), queue[l][j].f = hash
        PROVE  FALSE
    <3>1. \/ \E i \in 1 .. Len(q) :
               q[i].kind = "wait" /\ q[i].l = l /\ q[i].f = hash /\ q[i].n >= done[l] + j
          \/ hash = forward /\ (disabled = 1 \/ l >= Upto)
      BY <2>4 DEF Joined
    <3>2. ASSUME NEW i \in 1 .. Len(q), q[i].kind = "wait", q[i].l = l, q[i].f = hash,
                 q[i].n >= done[l] + j
          PROVE  FALSE
      <4>1. i <= 1
        BY <1>1, <2>2, <3>2 DEF MainWork
      <4>2. i = 1
        BY <4>1
      <4>3. done[l] \in Nat /\ j \in Nat /\ j >= 1
        <5>1. l \in Streams
          BY Queues
        <5> QED
          BY <5>1, <2>4 DEF TypeInv
      <4>4. q[1].n \in Nat
        BY <1>1, Queues, PieceIn
      <4> QED
        BY <3>2, <4>2, <4>3, <4>4, <2>1
    <3>3. hash = forward => l < Upto /\ disabled = 0
      BY <1>1, <2>2 DEF MainWork
    <3>4. l \in Nat /\ Upto \in Nat
      BY Queues, UptoNat
    <3> QED
      BY <3>1, <3>2, <3>3, <3>4
  <2>5. drows[l] = hash
    BY <2>3, <2>4 DEF Fetched
  <2> QED
    BY <2>1, <2>5
<1>7. q[2].kind = "gather" => q[2].l \in LayerIds
  BY <1>3 DEF MainWork
<1> QED
  BY <1>1, <1>4, <1>5, <1>6, <1>7 DEF Behind

\* What a side stream sees of it.
LEMMA SideUnderMain ==
    ASSUME TypeInv, TypeInv', MainOrder, MainWork, NEW l \in LayerIds,
           SideWork(l), Joined(l), Forked(l), Fetched(l), Reads(l),
           NEW k, Ran(Main, k)
    PROVE  SideWork(l)' /\ Joined(l)' /\ Forked(l)' /\ Fetched(l)' /\ Reads(l)'
<1> DEFINE q == queue[Main]
<1>1. /\ q # <<>> /\ q[1].kind = k /\ 1 \in 1 .. Len(q)
      /\ Len(q) \in Nat /\ Len(q') = Len(q) - 1
      /\ \A i \in 1 .. Len(q') : i + 1 \in 1 .. Len(q) /\ q'[i] = q[i + 1]
      /\ done'[Main] = done[Main] + 1 /\ done[Main] \in Nat
      /\ queue'[l] = queue[l] /\ done'[l] = done[l]
      /\ forward' = forward /\ step' = step /\ disabled' = disabled
  BY AfterRun, Queues DEF Ran
<1>2. /\ Upto' = Upto /\ Prefetched(l)' = Prefetched(l)
  BY <1>1 DEF Upto, Prefetched
<1>3. /\ hash \in Nat /\ hash' \in Nat /\ forward \in Nat /\ hash <= hash' /\ hash' <= forward
      /\ \A i \in 1 .. Len(q) : q[i].f \in Nat /\ q[i].f >= hash'
      /\ k # "hash" => hash' = hash
      /\ k = "hash" => hash' = q[1].f /\ hash' > hash
  <2>1. hash \in Nat /\ hash' \in Nat /\ forward \in Nat
    BY DEF TypeInv
  <2>2. \A i \in 1 .. Len(q) : q[i].f \in Nat
    BY Queues, PieceIn
  <2>3. \A i \in 1 .. Len(q) : q[i].f >= q[1].f /\ q[i].f >= hash
    BY <1>1, <2>2, <2>1 DEF MainOrder
  <2>4. q[1].f <= forward /\ q[1].f >= hash /\ (q[1].f = hash <=> k # "hash")
    BY <1>1 DEF MainOrder
  <2>5. hash' = q[1].f
    BY <2>4 DEF Ran
  <2> QED
    BY <1>1, <2>1, <2>2, <2>3, <2>4, <2>5
<1>4. \A j \in 1 .. Len(queue[l]) : queue[l][j].f \in Nat
  BY Queues, PieceIn
<1>5. queue[l] # <<>> => 1 \in 1 .. Len(queue[l])
  BY Queues, EmptyQueue
<1>6. Joined(l)'
  <2> SUFFICES ASSUME NEW j \in 1 .. Len(queue[l])
               PROVE  \/ \E i \in 1 .. Len(q') :
                           /\ q'[i].kind = "wait" /\ q'[i].l = l /\ q'[i].f = queue[l][j].f
                           /\ q'[i].n >= done[l] + j
                      \/ queue[l][j].f = forward /\ (disabled = 1 \/ l >= Upto)
    BY <1>1, <1>2 DEF Joined
  <2>1. CASE queue[l][j].f = forward /\ (disabled = 1 \/ l >= Upto)
    BY <2>1
  <2>2. CASE \E i \in 1 .. Len(q) :
               q[i].kind = "wait" /\ q[i].l = l /\ q[i].f = queue[l][j].f /\ q[i].n >= done[l] + j
    <3>1. PICK i \in 1 .. Len(q) :
               q[i].kind = "wait" /\ q[i].l = l /\ q[i].f = queue[l][j].f /\ q[i].n >= done[l] + j
      BY <2>2
    <3>2. i # 1
      <4> SUFFICES ASSUME i = 1 PROVE FALSE
        OBVIOUS
      <4>1. done[l] >= q[1].n /\ q[1].n >= done[l] + j
        BY <1>1, <3>1 DEF Ran
      <4>2. done[l] \in Nat /\ q[1].n \in Nat /\ j \in Nat /\ j >= 1
        <5>1. q[1].n \in Nat
          BY <1>1, Queues, PieceIn
        <5>2. done[l] \in Nat
          BY Queues DEF TypeInv
        <5> QED
          BY <5>1, <5>2
      <4> QED
        BY <4>1, <4>2
    <3>3. i - 1 \in 1 .. Len(q') /\ q'[i - 1] = q[i]
      BY <1>1, <3>1, <3>2
    <3> QED
      BY <3>1, <3>3
  <2> QED
    BY <2>1, <2>2 DEF Joined
<1>7. \A j \in 1 .. Len(queue[l]) : hash' <= queue[l][j].f
  <2> TAKE j \in 1 .. Len(queue[l])
  <2>1. \/ \E i \in 1 .. Len(q) : q[i].f = queue[l][j].f
        \/ queue[l][j].f = forward
    BY DEF Joined
  <2> QED
    BY <1>3, <1>4, <2>1
<1>8. queue[l] # <<>> /\ queue[l][1].kind # "wait" => hash' = hash
  BY <1>3, <1>4, <1>5, <1>7 DEF SideWork
<1>9. SideWork(l)'
  BY <1>1, <1>8 DEF SideWork
<1>10. Forked(l)'
  <2> SUFFICES ASSUME NEW i \in 1 .. Len(queue[l]), queue[l][i].kind = "wait"
               PROVE  LET w == queue[l][i] d == w.n - (done[Main] + 1) IN
                      IF w.n <= done[Main] + 1 THEN w.f <= hash'
                      ELSE d <= Len(q') /\ q'[d].kind = "hash" /\ q'[d].f = w.f
    BY <1>1 DEF Forked
  <2> DEFINE w == queue[l][i]
  <2>1. w.n \in Nat /\ w.f \in Nat
    BY Queues, PieceIn
  <2>2. IF w.n <= done[Main] THEN w.f <= hash
        ELSE w.n - done[Main] <= Len(q) /\ q[w.n - done[Main]].kind = "hash"
             /\ q[w.n - done[Main]].f = w.f
    BY DEF Forked
  <2> HIDE DEF w
  <2>3. CASE w.n <= done[Main]
    BY <1>1, <1>3, <2>1, <2>2, <2>3 DEF w
  <2>4. CASE w.n = done[Main] + 1
    <3>1. w.n - done[Main] = 1 /\ ~ (w.n <= done[Main])
      BY <1>1, <2>1, <2>4
    <3>2. q[1].kind = "hash" /\ q[1].f = w.f
      BY <2>2, <3>1
    <3> QED
      BY <1>1, <1>3, <2>1, <2>4, <3>2 DEF w
  <2>5. CASE w.n > done[Main] + 1
    <3>1. /\ w.n - (done[Main] + 1) \in 1 .. Len(q')
          /\ (w.n - (done[Main] + 1)) + 1 = w.n - done[Main]
          /\ ~ (w.n <= done[Main]) /\ ~ (w.n <= done[Main] + 1)
      <4>1. w.n - done[Main] <= Len(q)
        BY <1>1, <2>1, <2>2, <2>5
      <4>2. Len(q') = Len(q) - 1 /\ Len(q) \in Nat /\ done[Main] \in Nat
        BY <1>1
      <4> HIDE DEF q
      <4> QED
        BY <2>1, <2>5, <4>1, <4>2
    <3>2. q'[w.n - (done[Main] + 1)] = q[w.n - done[Main]]
      BY <1>1, <3>1
    <3> QED
      BY <2>2, <3>1, <3>2 DEF w
  <2> QED
    BY <1>1, <2>1, <2>3, <2>4, <2>5
<1>11. Fetched(l)'
  <2>0. /\ \A f : Covered(l, f)' <=> Covered(l, f)
        /\ drows'[l] = drows[l] \/ (k # "hash" /\ drows'[l] = hash)
    BY <1>1, <1>2 DEF Covered, Ran
  <2>1. \A f \in Nat : f > hash' /\ Covered(l, f) =>
         \E j \in 1 .. Len(queue[l]) : queue[l][j].f = f
    BY <1>3 DEF Fetched
  <2>2. Covered(l, hash') =>
         \/ drows'[l] = hash'
         \/ \E j \in 1 .. Len(queue[l]) : queue[l][j].f = hash'
    <3>1. CASE k = "hash"
      BY <1>3, <3>1 DEF Fetched
    <3>2. CASE k # "hash"
      BY <1>3, <2>0, <3>2 DEF Fetched
    <3> QED
      BY <3>1, <3>2
  <2> QED
    BY <1>1, <2>0, <2>1, <2>2 DEF Fetched
<1>12. Reads(l)'
  <2>0. reading'[l] = reading[l]
    BY Queues DEF Ran
  <2> SUFFICES ASSUME queue[l] # <<>>
               PROVE  /\ reading[l] # Nothing => reading[l] = hash'
                      /\ queue[l][1].kind = "lookup" => ids'[queue[l][1].l] = hash'
                      /\ queue[l][1].kind = "rows" => rows'[queue[l][1].l] = hash'
                      /\ queue[l][1].kind = "gather" => drows'[queue[l][1].l] = hash'
    BY <1>1, <2>0 DEF Reads
  <2>1. CASE queue[l][1].kind = "wait"
    BY <2>1 DEF Reads, Copies
  <2>2. CASE queue[l][1].kind # "wait"
    <3>1. queue[l][1].l = l /\ hash' = hash
      BY <1>5, <1>8, <2>2 DEF SideWork
    <3>2. /\ ids'[l] = ids[l] \/ ids'[l] = hash
          /\ rows'[l] = rows[l] \/ rows'[l] = hash
          /\ drows'[l] = drows[l] \/ drows'[l] = hash
      BY DEF Ran
    <3> QED
      BY <3>1, <3>2 DEF Reads
  <2> QED
    BY <2>1, <2>2
<1> QED
  BY <1>6, <1>9, <1>10, <1>11, <1>12

-----------------------------------------------------------------------------
(* Work done on a side stream. *)

\* The work that a side stream can do is of the forward the device is in.
LEMMA SideRunsNow ==
    ASSUME TypeInv, MainOrder, NEW l \in LayerIds,
           SideWork(l), Joined(l), Forked(l), NEW k, Ran(l, k)
    PROVE  queue[l][1].f = hash /\ k # "hash" /\ k # "gather" /\ hash' = hash
<1> DEFINE w == queue[l][1]
<1>1. queue[l] # <<>> /\ w.kind = k /\ 1 \in 1 .. Len(queue[l])
  BY AfterRun, Queues DEF Ran
<1>2. w.f \in Nat /\ w.n \in Nat /\ hash \in Nat /\ forward \in Nat
  BY <1>1, Queues, PieceIn DEF TypeInv
<1>3. k \in Copies \cup {"wait"} /\ (k = "wait" => w.l = Main)
  BY <1>1 DEF SideWork
<1>4. hash <= w.f
  <2>1. \/ \E i \in 1 .. Len(queue[Main]) : queue[Main][i].f = w.f
        \/ w.f = forward
    BY <1>1 DEF Joined
  <2>2. hash <= forward
    <3>1. queue[Main] # <<>> => 1 \in 1 .. Len(queue[Main])
      BY Queues, EmptyQueue
    <3>2. CASE queue[Main] = <<>>
      BY <3>2, <1>2 DEF MainOrder
    <3>3. CASE queue[Main] # <<>>
      <4>1. hash <= queue[Main][1].f /\ queue[Main][1].f <= forward
        BY <3>1, <3>3 DEF MainOrder
      <4>2. queue[Main][1].f \in Nat
        BY <3>1, <3>3, Queues, PieceIn
      <4> QED
        BY <1>2, <4>1, <4>2
    <3> QED
      BY <3>2, <3>3
  <2> QED
    BY <1>2, <2>1, <2>2 DEF MainOrder
<1>5. CASE k = "wait"
  <2>1. done[Main] >= w.n /\ done[Main] \in Nat
    BY <1>3, <1>5, Queues DEF Ran, TypeInv
  <2>2. w.n <= done[Main]
    BY <1>2, <2>1
  <2>3. w.f <= hash
    BY <1>1, <1>5, <2>2 DEF Forked
  <2> QED
    BY <1>2, <1>4, <1>5, <2>3 DEF Ran
<1>6. CASE k # "wait"
  BY <1>1, <1>3, <1>6 DEF SideWork, Ran, Copies
<1> QED
  BY <1>5, <1>6

\* What the other streams see of it.
LEMMA OthersUnderSide ==
    ASSUME TypeInv, TypeInv', MainOrder, MainWork, Reads(Main), NEW l \in LayerIds,
           NEW k, Ran(l, k), hash' = hash,
           NEW m \in LayerIds, m # l,
           SideWork(m), Joined(m), Forked(m), Fetched(m), Reads(m)
    PROVE  SideWork(m)' /\ Joined(m)' /\ Forked(m)' /\ Fetched(m)' /\ Reads(m)'
<1>1. /\ queue'[Main] = queue[Main] /\ done'[Main] = done[Main]
      /\ queue'[m] = queue[m] /\ done'[m] = done[m] /\ reading'[m] = reading[m]
      /\ forward' = forward /\ step' = step /\ disabled' = disabled
  BY AfterRun, Queues DEF Ran
<1>2. /\ Upto' = Upto /\ Prefetched(m)' = Prefetched(m)
  BY <1>1 DEF Upto, Prefetched
<1>3. /\ ids'[m] = ids[m] \/ ids'[m] = hash
      /\ rows'[m] = rows[m] \/ rows'[m] = hash
      /\ drows'[m] = drows[m] \/ drows'[m] = hash
  BY DEF Ran
<1>4. SideWork(m)'
  BY <1>1 DEF SideWork
<1>5. Joined(m)'
  BY <1>1, <1>2 DEF Joined
<1>6. Forked(m)'
  BY <1>1 DEF Forked
<1>7. Fetched(m)'
  BY <1>1, <1>2, <1>3 DEF Fetched, Covered
<1>8. Reads(m)'
  <2>1. queue[m] # <<>> => 1 \in 1 .. Len(queue[m])
    BY Queues, EmptyQueue
  <2>2. queue[m] # <<>> /\ queue[m][1].kind # "wait" => queue[m][1].l = m
    BY <2>1 DEF SideWork
  <2> QED
    BY <1>1, <1>3, <2>2 DEF Reads
<1> QED
  BY <1>4, <1>5, <1>6, <1>7, <1>8

LEMMA MainUnderSide ==
    ASSUME TypeInv, TypeInv', MainOrder, MainWork, Reads(Main), NEW l \in LayerIds,
           NEW k, Ran(l, k), hash' = hash
    PROVE  MainOrder' /\ MainWork' /\ Reads(Main)'
<1>1. /\ queue'[Main] = queue[Main] /\ reading'[Main] = reading[Main]
      /\ forward' = forward /\ step' = step /\ disabled' = disabled
  BY AfterRun, Queues DEF Ran
<1>2. Upto' = Upto
  BY <1>1 DEF Upto
<1>3. /\ \A m \in LayerIds : ids'[m] = ids[m] \/ ids'[m] = hash
      /\ \A m \in LayerIds : rows'[m] = rows[m] \/ rows'[m] = hash
      /\ \A m \in LayerIds : drows'[m] = drows[m] \/ drows'[m] = hash
  BY DEF Ran
<1>4. MainOrder'
  BY <1>1 DEF MainOrder
<1>5. MainWork'
  BY <1>1, <1>2 DEF MainWork
<1>6. Reads(Main)'
  <2>1. queue[Main] # <<>> => 1 \in 1 .. Len(queue[Main])
    BY Queues, EmptyQueue
  <2>2. queue[Main] # <<>> /\ queue[Main][1].kind # "hash" => queue[Main][1].l \in LayerIds
    BY <2>1 DEF MainWork
  <2> QED
    BY <1>1, <1>3, <2>2 DEF Reads
<1> QED
  BY <1>4, <1>5, <1>6

\* What it does to its own stream.
LEMMA SideUnderSide ==
    ASSUME TypeInv, TypeInv', MainOrder, NEW l \in LayerIds,
           SideWork(l), Joined(l), Forked(l), Fetched(l), Reads(l),
           NEW k, Ran(l, k)
    PROVE  SideWork(l)' /\ Joined(l)' /\ Forked(l)' /\ Fetched(l)' /\ Reads(l)'
<1> DEFINE q == queue[l]
<1>1. /\ q # <<>> /\ q[1].kind = k /\ 1 \in 1 .. Len(q)
      /\ Len(q) \in Nat /\ Len(q') = Len(q) - 1
      /\ \A i \in 1 .. Len(q') : i + 1 \in 1 .. Len(q) /\ q'[i] = q[i + 1]
      /\ (q' = <<>> <=> Len(q) = 1)
      /\ done'[l] = done[l] + 1 /\ done[l] \in Nat
      /\ queue'[Main] = queue[Main] /\ done'[Main] = done[Main]
      /\ forward' = forward /\ step' = step /\ disabled' = disabled
      /\ reading'[l] = Nothing
  BY AfterRun, Queues DEF Ran
<1>2. /\ Upto' = Upto /\ Prefetched(l)' = Prefetched(l)
  BY <1>1 DEF Upto, Prefetched
<1>3. q[1].f = hash /\ k # "hash" /\ k # "gather" /\ hash' = hash
  BY SideRunsNow
<1>4. hash \in Nat /\ \A i \in 1 .. Len(q) : q[i].f \in Nat /\ q[i].n \in Nat
  BY Queues, PieceIn DEF TypeInv
<1>5. /\ \A i \in 1 .. Len(q) : /\ q[i].kind \in Copies \cup {"wait"}
                                /\ q[i].l = IF q[i].kind = "wait" THEN Main ELSE l
      /\ \A i \in 1 .. Len(q) - 1 : Follows(q[i], q[i + 1])
      /\ q[Len(q)].kind = "rows" \/ (disabled = 1 /\ q[Len(q)].f = forward)
  BY <1>1 DEF SideWork
<1>6. q' # <<>> => 1 \in 1 .. Len(q) - 1 /\ q'[1] = q[2] /\ Follows(q[1], q[2])
  <2> SUFFICES ASSUME q' # <<>> PROVE 1 \in 1 .. Len(q) - 1 /\ q'[1] = q[2] /\ Follows(q[1], q[2])
    OBVIOUS
  <2>1. 1 \in 1 .. Len(q) - 1
    BY <1>1
  <2>2. 1 \in 1 .. Len(q') /\ 1 + 1 = 2
    BY <1>1, <2>1
  <2>3. q'[1] = q[1 + 1] /\ Follows(q[1], q[1 + 1])
    BY <1>1, <1>5, <2>1, <2>2
  <2> QED
    BY <2>1, <2>2, <2>3
<1>7. SideWork(l)'
  <2>1. \A i \in 1 .. Len(q') : /\ q'[i].kind \in Copies \cup {"wait"}
                                /\ q'[i].l = IF q'[i].kind = "wait" THEN Main ELSE l
    BY <1>1, <1>5
  <2>2. \A i \in 1 .. Len(q') - 1 : Follows(q'[i], q'[i + 1])
    <3> TAKE i \in 1 .. Len(q') - 1
    <3>1. i \in 1 .. Len(q') /\ i + 1 \in 1 .. Len(q') /\ i + 1 \in 1 .. Len(q) - 1
      BY <1>1
    <3> QED
      BY <1>1, <1>5, <3>1
  <2>3. q' # <<>> => q'[Len(q')].kind = "rows" \/ (disabled' = 1 /\ q'[Len(q')].f = forward')
    <3> SUFFICES ASSUME q' # <<>> PROVE Len(q') \in 1 .. Len(q') /\ Len(q') + 1 = Len(q)
      BY <1>1, <1>5
    <3> QED
      BY <1>1
  <2>4. q' # <<>> /\ q'[1].kind # "wait" => q'[1].f = hash'
    BY <1>3, <1>6 DEF Follows
  <2> QED
    BY <2>1, <2>2, <2>3, <2>4 DEF SideWork
<1>8. Joined(l)'
  <2>1. ASSUME NEW j \in 1 .. Len(q')
        PROVE  \/ \E i \in 1 .. Len(queue'[Main]) :
                    LET w == queue'[Main][i] IN
                    w.kind = "wait" /\ w.l = l /\ w.f = q'[j].f /\ w.n >= done'[l] + j
               \/ q'[j].f = forward' /\ (disabled' = 1 \/ l >= Upto')
    <3>1. j + 1 \in 1 .. Len(q) /\ q'[j] = q[j + 1]
      BY <1>1
    <3>2. j \in Nat
      BY <1>1
    <3>3. done[l] + (j + 1) = done'[l] + j
      <4>1. done'[l] = done[l] + 1 /\ done[l] \in Nat
        BY <1>1
      <4> QED
        BY <3>2, <4>1
    <3>4. \/ \E i \in 1 .. Len(queue[Main]) :
               LET w == queue[Main][i] IN
               w.kind = "wait" /\ w.l = l /\ w.f = q[j + 1].f /\ w.n >= done[l] + (j + 1)
          \/ q[j + 1].f = forward /\ (disabled = 1 \/ l >= Upto)
      BY <3>1 DEF Joined
    <3> QED
      BY <1>1, <1>2, <3>1, <3>3, <3>4
  <2> QED
    BY <2>1 DEF Joined
<1>9. Forked(l)'
  <2> SUFFICES ASSUME NEW i \in 1 .. Len(q'), q[i + 1].kind = "wait"
               PROVE  LET w == q[i + 1] d == w.n - done[Main] IN
                      IF w.n <= done[Main] THEN w.f <= hash
                      ELSE /\ d <= Len(queue[Main])
                           /\ queue[Main][d].kind = "hash" /\ queue[Main][d].f = w.f
    BY <1>1, <1>3 DEF Forked
  <2>1. i + 1 \in 1 .. Len(q)
    BY <1>1
  <2> QED
    BY <2>1 DEF Forked
<1>10. Fetched(l)'
  <2>0. \A f : Covered(l, f)' <=> Covered(l, f)
    BY <1>1, <1>2 DEF Covered
  <2>1. ASSUME NEW f \in Nat, f > hash, Covered(l, f)
        PROVE  \E j \in 1 .. Len(q') : q'[j].f = f
    <3>1. PICK j \in 1 .. Len(q) : q[j].f = f
      BY <2>1 DEF Fetched
    <3>2. j # 1
      BY <1>3, <1>4, <2>1, <3>1
    <3>3. j - 1 \in 1 .. Len(q') /\ q'[j - 1] = q[j]
      BY <1>1, <3>1, <3>2
    <3> QED
      BY <3>1, <3>3
  <2>2. ASSUME Covered(l, hash)
        PROVE  drows'[l] = hash \/ \E j \in 1 .. Len(q') : q'[j].f = hash
    <3>1. CASE k = "rows"
      BY <1>1, <1>5, <3>1 DEF Ran
    <3>2. CASE k # "rows"
      <4>1. q' # <<>>
        <5> SUFFICES ASSUME q' = <<>> PROVE FALSE
          OBVIOUS
        <5>1. Len(q) = 1 /\ disabled = 1 /\ hash = forward
          BY <1>1, <1>3, <1>5, <3>2
        <5> QED
          BY <1>4, <2>2, <5>1 DEF Covered
      <4>2. q[2].f = q[1].f
        BY <1>1, <1>6, <3>2, <4>1 DEF Follows
      <4>3. 1 \in 1 .. Len(q')
        BY <1>1, <1>6, <4>1
      <4> QED
        BY <1>3, <1>6, <4>1, <4>2, <4>3
    <3> QED
      BY <3>1, <3>2
  <2> QED
    BY <1>3, <2>0, <2>1, <2>2 DEF Fetched
<1>11. Reads(l)'
  <2> SUFFICES ASSUME q' # <<>>
               PROVE  /\ q[2].kind = "lookup" => ids'[q[2].l] = hash
                      /\ q[2].kind = "rows" => rows'[q[2].l] = hash
                      /\ q[2].kind = "gather" => drows'[q[2].l] = hash
    BY <1>1, <1>3, <1>6 DEF Reads
  <2>1. 2 \in 1 .. Len(q) /\ q[2].kind \in Copies \cup {"wait"}
        /\ q[2].l = IF q[2].kind = "wait" THEN Main ELSE l
    BY <1>1, <1>5, <1>6
  <2>2. q[1].l = IF q[1].kind = "wait" THEN Main ELSE l
    BY <1>1, <1>5
  <2>3. (k = "ids" => ids'[q[1].l] = hash) /\ (k = "lookup" => rows'[q[1].l] = hash)
    BY DEF Ran
  <2> QED
    BY <1>1, <1>6, <2>1, <2>2, <2>3 DEF Follows, Copies
<1> QED
  BY <1>7, <1>8, <1>9, <1>10, <1>11

-----------------------------------------------------------------------------
(* A copy or callback reads its source. *)

LEMMA ReadStep ==
    ASSUME TypeInv, TypeInv', StreamsInv, NEW s \in Streams, Read(s)
    PROVE  StreamsInv'
<1>1. /\ queue' = queue /\ done' = done /\ hash' = hash
      /\ ids' = ids /\ rows' = rows /\ drows' = drows /\ UNCHANGED host
      /\ forward' = forward /\ step' = step /\ pending' = pending /\ disabled' = disabled
  BY DEF Read, host
<1>2. /\ Upto' = Upto /\ \A l \in LayerIds : Prefetched(l)' = Prefetched(l)
  BY <1>1 DEF Upto, Prefetched
<1>3. queue[s] # <<>> /\ Head(queue[s]) = queue[s][1] /\ queue[s][1].kind \in Copies
  BY Queues, Popped DEF Read, Copies
<1>4. Reads(s)
  BY DEF StreamsInv, Streams
<1>5. reading'[s] = hash /\ \A t \in Streams : t # s => reading'[t] = reading[t]
  <2>1. reading \in [Streams -> Int]
    BY DEF TypeInv
  <2>2. CASE queue[s][1].kind = "ids"
    BY <1>3, <2>1, <2>2 DEF Read
  <2>3. CASE queue[s][1].kind = "lookup"
    BY <1>3, <1>4, <2>1, <2>3 DEF Read, Reads
  <2>4. CASE queue[s][1].kind = "rows"
    BY <1>3, <1>4, <2>1, <2>4 DEF Read, Reads
  <2> QED
    BY <1>3, <2>2, <2>3, <2>4 DEF Copies
<1>6. \A t \in Streams : Reads(t)'
  <2> TAKE t \in Streams
  <2>1. Reads(t)
    BY DEF StreamsInv, Streams
  <2>2. CASE t = s
    BY <1>1, <1>3, <1>5, <2>1, <2>2 DEF Reads
  <2>3. CASE t # s
    BY <1>1, <1>5, <2>1, <2>3 DEF Reads
  <2> QED
    BY <2>2, <2>3
<1>7. HostInv' /\ MainOrder' /\ MainWork'
  <2>1. HostInv'
    BY <1>1, HostKept DEF StreamsInv
  <2>2. MainOrder'
    BY <1>1 DEF StreamsInv, MainOrder
  <2>3. MainWork'
    BY <1>1, <1>2 DEF StreamsInv, MainWork
  <2> QED
    BY <2>1, <2>2, <2>3
<1>8. ASSUME NEW l \in LayerIds
      PROVE  SideWork(l)' /\ Forked(l)' /\ Joined(l)' /\ Fetched(l)'
  <2>1. SideWork(l) /\ Forked(l) /\ Joined(l) /\ Fetched(l)
    BY DEF StreamsInv
  <2>2. SideWork(l)'
    BY <1>1, <2>1 DEF SideWork
  <2>3. Forked(l)'
    BY <1>1, <2>1 DEF Forked
  <2>4. Joined(l)'
    BY <1>1, <1>2, <2>1 DEF Joined
  <2>5. Fetched(l)'
    BY <1>1, <1>2, <2>1 DEF Fetched, Covered
  <2> QED
    BY <2>2, <2>3, <2>4, <2>5
<1> QED
  BY <1>6, <1>7, <1>8, Queues DEF StreamsInv

-----------------------------------------------------------------------------
(* The host enqueues work. *)

\* The queues after an enqueue, position by position.
LEMMA AfterEnqueue ==
    ASSUME TypeInv, NEW s \in Streams, NEW b \in Seq(Piece), Enqueue(s, b)
    PROVE  /\ queue'[s] = queue[s] \o b
           /\ Len(queue[s]) \in Nat /\ Len(b) \in Nat
           /\ Len(queue'[s]) = Len(queue[s]) + Len(b)
           /\ \A i \in 1 .. Len(queue[s]) : queue'[s][i] = queue[s][i]
           /\ \A i \in 1 .. Len(b) : queue'[s][Len(queue[s]) + i] = b[i]
           /\ \A i \in 1 .. Len(queue'[s]) : i \in 1 .. Len(queue[s]) \/ i - Len(queue[s]) \in 1 .. Len(b)
           /\ \A t \in Streams : t # s => queue'[t] = queue[t]
           /\ queue[s] = <<>> <=> Len(queue[s]) = 0
           /\ Len(b) > 0 => queue'[s] # <<>>
<1>1. queue[s] \in Seq(Piece)
  BY Queues
<1>2. queue'[s] = queue[s] \o b /\ \A t \in Streams : t # s => queue'[t] = queue[t]
  BY DEF Enqueue, TypeInv
<1>3. /\ queue[s] \o b \in Seq(Piece)
      /\ Len(queue[s]) \in Nat /\ Len(b) \in Nat
      /\ Len(queue[s] \o b) = Len(queue[s]) + Len(b)
      /\ \A i \in 1 .. Len(queue[s]) : (queue[s] \o b)[i] = queue[s][i]
      /\ \A i \in 1 .. Len(b) : (queue[s] \o b)[Len(queue[s]) + i] = b[i]
      /\ \A i \in 1 .. Len(queue[s] \o b) : i \in 1 .. Len(queue[s]) \/ i - Len(queue[s]) \in 1 .. Len(b)
  BY <1>1, Pushed
<1>4. queue[s] = <<>> <=> Len(queue[s]) = 0
  BY <1>1, EmptyQueue
<1>5. Len(b) > 0 => queue[s] \o b # <<>>
  <2>1. queue[s] \o b # <<>> <=> Len(queue[s] \o b) >= 1
    BY <1>3, EmptyQueue
  <2> QED
    BY <1>3, <2>1
<1> HIDE DEF Piece, Streams
<1> QED
  BY <1>1, <1>2, <1>3, <1>4, <1>5

\* Work enqueued on the main stream moves nobody's wait.
LEMMA ForkedUnderMain ==
    ASSUME TypeInv, NEW l \in LayerIds, Forked(l), NEW b \in Seq(Piece), Enqueue(Main, b),
           done' = done, hash' = hash
    PROVE  Forked(l)'
<1>1. /\ Len(queue[Main]) \in Nat /\ Len(b) \in Nat
      /\ Len(queue'[Main]) = Len(queue[Main]) + Len(b)
      /\ \A i \in 1 .. Len(queue[Main]) : queue'[Main][i] = queue[Main][i]
      /\ queue'[l] = queue[l] /\ done[Main] \in Nat
  <2>1. done[Main] \in Nat
    BY Queues DEF TypeInv
  <2> QED
    BY <2>1, AfterEnqueue, Queues
<1>2. ASSUME NEW i \in 1 .. Len(queue[l]), queue[l][i].kind = "wait"
      PROVE  LET w == queue[l][i] k == w.n - done[Main] IN
             IF w.n <= done[Main] THEN w.f <= hash
             ELSE /\ k <= Len(queue'[Main])
                  /\ queue'[Main][k].kind = "hash" /\ queue'[Main][k].f = w.f
  <2> DEFINE w == queue[l][i]
             k == w.n - done[Main]
  <2>1. w.n \in Nat
    BY Queues, PieceIn
  <2>2. IF w.n <= done[Main] THEN w.f <= hash
        ELSE k <= Len(queue[Main]) /\ queue[Main][k].kind = "hash" /\ queue[Main][k].f = w.f
    BY <1>2 DEF Forked
  <2>3. CASE w.n <= done[Main]
    BY <2>2, <2>3
  <2>4. CASE ~ (w.n <= done[Main])
    <3>1. k \in 1 .. Len(queue[Main]) /\ k <= Len(queue'[Main])
      BY <1>1, <2>1, <2>2, <2>4
    <3> QED
      BY <1>1, <2>2, <2>4, <3>1
  <2> QED
    BY <2>3, <2>4
<1> QED
  BY <1>1, <1>2 DEF Forked

\* A stream whose queue grows goes on with what it does.
LEMMA ReadsUnderEnqueue ==
    ASSUME TypeInv, NEW s \in Streams, Reads(s), NEW b \in Seq(Piece), Enqueue(s, b),
           Len(b) > 0, b[1].kind \in {"hash", "wait", "ids"}, UNCHANGED buffers
    PROVE  \A t \in Streams : Reads(t) => Reads(t)'
<1>1. /\ hash' = hash /\ ids' = ids /\ rows' = rows /\ drows' = drows /\ reading' = reading
  BY DEF buffers
<1>2. /\ Len(queue[s]) \in Nat /\ Len(b) \in Nat
      /\ \A i \in 1 .. Len(queue[s]) : queue'[s][i] = queue[s][i]
      /\ \A i \in 1 .. Len(b) : queue'[s][Len(queue[s]) + i] = b[i]
      /\ \A t \in Streams : t # s => queue'[t] = queue[t]
      /\ queue[s] = <<>> <=> Len(queue[s]) = 0
      /\ queue'[s] # <<>>
  BY AfterEnqueue
<1>3. CASE queue[s] = <<>>
  <2>1. queue'[s][1] = b[1]
    <3>1. 1 \in 1 .. Len(b) /\ Len(queue[s]) + 1 = 1
      BY <1>2, <1>3
    <3> QED
      BY <1>2, <3>1
  <2> QED
    BY <1>1, <1>2, <1>3, <2>1 DEF Reads
<1>4. CASE queue[s] # <<>>
  <2>1. queue'[s][1] = queue[s][1]
    BY <1>2, <1>4
  <2> QED
    BY <1>1, <1>2, <1>4, <2>1 DEF Reads
<1> QED
  BY <1>3, <1>4

LEMMA HashStep ==
    ASSUME TypeInv, TypeInv', StreamsInv, Hash
    PROVE  StreamsInv'
<1> DEFINE q == queue[Main]
           h == Work("hash", 0, forward + 1, 0)
<1>0. forward \in Nat /\ forward' = forward + 1 /\ hash \in Nat
  BY DEF Hash, TypeInv
<1>1. /\ done' = done /\ pending' = pending /\ disabled' = disabled /\ UNCHANGED buffers
      /\ step[1] = "hash" /\ disabled = 0 /\ step' = <<"prefetch", 1>>
  <2>1. disabled = 0
    <3>1. disabled \in {0, 1} /\ forward \in Nat /\ MaxForwards \in Nat
      BY EngramStreamsAssumption DEF TypeInv
    <3> QED
      BY <3>1 DEF Hash, StreamsInv, HostInv
  <2> QED
    BY <2>1 DEF Hash
<1>2. <<h>> \in Seq(Piece) /\ Len(<<h>>) = 1 /\ <<h>>[1] = h /\ h.kind = "hash" /\ h.f = forward + 1
  <2>1. h \in Piece
    BY <1>0, Queues DEF Work, Piece
  <2> QED
    BY <2>1 DEF Work
<1> HIDE DEF h
<1>3. Enqueue(Main, <<h>>)
  BY DEF Hash, h
<1>4. /\ Len(q) \in Nat /\ Len(q') = Len(q) + 1
      /\ \A i \in 1 .. Len(q) : q'[i] = q[i]
      /\ q'[Len(q) + 1] = h
      /\ \A l \in LayerIds : queue'[l] = queue[l]
      /\ (q = <<>> <=> Len(q) = 0) /\ q' # <<>>
  <2>1. /\ Len(q) \in Nat /\ Len(q') = Len(q) + Len(<<h>>)
        /\ \A i \in 1 .. Len(q) : q'[i] = q[i]
        /\ \A i \in 1 .. Len(<<h>>) : q'[Len(q) + i] = <<h>>[i]
        /\ \A t \in Streams : t # Main => queue'[t] = queue[t]
        /\ (q = <<>> <=> Len(q) = 0)
        /\ (Len(<<h>>) > 0 => q' # <<>>)
    BY <1>2, <1>3, AfterEnqueue, Queues
  <2> QED
    BY <1>2, <2>1, Queues
<1>5. /\ Upto = Layers + 1 /\ Upto' = 1
      /\ \A l \in LayerIds : Prefetched(l) /\ ~ Prefetched(l)'
  BY <1>1, Queues DEF Upto, Prefetched, LayerIds
<1>6. \A i \in 1 .. Len(q) : q[i].f \in Nat /\ hash <= q[i].f /\ q[i].f <= forward
  <2>1. \A i \in 1 .. Len(q) : q[i].f \in Nat
    BY Queues, PieceIn
  <2> QED
    BY <2>1 DEF StreamsInv, MainOrder
<1>7. HostInv'
  <2>1. 1 \in LayerIds /\ forward' > 0
    BY <1>0, EngramStreamsAssumption DEF LayerIds
  <2> QED
    BY <1>1, <1>5, <2>1 DEF HostInv
<1>8. MainOrder'
  <2>0. /\ \A i \in 1 .. Len(q) : \A j \in 1 .. Len(q) : i <= j => q[i].f <= q[j].f
        /\ IF q = <<>> THEN hash = forward ELSE q[Len(q)].f = forward
        /\ q # <<>> => (q[1].f = hash <=> q[1].kind # "hash")
        /\ \A i \in 1 .. Len(q) - 1 : q[i + 1].f = q[i].f <=> q[i + 1].kind # "hash"
    BY DEF StreamsInv, MainOrder
  <2>h. hash' = hash /\ \A i \in 1 .. Len(q') : i \in 1 .. Len(q) \/ i = Len(q) + 1
    BY <1>1, <1>4 DEF buffers
  <2>1. \A i \in 1 .. Len(q') : \A j \in 1 .. Len(q') : i <= j => q'[i].f <= q'[j].f
    <3> TAKE i \in 1 .. Len(q')
    <3> TAKE j \in 1 .. Len(q')
    <3>1. CASE i \in 1 .. Len(q) /\ j \in 1 .. Len(q)
      BY <1>4, <2>0, <3>1
    <3>2. CASE i \in 1 .. Len(q) /\ j = Len(q) + 1
      <4>1. q'[i] = q[i] /\ q'[j] = h
        BY <1>4, <3>2
      <4>2. q[i].f \in Nat /\ q[i].f <= forward /\ h.f = forward + 1
        BY <1>2, <1>6, <3>2
      <4> QED
        BY <1>0, <4>1, <4>2
    <3>3. CASE i = Len(q) + 1
      BY <1>0, <1>2, <1>4, <2>h, <3>3
    <3> QED
      BY <2>h, <3>1, <3>2, <3>3
  <2>h2. hash <= forward + 1
    <3>1. q # <<>> => 1 \in 1 .. Len(q)
      BY <1>4
    <3> QED
      BY <1>0, <1>6, <2>0, <3>1
  <2>2. \A i \in 1 .. Len(q') : hash' <= q'[i].f /\ q'[i].f <= forward'
    <3> TAKE i \in 1 .. Len(q')
    <3>1. CASE i \in 1 .. Len(q)
      <4>1. q'[i] = q[i] /\ q[i].f \in Nat /\ hash <= q[i].f /\ q[i].f <= forward
        BY <1>4, <1>6, <3>1
      <4> QED
        BY <1>0, <2>h, <4>1
    <3>2. CASE i = Len(q) + 1
      BY <1>0, <1>2, <1>4, <2>h, <2>h2, <3>2
    <3> QED
      BY <2>h, <3>1, <3>2
  <2>3. IF q' = <<>> THEN hash' = forward' ELSE q'[Len(q')].f = forward'
    BY <1>0, <1>2, <1>4
  <2>4. q' # <<>> => (q'[1].f = hash' <=> q'[1].kind # "hash")
    <3>1. CASE q = <<>>
      <4>1. q'[1] = h /\ hash = forward
        BY <1>4, <2>0, <3>1
      <4> QED
        BY <1>0, <1>2, <2>h, <4>1
    <3>2. CASE q # <<>>
      BY <1>4, <2>0, <2>h, <3>2
    <3> QED
      BY <3>1, <3>2
  <2>5. \A i \in 1 .. Len(q') - 1 : q'[i + 1].f = q'[i].f <=> q'[i + 1].kind # "hash"
    <3> TAKE i \in 1 .. Len(q') - 1
    <3>1. CASE i = Len(q)
      <4>1. q'[i].f = forward /\ q'[i + 1].f = forward + 1 /\ q'[i + 1].kind = "hash"
        BY <1>2, <1>4, <2>0, <3>1
      <4> QED
        BY <1>0, <4>1
    <3>2. CASE i # Len(q)
      <4>1. i \in 1 .. Len(q) - 1 /\ i \in 1 .. Len(q) /\ i + 1 \in 1 .. Len(q)
        BY <1>4, <3>2
      <4> QED
        BY <1>4, <2>0, <4>1
    <3> QED
      BY <3>1, <3>2
  <2> QED
    BY <2>1, <2>2, <2>3, <2>4, <2>5 DEF MainOrder
<1>9. MainWork'
  <2>0. \A i \in 1 .. Len(q') : i \in 1 .. Len(q) \/ i = Len(q) + 1
    BY <1>4
  <2>1. \A i \in 1 .. Len(q') : q'[i].kind = "hash" \/ q'[i].l \in LayerIds
    BY <1>2, <1>4, <2>0 DEF StreamsInv, MainWork
  <2>2. \A i \in 1 .. Len(q') - 1 : Behind(q'[i], q'[i + 1])
    <3> TAKE i \in 1 .. Len(q') - 1
    <3>1. CASE i = Len(q)
      BY <1>2, <1>4, <3>1 DEF Behind
    <3>2. CASE i # Len(q)
      <4>1. i \in 1 .. Len(q) - 1 /\ i \in 1 .. Len(q) /\ i + 1 \in 1 .. Len(q)
        BY <1>4, <3>2
      <4>2. Behind(q[i], q[i + 1])
        BY <4>1 DEF StreamsInv, MainWork
      <4> QED
        BY <1>4, <4>1, <4>2
    <3> QED
      BY <3>1, <3>2
  <2>3. \A i \in 1 .. Len(q') : \A j \in 1 .. Len(q') :
         q'[j].kind = "wait" /\ q'[i].l = q'[j].l /\ q'[i].f = q'[j].f /\ q'[i].kind # "hash" => j <= i
    <3> TAKE i \in 1 .. Len(q')
    <3> TAKE j \in 1 .. Len(q')
    <3> SUFFICES ASSUME i \in 1 .. Len(q), j \in 1 .. Len(q)
                 PROVE  q[j].kind = "wait" /\ q[i].l = q[j].l /\ q[i].f = q[j].f
                          /\ q[i].kind # "hash" => j <= i
      BY <1>2, <1>4, <2>0
    <3> QED
      BY DEF StreamsInv, MainWork
  <2>4. \A i \in 1 .. Len(q') : q'[i].f = forward' => q'[i].kind = "hash"
    <3> TAKE i \in 1 .. Len(q')
    <3>1. CASE i \in 1 .. Len(q)
      BY <1>0, <1>4, <1>6, <3>1
    <3>2. CASE i = Len(q) + 1
      BY <1>2, <1>4, <3>2
    <3> QED
      BY <2>0, <3>1, <3>2
  <2> QED
    BY <2>1, <2>2, <2>3, <2>4 DEF MainWork
<1>10. \A t \in Streams : Reads(t)'
  <2>1. \A t \in Streams : Reads(t)
    BY DEF StreamsInv, Streams
  <2>2. Len(<<h>>) > 0 /\ <<h>>[1].kind \in {"hash", "wait", "ids"}
    BY <1>2
  <2> QED
    BY <1>1, <1>2, <1>3, <2>1, <2>2, ReadsUnderEnqueue, Queues
<1>11. ASSUME NEW l \in LayerIds
       PROVE  SideWork(l)' /\ Forked(l)' /\ Joined(l)' /\ Fetched(l)'
  <2>0. /\ SideWork(l) /\ Forked(l) /\ Joined(l) /\ Fetched(l)
        /\ queue'[l] = queue[l] /\ hash' = hash /\ drows' = drows
    BY <1>1, <1>4 DEF StreamsInv, buffers
  <2>1. SideWork(l)'
    BY <1>1, <2>0 DEF SideWork
  <2>2. Forked(l)'
    BY <1>1, <1>2, <1>3, <2>0, ForkedUnderMain
  <2>3. Joined(l)'
    <3>1. ASSUME NEW j \in 1 .. Len(queue[l])
          PROVE  \E i \in 1 .. Len(q') :
                   /\ q'[i].kind = "wait" /\ q'[i].l = l /\ q'[i].f = queue[l][j].f
                   /\ q'[i].n >= done[l] + j
      <4>1. ~ (l >= Upto)
        BY <1>5, EngramStreamsAssumption DEF LayerIds
      <4>2. PICK i \in 1 .. Len(q) :
              q[i].kind = "wait" /\ q[i].l = l /\ q[i].f = queue[l][j].f /\ q[i].n >= done[l] + j
        BY <1>1, <2>0, <4>1 DEF Joined
      <4>3. i \in 1 .. Len(q') /\ q'[i] = q[i]
        BY <1>4
      <4> QED
        BY <4>2, <4>3
    <3> QED
      BY <1>1, <2>0, <3>1 DEF Joined
  <2>4. Fetched(l)'
    <3>1. \A f \in Nat : Covered(l, f)' => Covered(l, f)
      BY <1>0, <1>1, <1>5 DEF Covered
    <3>2. Covered(l, hash)' => Covered(l, hash)
      BY <1>0, <1>1, <1>5, <2>0 DEF Covered
    <3> QED
      BY <2>0, <3>1, <3>2 DEF Fetched
  <2> QED
    BY <2>1, <2>2, <2>3, <2>4
<1> QED
  BY <1>7, <1>8, <1>9, <1>10, <1>11, Queues DEF StreamsInv

\* The work that a prefetch gives a side stream: a wait for the hash, then
\* copies in their order.
SideBlock(b, l) ==
    /\ b \in Seq(Piece) /\ Len(b) > 0 /\ b[1] = WaitFor(Main)
    /\ \A i \in 1 .. Len(b) : b[i].f = forward
    /\ \A i \in 1 .. Len(b) : i > 1 => b[i].kind \in Copies /\ b[i].l = l
    /\ \A i \in 1 .. Len(b) - 1 : Follows(b[i], b[i + 1])

LEMMA PrefetchBlock ==
    ASSUME TypeInv, NEW l \in LayerIds
    PROVE  LET b == <<WaitFor(Main)>> \o Lookup(l) IN
           SideBlock(b, l) /\ Len(b) = 4 /\ b[Len(b)].kind = "rows"
<1> DEFINE w == WaitFor(Main)
           b == <<WaitFor(Main)>> \o Lookup(l)
<1>1. /\ w \in Piece /\ w.kind = "wait" /\ w.l = Main /\ w.f = forward
      /\ <<w>> \in Seq(Piece) /\ Len(<<w>>) = 1 /\ <<w>>[1] = w
  <2>1. w \in Piece /\ w.kind = "wait" /\ w.l = Main /\ w.f = forward
    BY WaitPiece, Queues
  <2> HIDE DEF w
  <2> QED
    BY <2>1
<1> HIDE DEF w
<1>2. /\ Lookup(l) \in Seq(Piece) /\ Len(Lookup(l)) = 3
      /\ Lookup(l)[1] = Work("ids", l, forward, 0)
      /\ Lookup(l)[2] = Work("lookup", l, forward, 0)
      /\ Lookup(l)[3] = Work("rows", l, forward, 0)
  BY LookupBlock
<1>3. /\ b \in Seq(Piece) /\ Len(b) = 4
      /\ b[1] = w /\ b[2] = Lookup(l)[1] /\ b[3] = Lookup(l)[2] /\ b[4] = Lookup(l)[3]
  <2>1. /\ <<w>> \o Lookup(l) \in Seq(Piece)
        /\ Len(<<w>> \o Lookup(l)) = Len(<<w>>) + Len(Lookup(l))
        /\ \A i \in 1 .. Len(<<w>>) : (<<w>> \o Lookup(l))[i] = <<w>>[i]
        /\ \A i \in 1 .. Len(Lookup(l)) : (<<w>> \o Lookup(l))[Len(<<w>>) + i] = Lookup(l)[i]
    BY <1>1, <1>2, Pushed
  <2>2. b = <<w>> \o Lookup(l)
    BY DEF w
  <2> HIDE DEF b
  <2> QED
    BY <1>1, <1>2, <2>1, <2>2
<1>4. /\ b[2].kind = "ids" /\ b[3].kind = "lookup" /\ b[4].kind = "rows"
      /\ b[2].l = l /\ b[3].l = l /\ b[4].l = l
      /\ b[2].f = forward /\ b[3].f = forward /\ b[4].f = forward
  BY <1>2, <1>3 DEF Work
<1> HIDE DEF b
<1>5. \A i \in 1 .. Len(b) : i = 1 \/ i = 2 \/ i = 3 \/ i = 4
  BY <1>3
<1>6. \A i \in 1 .. Len(b) - 1 : i = 1 \/ i = 2 \/ i = 3
  BY <1>3
<1>7. \A i \in 1 .. Len(b) - 1 : Follows(b[i], b[i + 1])
  <2> TAKE i \in 1 .. Len(b) - 1
  <2>1. CASE i = 1
    BY <1>1, <1>3, <1>4, <2>1 DEF Follows
  <2>2. CASE i = 2
    BY <1>3, <1>4, <2>2 DEF Follows
  <2>3. CASE i = 3
    BY <1>3, <1>4, <2>3 DEF Follows
  <2> QED
    BY <1>6, <2>1, <2>2, <2>3
<1>8. /\ \A i \in 1 .. Len(b) : b[i].f = forward
      /\ \A i \in 1 .. Len(b) : i > 1 => b[i].kind \in Copies /\ b[i].l = l
  BY <1>1, <1>3, <1>4, <1>5 DEF Copies
<1> QED
  BY <1>3, <1>4, <1>7, <1>8 DEF SideBlock, b, w

LEMMA RaiseBlock ==
    ASSUME TypeInv, NEW l \in LayerIds
    PROVE  SideBlock(<<WaitFor(Main), Work("ids", l, forward, 0)>>, l)
<1> DEFINE w == WaitFor(Main)
           v == Work("ids", l, forward, 0)
<1>1. w \in Piece /\ w.kind = "wait" /\ w.f = forward
  BY WaitPiece, Queues
<1>2. v \in Piece /\ v.kind = "ids" /\ v.l = l /\ v.f = forward
  BY Queues DEF Work, Piece, Copies, TypeInv
<1> HIDE DEF w, v
<1>3. <<w, v>> \in Seq(Piece) /\ Len(<<w, v>>) = 2 /\ <<w, v>>[1] = w /\ <<w, v>>[2] = v
  BY <1>1, <1>2
<1>4. PICK b : b = <<w, v>>
  OBVIOUS
<1>5. \A i \in 1 .. Len(b) : i = 1 \/ i = 2
  BY <1>3, <1>4
<1>6. \A i \in 1 .. Len(b) - 1 : i = 1
  BY <1>3, <1>4
<1>7. Follows(b[1], b[1 + 1])
  BY <1>1, <1>2, <1>3, <1>4 DEF Follows
<1>8. SideBlock(b, l)
  BY <1>1, <1>2, <1>3, <1>4, <1>5, <1>6, <1>7 DEF SideBlock, Copies, w
<1> QED
  BY <1>4, <1>8 DEF w, v

\* At a prefetch the main stream ends with the hash of the forward, or has
\* run it.
LEMMA HashEnqueued ==
    ASSUME TypeInv, MainOrder, MainWork, Upto = 1
    PROVE  LET q == queue[Main] IN
           /\ q = <<>> => hash = forward
           /\ q # <<>> => q[Len(q)].f = forward /\ q[Len(q)].kind = "hash"
           /\ \A i \in 1 .. Len(q) : q[i].f = forward => q[i].kind = "hash"
<1> DEFINE q == queue[Main]
<1>1. \A i \in 1 .. Len(q) : q[i].f = forward => q[i].kind = "hash"
  <2> TAKE i \in 1 .. Len(q)
  <2> HAVE q[i].f = forward
  <2>1. q[i].kind # "hash" => q[i].l < 1 /\ q[i].l \in LayerIds
    BY DEF MainWork
  <2> QED
    BY <2>1 DEF LayerIds
<1>2. q # <<>> => Len(q) \in 1 .. Len(q)
  BY Queues, EmptyQueue
<1> QED
  BY <1>1, <1>2 DEF MainOrder

\* A side stream given such work.
LEMMA SideGiven ==
    ASSUME TypeInv, TypeInv', MainOrder, MainWork, NEW l \in LayerIds,
           SideWork(l), Forked(l), Joined(l),
           NEW b, SideBlock(b, l), Enqueue(l, b), Upto = 1, Upto' = 1,
           disabled = 0, b[Len(b)].kind = "rows" \/ disabled' = 1,
           forward' = forward, done' = done, UNCHANGED buffers
    PROVE  /\ SideWork(l)' /\ Forked(l)' /\ Joined(l)'
           /\ \E j \in 1 .. Len(queue'[l]) : queue'[l][j].f = forward
           /\ \A j \in 1 .. Len(queue[l]) : j \in 1 .. Len(queue'[l]) /\ queue'[l][j] = queue[l][j]
<1> DEFINE q == queue[l]
<1>0. /\ hash' = hash /\ forward \in Nat /\ hash \in Nat /\ l >= 1 /\ l \in Nat
  BY Queues DEF buffers, TypeInv
<1>1. /\ b \in Seq(Piece) /\ Len(b) > 0 /\ b[1] = WaitFor(Main)
      /\ \A i \in 1 .. Len(b) : b[i].f = forward
      /\ \A i \in 1 .. Len(b) : i > 1 => b[i].kind \in Copies /\ b[i].l = l
      /\ \A i \in 1 .. Len(b) - 1 : Follows(b[i], b[i + 1])
  BY DEF SideBlock
<1>2. /\ b[1].kind = "wait" /\ b[1].l = Main /\ b[1].n = done[Main] + Len(queue[Main])
  BY <1>1, WaitPiece, Queues
<1>3. /\ Len(q) \in Nat /\ Len(b) \in Nat /\ Len(q') = Len(q) + Len(b)
      /\ \A i \in 1 .. Len(q) : q'[i] = q[i]
      /\ \A i \in 1 .. Len(b) : q'[Len(q) + i] = b[i]
      /\ \A i \in 1 .. Len(q') : i \in 1 .. Len(q) \/ i - Len(q) \in 1 .. Len(b)
      /\ queue'[Main] = queue[Main]
      /\ (q = <<>> <=> Len(q) = 0) /\ q' # <<>>
  BY <1>1, AfterEnqueue, Queues
<1>4. \A i \in 1 .. Len(q') : i \in 1 .. Len(q) \/ \E k \in 1 .. Len(b) : i = Len(q) + k /\ q'[i] = b[k]
  <2> TAKE i \in 1 .. Len(q')
  <2>1. CASE i - Len(q) \in 1 .. Len(b)
    <3>1. i = Len(q) + (i - Len(q))
      BY <1>3
    <3> QED
      BY <1>3, <2>1, <3>1
  <2> QED
    BY <1>3, <2>1
<1>5. /\ \A i \in 1 .. Len(q) : /\ q[i].kind \in Copies \cup {"wait"}
                                /\ q[i].l = IF q[i].kind = "wait" THEN Main ELSE l
      /\ \A i \in 1 .. Len(q) - 1 : Follows(q[i], q[i + 1])
      /\ q # <<>> => q[Len(q)].kind = "rows"
      /\ q # <<>> /\ q[1].kind # "wait" => q[1].f = hash
  BY DEF SideWork
<1>6. \A k \in 1 .. Len(b) : /\ b[k].kind \in Copies \cup {"wait"}
                             /\ b[k].l = IF b[k].kind = "wait" THEN Main ELSE l
  <2> TAKE k \in 1 .. Len(b)
  <2>1. CASE k = 1
    BY <1>2, <2>1
  <2>2. CASE k > 1
    BY <1>1, <2>2 DEF Copies
  <2> QED
    BY <2>1, <2>2
<1>7. SideWork(l)'
  <2>1. \A i \in 1 .. Len(q') : /\ q'[i].kind \in Copies \cup {"wait"}
                                /\ q'[i].l = IF q'[i].kind = "wait" THEN Main ELSE l
    <3> TAKE i \in 1 .. Len(q')
    <3>1. CASE i \in 1 .. Len(q)
      BY <1>3, <1>5, <3>1
    <3>2. CASE \E k \in 1 .. Len(b) : i = Len(q) + k /\ q'[i] = b[k]
      BY <1>6, <3>2
    <3> QED
      BY <1>4, <3>1, <3>2
  <2>2. \A i \in 1 .. Len(q') - 1 : Follows(q'[i], q'[i + 1])
    <3> TAKE i \in 1 .. Len(q') - 1
    <3>1. CASE i < Len(q)
      <4>1. i \in 1 .. Len(q) - 1 /\ i \in 1 .. Len(q) /\ i + 1 \in 1 .. Len(q)
        BY <1>3, <3>1
      <4> QED
        BY <1>3, <1>5, <4>1
    <3>2. CASE i = Len(q)
      <4>1. q'[i] = q[Len(q)] /\ q'[i + 1] = b[1] /\ q # <<>>
        <5>1. 1 \in 1 .. Len(b) /\ Len(q) \in 1 .. Len(q) /\ Len(q) # 0
          BY <1>1, <1>3, <3>2
        <5>2. q'[Len(q)] = q[Len(q)] /\ q'[Len(q) + 1] = b[1] /\ q # <<>>
          BY <1>3, <5>1
        <5> QED
          BY <3>2, <5>2
      <4> QED
        BY <1>2, <1>5, <4>1 DEF Follows
    <3>3. CASE i > Len(q)
      <4>1. /\ i - Len(q) \in 1 .. Len(b) - 1 /\ i - Len(q) \in 1 .. Len(b)
            /\ (i - Len(q)) + 1 \in 1 .. Len(b)
            /\ Len(q) + (i - Len(q)) = i /\ Len(q) + ((i - Len(q)) + 1) = i + 1
        BY <1>3, <3>3
      <4>2. q'[i] = b[i - Len(q)] /\ q'[i + 1] = b[(i - Len(q)) + 1]
        BY <1>3, <4>1
      <4> QED
        BY <1>1, <4>1, <4>2
    <3>4. i \in Int /\ Len(q) \in Int
      BY <1>3
    <3> QED
      BY <3>1, <3>2, <3>3, <3>4
  <2>3. q'[Len(q')].kind = "rows" \/ (disabled' = 1 /\ q'[Len(q')].f = forward')
    <3>1. Len(b) \in 1 .. Len(b)
      BY <1>1, <1>3
    <3>2. q'[Len(q')] = b[Len(b)]
      BY <1>3, <3>1
    <3> QED
      BY <1>1, <3>1, <3>2
  <2>4. q'[1].kind # "wait" => q'[1].f = hash'
    <3>1. CASE q = <<>>
      <4>1. q'[1] = b[1]
        BY <1>1, <1>3, <3>1
      <4> QED
        BY <1>2, <4>1
    <3>2. CASE q # <<>>
      <4>1. 1 \in 1 .. Len(q)
        BY <1>3, <3>2
      <4>2. q'[1] = q[1]
        BY <1>3, <4>1
      <4> QED
        BY <1>0, <1>5, <3>2, <4>2
    <3> QED
      BY <3>1, <3>2
  <2> QED
    BY <2>1, <2>2, <2>3, <2>4 DEF SideWork
<1>8. Forked(l)'
  <2>1. ASSUME NEW i \in 1 .. Len(q'), q'[i].kind = "wait"
        PROVE  LET w == q'[i] k == w.n - done[Main] IN
               IF w.n <= done[Main] THEN w.f <= hash
               ELSE /\ k <= Len(queue[Main])
                    /\ queue[Main][k].kind = "hash" /\ queue[Main][k].f = w.f
    <3>1. CASE i \in 1 .. Len(q)
      BY <1>3, <2>1, <3>1 DEF Forked
    <3>2. ASSUME NEW k \in 1 .. Len(b), q'[i] = b[k]
          PROVE  q'[i] = b[1] /\ b[1].f = forward
      <4>1. k = 1
        BY <1>1, <1>6, <2>1, <3>2 DEF Copies
      <4> QED
        BY <1>1, <3>2, <4>1
    <3>3. CASE q'[i] = b[1] /\ b[1].f = forward
      <4>0. done[Main] \in Nat /\ Len(queue[Main]) \in Nat /\ (queue[Main] = <<>> <=> Len(queue[Main]) = 0)
        <5>1. done[Main] \in Nat
          BY Queues DEF TypeInv
        <5> QED
          BY <5>1, Queues, EmptyQueue
      <4>1. CASE queue[Main] = <<>>
        <5>1. b[1].n <= done[Main] /\ forward <= hash
          BY <1>0, <1>2, <4>0, <4>1, HashEnqueued
        <5> QED
          BY <3>3, <5>1
      <4>2. CASE queue[Main] # <<>>
        <5>1. ~ (b[1].n <= done[Main]) /\ b[1].n - done[Main] = Len(queue[Main])
          BY <1>2, <4>0, <4>2
        <5>2. queue[Main][Len(queue[Main])].f = forward /\ queue[Main][Len(queue[Main])].kind = "hash"
          BY <4>2, HashEnqueued
        <5> QED
          BY <3>3, <4>0, <5>1, <5>2
      <4> QED
        BY <4>1, <4>2
    <3> QED
      BY <1>4, <3>1, <3>2, <3>3
  <2> QED
    BY <1>0, <1>3, <2>1 DEF Forked
<1>9. Joined(l)'
  <2>1. ASSUME NEW j \in 1 .. Len(q')
        PROVE  \/ \E i \in 1 .. Len(queue[Main]) :
                    LET w == queue[Main][i] IN
                    w.kind = "wait" /\ w.l = l /\ w.f = q'[j].f /\ w.n >= done[l] + j
               \/ q'[j].f = forward
    <3>1. CASE j \in 1 .. Len(q)
      BY <1>3, <3>1 DEF Joined
    <3>2. CASE \E k \in 1 .. Len(b) : j = Len(q) + k /\ q'[j] = b[k]
      BY <1>1, <3>2
    <3> QED
      BY <1>4, <3>1, <3>2
  <2> QED
    BY <1>0, <1>3, <2>1 DEF Joined
<1>10. \E j \in 1 .. Len(q') : q'[j].f = forward
  <2>1. Len(q) + 1 \in 1 .. Len(q') /\ 1 \in 1 .. Len(b) /\ q'[Len(q) + 1] = b[1]
    BY <1>1, <1>3
  <2> QED
    BY <1>1, <2>1
<1>11. \A j \in 1 .. Len(q) : j \in 1 .. Len(q') /\ q'[j] = q[j]
  BY <1>3
<1> QED
  BY <1>7, <1>8, <1>9, <1>10, <1>11

\* A stream the host gave nothing to, between two states that agree on what
\* it is joined and covered by.
LEMMA SideLeft ==
    ASSUME NEW m \in LayerIds, SideWork(m), Forked(m), Joined(m),
           queue'[m] = queue[m], queue'[Main] = queue[Main],
           done' = done, hash' = hash, forward' = forward,
           disabled' = disabled \/ (disabled = 0 /\ disabled' = 1), Upto' = Upto
    PROVE  SideWork(m)' /\ Forked(m)' /\ Joined(m)'
<1>1. SideWork(m)'
  BY DEF SideWork
<1>2. Forked(m)'
  BY DEF Forked
<1>3. Joined(m)'
  BY DEF Joined
<1> QED
  BY <1>1, <1>2, <1>3

\* What a prefetch, whole or not, does not touch.
LEMMA MainLeft ==
    ASSUME MainOrder, MainWork, queue'[Main] = queue[Main],
           hash' = hash, forward' = forward, Upto = Upto', TypeInv, Upto = 1
    PROVE  MainOrder' /\ MainWork'
<1>1. MainOrder'
  BY DEF MainOrder
<1>2. \A i \in 1 .. Len(queue[Main]) : queue[Main][i].f = forward => queue[Main][i].kind = "hash"
  BY HashEnqueued
<1>3. MainWork'
  BY <1>2 DEF MainWork
<1> QED
  BY <1>1, <1>3

LEMMA PrefetchStep ==
    ASSUME TypeInv, TypeInv', StreamsInv, NEW l \in LayerIds, Prefetch(l)
    PROVE  StreamsInv'
<1> DEFINE b == <<WaitFor(Main)>> \o Lookup(l)
<1>0. /\ step = <<"prefetch", l>> /\ step[1] = "prefetch" /\ step[2] = l /\ disabled = 0
      /\ Enqueue(l, b) /\ forward' = forward /\ disabled' = disabled /\ done' = done
      /\ UNCHANGED buffers /\ hash' = hash /\ drows' = drows
      /\ pending' = [pending EXCEPT ![l] = forward] /\ step' = After(l, "prefetch")
      /\ forward > 0
  BY DEF Prefetch, StreamsInv, HostInv, buffers
<1>1. /\ SideBlock(b, l) /\ Len(b) = 4 /\ b[Len(b)].kind = "rows"
  BY PrefetchBlock
<1>2. b \in Seq(Piece) /\ Len(b) > 0 /\ b[1].kind = "wait"
  BY <1>1, WaitPiece, Queues DEF SideBlock
<1> HIDE DEF b
<1>3. /\ Upto = 1 /\ Upto' = 1
      /\ \A m \in LayerIds : Prefetched(m)' <=> (Prefetched(m) \/ m = l)
      /\ step'[1] # "hash" /\ step'[2] \in LayerIds
      /\ \A m \in LayerIds : m \in Nat /\ m >= 1
  <2>1. Layers \in Nat \ {0} /\ l \in 1 .. Layers
    BY EngramStreamsAssumption DEF LayerIds
  <2>2. CASE l < Layers
    <3>1. step' = <<"prefetch", l + 1>> /\ step'[1] = "prefetch" /\ step'[2] = l + 1
      BY <1>0, <2>2 DEF After
    <3> QED
      BY <1>0, <2>1, <2>2, <3>1 DEF Upto, Prefetched, LayerIds
  <2>3. CASE ~ (l < Layers)
    <3>1. step' = <<"owned", 1>> /\ step'[1] = "owned" /\ step'[2] = 1 /\ l = Layers
      BY <1>0, <2>1, <2>3 DEF After
    <3> QED
      BY <1>0, <2>1, <2>3, <3>1 DEF Upto, Prefetched, LayerIds
  <2> QED
    BY <2>2, <2>3
<1>4. queue'[Main] = queue[Main] /\ \A m \in LayerIds : m # l => queue'[m] = queue[m]
  BY <1>0, <1>2, AfterEnqueue, Queues
<1>5. HostInv'
  <2>1. pending \in [LayerIds -> Nat]
    BY DEF TypeInv
  <2>2. \A m \in LayerIds : Prefetched(m)' => pending'[m] = forward
    <3> TAKE m \in LayerIds
    <3> HAVE Prefetched(m)'
    <3>1. CASE m = l
      BY <1>0, <2>1, <3>1
    <3>2. CASE m # l
      <4>1. Prefetched(m) /\ m >= Upto
        BY <1>3, <3>2
      <4> QED
        BY <1>0, <2>1, <3>2, <4>1 DEF StreamsInv, HostInv
    <3> QED
      BY <3>1, <3>2
  <2> QED
    BY <1>0, <1>3, <2>2 DEF HostInv
<1>6. MainOrder' /\ MainWork'
  BY <1>0, <1>3, <1>4, MainLeft DEF StreamsInv
<1>7. \A t \in Streams : Reads(t)'
  <2>1. \A t \in Streams : Reads(t)
    BY DEF StreamsInv, Streams
  <2> QED
    BY <1>0, <1>2, <2>1, ReadsUnderEnqueue, Queues
<1>8. /\ SideWork(l)' /\ Forked(l)' /\ Joined(l)'
      /\ \E j \in 1 .. Len(queue'[l]) : queue'[l][j].f = forward
      /\ \A j \in 1 .. Len(queue[l]) : j \in 1 .. Len(queue'[l]) /\ queue'[l][j] = queue[l][j]
  BY <1>0, <1>1, <1>3, SideGiven DEF StreamsInv
<1>9. \A m \in LayerIds : SideWork(m)' /\ Forked(m)' /\ Joined(m)'
  <2> TAKE m \in LayerIds
  <2>1. CASE m # l
    BY <1>0, <1>3, <1>4, <2>1, SideLeft DEF StreamsInv
  <2> QED
    BY <1>8, <2>1
<1>10. \A m \in LayerIds : Fetched(m)'
  <2> TAKE m \in LayerIds
  <2>0. Fetched(m)
    BY DEF StreamsInv
  <2>1. CASE m # l
    <3>1. \A f \in Nat : Covered(m, f)' <=> Covered(m, f)
      BY <1>0, <1>3, <2>1 DEF Covered
    <3>2. Covered(m, hash)' <=> Covered(m, hash)
      BY <1>0, <1>3, <2>1 DEF Covered
    <3> QED
      BY <1>0, <1>4, <2>0, <2>1, <3>1, <3>2 DEF Fetched
  <2>2. CASE m = l
    <3>1. \A f \in Nat : Covered(l, f)' => Covered(l, f) \/ f = forward
      BY <1>0 DEF Covered
    <3>2. Covered(l, hash)' => Covered(l, hash) \/ hash = forward
      BY <1>0 DEF Covered
    <3> QED
      BY <1>0, <1>8, <2>0, <2>2, <3>1, <3>2 DEF Fetched
  <2> QED
    BY <2>1, <2>2
<1> QED
  BY <1>5, <1>6, <1>7, <1>9, <1>10, Queues DEF StreamsInv

\* An error in a prefetch: claims end, or no forward is to come.
LEMMA RaiseStep ==
    ASSUME TypeInv, TypeInv', StreamsInv, NEW l \in LayerIds, Raise(l), ~ Failed'
    PROVE  StreamsInv'
<1> DEFINE b == <<WaitFor(Main), Work("ids", l, forward, 0)>>
<1>0. /\ step = <<"prefetch", l>> /\ step[1] = "prefetch" /\ disabled = 0
      /\ forward' = forward /\ disabled' = 1 /\ done' = done
      /\ UNCHANGED buffers /\ hash' = hash /\ drows' = drows
      /\ pending' = [k \in LayerIds |-> 0] /\ step' = <<"owned", 1>>
      /\ step'[1] = "owned" /\ step'[2] = 1 /\ forward > 0
  BY DEF Raise, StreamsInv, HostInv, buffers
<1>1. SideBlock(b, l)
  BY RaiseBlock
<1>2. b \in Seq(Piece) /\ Len(b) > 0 /\ b[1].kind = "wait"
  BY <1>1, WaitPiece, Queues DEF SideBlock
<1>3. Upto = 1 /\ Upto' = 1
  BY <1>0 DEF Upto
<1>d. queue' = queue \/ Enqueue(l, b)
  BY DEF Raise
<1> HIDE DEF b
<1>4. queue'[Main] = queue[Main] /\ \A m \in LayerIds : m # l => queue'[m] = queue[m]
  BY <1>d, <1>2, AfterEnqueue, Queues
<1>5. HostInv'
  <2>1. forward >= MaxForwards
    <3>1. forward \in Nat /\ RaiseAfter \in Nat /\ MaxForwards \in Nat
      BY EngramStreamsAssumption DEF TypeInv
    <3>2. forward > RaiseAfter /\ ~ (RaiseAfter + 1 < MaxForwards)
      BY <1>0 DEF Raise, Failed
    <3> QED
      BY <3>1, <3>2
  <2>2. 1 \in LayerIds
    BY EngramStreamsAssumption DEF LayerIds
  <2> QED
    BY <1>0, <2>1, <2>2 DEF HostInv
<1>6. MainOrder' /\ MainWork'
  BY <1>0, <1>3, <1>4, MainLeft DEF StreamsInv
<1>7. \A t \in Streams : Reads(t)'
  <2>1. \A t \in Streams : Reads(t)
    BY DEF StreamsInv, Streams
  <2>2. CASE Enqueue(l, b)
    BY <1>0, <1>2, <2>1, <2>2, ReadsUnderEnqueue, Queues
  <2>3. CASE queue' = queue
    BY <1>0, <2>1, <2>3 DEF Reads, buffers
  <2> QED
    BY <1>d, <2>2, <2>3
<1>8. ASSUME NEW m \in LayerIds
      PROVE  SideWork(m)' /\ Forked(m)' /\ Joined(m)'
  <2>1. CASE queue'[m] = queue[m]
    BY <1>0, <1>3, <1>4, <2>1, SideLeft DEF StreamsInv
  <2>2. CASE m = l /\ Enqueue(l, b)
    BY <1>0, <1>1, <1>3, <2>2, SideGiven DEF StreamsInv
  <2> QED
    BY <1>d, <1>4, <2>1, <2>2
<1>9. ASSUME NEW m \in LayerIds
      PROVE  Fetched(m)'
  <2>0. Fetched(m)
    BY DEF StreamsInv
  <2>1. \A j \in 1 .. Len(queue[m]) : j \in 1 .. Len(queue'[m]) /\ queue'[m][j] = queue[m][j]
    <3>1. CASE queue'[m] = queue[m]
      BY <3>1
    <3>2. CASE m = l /\ Enqueue(l, b)
      BY <1>0, <1>1, <1>3, <3>2, SideGiven DEF StreamsInv
    <3> QED
      BY <1>d, <1>4, <3>1, <3>2
  <2>2. \A f \in Nat : Covered(m, f)' => Covered(m, f)
    BY <1>0 DEF Covered
  <2>3. Covered(m, hash)' => Covered(m, hash)
    BY <1>0 DEF Covered
  <2>4. \A f : (\E j \in 1 .. Len(queue[m]) : queue[m][j].f = f)
                 => \E j \in 1 .. Len(queue'[m]) : queue'[m][j].f = f
    BY <2>1
  <2> QED
    BY <1>0, <2>0, <2>2, <2>3, <2>4 DEF Fetched
<1> QED
  BY <1>5, <1>6, <1>7, <1>8, <1>9, Queues DEF StreamsInv

\* The work that a layer's lookup gives the main stream: a join or a whole
\* lookup first, a gather behind its rows.
OwnedBlock(b, l) ==
    /\ b \in Seq(Piece) /\ Len(b) > 0 /\ b[1].kind \in {"wait", "ids"}
    /\ \A i \in 1 .. Len(b) : b[i].l = l /\ b[i].f = forward /\ b[i].kind # "hash"
    /\ \A i \in 1 .. Len(b) : b[i].kind = "wait" => i = 1
    /\ \A i \in 1 .. Len(b) - 1 : Behind(b[i], b[i + 1])

LEMMA LookupGather ==
    ASSUME TypeInv, NEW l \in LayerIds
    PROVE  LET b == Lookup(l) \o Gather(l) IN
           /\ OwnedBlock(b, l) /\ Len(b) = 4 /\ b[1].kind = "ids"
           /\ \A i \in 1 .. Len(b) : b[i].kind # "wait"
<1> DEFINE b == Lookup(l) \o Gather(l)
<1>1. /\ Lookup(l) \in Seq(Piece) /\ Len(Lookup(l)) = 3
      /\ Lookup(l)[1] = Work("ids", l, forward, 0)
      /\ Lookup(l)[2] = Work("lookup", l, forward, 0)
      /\ Lookup(l)[3] = Work("rows", l, forward, 0)
      /\ Gather(l) \in Seq(Piece) /\ Len(Gather(l)) = 1
      /\ Gather(l)[1] = Work("gather", l, forward, 0)
  BY LookupBlock
<1>2. /\ b \in Seq(Piece) /\ Len(b) = 3 + 1
      /\ \A i \in 1 .. 3 : b[i] = Lookup(l)[i]
      /\ \A i \in 1 .. 1 : b[3 + i] = Gather(l)[i]
  <2>1. /\ b \in Seq(Piece) /\ Len(b) = Len(Lookup(l)) + Len(Gather(l))
        /\ \A i \in 1 .. Len(Lookup(l)) : b[i] = Lookup(l)[i]
        /\ \A i \in 1 .. Len(Gather(l)) : b[Len(Lookup(l)) + i] = Gather(l)[i]
    BY <1>1, Pushed
  <2> HIDE DEF b
  <2> QED
    BY <1>1, <2>1
<1> HIDE DEF b
<1>3. /\ Len(b) = 4
      /\ b[1] = Work("ids", l, forward, 0) /\ b[2] = Work("lookup", l, forward, 0)
      /\ b[3] = Work("rows", l, forward, 0) /\ b[4] = Work("gather", l, forward, 0)
  BY <1>1, <1>2
<1>4. /\ b[1].kind = "ids" /\ b[2].kind = "lookup" /\ b[3].kind = "rows" /\ b[4].kind = "gather"
      /\ b[1].l = l /\ b[2].l = l /\ b[3].l = l /\ b[4].l = l
      /\ b[1].f = forward /\ b[2].f = forward /\ b[3].f = forward /\ b[4].f = forward
  BY <1>3 DEF Work
<1>5. \A i \in 1 .. Len(b) : i = 1 \/ i = 2 \/ i = 3 \/ i = 4
  BY <1>3
<1>6. \A i \in 1 .. Len(b) : b[i].l = l /\ b[i].f = forward /\ b[i].kind \in Copies \cup {"gather"}
  BY <1>4, <1>5 DEF Copies
<1>7. \A i \in 1 .. Len(b) - 1 : Behind(b[i], b[i + 1])
  <2> TAKE i \in 1 .. Len(b) - 1
  <2>0. i = 1 \/ i = 2 \/ i = 3
    BY <1>3
  <2>1. CASE i = 1
    BY <1>4, <2>1 DEF Behind
  <2>2. CASE i = 2
    BY <1>4, <2>2 DEF Behind
  <2>3. CASE i = 3
    BY <1>4, <2>3 DEF Behind
  <2> QED
    BY <2>0, <2>1, <2>2, <2>3
<1>8. \A i \in 1 .. Len(b) : b[i].kind # "wait" /\ b[i].kind # "hash"
  BY <1>6 DEF Copies
<1>9. OwnedBlock(b, l)
  BY <1>2, <1>3, <1>4, <1>6, <1>7, <1>8 DEF OwnedBlock
<1> QED
  BY <1>3, <1>4, <1>8, <1>9 DEF b

LEMMA JoinGather ==
    ASSUME TypeInv, NEW l \in LayerIds
    PROVE  LET b == JoinedGather(l) IN OwnedBlock(b, l) /\ b[1] = WaitFor(l)
<1> DEFINE w == WaitFor(l)
           g == Work("gather", l, forward, 0)
           a == Join(l) \o Gather(l)
           c == IF Check THEN Lookup(l) \o Gather(l) ELSE <<>>
           b == a \o c
<1>1. w \in Piece /\ w.kind = "wait" /\ w.l = l /\ w.f = forward
  BY WaitPiece, Queues
<1>2. g.kind = "gather" /\ g.l = l /\ g.f = forward
  BY DEF Work
<1> HIDE DEF w, g
<1>3. Join(l) \in Seq(Piece) /\ Len(Join(l)) = 1 /\ Join(l)[1] = w
  BY <1>1 DEF Join, w
<1>4. Gather(l) \in Seq(Piece) /\ Len(Gather(l)) = 1 /\ Gather(l)[1] = g
  BY LookupBlock DEF g
<1>5. a \in Seq(Piece) /\ Len(a) = 2 /\ a[1] = w /\ a[2] = g
  <2>1. /\ a \in Seq(Piece) /\ Len(a) = Len(Join(l)) + Len(Gather(l))
        /\ \A i \in 1 .. Len(Join(l)) : a[i] = Join(l)[i]
        /\ \A i \in 1 .. Len(Gather(l)) : a[Len(Join(l)) + i] = Gather(l)[i]
    BY <1>3, <1>4, Pushed
  <2> HIDE DEF a
  <2> QED
    BY <1>3, <1>4, <2>1
<1> HIDE DEF a
<1>6. /\ c \in Seq(Piece) /\ Len(c) \in Nat
      /\ \A i \in 1 .. Len(c) : b[2 + i] = c[i]
      /\ \A i \in 1 .. Len(c) : c[i].l = l /\ c[i].f = forward /\ c[i].kind # "hash" /\ c[i].kind # "wait"
      /\ \A i \in 1 .. Len(c) - 1 : Behind(c[i], c[i + 1])
      /\ Len(c) > 0 => c[1].kind = "ids"
      /\ b \in Seq(Piece) /\ Len(b) = 2 + Len(c) /\ b[1] = w /\ b[2] = g
  <2>1. /\ c \in Seq(Piece)
        /\ \A i \in 1 .. Len(c) : c[i].l = l /\ c[i].f = forward /\ c[i].kind # "hash" /\ c[i].kind # "wait"
        /\ \A i \in 1 .. Len(c) - 1 : Behind(c[i], c[i + 1])
        /\ Len(c) > 0 => c[1].kind = "ids"
    <3>1. CASE Check
      <4>1. c = Lookup(l) \o Gather(l)
        BY <3>1
      <4> HIDE DEF c
      <4> QED
        BY <4>1, LookupGather DEF OwnedBlock
    <3>2. CASE ~ Check
      <4>1. c = <<>>
        BY <3>2
      <4>2. <<>> \in Seq(Piece) /\ Len(<<>>) = 0
        OBVIOUS
      <4> HIDE DEF c
      <4> QED
        BY <4>1, <4>2
    <3> QED
      BY <3>1, <3>2
  <2> HIDE DEF c
  <2>2. /\ b \in Seq(Piece) /\ Len(c) \in Nat /\ Len(b) = Len(a) + Len(c)
        /\ \A i \in 1 .. Len(a) : b[i] = a[i]
        /\ \A i \in 1 .. Len(c) : b[Len(a) + i] = c[i]
    BY <1>5, <2>1, Pushed
  <2> HIDE DEF b
  <2> QED
    BY <1>5, <2>1, <2>2
<1> HIDE DEF b, c
<1>7. \A i \in 1 .. Len(b) : i = 1 \/ i = 2 \/ (i - 2 \in 1 .. Len(c) /\ 2 + (i - 2) = i)
  BY <1>6
<1>8. \A i \in 1 .. Len(b) : b[i].l = l /\ b[i].f = forward /\ b[i].kind # "hash"
  BY <1>1, <1>2, <1>6, <1>7
<1>9. \A i \in 1 .. Len(b) : b[i].kind = "wait" => i = 1
  BY <1>2, <1>6, <1>7
<1>10. \A i \in 1 .. Len(b) - 1 : Behind(b[i], b[i + 1])
  <2> TAKE i \in 1 .. Len(b) - 1
  <2>1. CASE i = 1
    BY <1>1, <1>2, <1>6, <2>1 DEF Behind
  <2>2. CASE i = 2
    <3>1. Len(c) > 0 /\ b[3] = c[1]
      <4>1. Len(c) > 0 /\ 1 \in 1 .. Len(c) /\ 2 + 1 = 3
        BY <1>6, <2>2
      <4> QED
        BY <1>6, <4>1
    <3>2. b[i + 1].kind = "ids"
      BY <1>6, <2>2, <3>1
    <3> QED
      BY <3>2 DEF Behind
  <2>3. CASE i > 2
    <3>1. /\ i - 2 \in 1 .. Len(c) - 1 /\ i - 2 \in 1 .. Len(c) /\ (i - 2) + 1 \in 1 .. Len(c)
          /\ 2 + (i - 2) = i /\ 2 + ((i - 2) + 1) = i + 1
      BY <1>6, <2>3
    <3>2. b[i] = c[i - 2] /\ b[i + 1] = c[(i - 2) + 1]
      BY <1>6, <3>1
    <3> QED
      BY <1>6, <3>1, <3>2
  <2>4. i \in Nat /\ i >= 1
    OBVIOUS
  <2> QED
    BY <2>1, <2>2, <2>3, <2>4
<1>11. OwnedBlock(b, l)
  BY <1>1, <1>6, <1>8, <1>9, <1>10 DEF OwnedBlock
<1> QED
  BY <1>6, <1>11 DEF JoinedGather, a, b, c, w

\* The main stream given such work, by the layer whose turn it is.
LEMMA MainGiven ==
    ASSUME TypeInv, TypeInv', MainOrder, MainWork, NEW l \in LayerIds,
           NEW b, OwnedBlock(b, l), Enqueue(Main, b), Upto = l, Upto' = l + 1,
           b[1].kind = "wait" => disabled = 0,
           forward' = forward, disabled' = disabled, hash' = hash
    PROVE  MainOrder' /\ MainWork'
<1> DEFINE q == queue[Main]
<1>1. /\ b \in Seq(Piece) /\ Len(b) > 0 /\ b[1].kind \in {"wait", "ids"}
      /\ \A i \in 1 .. Len(b) : b[i].l = l /\ b[i].f = forward /\ b[i].kind # "hash"
      /\ \A i \in 1 .. Len(b) : b[i].kind = "wait" => i = 1
      /\ \A i \in 1 .. Len(b) - 1 : Behind(b[i], b[i + 1])
      /\ forward \in Nat /\ hash \in Nat /\ l \in Nat
  BY Queues DEF OwnedBlock, TypeInv
<1>2. /\ Len(q) \in Nat /\ Len(b) \in Nat /\ Len(q') = Len(q) + Len(b)
      /\ \A i \in 1 .. Len(q) : q'[i] = q[i]
      /\ \A i \in 1 .. Len(b) : q'[Len(q) + i] = b[i]
      /\ \A i \in 1 .. Len(q') : i \in 1 .. Len(q) \/ i - Len(q) \in 1 .. Len(b)
      /\ (q = <<>> <=> Len(q) = 0) /\ q' # <<>>
  BY <1>1, AfterEnqueue, Queues
<1>3. \A i \in 1 .. Len(q') : i \in 1 .. Len(q) \/ \E k \in 1 .. Len(b) : i = Len(q) + k /\ q'[i] = b[k]
  <2> TAKE i \in 1 .. Len(q')
  <2>1. CASE i - Len(q) \in 1 .. Len(b)
    <3>1. i = Len(q) + (i - Len(q))
      BY <1>2
    <3> QED
      BY <1>2, <2>1, <3>1
  <2> QED
    BY <1>2, <2>1
<1>4. \A i \in 1 .. Len(q') - 1 :
        \/ i \in 1 .. Len(q) - 1 /\ q'[i] = q[i] /\ q'[i + 1] = q[i + 1]
        \/ i = Len(q) /\ q # <<>> /\ q'[i] = q[Len(q)] /\ q'[i + 1] = b[1]
        \/ \E k \in 1 .. Len(b) - 1 : q'[i] = b[k] /\ q'[i + 1] = b[k + 1]
                                      /\ k \in 1 .. Len(b) /\ k + 1 \in 1 .. Len(b)
  <2> TAKE i \in 1 .. Len(q') - 1
  <2>1. CASE i < Len(q)
    <3>1. i \in 1 .. Len(q) - 1 /\ i \in 1 .. Len(q) /\ i + 1 \in 1 .. Len(q)
      BY <1>2, <2>1
    <3> QED
      BY <1>2, <3>1
  <2>2. CASE i = Len(q)
    <3>1. 1 \in 1 .. Len(b) /\ Len(q) \in 1 .. Len(q) /\ Len(q) # 0
      BY <1>1, <1>2, <2>2
    <3>2. q'[Len(q)] = q[Len(q)] /\ q'[Len(q) + 1] = b[1] /\ q # <<>>
      BY <1>2, <3>1
    <3> QED
      BY <2>2, <3>2
  <2>3. CASE i > Len(q)
    <3>1. /\ i - Len(q) \in 1 .. Len(b) - 1 /\ i - Len(q) \in 1 .. Len(b)
          /\ (i - Len(q)) + 1 \in 1 .. Len(b)
          /\ Len(q) + (i - Len(q)) = i /\ Len(q) + ((i - Len(q)) + 1) = i + 1
      <4>1. i \in 1 .. (Len(q) + Len(b)) - 1 /\ Len(q) \in Nat /\ Len(b) \in Nat
        BY <1>2
      <4> HIDE DEF q
      <4> QED
        BY <2>3, <4>1
    <3>2. q'[i] = b[i - Len(q)] /\ q'[i + 1] = b[(i - Len(q)) + 1]
      BY <1>2, <3>1
    <3> QED
      BY <3>1, <3>2
  <2>4. i \in Int /\ Len(q) \in Int
    BY <1>2
  <2> QED
    BY <2>1, <2>2, <2>3, <2>4
<1>5. \A i \in 1 .. Len(q) : q[i].f \in Nat /\ q[i].l \in Nat
  BY Queues, PieceIn
<1>6. q # <<>> => 1 \in 1 .. Len(q) /\ Len(q) \in 1 .. Len(q)
  BY <1>2
<1>7. MainOrder'
  <2>0. /\ \A i \in 1 .. Len(q) : \A j \in 1 .. Len(q) : i <= j => q[i].f <= q[j].f
        /\ \A i \in 1 .. Len(q) : hash <= q[i].f /\ q[i].f <= forward
        /\ (IF q = <<>> THEN hash = forward ELSE q[Len(q)].f = forward)
        /\ (q # <<>> => (q[1].f = hash <=> q[1].kind # "hash"))
        /\ \A i \in 1 .. Len(q) - 1 : q[i + 1].f = q[i].f <=> q[i + 1].kind # "hash"
    BY DEF MainOrder
  <2>h. hash <= forward
    BY <1>1, <1>5, <1>6, <2>0
  <2>1. \A i \in 1 .. Len(q') : \A j \in 1 .. Len(q') : i <= j => q'[i].f <= q'[j].f
    <3> TAKE i \in 1 .. Len(q')
    <3> TAKE j \in 1 .. Len(q')
    <3>1. CASE i \in 1 .. Len(q) /\ j \in 1 .. Len(q)
      BY <1>2, <2>0, <3>1
    <3>2. CASE i \in 1 .. Len(q) /\ \E k \in 1 .. Len(b) : j = Len(q) + k /\ q'[j] = b[k]
      <4>1. q'[i].f <= forward /\ q'[j].f = forward
        BY <1>1, <1>2, <2>0, <3>2
      <4> QED
        BY <4>1
    <3>3. CASE \E k \in 1 .. Len(b) : i = Len(q) + k /\ q'[i] = b[k]
      <4>1. PICK k \in 1 .. Len(b) : i = Len(q) + k /\ q'[i] = b[k]
        BY <3>3
      <4>2. j \in 1 .. Len(q) => ~ (i <= j)
        BY <1>2, <4>1
      <4>3. i <= j => \E m \in 1 .. Len(b) : q'[j] = b[m]
        BY <1>3, <4>2
      <4> QED
        BY <1>1, <4>1, <4>3
    <3> QED
      BY <1>3, <3>1, <3>2, <3>3
  <2>2. \A i \in 1 .. Len(q') : hash' <= q'[i].f /\ q'[i].f <= forward'
    <3> TAKE i \in 1 .. Len(q')
    <3>1. CASE i \in 1 .. Len(q)
      BY <1>2, <2>0, <3>1
    <3>2. CASE \E k \in 1 .. Len(b) : q'[i] = b[k]
      <4>1. q'[i].f = forward
        BY <1>1, <3>2
      <4> QED
        BY <1>1, <2>h, <4>1
    <3> QED
      BY <1>3, <3>1, <3>2
  <2>3. q'[Len(q')].f = forward'
    <3>1. Len(b) \in 1 .. Len(b)
      BY <1>1, <1>2
    <3>2. q'[Len(q')] = b[Len(b)]
      BY <1>2, <3>1
    <3> QED
      BY <1>1, <3>1, <3>2
  <2>4. q'[1].f = hash' <=> q'[1].kind # "hash"
    <3>1. CASE q = <<>>
      <4>1. 1 \in 1 .. Len(b) /\ q'[Len(q) + 1] = b[1] /\ Len(q) + 1 = 1
        BY <1>1, <1>2, <3>1
      <4>2. b[1].f = hash /\ b[1].kind # "hash"
        BY <1>1, <2>0, <3>1, <4>1
      <4> QED
        BY <4>1, <4>2
    <3>2. CASE q # <<>>
      <4>1. q'[1] = q[1]
        BY <1>2, <1>6, <3>2
      <4> QED
        BY <2>0, <3>2, <4>1
    <3> QED
      BY <3>1, <3>2
  <2>5. \A i \in 1 .. Len(q') - 1 : q'[i + 1].f = q'[i].f <=> q'[i + 1].kind # "hash"
    <3> TAKE i \in 1 .. Len(q') - 1
    <3>1. CASE i \in 1 .. Len(q) - 1 /\ q'[i] = q[i] /\ q'[i + 1] = q[i + 1]
      BY <2>0, <3>1
    <3>2. CASE i = Len(q) /\ q # <<>> /\ q'[i] = q[Len(q)] /\ q'[i + 1] = b[1]
      <4>1. 1 \in 1 .. Len(b)
        BY <1>1, <1>2
      <4> QED
        BY <1>1, <2>0, <3>2, <4>1
    <3>3. CASE \E k \in 1 .. Len(b) - 1 : q'[i] = b[k] /\ q'[i + 1] = b[k + 1]
                                      /\ k \in 1 .. Len(b) /\ k + 1 \in 1 .. Len(b)
      BY <1>1, <3>3
    <3> QED
      BY <1>4, <3>1, <3>2, <3>3
  <2> QED
    BY <1>2, <2>1, <2>2, <2>3, <2>4, <2>5 DEF MainOrder
<1>8. MainWork'
  <2>0. /\ \A i \in 1 .. Len(q) : q[i].kind = "hash" \/ q[i].l \in LayerIds
        /\ \A i \in 1 .. Len(q) - 1 : Behind(q[i], q[i + 1])
        /\ \A i \in 1 .. Len(q) : \A j \in 1 .. Len(q) :
             q[j].kind = "wait" /\ q[i].l = q[j].l /\ q[i].f = q[j].f /\ q[i].kind # "hash" => j <= i
        /\ \A i \in 1 .. Len(q) : q[i].f = forward =>
             /\ q[i].kind # "hash" => q[i].l < l
             /\ q[i].kind = "wait" => disabled = 0
    BY DEF MainWork
  <2>1. \A i \in 1 .. Len(q') : q'[i].kind = "hash" \/ q'[i].l \in LayerIds
    <3> TAKE i \in 1 .. Len(q')
    <3>1. CASE i \in 1 .. Len(q)
      BY <1>2, <2>0, <3>1
    <3>2. CASE \E k \in 1 .. Len(b) : q'[i] = b[k]
      BY <1>1, <3>2
    <3> QED
      BY <1>3, <3>1, <3>2
  <2>2. \A i \in 1 .. Len(q') - 1 : Behind(q'[i], q'[i + 1])
    <3> TAKE i \in 1 .. Len(q') - 1
    <3>1. CASE i \in 1 .. Len(q) - 1 /\ q'[i] = q[i] /\ q'[i + 1] = q[i + 1]
      BY <2>0, <3>1
    <3>2. CASE q'[i + 1] = b[1]
      BY <1>1, <3>2 DEF Behind
    <3>3. CASE \E k \in 1 .. Len(b) - 1 : q'[i] = b[k] /\ q'[i + 1] = b[k + 1]
      BY <1>1, <3>3
    <3> QED
      BY <1>4, <3>1, <3>2, <3>3
  <2>3. \A i \in 1 .. Len(q') : \A j \in 1 .. Len(q') :
         q'[j].kind = "wait" /\ q'[i].l = q'[j].l /\ q'[i].f = q'[j].f /\ q'[i].kind # "hash" => j <= i
    <3> TAKE i \in 1 .. Len(q')
    <3> TAKE j \in 1 .. Len(q')
    <3> HAVE q'[j].kind = "wait" /\ q'[i].l = q'[j].l /\ q'[i].f = q'[j].f /\ q'[i].kind # "hash"
    <3>1. CASE i \in 1 .. Len(q) /\ j \in 1 .. Len(q)
      BY <1>2, <2>0, <3>1
    <3>2. CASE j \in 1 .. Len(q) /\ \E k \in 1 .. Len(b) : i = Len(q) + k /\ q'[i] = b[k]
      BY <1>2, <3>2
    <3>3. CASE \E k \in 1 .. Len(b) : j = Len(q) + k /\ q'[j] = b[k]
      <4>1. PICK k \in 1 .. Len(b) : j = Len(q) + k /\ q'[j] = b[k]
        BY <3>3
      <4>2. k = 1 /\ q'[i].l = l /\ q'[i].f = forward
        BY <1>1, <4>1
      <4>3. i \notin 1 .. Len(q)
        <5> SUFFICES ASSUME i \in 1 .. Len(q) PROVE FALSE
          OBVIOUS
        <5>1. q[i].l < l /\ q[i].l = l
          BY <1>2, <2>0, <4>2
        <5> QED
          BY <1>1, <5>1
      <4> QED
        BY <1>2, <4>1, <4>2, <4>3
    <3> QED
      BY <1>3, <3>1, <3>2, <3>3
  <2>4. \A i \in 1 .. Len(q') : q'[i].f = forward' =>
         /\ q'[i].kind # "hash" => q'[i].l < Upto'
         /\ q'[i].kind = "wait" => disabled' = 0
    <3> TAKE i \in 1 .. Len(q')
    <3> HAVE q'[i].f = forward'
    <3>1. CASE i \in 1 .. Len(q)
      <4>1. /\ q[i].kind # "hash" => q[i].l < l
            /\ q[i].kind = "wait" => disabled = 0
            /\ q'[i] = q[i] /\ q[i].l \in Nat
        BY <1>2, <1>5, <2>0, <3>1
      <4> QED
        BY <1>1, <4>1
    <3>2. CASE \E k \in 1 .. Len(b) : q'[i] = b[k]
      <4>1. PICK k \in 1 .. Len(b) : q'[i] = b[k]
        BY <3>2
      <4>2. q'[i].l = l /\ (q'[i].kind = "wait" => b[1].kind = "wait")
        BY <1>1, <4>1
      <4> QED
        BY <1>1, <4>2
    <3> QED
      BY <1>3, <3>1, <3>2
  <2> QED
    BY <2>1, <2>2, <2>3, <2>4 DEF MainWork
<1> QED
  BY <1>7, <1>8

\* A layer's lookup is enqueued: joined to its prefetch, or whole after an
\* error.
LEMMA OwnedStep ==
    ASSUME TypeInv, TypeInv', StreamsInv, NEW l \in LayerIds,
           OwnedPrefetched(l) \/ OwnedSynchronous(l)
    PROVE  StreamsInv'
<1>0. /\ step = <<"owned", l>> /\ step[1] = "owned" /\ step[2] = l
      /\ forward' = forward /\ disabled' = disabled /\ done' = done
      /\ UNCHANGED buffers /\ hash' = hash /\ drows' = drows
      /\ step' = After(l, "owned")
      /\ forward \in Nat /\ forward > 0 /\ disabled \in {0, 1}
  BY DEF OwnedPrefetched, OwnedSynchronous, StreamsInv, HostInv, buffers, TypeInv
<1>1. /\ Upto = l /\ Upto' = l + 1
      /\ \A m \in LayerIds : Prefetched(m) /\ Prefetched(m)'
      /\ step'[1] # "prefetch" /\ (step'[1] # "hash" => step'[2] \in LayerIds)
  <2>1. Layers \in Nat \ {0} /\ l \in 1 .. Layers
    BY EngramStreamsAssumption DEF LayerIds
  <2>2. CASE l < Layers
    <3>1. step' = <<"owned", l + 1>> /\ step'[1] = "owned" /\ step'[2] = l + 1
      BY <1>0, <2>2 DEF After
    <3> QED
      BY <1>0, <2>1, <2>2, <3>1 DEF Upto, Prefetched, LayerIds
  <2>3. CASE ~ (l < Layers)
    <3>1. step' = <<"hash", 0>> /\ step'[1] = "hash" /\ l = Layers
      BY <1>0, <2>1, <2>3 DEF After
    <3> QED
      BY <1>0, <2>1, <2>3, <3>1 DEF Upto, Prefetched, LayerIds
  <2> QED
    BY <2>2, <2>3
<1>2. PICK b : /\ OwnedBlock(b, l) /\ Enqueue(Main, b)
               /\ disabled = 0 => b[1] = WaitFor(l)
               /\ b[1].kind = "wait" => disabled = 0
               /\ pending' = pending \/ pending' = [pending EXCEPT ![l] = 0]
  <2>1. CASE OwnedPrefetched(l)
    <3>1. disabled = 0
      BY <1>0, <2>1 DEF OwnedPrefetched, StreamsInv, HostInv
    <3> QED
      BY <2>1, <3>1, JoinGather DEF OwnedPrefetched, JoinedGather
  <2>2. CASE OwnedSynchronous(l)
    <3>1. disabled = 1
      <4> SUFFICES ASSUME disabled = 0 PROVE FALSE
        BY <1>0
      <4>1. l >= Upto /\ Prefetched(l)
        BY <1>1, Queues
      <4> QED
        BY <4>1, <2>2 DEF OwnedSynchronous, StreamsInv, HostInv
    <3>2. /\ OwnedBlock(Lookup(l) \o Gather(l), l)
          /\ (Lookup(l) \o Gather(l))[1].kind = "ids"
      BY LookupGather
    <3>3. PICK c : c = Lookup(l) \o Gather(l)
      OBVIOUS
    <3>4. Enqueue(Main, c) /\ pending' = pending
      BY <2>2, <3>3 DEF OwnedSynchronous
    <3>5. /\ OwnedBlock(c, l) /\ (disabled = 0 => c[1] = WaitFor(l))
          /\ (c[1].kind = "wait" => disabled = 0)
      <4>1. OwnedBlock(c, l) /\ c[1].kind = "ids"
        BY <3>2, <3>3
      <4>2. disabled # 0 /\ c[1].kind # "wait"
        BY <3>1, <4>1
      <4> QED
        BY <4>1, <4>2
    <3> QED
      BY <3>4, <3>5
  <2> QED
    BY <2>1, <2>2
<1>3. b \in Seq(Piece) /\ Len(b) > 0 /\ b[1].kind \in {"wait", "ids"} /\ 1 \in 1 .. Len(b)
  <2>1. b \in Seq(Piece) /\ Len(b) > 0 /\ b[1].kind \in {"wait", "ids"}
    BY <1>2 DEF OwnedBlock
  <2>2. Len(b) \in Nat
    BY <2>1, LenProperties
  <2> QED
    BY <2>1, <2>2
<1>4. HostInv'
  <2>1. \A m \in LayerIds :
          /\ m \in Nat /\ l \in Nat
          /\ m # l => pending'[m] = pending[m]
          /\ pending'[m] = pending[m] \/ pending'[m] = 0
    BY <1>2, Queues DEF TypeInv
  <2>2. \A m \in LayerIds : m >= Upto' => m >= Upto /\ m # l
    BY <1>1, <2>1
  <2> QED
    BY <1>0, <1>1, <2>1, <2>2 DEF StreamsInv, HostInv
<1>5. MainOrder' /\ MainWork'
  BY <1>0, <1>1, <1>2, MainGiven DEF StreamsInv
<1>6. \A t \in Streams : Reads(t)'
  <2>1. \A t \in Streams : Reads(t)
    BY DEF StreamsInv, Streams
  <2> QED
    BY <1>0, <1>2, <1>3, <2>1, ReadsUnderEnqueue, Queues
<1>7. ASSUME NEW m \in LayerIds
      PROVE  SideWork(m)' /\ Forked(m)' /\ Joined(m)' /\ Fetched(m)'
  <2>0. SideWork(m) /\ Forked(m) /\ Joined(m) /\ Fetched(m)
    BY DEF StreamsInv
  <2>1. /\ Len(queue[Main]) \in Nat /\ Len(b) \in Nat
        /\ Len(queue'[Main]) = Len(queue[Main]) + Len(b)
        /\ \A i \in 1 .. Len(queue[Main]) : queue'[Main][i] = queue[Main][i]
        /\ \A i \in 1 .. Len(b) : queue'[Main][Len(queue[Main]) + i] = b[i]
        /\ queue'[m] = queue[m]
    BY <1>2, <1>3, AfterEnqueue, Queues
  <2>2. SideWork(m)'
    BY <1>0, <2>0, <2>1 DEF SideWork
  <2>3. Forked(m)'
    BY <1>0, <1>2, <1>3, <2>0, ForkedUnderMain
  <2>4. Fetched(m)'
    <3>1. \A f \in Nat : Covered(m, f)' <=> Covered(m, f)
      BY <1>0, <1>1 DEF Covered
    <3>2. Covered(m, hash)' <=> Covered(m, hash)
      BY <1>0, <1>1 DEF Covered
    <3> QED
      BY <1>0, <2>0, <2>1, <3>1, <3>2 DEF Fetched
  <2>5. ASSUME NEW j \in 1 .. Len(queue[m])
        PROVE  \/ \E i \in 1 .. Len(queue'[Main]) :
                    LET w == queue'[Main][i] IN
                    w.kind = "wait" /\ w.l = m /\ w.f = queue[m][j].f /\ w.n >= done[m] + j
               \/ queue[m][j].f = forward /\ (disabled = 1 \/ m >= l + 1)
    <3>1. CASE \E i \in 1 .. Len(queue[Main]) :
                    LET w == queue[Main][i] IN
                    w.kind = "wait" /\ w.l = m /\ w.f = queue[m][j].f /\ w.n >= done[m] + j
      <4>1. PICK i \in 1 .. Len(queue[Main]) :
                    LET w == queue[Main][i] IN
                    w.kind = "wait" /\ w.l = m /\ w.f = queue[m][j].f /\ w.n >= done[m] + j
        BY <3>1
      <4>2. i \in 1 .. Len(queue'[Main]) /\ queue'[Main][i] = queue[Main][i]
        BY <2>1
      <4> QED
        BY <4>1, <4>2
    <3>2. CASE queue[m][j].f = forward /\ disabled = 1
      BY <3>2
    <3>3. CASE queue[m][j].f = forward /\ disabled = 0 /\ m >= l
      <4>1. CASE m = l
        <5>1. /\ b[1].kind = "wait" /\ b[1].l = l /\ b[1].f = forward
              /\ b[1].n = done[l] + Len(queue[l])
          BY <1>2, <3>3, WaitPiece, Queues
        <5>2. b[1].n >= done[l] + j
          <6>1. done[l] \in Nat /\ Len(queue[l]) \in Nat
            <7>1. done[l] \in Nat
              BY Queues DEF TypeInv
            <7> QED
              BY <7>1, Queues, EmptyQueue
          <6> QED
            BY <4>1, <5>1, <6>1
        <5>3. /\ Len(queue[Main]) + 1 \in 1 .. Len(queue'[Main])
              /\ queue'[Main][Len(queue[Main]) + 1] = b[1]
          BY <1>3, <2>1
        <5> QED
          BY <3>3, <4>1, <5>1, <5>2, <5>3
      <4>2. CASE m # l
        BY <3>3, <4>2, Queues
      <4> QED
        BY <4>1, <4>2
    <3> QED
      BY <1>0, <1>1, <2>0, <3>1, <3>2, <3>3 DEF Joined
  <2>6. Joined(m)'
    BY <1>0, <1>1, <2>1, <2>5 DEF Joined
  <2> QED
    BY <2>2, <2>3, <2>4, <2>6
<1> QED
  BY <1>4, <1>5, <1>6, <1>7, Queues DEF StreamsInv

-----------------------------------------------------------------------------
(* The invariant. *)

LEMMA EngramInit ==
    ASSUME Init
    PROVE  EngramInv
<1>1. /\ forward = 0 /\ step[1] = "hash" /\ disabled = 0 /\ hash = 0
      /\ queue = [s \in Streams |-> <<>>] /\ done = [s \in Streams |-> 0]
      /\ drows = [l \in LayerIds |-> 0] /\ reading = [s \in Streams |-> Nothing]
  BY DEF Init
<1>2. TypeInv
  <2>1. step \in {"hash", "prefetch", "owned"} \X Nat
    BY DEF Init
  <2>2. <<>> \in Seq(Piece) /\ Nothing \in Int
    BY DEF Nothing
  <2> QED
    BY <1>1, <2>1, <2>2 DEF Init, TypeInv
<1>3. \A s \in Streams : queue[s] = <<>> /\ Len(queue[s]) = 0 /\ reading[s] = Nothing
  BY <1>1
<1>4. Main \in Streams /\ LayerIds \subseteq Streams /\ \A l \in LayerIds : l \in Nat
  BY <1>2, Queues
<1>5. HostInv
  <2>1. \A l \in LayerIds : ~ (l >= Upto)
    BY <1>1, EngramStreamsAssumption DEF Upto, LayerIds
  <2> QED
    BY <1>1, <2>1 DEF HostInv
<1>6. MainOrder /\ MainWork /\ Reads(Main)
  BY <1>1, <1>3, <1>4 DEF MainOrder, MainWork, Reads
<1>7. ASSUME NEW l \in LayerIds
      PROVE  SideWork(l) /\ Reads(l) /\ Forked(l) /\ Joined(l) /\ Fetched(l)
  <2>1. queue[l] = <<>> /\ Len(queue[l]) = 0 /\ reading[l] = Nothing /\ drows[l] = 0
    BY <1>1, <1>3, <1>4
  <2>2. SideWork(l) /\ Reads(l) /\ Forked(l) /\ Joined(l)
    BY <2>1 DEF SideWork, Reads, Forked, Joined
  <2>3. Fetched(l)
    BY <1>1, <2>1 DEF Fetched, Covered
  <2> QED
    BY <2>2, <2>3
<1> QED
  BY <1>2, <1>5, <1>6, <1>7 DEF EngramInv, StreamsInv

\* Work done, on whichever stream.
LEMMA RanStep ==
    ASSUME TypeInv, TypeInv', StreamsInv, NEW s \in Streams, NEW k, Ran(s, k)
    PROVE  StreamsInv'
<1>0. /\ HostInv /\ MainOrder /\ MainWork /\ Reads(Main)
      /\ \A l \in LayerIds : SideWork(l) /\ Reads(l) /\ Forked(l) /\ Joined(l) /\ Fetched(l)
  BY DEF StreamsInv
<1>1. HostInv'
  BY <1>0, HostKept DEF Ran, Run
<1>2. CASE s = Main
  <2>1. Ran(Main, k)
    BY <1>2
  <2>2. MainOrder' /\ MainWork'
    BY <1>0, <2>1, MainOrderKept, MainWorkKept DEF Ran
  <2>3. Reads(Main)'
    BY <1>0, <2>1, MainReadsKept
  <2>4. \A l \in LayerIds : SideWork(l)' /\ Reads(l)' /\ Forked(l)' /\ Joined(l)' /\ Fetched(l)'
    BY <1>0, <2>1, SideUnderMain
  <2> QED
    BY <1>1, <2>2, <2>3, <2>4 DEF StreamsInv
<1>3. CASE s \in LayerIds
  <2>1. hash' = hash
    BY <1>0, <1>3, SideRunsNow
  <2>2. MainOrder' /\ MainWork' /\ Reads(Main)'
    BY <1>0, <1>3, <2>1, MainUnderSide
  <2>3. ASSUME NEW l \in LayerIds
        PROVE  SideWork(l)' /\ Reads(l)' /\ Forked(l)' /\ Joined(l)' /\ Fetched(l)'
    <3>1. CASE l = s
      BY <1>0, <1>3, <3>1, SideUnderSide
    <3>2. CASE l # s
      BY <1>0, <1>3, <2>1, <3>2, OthersUnderSide
    <3> QED
      BY <3>1, <3>2
  <2> QED
    BY <1>1, <2>2, <2>3 DEF StreamsInv
<1> QED
  BY <1>2, <1>3 DEF Streams

LEMMA EngramNext ==
    ASSUME EngramInv, [Next]_vars
    PROVE  EngramInv'
<1>0. TypeInv
  BY DEF EngramInv
<1>1. CASE UNCHANGED vars
  <2>1. TypeInv'
    BY <1>0, <1>1 DEF TypeInv, vars, host, buffers
  <2>2. Failed' = Failed
    BY <1>1 DEF Failed, vars, host
  <2>3. StreamsInv' = StreamsInv
    BY <1>1 DEF vars, host, buffers, StreamsInv, HostInv, Prefetched, Upto, MainOrder, MainWork,
                Reads, SideWork, Forked, Joined, Fetched, Covered
  <2> QED
    BY <2>1, <2>2, <2>3 DEF EngramInv
<1>2. CASE Next
  <2>1. PICK l \in LayerIds, s \in Streams :
          \/ Hash \/ Prefetch(l) \/ Raise(l) \/ OwnedPrefetched(l) \/ OwnedSynchronous(l)
          \/ RunHash \/ RunGather
          \/ RunWait(s) \/ Read(s) \/ RunIds(s) \/ RunLookup(s) \/ RunRows(s)
    <3>1. 1 \in LayerIds /\ Main \in Streams
      BY EngramStreamsAssumption DEF LayerIds, Streams
    <3> QED
      BY <1>2, <3>1 DEF Next
  <2>2. TypeInv'
    BY <1>0, <2>1, HostTypes, DeviceTypes
  <2>3. CASE Failed /\ ~ StreamsInv
    <3>1. disabled' = disabled \/ disabled' = 1
      BY <2>1 DEF Hash, Prefetch, Raise, OwnedPrefetched, OwnedSynchronous, RunHash, RunGather,
                  RunWait, Read, RunIds, RunLookup, RunRows, Written, Run, host
    <3>2. Failed'
      BY <2>3, <3>1 DEF Failed
    <3> QED
      BY <2>2, <3>2 DEF EngramInv
  <2>4. CASE StreamsInv
    <3>1. CASE Hash
      BY <1>0, <2>2, <2>4, <3>1, HashStep DEF EngramInv
    <3>2. CASE Prefetch(l)
      BY <1>0, <2>2, <2>4, <3>2, PrefetchStep DEF EngramInv
    <3>3. CASE Raise(l)
      BY <1>0, <2>2, <2>4, <3>3, RaiseStep DEF EngramInv
    <3>4. CASE OwnedPrefetched(l) \/ OwnedSynchronous(l)
      BY <1>0, <2>2, <2>4, <3>4, OwnedStep DEF EngramInv
    <3>5. CASE Read(s)
      BY <1>0, <2>2, <2>4, <3>5, ReadStep DEF EngramInv
    <3>6. CASE RunHash \/ RunGather \/ RunWait(s) \/ RunIds(s) \/ RunLookup(s) \/ RunRows(s)
      <4>1. Main \in Streams /\ \A t \in Streams : Reads(t)
        BY <2>4 DEF StreamsInv, Streams
      <4>2. \E t \in Streams, k \in Copies \cup {"hash", "wait", "gather"} :
              \/ t = Main /\ k = "hash" /\ RunHash
              \/ t = Main /\ k = "gather" /\ RunGather
              \/ k = "wait" /\ RunWait(t)
              \/ k = "ids" /\ RunIds(t)
              \/ k = "lookup" /\ RunLookup(t)
              \/ k = "rows" /\ RunRows(t)
        BY <3>6, <4>1 DEF Copies
      <4>3. \E t \in Streams : \E k : Ran(t, k)
        BY <1>0, <4>1, <4>2, DeviceRuns
      <4> QED
        BY <1>0, <2>2, <2>4, <4>3, RanStep DEF EngramInv
    <3> QED
      BY <2>1, <3>1, <3>2, <3>3, <3>4, <3>5, <3>6
  <2> QED
    BY <2>3, <2>4 DEF EngramInv
<1> QED
  BY <1>1, <1>2

-----------------------------------------------------------------------------
(* Theorems. *)

\* The invariant holds in every state, for any number of layers and forwards,
\* with the check mode on or off and whenever a prefetch raises.
THEOREM EngramInvariant == Spec => []EngramInv
<1>1. Init => EngramInv
  BY EngramInit
<1>2. EngramInv /\ [Next]_vars => EngramInv'
  BY EngramNext
<1> QED
  BY <1>1, <1>2, PTL DEF Spec

\* A gather at the head of the main stream is of the forward the device is in.
LEMMA GatherNow ==
    ASSUME TypeInv, StreamsInv
    PROVE  GatherExact
<1> SUFFICES ASSUME queue[Main] # <<>>, Head(queue[Main]).kind = "gather"
             PROVE  drows[Head(queue[Main]).l] = Head(queue[Main]).f
  BY DEF GatherExact
<1>1. Head(queue[Main]) = queue[Main][1]
  BY Queues, Popped
<1>2. queue[Main][1].f = hash
  BY <1>1 DEF StreamsInv, MainOrder
<1> QED
  BY <1>1, <1>2 DEF StreamsInv, Reads

\* Until a prefetch raises, every gather reads the rows of its own forward:
\* no side stream, and no other forward, changes a layer's device rows between
\* the join and the gather of engram_prefetch's owned.
THEOREM ExactUntilRaise == Spec => [](disabled = 0 => GatherExact)
<1>1. EngramInv => (disabled = 0 => GatherExact)
  BY GatherNow DEF EngramInv, Failed
<1> QED
  BY <1>1, EngramInvariant, PTL

\* The forward in which a prefetch raises is exact too: when no forward comes
\* after the first that may raise, every gather of the run is.
THEOREM PrefetchGathersExact ==
    ASSUME MaxForwards <= RaiseAfter + 1
    PROVE  Spec => []GatherExact
<1>1. EngramInv => GatherExact
  <2>1. ~ Failed
    BY EngramStreamsAssumption DEF Failed
  <2> QED
    BY <2>1, GatherNow DEF EngramInv
<1> QED
  BY <1>1, EngramInvariant, PTL

\* While the prefetch is on, no two streams use a layer's pinned staging at
\* once: the synchronous lookups of the check mode run behind the layer's join,
\* and the next prefetch behind the next hash.
THEOREM LookupsUndisturbed == Spec => []LookupUndisturbed
<1>1. ASSUME EngramInv
      PROVE  LookupUndisturbed
  <2> SUFFICES ASSUME disabled = 0, NEW s \in Streams, NEW t \in Streams, s # t,
                      queue[s] # <<>>, queue[t] # <<>>,
                      Head(queue[s]).kind = "lookup", Head(queue[t]).kind \in Copies,
                      Head(queue[s]).l = Head(queue[t]).l
               PROVE  FALSE
    BY DEF LookupUndisturbed, Copies
  <2>1. TypeInv /\ StreamsInv
    BY <1>1 DEF EngramInv, Failed
  <2>2. /\ Head(queue[s]) = queue[s][1] /\ Head(queue[t]) = queue[t][1]
        /\ 1 \in 1 .. Len(queue[s]) /\ 1 \in 1 .. Len(queue[t])
    BY <2>1, Queues, Popped
  <2>3. \A l \in LayerIds : (l = s => queue[s][1].l = s) /\ (l = t => queue[t][1].l = t)
    BY <2>1, <2>2 DEF StreamsInv, SideWork, Copies
  <2>4. PICK l \in LayerIds : \/ s = Main /\ t = l
                              \/ t = Main /\ s = l
    BY <2>2, <2>3 DEF Streams
  <2>5. /\ queue[Main][1].kind \in Copies /\ queue[Main][1].l = l
        /\ queue[l][1].kind \in Copies /\ queue[l] # <<>> /\ queue[Main] # <<>>
        /\ 1 \in 1 .. Len(queue[Main]) /\ 1 \in 1 .. Len(queue[l])
    BY <2>2, <2>3, <2>4 DEF Copies
  <2>6. queue[Main][1].f = hash /\ queue[l][1].f = hash
    BY <2>1, <2>5 DEF StreamsInv, MainOrder, SideWork, Copies
  <2>7. \/ \E i \in 1 .. Len(queue[Main]) :
             LET w == queue[Main][i] IN w.kind = "wait" /\ w.l = l /\ w.f = hash
        \/ hash = forward /\ l >= Upto
    BY <2>1, <2>5, <2>6 DEF StreamsInv, Joined
  <2>8. CASE hash = forward /\ l >= Upto
    <3>1. l < Upto /\ l \in Nat /\ Upto \in Nat
      BY <2>1, <2>5, <2>6, <2>8, Queues, UptoNat DEF StreamsInv, MainWork, Copies
    <3> QED
      BY <2>8, <3>1
  <2>9. ASSUME NEW i \in 1 .. Len(queue[Main]), queue[Main][i].kind = "wait",
               queue[Main][i].l = l, queue[Main][i].f = hash
        PROVE  FALSE
    <3>1. i <= 1
      BY <2>1, <2>5, <2>6, <2>9 DEF StreamsInv, MainWork, Copies
    <3>2. i = 1
      BY <3>1
    <3> QED
      BY <2>5, <2>9, <3>2 DEF Copies
  <2> QED
    BY <2>7, <2>8, <2>9
<1> QED
  BY <1>1, EngramInvariant, PTL
=============================================================================
