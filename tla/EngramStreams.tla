--------------------------- MODULE EngramStreams ---------------------------
(***************************************************************************)
(* The CUDA work of the Engram lookups: engram_backend.owned, and the      *)
(* side-stream prefetch of engram_prefetch.py that replaces it.  The host  *)
(* enqueues the work of forward after forward without waiting; streams run *)
(* on their own, ordered only by wait_stream.  Every layer has one side    *)
(* stream and one set of staging buffers, used by both paths.              *)
(*                                                                         *)
(* A buffer's content is the number of the forward whose ids or rows it    *)
(* holds.                                                                  *)
(***************************************************************************)
EXTENDS Integers, Sequences

CONSTANTS
    Layers,       \* number of Engram layers
    MaxForwards,  \* bound: forwards enqueued
    Check,        \* DSV41_ENGRAM_PREFETCH_CHECK
    RaiseAfter    \* bound: a prefetch may raise in the forwards after this one

ASSUME EngramStreamsAssumption ==
    /\ Layers \in Nat \ {0} /\ MaxForwards \in Nat
    /\ Check \in BOOLEAN /\ RaiseAfter \in Nat

LayerIds == 1 .. Layers
Main     == 0
Nothing  == -1   \* a copy or callback that has not read yet
Streams  == {Main} \cup LayerIds   \* a layer's side stream has its number

VARIABLES
    forward,   \* forwards enqueued so far
    step,      \* what the host enqueues next: <<"hash", 0>>, <<"prefetch", l>>, <<"owned", l>>
    pending,   \* pending[l]: the forward that _pending names, 0 for None
    disabled,
    queue,     \* queue[s]: work enqueued on stream s and not yet done
    done,      \* done[s]: pieces of work done on stream s
    hash, ids, rows, drows,  \* device ids; pinned ids and rows; device rows
    reading    \* reading[s]: what the copy or callback running on s has read

host    == <<forward, step, pending, disabled>>
buffers == <<hash, ids, rows, drows, reading>>
vars    == <<host, queue, done, buffers>>

Init ==
    /\ forward = 0 /\ step = <<"hash", 0>> /\ disabled = 0
    /\ pending = [l \in LayerIds |-> 0]
    /\ queue = [s \in Streams |-> <<>>]
    /\ done = [s \in Streams |-> 0]
    /\ hash = 0
    /\ ids = [l \in LayerIds |-> 0]
    /\ rows = [l \in LayerIds |-> 0]
    /\ drows = [l \in LayerIds |-> 0]
    /\ reading = [s \in Streams |-> Nothing]

-----------------------------------------------------------------------------
(* The host. *)

\* A piece of work on layer l in forward f; n: how much work a wait is for.
Work(kind, l, f, n) == [kind |-> kind, l |-> l, f |-> f, n |-> n]

\* wait_stream(s): wait for what stream s has been given so far.
WaitFor(s) == Work("wait", s, forward, done[s] + Len(queue[s]))

\* The ids copy, the host callback and the row copies of one lookup.
Lookup(l) == <<Work("ids", l, forward, 0), Work("lookup", l, forward, 0),
               Work("rows", l, forward, 0)>>

Gather(l) == <<Work("gather", l, forward, 0)>>

Enqueue(s, work) == queue' = [queue EXCEPT ![s] = @ \o work]

After(l, what) == IF l < Layers THEN <<what, l + 1>> ELSE
                  IF what = "prefetch" THEN <<"owned", 1>> ELSE <<"hash", 0>>

\* Hasher.forward: the next forward's ids.
Hash ==
    /\ step[1] = "hash" /\ forward < MaxForwards
    /\ forward' = forward + 1
    /\ Enqueue(Main, <<Work("hash", 0, forward + 1, 0)>>)
    /\ step' = IF disabled = 1 THEN <<"owned", 1>> ELSE <<"prefetch", 1>>
    /\ UNCHANGED <<pending, disabled, done, buffers>>

\* Mutant of Prefetch: the side stream does not wait for the main one.
PrefetchUnforked(l) ==
    /\ step = <<"prefetch", l>>
    /\ Enqueue(l, Lookup(l))
    /\ pending' = [pending EXCEPT ![l] = forward]
    /\ step' = After(l, "prefetch")
    /\ UNCHANGED <<forward, disabled, done, buffers>>

\* _prefetch: fork the side stream off main and look the layer's rows up.
Prefetch(l) ==
    /\ step = <<"prefetch", l>>
    /\ Enqueue(l, <<WaitFor(Main)>> \o Lookup(l))
    /\ pending' = [pending EXCEPT ![l] = forward]
    /\ step' = After(l, "prefetch")
    /\ UNCHANGED <<forward, disabled, done, buffers>>

\* _prefetch raises: before it enqueued anything (no memory for the staging)
\* or after the ids copy (the callback is refused).  The prefetch is disabled
\* and every layer forgets its prefetch.
Raise(l) ==
    /\ forward > RaiseAfter /\ step = <<"prefetch", l>>
    /\ \/ UNCHANGED queue
       \/ Enqueue(l, <<WaitFor(Main), Work("ids", l, forward, 0)>>)
    /\ disabled' = 1
    /\ pending' = [k \in LayerIds |-> 0]
    /\ step' = <<"owned", 1>>
    /\ UNCHANGED <<forward, done, buffers>>

\* Mutant of Join: the gather does not wait for the side stream.
JoinNothing(l) == <<>>

Join(l) == <<WaitFor(l)>>

\* owned, after a prefetch of these ids: join the side stream and gather; the
\* check mode looks the rows up again on the main stream.
OwnedPrefetched(l) ==
    /\ step = <<"owned", l>> /\ pending[l] = forward
    /\ pending' = [pending EXCEPT ![l] = 0]
    /\ Enqueue(Main, Join(l) \o Gather(l)
                       \o (IF Check THEN Lookup(l) \o Gather(l) ELSE <<>>))
    /\ step' = After(l, "owned")
    /\ UNCHANGED <<forward, disabled, done, buffers>>

\* owned without one: everything on the main stream.
OwnedSynchronous(l) ==
    /\ step = <<"owned", l>> /\ pending[l] # forward
    /\ Enqueue(Main, Lookup(l) \o Gather(l))
    /\ step' = After(l, "owned")
    /\ UNCHANGED <<forward, pending, disabled, done, buffers>>

-----------------------------------------------------------------------------
(* The streams: each runs its work in order. *)

Run(s, kind) ==
    /\ queue[s] # <<>> /\ Head(queue[s]).kind = kind
    /\ queue' = [queue EXCEPT ![s] = Tail(@)]
    /\ done' = [done EXCEPT ![s] = @ + 1]
    /\ UNCHANGED host

RunHash ==
    /\ Run(Main, "hash")
    /\ hash' = Head(queue[Main]).f
    /\ UNCHANGED <<ids, rows, drows, reading>>

RunWait(s) ==
    /\ Run(s, "wait")
    /\ done[Head(queue[s]).l] >= Head(queue[s]).n
    /\ UNCHANGED buffers

\* A copy or a callback reads its source some time before its result is there.
Read(s) ==
    /\ queue[s] # <<>> /\ reading[s] = Nothing
    /\ LET w == Head(queue[s]) IN
       /\ w.kind \in {"ids", "lookup", "rows"}
       /\ reading' = [reading EXCEPT ![s] =
                         CASE w.kind = "ids"    -> hash
                           [] w.kind = "lookup" -> ids[w.l]
                           [] w.kind = "rows"   -> rows[w.l]]
    /\ UNCHANGED <<host, queue, done, hash, ids, rows, drows>>

\* What stream s has read is written; the piece of work is done.
Written(s, kind, buffer) ==
    /\ reading[s] # Nothing /\ Run(s, kind)
    /\ buffer' = [buffer EXCEPT ![Head(queue[s]).l] = reading[s]]
    /\ reading' = [reading EXCEPT ![s] = Nothing]

RunIds(s) ==
    /\ Written(s, "ids", ids)
    /\ UNCHANGED <<hash, rows, drows>>

RunLookup(s) ==
    /\ Written(s, "lookup", rows)
    /\ UNCHANGED <<hash, ids, drows>>

RunRows(s) ==
    /\ Written(s, "rows", drows)
    /\ UNCHANGED <<hash, ids, rows>>

RunGather ==
    /\ Run(Main, "gather")
    /\ UNCHANGED buffers

Next ==
    \/ Hash
    \/ \E l \in LayerIds :
         Prefetch(l) \/ Raise(l) \/ OwnedPrefetched(l) \/ OwnedSynchronous(l)
    \/ RunHash \/ RunGather
    \/ \E s \in Streams : RunWait(s) \/ Read(s) \/ RunIds(s) \/ RunLookup(s) \/ RunRows(s)

Spec == Init /\ [][Next]_vars

-----------------------------------------------------------------------------
(* Properties. *)

\* "Never allow a generation to continue with missing/stale rows": while a
\* layer's gather runs, the staging it reads holds the rows of its forward.
GatherExact ==
    LET w == Head(queue[Main]) IN
    queue[Main] # <<>> /\ w.kind = "gather" => drows[w.l] = w.f

\* While the prefetch is on, the two paths never use a layer's pinned staging at
\* once: beside a running callback no other stream copies or looks up there.
LookupUndisturbed ==
    disabled = 0 =>
    \A s, t \in Streams :
        (/\ s # t /\ queue[s] # <<>> /\ queue[t] # <<>>
         /\ Head(queue[s]).kind = "lookup"
         /\ Head(queue[t]).kind \in {"ids", "lookup", "rows"})
        => Head(queue[s]).l # Head(queue[t]).l

=============================================================================
