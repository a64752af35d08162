-------------------------- MODULE PrefillScheduler --------------------------
(***************************************************************************)
(* Scheduling around a prompt that is prefilled in chunks: the bypass and  *)
(* the solo pass of prefill_bypass.py, which let short requests past it,   *)
(* and the decode yield of decode_yield.py, which gives the running        *)
(* streams a share of the time between two chunks.  Both are hooks in      *)
(* SGLang's scheduler; what they hook (the queue, the merge of the last    *)
(* batch, the stash of a chunk, admission without a long prompt, results   *)
(* that come back a round late) is modelled from how they use it.          *)
(*                                                                         *)
(* One step of Round is one call of get_next_batch_to_run, the launch of   *)
(* its batch, and the results due.  What memory admits is a choice.        *)
(***************************************************************************)
EXTENDS Integers, Sequences, FiniteSets, FiniteSetsExt

CONSTANTS
    Reqs, Tokens,        \* requests and the length of their prompts
    None,                \* no chunked request
    ChunkSize,           \* --chunked-prefill-size
    Limit, ScanLimit,    \* DSV41_PREFILL_BYPASS, DSV41_PREFILL_BYPASS_SCAN
    Interval, MinBs,     \* --prefill-decode-interval and its -min-bs
    Pct, MaxSteps,       \* DSV41_DECODE_YIELD, MAX_STEPS
    ChunkBase, PrefixCost, StepBase, StepPerReq  \* the cost model

ASSUME PrefillSchedulerAssumption ==
    /\ IsFiniteSet(Reqs) /\ None \notin Reqs /\ Tokens \in [Reqs -> Nat \ {0}]
    /\ ChunkSize \in Nat \ {0} /\ Limit \in Nat \ {0} /\ ScanLimit \in Nat \ {0}
    /\ Interval \in Nat /\ MinBs \in Nat /\ Pct \in 1 .. 90
    /\ MaxSteps \in Nat \ {0} /\ ChunkBase \in Nat /\ PrefixCost \in Nat
    /\ ChunkBase >= ChunkSize  \* a token takes a unit of time or more
    /\ StepBase \in Nat \ {0} /\ StepPerReq \in Nat

VARIABLES
    solo, overlap,  \* DSV41_PREFILL_BYPASS_SOLO; results come back a round late
    free,           \* requests not in the system: they may arrive (again)
    waiting,        \* waiting_queue
    req,            \* per request: prefix, extend_range, _dsv41_solo_parked,
                    \* inflight_middle_chunks; tokens computed, first token out, finished
    chunked,        \* chunked_req
    running,        \* requests of the running batch
    stale,          \* chunked_req of the batch object that became the running batch
    last,           \* the batch launched last
    yieldLeft, interval,  \* _dsv41_yield_left_us, _prefill_decode_interval_remaining
    solos,          \* history: solo passes since a chunk ran
    owed, served    \* history: decode time owed for the last chunk, and given since

queue == <<free, waiting, running, stale>>
vars  == <<solo, overlap, queue, req, chunked, last, yieldLeft, interval,
           solos, owed, served>>

Blank == [prefix |-> 0, start |-> 0, end |-> 0, parked |-> 0, middle |-> 0,
          computed |-> 0, first |-> 0, over |-> 0]
Batch(reqs, extend, long) == [reqs |-> reqs, extend |-> extend, chunked |-> long]
NoBatch == Batch({}, FALSE, None)

Init ==
    /\ solo \in BOOLEAN /\ overlap \in BOOLEAN
    /\ free = Reqs /\ waiting = <<>> /\ running = {} /\ stale = None
    /\ req = [q \in Reqs |-> Blank] /\ chunked = None /\ last = NoBatch
    /\ yieldLeft = 0 /\ interval = 0
    /\ solos = 0 /\ owed = 0 /\ served = 0

-----------------------------------------------------------------------------
(* The cost model (chunk_us, step_us, yield_budget_us). *)

chunk_us(tokens, prefix) == (tokens * (ChunkBase + prefix * PrefixCost)) \div ChunkSize
step_us(bs) == StepBase + StepPerReq * bs
Ceil(n, d)  == (n + d - 1) \div d

\* Mutant of Want: the share is taken of the chunk's time alone.
WantOfChunk(c) == Ceil(Pct * c, 100)

Want(c) == Ceil(Pct * c, 100 - Pct)

yield_budget_us(tokens, prefix, bs) ==
    Min({Max({Want(chunk_us(tokens, prefix)), Interval * step_us(bs)}),
         MaxSteps * step_us(bs)})

-----------------------------------------------------------------------------
(* The start of a round: the chunk that ran is stashed, the rest of the    *)
(* last batch joins the running one, the finished leave.                   *)

Leaving == {q \in last.reqs : last.extend /\ q # chunked /\ req[q].over = 1}
Joining == {q \in last.reqs : last.extend /\ q \notin {chunked, last.chunked}} \ Leaving
Rows    == running \cup Joining
Stashed == IF chunked = None THEN req
           ELSE [req EXCEPT ![chunked].prefix = req[chunked].end]

\* The results of batch b: a middle chunk counts down, anything else gives
\* its first token.
Results(b, r) ==
    [q \in Reqs |-> IF ~ b.extend \/ q \notin b.reqs THEN r[q]
                    ELSE IF r[q].middle > 0 THEN [r[q] EXCEPT !.middle = @ - 1]
                    ELSE [r[q] EXCEPT !.first = 1]]

Compute(b, r) ==
    [q \in Reqs |-> IF b.extend /\ q \in b.reqs /\ r[q].start = r[q].computed
                    THEN [r[q] EXCEPT !.computed = r[q].end] ELSE r[q]]

\* Launch batch b, take the results due, let the requests of gone leave.
Launch(b, r, rows, gone) ==
    LET done == Results(IF overlap THEN last ELSE b, Compute(b, r))
    IN /\ last' = b
       /\ req' = [q \in Reqs |-> IF q \in gone THEN Blank ELSE done[q]]
       /\ free' = free \cup gone
       /\ running' = rows \ gone
       /\ stale' = IF running = {} /\ Joining # {} THEN last.chunked ELSE stale

-----------------------------------------------------------------------------
(* The yield. *)

_decode_rows == Rows # {}

\* Mutant of IsChunkBatch: the mode of the batch is not looked at.
AnyBatch(b, long) == b.chunked # None /\ b.chunked = long

\* The guard of arm_after on the batch.
IsChunkBatch(b, long) == b.chunked # None /\ b.chunked = long /\ b.extend

\* arm_after; owed is what the share asks for, times 100 - Pct, within the cap.
arm_after(b, long, r, left) ==
    LET tokens == MapThenSumSet(LAMBDA q : r[q].end - r[q].start, b.reqs)
        prefix == r[b.chunked].start
        bs     == Cardinality(Rows)
    IN IF IsChunkBatch(b, long) /\ _decode_rows /\ tokens > 0
       THEN /\ yieldLeft' = yield_budget_us(tokens, prefix, bs)
            /\ owed' = Min({Pct * chunk_us(tokens, prefix),
                            (100 - Pct) * MaxSteps * step_us(bs)})
            /\ served' = 0
       ELSE /\ yieldLeft' = left
            /\ IF b.extend \/ ~ _decode_rows \/ long = None
               THEN owed' = 0 /\ served' = 0
               ELSE /\ served' = Min({served + step_us(Cardinality(Rows)), owed})
                    /\ UNCHANGED owed

\* A round without a prefill: the running batch decodes, if a row is left.
Decode(left) ==
    LET gone == {q \in Rows : req[q].over = 1} \cup Leaving
        b    == IF Rows \ gone = {} THEN NoBatch
                ELSE Batch(Rows \ gone, FALSE, IF running = {} /\ Joining # {}
                                               THEN last.chunked ELSE stale)
    IN /\ Launch(b, Stashed, Rows, gone)
       /\ arm_after(b, chunked, Stashed, left)
       /\ UNCHANGED <<waiting, chunked, solos>>

\* defer_step: the yield goes on.
Yield ==
    /\ yieldLeft > 0 /\ _decode_rows /\ chunked # None
    /\ Decode(yieldLeft - step_us(Cardinality(Rows)))
    /\ interval' = 0

\* The stock rule between two prefills.
StockDefer ==
    /\ yieldLeft <= 0 /\ interval > 0 /\ Cardinality(Rows) >= MinBs
    /\ Decode(yieldLeft)
    /\ interval' = interval - 1

\* Mutant of Cancelled: the budget of a yield that is over is kept.
NotCancelled == yieldLeft

\* What a round that does not defer leaves of the budget: a yield with nothing
\* to decode or no chunk left is over.
Cancelled == Min({yieldLeft, 0})

\* Neither rule defers.
MayPrefill ==
    IF yieldLeft > 0 THEN ~ _decode_rows \/ chunked = None
    ELSE interval = 0 \/ Cardinality(Rows) < MinBs

-----------------------------------------------------------------------------
(* A prefill pass (_get_new_batch_prefill_raw). *)

\* Mutant of Resuming: a parked prompt is not remembered.
NeverResuming == FALSE

\* _dsv41_resume: the pass before parked the chunked request.
Resuming == chunked # None /\ req[chunked].parked = 1

\* add_chunked_req: the chunk that follows the stashed prefix, and whether
\* it is the last one.
ChunkEnd == Min({Stashed[chunked].prefix + ChunkSize, Tokens[chunked]})
IsFinal  == ChunkEnd = Tokens[chunked]
WithChunk ==
    IF chunked = None THEN Stashed
    ELSE [Stashed EXCEPT ![chunked].start = Stashed[chunked].prefix,
                         ![chunked].end = ChunkEnd, ![chunked].parked = 0]

\* Mutant of Scans: the solo pass, too, leaves a final chunk to stock admission.
ScansMiddle == chunked # None /\ ~ Resuming /\ ~ IsFinal

\* _dsv41_scan: short requests are looked for beside the chunk.
Scans == chunked # None /\ IF solo THEN ~ Resuming ELSE ~ IsFinal

\* The tokens that a set of requests would have to prefill.
fresh_tokens(S) == MapThenSumSet(LAMBDA q : Tokens[q] - req[q].prefix, S)

\* The first k of the queue.
First(k) == {waiting[i] : i \in 1 .. k}

\* Sets of short requests the scan may admit, none of them in part.
Shorts ==
    {S \in SUBSET First(Min({ScanLimit, Len(waiting)})) :
        fresh_tokens(S) <= Limit /\ (solo => Cardinality(S) = 1)}

Whole(r, S) == [q \in Reqs |-> IF q \in S THEN [r[q] EXCEPT !.end = Tokens[q]] ELSE r[q]]

\* The queue without the requests of a batch.
Without(s, S) ==
    LET kept[i \in 0 .. Len(s)] ==
            IF i = 0 THEN <<>>
            ELSE IF s[i] \in S THEN kept[i - 1] ELSE Append(kept[i - 1], s[i])
    IN kept[Len(s)]

\* The end of every pass that built batch b: long is the chunked request from
\* now on, counted as an unfinished one if counts.
Pass(b, long, counts, r) ==
    LET made == IF counts /\ long # None THEN [r EXCEPT ![long].middle = @ + 1] ELSE r
    IN /\ Launch(b, made, Rows, Leaving)
       /\ arm_after(b, long, made, Cancelled)
       /\ chunked' = long
       /\ interval' = Interval
       /\ waiting' = Without(waiting, b.reqs)

\* Mutant of Parked: the range of the chunk that does not run is left as it is.
ParkedFull(r) == [r EXCEPT ![chunked].parked = 1]

\* The parked chunk: nothing to stash.
Parked(r) == [r EXCEPT ![chunked].start = r[chunked].prefix,
                       ![chunked].end = r[chunked].prefix, ![chunked].parked = 1]

\* Mutant of ParkCounts: the parked chunk is counted as in flight.
ParkCountsToo == TRUE

\* A solo pass carries no chunk: nothing is counted.
ParkCounts == FALSE

\* A solo pass: one short request, the long prompt parked.
SoloPass ==
    /\ MayPrefill /\ solo /\ Scans
    /\ \E S \in Shorts :
          Pass(Batch(S, TRUE, None), chunked, ParkCounts, Whole(Parked(WithChunk), S))
    /\ solos' = Min({solos + 1, 2})

\* The next chunk, with what the bypass admits beside it.
ChunkPass ==
    /\ MayPrefill /\ chunked # None
    /\ \E S \in {{}} \cup (IF Scans /\ ~ solo THEN Shorts ELSE {}) :
          LET long == IF IsFinal THEN None ELSE chunked
          IN Pass(Batch({chunked} \cup S, TRUE, long), long, TRUE, Whole(WithChunk, S))
    /\ solos' = 0

\* Stock admission, without a long prompt or beside the final chunk of one:
\* the first k of the queue, and a part of the next one if it does not fit.
StockPass ==
    /\ MayPrefill /\ ~ Resuming /\ ~ Scans
    /\ \E k \in 0 .. Len(waiting), split \in BOOLEAN :
          LET old   == IF chunked = None THEN {} ELSE {chunked}
              S     == First(k)
              room  == ChunkSize - fresh_tokens(S)
                       - (IF chunked = None THEN 0 ELSE ChunkEnd - Stashed[chunked].prefix)
              long  == IF split THEN waiting[k + 1] ELSE None
              r     == Whole(WithChunk, S)
          IN /\ S # {} \/ split
             /\ room >= 0 /\ (split => k < Len(waiting))
             /\ split => room \in 1 .. Tokens[long] - 1
             /\ Pass(Batch(old \cup S \cup ({long} \ {None}), TRUE, long), long, TRUE,
                     IF split THEN [r EXCEPT ![long].end = room] ELSE r)
    /\ solos' = 0

\* Nothing to prefill, or no memory for it: decode.
NoPass ==
    /\ MayPrefill /\ chunked = None
    /\ Decode(Cancelled)
    /\ interval' = 0

Round == Yield \/ StockDefer \/ SoloPass \/ ChunkPass \/ StockPass \/ NoPass

-----------------------------------------------------------------------------
(* The environment. *)

Arrive(q) ==
    /\ q \in free
    /\ free' = free \ {q} /\ waiting' = Append(waiting, q)
    /\ UNCHANGED <<running, stale, req, chunked, last, yieldLeft, interval, solos, owed, served>>

\* A request has had its last token; the next filter drops it.
Finish(q) ==
    /\ req[q].first = 1 /\ req[q].over = 0
    /\ req' = [req EXCEPT ![q].over = 1]
    /\ UNCHANGED <<queue, chunked, last, yieldLeft, interval, solos, owed, served>>

\* process_pending_chunked_abort.
AbortChunked ==
    /\ chunked # None
    /\ chunked' = None /\ free' = free \cup {chunked}
    /\ req' = [req EXCEPT ![chunked] = Blank]
    /\ last' = [last EXCEPT !.reqs = @ \ {chunked}, !.chunked = None]
    /\ stale' = IF stale = chunked THEN None ELSE stale
    /\ solos' = 0 /\ owed' = 0 /\ served' = 0
    /\ UNCHANGED <<waiting, running, yieldLeft, interval>>

Next ==
    /\ \/ Round
       \/ \E q \in Reqs : Arrive(q) \/ Finish(q)
       \/ AbortChunked
    /\ UNCHANGED <<solo, overlap>>

Spec == Init /\ [][Next]_vars

\* The scheduler's loop never stops calling get_next_batch_to_run.
Loop     == Round /\ UNCHANGED <<solo, overlap>>
FairSpec == Spec /\ WF_vars(Loop)

-----------------------------------------------------------------------------
(* Properties. *)

\* The prefix that a round stashes was computed: parking a chunk that was
\* already given its range never lets it pass for one that ran, and no
\* request decodes on a prompt with a hole (prefill_bypass.py, SOLO_PATCHES).
PrefixComputed ==
    /\ \A q \in Reqs : req[q].prefix <= req[q].computed
    /\ chunked # None => req[chunked].end <= req[chunked].computed
    /\ \A q \in running : req[q].computed = Tokens[q]

\* With solo passes, a chunk after the first runs as on an idle server: alone
\* in its batch, and as long as a chunk can be.
ChunkAlone ==
    solo => \A q \in last.reqs : last.extend /\ req[q].start > 0 =>
               /\ last.reqs = {q}
               /\ req[q].end = Min({req[q].start + ChunkSize, Tokens[q]})

\* At most one solo pass between two chunks.
Alternate == solos <= 1

\* Every request in the running batch has had its first token: the countdown
\* of its middle chunks ended with the result of its last one, and no earlier
\* (a first token comes only of a whole prompt).
FirstToken ==
    \A q \in Reqs : /\ q \in running => req[q].first = 1
                    /\ req[q].first = 1 => req[q].computed = Tokens[q]

\* While the prompt is there and streams run beside it, no prefill starts
\* before they have had the share of the last chunk's time.
ShareHonoured ==
    [][(SoloPass \/ ChunkPass \/ StockPass) /\ Rows # {}
         => served * (100 - Pct) >= owed]_vars

\* A round is yielded only while the chunked prompt that is there owes the
\* streams time for its last chunk: what is left of a budget when its prompt is
\* aborted or its last stream ends holds back no chunk of the next one.
YieldIsOwed == [][Yield => owed > 0]_vars

\* However many short requests arrive and however long the streams run, a
\* chunked prompt gets its first token, or is aborted.
LongServed ==
    \A q \in Reqs : (chunked = q) ~> (q \in free \/ req[q].first = 1)
=============================================================================
