------------------------------ MODULE RowPool ------------------------------
(***************************************************************************)
(* The process-wide thread pool of adapter/row_store.cpp that serves the   *)
(* rows of one Engram lookup.  A host callback (row_store_lookup) either   *)
(* serves its rows itself or hands them to Pool::run, which publishes the  *)
(* job, wakes the workers, drains tickets together with them and returns   *)
(* when every ticket is finished and every worker has left drain().        *)
(*                                                                         *)
(* A Work object is named by the caller that owns it: the adapter reuses   *)
(* one Work per row count, so a worker holding a pointer from an earlier   *)
(* call would write into the buffers of whatever call came next.           *)
(*                                                                         *)
(* A critical section that never waits is one step, enabled when mutex_ is *)
(* free.  The two waits hold mutex_ across two steps (evaluate the         *)
(* predicate, then act on it), because remaining_ changes outside mutex_.  *)
(***************************************************************************)
EXTENDS Integers, FiniteSets

CONSTANTS
    Callers,        \* threads that run row_store_lookup
    Workers,        \* the pool's threads; {} when DSV41_IO_THREADS <= 1
    Counts,         \* row counts a lookup may ask for
    SerialBelow,    \* kSerialBelow
    None,           \* the null Work pointer, the free lock
    MaxGenerations  \* bound: pool jobs in a behaviour

Threads == Callers \cup Workers

ASSUME ThreadsAssumption ==
    /\ Callers \cap Workers = {}
    /\ None \notin Threads
    /\ IsFiniteSet(Callers) /\ IsFiniteSet(Workers)

ASSUME CountsAssumption ==
    /\ Counts \subseteq Nat
    /\ SerialBelow \in Nat \ {0}
    /\ MaxGenerations \in Nat

VARIABLES
    pc,         \* pc[t]: where thread t is
    caller_,    \* holder of the lock that serialises run()
    mutex_,     \* holder of the pool's lock, between two steps
    job_, next_, chunks_, remaining_, active_, generation_,
    seen,       \* seen[w]: the generation worker w last took
    work,       \* work[t]: the Work pointer thread t drains
    ticket,     \* ticket[t]: the ticket thread t claimed last
    count,      \* count[c]: rows of c's current (or last) lookup
    written     \* written[c]: rows of that lookup that were served

shared == <<caller_, mutex_, job_, next_, chunks_, remaining_, active_,
            generation_>>
local  == <<seen, work, ticket>>
vars   == <<pc, shared, local, count, written>>

Rows(n) == 0 .. n - 1

\* The places inside run() that hold caller_, and inside drain().
Draining == {"claim", "check", "serve", "finish", "last"}
Running  == {"publish", "notify", "lock", "done_check", "done_wait", "return"}
              \cup Draining

WorkerPC == {"loop", "ready_check", "ready_wait", "leave"} \cup Draining
CallerPC == {"idle", "serial", "enter"} \cup Running

Init ==
    /\ pc = [t \in Threads |-> IF t \in Callers THEN "idle" ELSE "loop"]
    /\ caller_ = None /\ mutex_ = None /\ job_ = None
    /\ next_ = 0 /\ chunks_ = 0 /\ remaining_ = 0
    /\ active_ = 0 /\ generation_ = 0
    /\ seen = [w \in Workers |-> 0]
    /\ work = [t \in Threads |-> None]
    /\ ticket = [t \in Threads |-> 0]
    /\ count = [c \in Callers |-> 0]
    /\ written = [c \in Callers |-> {}]

Goto(t, where) == pc' = [pc EXCEPT ![t] = where]

-----------------------------------------------------------------------------
(* row_store_lookup and Pool::run, on a caller. *)

\* row_store_lookup: the serial path when there is no pool or too few rows.
Lookup(c) ==
    /\ pc[c] = "idle"
    /\ generation_ < MaxGenerations
    /\ \E n \in Counts :
         /\ count' = [count EXCEPT ![c] = n]
         /\ Goto(c, IF Workers = {} \/ n < SerialBelow THEN "serial" ELSE "enter")
    /\ written' = [written EXCEPT ![c] = {}]
    /\ UNCHANGED <<shared, local>>

\* serve(work, 0, work->count) on the calling thread.
ServeSerially(c) ==
    /\ pc[c] = "serial"
    /\ written' = [written EXCEPT ![c] = Rows(count[c])]
    /\ Goto(c, "idle")
    /\ UNCHANGED <<shared, local, count>>

\* Mutant of Enter: two run() calls at a time.
EnterUnserialised(c) ==
    /\ pc[c] = "enter"
    /\ caller_' = c
    /\ Goto(c, "publish")
    /\ UNCHANGED <<mutex_, job_, next_, chunks_, remaining_, active_,
                   generation_, local, count, written>>

\* run: lock caller_.
Enter(c) ==
    /\ pc[c] = "enter"
    /\ caller_ = None
    /\ caller_' = c
    /\ Goto(c, "publish")
    /\ UNCHANGED <<mutex_, job_, next_, chunks_, remaining_, active_,
                   generation_, local, count, written>>

\* run: publish the job under mutex_ (kChunk = 1: one ticket per row).
Publish(c) ==
    /\ pc[c] = "publish"
    /\ mutex_ = None
    /\ job_' = c
    /\ next_' = 0
    /\ chunks_' = count[c]
    /\ remaining_' = count[c]
    /\ generation_' = generation_ + 1
    /\ work' = [work EXCEPT ![c] = c]
    /\ Goto(c, "notify")
    /\ UNCHANGED <<caller_, mutex_, active_, seen, ticket, count, written>>

\* run: ready_.notify_all(), with no lock held.
NotifyReady(c) ==
    /\ pc[c] = "notify"
    /\ pc' = [t \in Threads |-> IF t = c THEN "claim"
                                ELSE IF pc[t] = "ready_wait" THEN "loop"
                                ELSE pc[t]]
    /\ UNCHANGED <<shared, local, count, written>>

\* run: lock mutex_ before waiting for the workers.
LockForDone(c) ==
    /\ pc[c] = "lock"
    /\ mutex_ = None
    /\ mutex_' = c
    /\ Goto(c, "done_check")
    /\ UNCHANGED <<caller_, job_, next_, chunks_, remaining_, active_,
                   generation_, local, count, written>>

\* Mutants of JobDone: workers are not waited for; nothing is waited for.
DoneWithoutActive == remaining_ = 0
DoneUnchecked == TRUE

JobDone == remaining_ = 0 /\ active_ = 0

\* run: the predicate holds; job_ = nullptr and mutex_ is released.
Retire(c) ==
    /\ pc[c] = "done_check"
    /\ JobDone
    /\ job_' = None
    /\ mutex_' = None
    /\ Goto(c, "return")
    /\ UNCHANGED <<caller_, next_, chunks_, remaining_, active_, generation_,
                   local, count, written>>

\* run: the predicate does not hold; release mutex_ and sleep on done_.
SleepOnDone(c) ==
    /\ pc[c] = "done_check"
    /\ ~JobDone
    /\ mutex_' = None
    /\ Goto(c, "done_wait")
    /\ UNCHANGED <<caller_, job_, next_, chunks_, remaining_, active_,
                   generation_, local, count, written>>

\* run: release caller_ and return to the callback's caller.
Return(c) ==
    /\ pc[c] = "return"
    /\ caller_' = None
    /\ work' = [work EXCEPT ![c] = None]
    /\ Goto(c, "idle")
    /\ UNCHANGED <<mutex_, job_, next_, chunks_, remaining_, active_,
                   generation_, seen, ticket, count, written>>

-----------------------------------------------------------------------------
(* Pool::drain, on any thread. *)

\* next_.fetch_add(1).
Claim(t) ==
    /\ pc[t] = "claim"
    /\ ticket' = [ticket EXCEPT ![t] = next_]
    /\ next_' = next_ + 1
    /\ Goto(t, "check")
    /\ UNCHANGED <<caller_, mutex_, job_, chunks_, remaining_, active_,
                   generation_, seen, work, count, written>>

\* Mutant of CheckTicket: one ticket too many.
CheckTicketOffByOne(t) ==
    /\ pc[t] = "check"
    /\ Goto(t, IF ticket[t] <= chunks_ THEN "serve"
               ELSE IF t \in Callers THEN "lock" ELSE "leave")
    /\ UNCHANGED <<shared, local, count, written>>

\* Compare the ticket with chunks_: serve it, or leave drain().
CheckTicket(t) ==
    /\ pc[t] = "check"
    /\ Goto(t, IF ticket[t] < chunks_ THEN "serve"
               ELSE IF t \in Callers THEN "lock" ELSE "leave")
    /\ UNCHANGED <<shared, local, count, written>>

\* serve(work, ticket, ticket + 1): write the row into the job's buffers.
Serve(t) ==
    /\ pc[t] = "serve"
    /\ written' = [written EXCEPT ![work[t]] = @ \cup {ticket[t]}]
    /\ Goto(t, "finish")
    /\ UNCHANGED <<shared, local, count>>

\* remaining_.fetch_sub(1); the thread that finishes the last ticket notifies.
Finish(t) ==
    /\ pc[t] = "finish"
    /\ remaining_' = remaining_ - 1
    /\ Goto(t, IF remaining_ = 1 THEN "last" ELSE "claim")
    /\ UNCHANGED <<caller_, mutex_, job_, next_, chunks_, active_,
                   generation_, local, count, written>>

\* done_.notify_one(): run() holds caller_, so at most one thread waits.
Woken(t, where) == [u \in Threads |-> IF u = t THEN where
                                      ELSE IF pc[u] = "done_wait" THEN "lock"
                                      ELSE pc[u]]

\* The last finisher takes mutex_ and notifies done_.
NotifyLast(t) ==
    /\ pc[t] = "last"
    /\ mutex_ = None
    /\ pc' = Woken(t, "claim")
    /\ UNCHANGED <<shared, local, count, written>>

-----------------------------------------------------------------------------
(* Pool::loop, on a worker. *)

LockForReady(w) ==
    /\ pc[w] = "loop"
    /\ mutex_ = None
    /\ mutex_' = w
    /\ Goto(w, "ready_check")
    /\ UNCHANGED <<caller_, job_, next_, chunks_, remaining_, active_,
                   generation_, local, count, written>>

\* Mutant of Take: the worker enters drain() without being counted.
TakeUncounted(w) ==
    /\ pc[w] = "ready_check"
    /\ generation_ # seen[w]
    /\ seen' = [seen EXCEPT ![w] = generation_]
    /\ work' = [work EXCEPT ![w] = job_]
    /\ mutex_' = None
    /\ Goto(w, IF job_ # None THEN "claim" ELSE "loop")
    /\ UNCHANGED <<caller_, job_, next_, chunks_, remaining_, active_,
                   generation_, ticket, count, written>>

\* A new generation: take the job, if it is still there, and count in.
Take(w) ==
    /\ pc[w] = "ready_check"
    /\ generation_ # seen[w]
    /\ seen' = [seen EXCEPT ![w] = generation_]
    /\ work' = [work EXCEPT ![w] = job_]
    /\ active_' = IF job_ # None THEN active_ + 1 ELSE active_
    /\ mutex_' = None
    /\ Goto(w, IF job_ # None THEN "claim" ELSE "loop")
    /\ UNCHANGED <<caller_, job_, next_, chunks_, remaining_, generation_,
                   ticket, count, written>>

\* Nothing new: release mutex_ and sleep on ready_.
SleepOnReady(w) ==
    /\ pc[w] = "ready_check"
    /\ generation_ = seen[w]
    /\ mutex_' = None
    /\ Goto(w, "ready_wait")
    /\ UNCHANGED <<caller_, job_, next_, chunks_, remaining_, active_,
                   generation_, local, count, written>>

\* Mutant of Leave: nobody tells run() that the worker is out.
LeaveSilently(w) ==
    /\ pc[w] = "leave"
    /\ mutex_ = None
    /\ active_' = active_ - 1
    /\ work' = [work EXCEPT ![w] = None]
    /\ Goto(w, "loop")
    /\ UNCHANGED <<caller_, mutex_, job_, next_, chunks_, remaining_,
                   generation_, seen, ticket, count, written>>

\* After drain(): count out under mutex_ and notify done_.
Leave(w) ==
    /\ pc[w] = "leave"
    /\ mutex_ = None
    /\ active_' = active_ - 1
    /\ work' = [work EXCEPT ![w] = None]
    /\ pc' = Woken(w, "loop")
    /\ UNCHANGED <<caller_, mutex_, job_, next_, chunks_, remaining_,
                   generation_, seen, ticket, count, written>>

\* A condition variable may wake a thread that nobody notified.
SpuriousWakeup(t) ==
    /\ pc[t] \in {"ready_wait", "done_wait"}
    /\ Goto(t, IF t \in Callers THEN "lock" ELSE "loop")
    /\ UNCHANGED <<shared, local, count, written>>

-----------------------------------------------------------------------------
CallerStep(c) ==
    \/ ServeSerially(c) \/ Enter(c) \/ Publish(c) \/ NotifyReady(c)
    \/ LockForDone(c) \/ Retire(c) \/ SleepOnDone(c) \/ Return(c)

Drain(t) ==
    Claim(t) \/ CheckTicket(t) \/ Serve(t) \/ Finish(t) \/ NotifyLast(t)

Acquire(w) == LockForReady(w) \/ Take(w) \/ SleepOnReady(w)

Next ==
    \/ \E c \in Callers : Lookup(c) \/ CallerStep(c)
    \/ \E t \in Threads : Drain(t) \/ SpuriousWakeup(t)
    \/ \E w \in Workers : Acquire(w) \/ Leave(w)

\* Callers are scheduled, and so is a worker that took mutex_ or a job.  No
\* fairness is given to a sleeping or a just woken worker: "progress never
\* depends on a wakeup".  Spurious wakeups are rare: each behaviour has finitely
\* many.
Fairness ==
    /\ \A c \in Callers : WF_vars(CallerStep(c) \/ Drain(c))
    /\ \A w \in Workers : WF_vars(Drain(w) \/ Take(w) \/ SleepOnReady(w) \/ Leave(w))
    /\ <>[][\A t \in Threads : ~SpuriousWakeup(t)]_vars

Spec == Init /\ [][Next]_vars

FairSpec == Spec /\ Fairness

-----------------------------------------------------------------------------
(* Properties. *)

TypeOK ==
    /\ pc \in [Threads -> CallerPC \cup WorkerPC]
    /\ \A c \in Callers : pc[c] \in CallerPC
    /\ \A w \in Workers : pc[w] \in WorkerPC
    /\ caller_ \in Callers \cup {None}
    /\ mutex_ \in Threads \cup {None}
    /\ job_ \in Callers \cup {None}
    /\ next_ \in Nat /\ chunks_ \in Nat /\ remaining_ \in Nat
    /\ active_ \in Nat /\ generation_ \in Nat
    /\ seen \in [Workers -> Nat]
    /\ work \in [Threads -> Callers \cup {None}]
    /\ ticket \in [Threads -> Nat]
    /\ count \in [Callers -> Nat]
    /\ written \in [Callers -> SUBSET Nat]

\* A thread inside drain() works on the published job, and whoever publishes
\* the next job finds nobody there: next_, chunks_ and remaining_ are never
\* reset under a thread that still claims tickets (run()'s closing comment).
NoStaleDrain ==
    \A t \in Threads : pc[t] \in Draining =>
        /\ work[t] = job_
        /\ job_ # None
        /\ pc[job_] \in Running \ {"publish", "return"}

\* Of the rows of a job, each is served by one thread at most: a thread about
\* to serve holds a ticket of the job that no other thread holds and whose row
\* is not yet there.
ServedOnce ==
    \A t \in Threads : pc[t] = "serve" =>
        /\ ticket[t] \notin written[work[t]]
        /\ ticket[t] \in Rows(count[work[t]])
        /\ \A u \in Threads \ {t} :
             pc[u] \in {"serve", "finish"} => ticket[u] # ticket[t]

\* A lookup that has returned left every row in its buffers.
ReturnedComplete ==
    \A c \in Callers : pc[c] \in {"idle", "return"} => written[c] = Rows(count[c])

\* The inductive invariant behind the four: who holds the locks, who is inside
\* drain() for which job, which tickets are out, and what the two counters
\* that run() waits on stand for.
ActiveWorkers == {w \in Workers : pc[w] \in Draining \cup {"leave"}}

Holding(t) == pc[t] \in {"check", "serve", "finish"}

\* Rows of the job that are not served, or whose server is yet to say so.
Unfinished ==
    {i \in Rows(chunks_) :
        \/ i \notin written[job_]
        \/ \E t \in Threads : pc[t] = "finish" /\ ticket[t] = i}

LockInv ==
    /\ \A t \in Threads : pc[t] \in {"done_check", "ready_check"} <=> mutex_ = t
    /\ \A c \in Callers : pc[c] \in Running <=> caller_ = c

JobInv ==
    /\ active_ = Cardinality(ActiveWorkers)
    /\ \A w \in ActiveWorkers : job_ # None /\ work[w] = job_
    /\ \A c \in Callers : (pc[c] \in Running \ {"publish", "return"}) <=> (job_ = c)
    /\ job_ # None => work[job_] = job_

TicketInv ==
    job_ # None =>
        /\ chunks_ = count[job_]
        /\ \A t \in Threads : Holding(t) =>
             /\ ticket[t] < next_
             /\ pc[t] # "check" => ticket[t] < chunks_
             /\ \A u \in Threads \ {t} : Holding(u) => ticket[u] # ticket[t]
        /\ written[job_] =
             {i \in Rows(chunks_) :
                 /\ i < next_
                 /\ \A t \in Threads : pc[t] \in {"check", "serve"} => ticket[t] # i}
        /\ remaining_ = Cardinality(Unfinished)

BufferInv ==
    \A c \in Callers :
        /\ pc[c] \in {"enter", "publish", "serial"} => written[c] = {}
        /\ pc[c] \in {"idle", "return"} => written[c] = Rows(count[c])

PoolInv == TypeOK /\ LockInv /\ JobInv /\ TicketInv /\ BufferInv

\* Once run() decides to return, its buffers are quiet: a step that writes a
\* lookup's buffers is taken while that lookup is being served.
NoLateWrite ==
    [][\A c \in Callers : written'[c] # written[c] =>
          \/ pc[c] = "idle" /\ pc'[c] # "idle"
          \/ pc[c] = "serial"
          \/ pc[c] \in Running \ {"publish", "return"}]_vars

\* Every lookup returns, whether or not a sleeping worker ever wakes.
EveryLookupReturns ==
    \A c \in Callers : pc[c] # "idle" ~> pc[c] = "idle"

\* The pool implements what row_store_lookup promises its stream: a step of
\* a worker is a row written for the call in progress, or is not seen at all.
Lookups == INSTANCE RowLookup
               WITH busy <- [c \in Callers |-> pc[c] # "idle"]

LookupSpec == Lookups!Spec

=============================================================================
