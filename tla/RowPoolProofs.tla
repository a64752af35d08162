--------------------------- MODULE RowPoolProofs ---------------------------
(***************************************************************************)
(* TLAPS proofs about RowPool, for any callers, workers, counts and any    *)
(* number of jobs: the inductive invariant PoolInv, the safety properties  *)
(* it implies, and that the pool implements RowLookup.                     *)
(***************************************************************************)
EXTENDS RowPool, FiniteSetTheorems, TLAPS

\* The sets the two counters measure are finite.
LEMMA ActiveFinite == IsFiniteSet(ActiveWorkers)
BY ThreadsAssumption, FS_Subset DEF ActiveWorkers

LEMMA UnfinishedFinite ==
    ASSUME chunks_ \in Nat
    PROVE  IsFiniteSet(Unfinished)
<1>1. IsFiniteSet(0 .. chunks_ - 1)
  BY FS_Interval
<1> QED
  BY <1>1, FS_Subset DEF Unfinished, Rows

\* Taking one element out of a finite set.
LEMMA TakeOut ==
    ASSUME NEW S, NEW x \in S, IsFiniteSet(S)
    PROVE  /\ Cardinality(S \ {x}) = Cardinality(S) - 1
           /\ Cardinality(S \ {x}) \in Nat
BY FS_RemoveElement, FS_CardinalityType

\* A step that moves no worker into or out of drain(), and leaves job_ and
\* active_ alone, keeps active_ the number of workers inside.
LEMMA ActiveFrame ==
    ASSUME PoolInv, active_' = active_,
           \A w \in Workers : pc'[w] \in Draining \cup {"leave"}
                                <=> pc[w] \in Draining \cup {"leave"}
    PROVE  /\ ActiveWorkers' = ActiveWorkers
           /\ active_' = Cardinality(ActiveWorkers')
<1>1. ActiveWorkers' = ActiveWorkers
  BY DEF ActiveWorkers
<1> QED
  BY <1>1 DEF PoolInv, JobInv

\* A step that touches neither the tickets nor the buffers of the job keeps
\* the ticket invariant.
LEMMA TicketFrame ==
    ASSUME PoolInv,
           UNCHANGED <<job_, next_, chunks_, remaining_, ticket>>,
           job_ # None => /\ count'[job_] = count[job_]
                          /\ written'[job_] = written[job_],
           \A t \in Threads : \A p \in {"check", "serve", "finish"} :
               pc'[t] = p <=> pc[t] = p
    PROVE  TicketInv'
<1> SUFFICES ASSUME job_ # None PROVE TicketInv'
  BY DEF TicketInv
<1>1. Unfinished' = Unfinished
  BY DEF Unfinished
<1>2. \A t \in Threads : Holding(t)' <=> Holding(t)
  BY DEF Holding
<1> QED
  BY <1>1, <1>2 DEF PoolInv, TicketInv

LEMMA InitInv == Init => PoolInv
<1> SUFFICES ASSUME Init PROVE PoolInv
  OBVIOUS
<1> USE ThreadsAssumption, CountsAssumption
<1>1. TypeOK
  BY DEF Init, TypeOK, Threads, CallerPC, WorkerPC
<1>2. LockInv
  BY DEF Init, LockInv, Running, Draining, Threads
<1>3. JobInv
  <2>1. ActiveWorkers = {}
    BY DEF Init, ActiveWorkers, Draining, Threads
  <2> QED
    BY <2>1, FS_EmptySet DEF Init, JobInv, Running, Draining, Threads
<1>4. TicketInv
  BY DEF Init, TicketInv
<1>5. BufferInv
  BY DEF Init, BufferInv, Rows, Threads
<1> QED
  BY <1>1, <1>2, <1>3, <1>4, <1>5 DEF PoolInv

LEMMA LookupInv ==
    ASSUME PoolInv, NEW c \in Callers, Lookup(c)
    PROVE  PoolInv'
<1> USE ThreadsAssumption
    DEF PoolInv, TypeOK, Lookup, Goto, Threads, CallerPC, WorkerPC,
        Running, Draining, shared, local
<1>1. TypeOK'
  BY CountsAssumption
<1>2. LockInv'
  BY DEF LockInv
<1>3. JobInv'
  BY ActiveFrame DEF LockInv, JobInv, ActiveWorkers
<1>4. TicketInv'
  BY TicketFrame DEF LockInv, JobInv
<1>5. BufferInv'
  BY DEF LockInv, JobInv, BufferInv, Rows
<1> QED
  BY <1>1, <1>2, <1>3, <1>4, <1>5

LEMMA ServeSeriallyInv ==
    ASSUME PoolInv, NEW c \in Callers, ServeSerially(c)
    PROVE  PoolInv'
<1> USE ThreadsAssumption
    DEF PoolInv, TypeOK, ServeSerially, Goto, Threads, CallerPC, WorkerPC,
        Running, Draining, shared, local
<1>1. TypeOK'
  <2>1. Rows(count[c]) \in SUBSET Nat
    BY DEF Rows
  <2> QED
    BY <2>1
<1>2. LockInv'
  BY DEF LockInv
<1>3. JobInv'
  BY ActiveFrame DEF LockInv, JobInv, ActiveWorkers
<1>4. TicketInv'
  BY TicketFrame DEF LockInv, JobInv
<1>5. BufferInv'
  BY DEF LockInv, JobInv, BufferInv, Rows
<1> QED
  BY <1>1, <1>2, <1>3, <1>4, <1>5

LEMMA EnterInv ==
    ASSUME PoolInv, NEW c \in Callers, Enter(c)
    PROVE  PoolInv'
<1> USE ThreadsAssumption
    DEF PoolInv, TypeOK, Enter, Goto, Threads, CallerPC, WorkerPC,
        Running, Draining, shared, local
<1>1. TypeOK'
  BY CountsAssumption
<1>2. LockInv'
  BY DEF LockInv
<1>3. JobInv'
  BY ActiveFrame DEF LockInv, JobInv, ActiveWorkers
<1>4. TicketInv'
  BY TicketFrame DEF LockInv, JobInv
<1>5. BufferInv'
  BY DEF LockInv, JobInv, BufferInv, Rows
<1> QED
  BY <1>1, <1>2, <1>3, <1>4, <1>5

LEMMA PublishInv ==
    ASSUME PoolInv, NEW c \in Callers, Publish(c)
    PROVE  PoolInv'
<1> USE ThreadsAssumption
    DEF PoolInv, TypeOK, Publish, Goto, Threads, CallerPC, WorkerPC,
        Running, Draining, shared, local
<1>1. TypeOK'
  BY CountsAssumption
<1>2. LockInv'
  BY DEF LockInv
<1>3. JobInv'
  BY ActiveFrame DEF LockInv, JobInv, ActiveWorkers
<1>4. TicketInv'
  <2>1. /\ job_' = c /\ next_' = 0
        /\ chunks_' = count[c] /\ remaining_' = count[c]
        /\ count' = count /\ written' = written /\ written[c] = {}
    BY DEF BufferInv
  <2>2. \A t \in Threads : pc'[t] \notin {"check", "serve", "finish"}
    BY DEF LockInv, JobInv, ActiveWorkers
  <2>3. Unfinished' = Rows(count[c])
    BY <2>1, <2>2 DEF Unfinished, Rows
  <2>4. Cardinality(Rows(count[c])) = count[c]
    BY FS_Interval DEF Rows
  <2> QED
    BY <2>1, <2>2, <2>3, <2>4 DEF TicketInv, Holding, Rows
<1>5. BufferInv'
  BY DEF LockInv, JobInv, BufferInv, Rows
<1> QED
  BY <1>1, <1>2, <1>3, <1>4, <1>5

LEMMA NotifyReadyInv ==
    ASSUME PoolInv, NEW c \in Callers, NotifyReady(c)
    PROVE  PoolInv'
<1> USE ThreadsAssumption
    DEF PoolInv, TypeOK, NotifyReady, Goto, Threads, CallerPC, WorkerPC,
        Running, Draining, shared, local
<1>1. TypeOK'
  BY CountsAssumption
<1>2. LockInv'
  BY DEF LockInv
<1>3. JobInv'
  BY ActiveFrame DEF LockInv, JobInv, ActiveWorkers
<1>4. TicketInv'
  BY TicketFrame DEF LockInv, JobInv
<1>5. BufferInv'
  BY DEF LockInv, JobInv, BufferInv, Rows
<1> QED
  BY <1>1, <1>2, <1>3, <1>4, <1>5

LEMMA LockForDoneInv ==
    ASSUME PoolInv, NEW c \in Callers, LockForDone(c)
    PROVE  PoolInv'
<1> USE ThreadsAssumption
    DEF PoolInv, TypeOK, LockForDone, Goto, Threads, CallerPC, WorkerPC,
        Running, Draining, shared, local
<1>1. TypeOK'
  BY CountsAssumption
<1>2. LockInv'
  BY DEF LockInv
<1>3. JobInv'
  BY ActiveFrame DEF LockInv, JobInv, ActiveWorkers
<1>4. TicketInv'
  BY TicketFrame DEF LockInv, JobInv
<1>5. BufferInv'
  BY DEF LockInv, JobInv, BufferInv, Rows
<1> QED
  BY <1>1, <1>2, <1>3, <1>4, <1>5

LEMMA RetireInv ==
    ASSUME PoolInv, NEW c \in Callers, Retire(c)
    PROVE  PoolInv'
<1> USE ThreadsAssumption
    DEF PoolInv, TypeOK, Retire, JobDone, Goto, Threads, CallerPC, WorkerPC,
        Running, Draining, shared, local
<1>1. TypeOK'
  BY CountsAssumption
<1>2. LockInv'
  BY DEF LockInv
<1>3. JobInv'
  <2>1. /\ ActiveWorkers' = ActiveWorkers
        /\ active_' = Cardinality(ActiveWorkers')
    BY ActiveFrame
  <2>2. ActiveWorkers = {}
    BY ActiveFinite, FS_EmptySet DEF JobInv
  <2> QED
    BY <2>1, <2>2 DEF LockInv, JobInv
<1>4. TicketInv'
  BY DEF TicketInv
<1>5. BufferInv'
  <2>1. job_ = c /\ c # None
    BY DEF JobInv
  <2>2. Unfinished = {}
    BY <2>1, UnfinishedFinite, FS_EmptySet DEF TicketInv
  <2>3. written[c] = Rows(count[c])
    BY <2>1, <2>2 DEF TicketInv, Unfinished
  <2> QED
    BY <2>3 DEF BufferInv
<1> QED
  BY <1>1, <1>2, <1>3, <1>4, <1>5

LEMMA SleepOnDoneInv ==
    ASSUME PoolInv, NEW c \in Callers, SleepOnDone(c)
    PROVE  PoolInv'
<1> USE ThreadsAssumption
    DEF PoolInv, TypeOK, SleepOnDone, JobDone, Goto, Threads, CallerPC, WorkerPC,
        Running, Draining, shared, local
<1>1. TypeOK'
  BY CountsAssumption
<1>2. LockInv'
  BY DEF LockInv
<1>3. JobInv'
  BY ActiveFrame DEF LockInv, JobInv, ActiveWorkers
<1>4. TicketInv'
  BY TicketFrame DEF LockInv, JobInv
<1>5. BufferInv'
  BY DEF LockInv, JobInv, BufferInv, Rows
<1> QED
  BY <1>1, <1>2, <1>3, <1>4, <1>5

LEMMA ReturnInv ==
    ASSUME PoolInv, NEW c \in Callers, Return(c)
    PROVE  PoolInv'
<1> USE ThreadsAssumption
    DEF PoolInv, TypeOK, Return, Goto, Threads, CallerPC, WorkerPC,
        Running, Draining, shared, local
<1>1. TypeOK'
  BY CountsAssumption
<1>2. LockInv'
  BY DEF LockInv
<1>3. JobInv'
  BY ActiveFrame DEF LockInv, JobInv, ActiveWorkers
<1>4. TicketInv'
  BY TicketFrame DEF LockInv, JobInv
<1>5. BufferInv'
  BY DEF LockInv, JobInv, BufferInv, Rows
<1> QED
  BY <1>1, <1>2, <1>3, <1>4, <1>5

LEMMA ClaimInv ==
    ASSUME PoolInv, NEW t \in Threads, Claim(t)
    PROVE  PoolInv'
<1> USE ThreadsAssumption
    DEF PoolInv, TypeOK, Claim, Goto, Threads, CallerPC, WorkerPC,
        Running, Draining, shared, local
<1>1. TypeOK'
  BY CountsAssumption
<1>2. LockInv'
  BY DEF LockInv
<1>3. JobInv'
  BY ActiveFrame DEF LockInv, JobInv, ActiveWorkers
<1>4. TicketInv'
  <2> SUFFICES ASSUME job_ # None
               PROVE  TicketInv'
    BY DEF TicketInv
  <2>1. Unfinished' = Unfinished
    BY DEF Unfinished
  <2>2. chunks_' = count'[job_'] /\ remaining_' = Cardinality(Unfinished')
    BY <2>1 DEF TicketInv
  <2>3. ASSUME NEW u \in Threads, Holding(u)'
        PROVE  /\ ticket'[u] < next_'
               /\ pc'[u] # "check" => ticket'[u] < chunks_'
               /\ \A v \in Threads \ {u} : Holding(v)' => ticket'[v] # ticket'[u]
    BY <2>3 DEF TicketInv, Holding
  <2>4. written'[job_'] =
          {i \in Rows(chunks_') :
              /\ i < next_'
              /\ \A u \in Threads : pc'[u] \in {"check", "serve"} => ticket'[u] # i}
    <3>1. \A i \in Rows(chunks_) :
            (/\ i < next_
             /\ \A u \in Threads : pc[u] \in {"check", "serve"} => ticket[u] # i)
            <=>
            (/\ i < next_'
             /\ \A u \in Threads : pc'[u] \in {"check", "serve"} => ticket'[u] # i)
      BY DEF TicketInv, Holding, Rows
    <3> QED
      BY <3>1 DEF TicketInv
  <2> QED
    BY <2>2, <2>3, <2>4 DEF TicketInv
<1>5. BufferInv'
  BY DEF LockInv, JobInv, BufferInv, Rows
<1> QED
  BY <1>1, <1>2, <1>3, <1>4, <1>5

LEMMA CheckTicketInv ==
    ASSUME PoolInv, NEW t \in Threads, CheckTicket(t)
    PROVE  PoolInv'
<1> USE ThreadsAssumption
    DEF PoolInv, TypeOK, CheckTicket, Goto, Threads, CallerPC, WorkerPC,
        Running, Draining, shared, local
<1>1. TypeOK'
  BY CountsAssumption
<1>2. LockInv'
  BY DEF LockInv
<1>3. JobInv'
  <2>1. /\ ActiveWorkers' = ActiveWorkers
        /\ active_' = Cardinality(ActiveWorkers')
    BY ActiveFrame
  <2>2. \A c \in Callers : (pc'[c] \in Running \ {"publish", "return"}) <=> (job_' = c)
    BY DEF JobInv
  <2> QED
    BY <2>1, <2>2 DEF JobInv
<1>4. TicketInv'
  <2> SUFFICES ASSUME job_ # None
               PROVE  TicketInv'
    BY DEF TicketInv
  <2>1. Unfinished' = Unfinished
    BY DEF Unfinished
  <2> QED
    BY <2>1 DEF TicketInv, Holding, Rows
<1>5. BufferInv'
  BY DEF LockInv, JobInv, BufferInv, Rows
<1> QED
  BY <1>1, <1>2, <1>3, <1>4, <1>5

LEMMA ServeInv ==
    ASSUME PoolInv, NEW t \in Threads, Serve(t)
    PROVE  PoolInv'
<1> USE ThreadsAssumption
    DEF PoolInv, TypeOK, Serve, Goto, Threads, CallerPC, WorkerPC,
        Running, Draining, shared, local
<1>1. TypeOK'
  BY CountsAssumption
<1>2. LockInv'
  BY DEF LockInv
<1>3. JobInv'
  BY ActiveFrame DEF LockInv, JobInv, ActiveWorkers
<1>4. TicketInv'
  <2> SUFFICES ASSUME job_ # None
               PROVE  TicketInv'
    BY DEF TicketInv
  <2>1. work[t] = job_ /\ job_ \in Callers
    BY DEF JobInv, ActiveWorkers
  <2>2. written'[job_] = written[job_] \cup {ticket[t]}
    BY <2>1
  <2>3. ticket[t] \in Rows(chunks_) /\ ticket[t] < next_
    BY DEF TicketInv, Holding, Rows
  <2>4. Unfinished' = Unfinished
    BY <2>2, <2>3 DEF TicketInv, Unfinished
  <2>5. written'[job_'] =
          {i \in Rows(chunks_') :
              /\ i < next_'
              /\ \A u \in Threads : pc'[u] \in {"check", "serve"} => ticket'[u] # i}
    BY <2>2, <2>3 DEF TicketInv, Holding
  <2>6. \A u \in Threads : Holding(u)' <=> Holding(u)
    BY DEF Holding
  <2> QED
    BY <2>3, <2>4, <2>5, <2>6 DEF TicketInv, Holding, Rows
<1>5. BufferInv'
  <2>1. work[t] = job_ /\ job_ \in Callers
    BY DEF JobInv, ActiveWorkers
  <2>2. pc[job_] \in Running \ {"publish", "return"}
    BY <2>1 DEF JobInv
  <2>3. \A c \in Callers \ {job_} : written'[c] = written[c]
    BY <2>1
  <2> QED
    BY <2>1, <2>2, <2>3 DEF BufferInv
<1> QED
  BY <1>1, <1>2, <1>3, <1>4, <1>5

LEMMA FinishInv ==
    ASSUME PoolInv, NEW t \in Threads, Finish(t)
    PROVE  PoolInv'
<1> USE ThreadsAssumption
    DEF PoolInv, TypeOK, Finish, Goto, Threads, CallerPC, WorkerPC,
        Running, Draining, shared, local
<1>0. /\ job_ \in Callers
      /\ Unfinished' = Unfinished \ {ticket[t]}
      /\ ticket[t] \in Unfinished
  <2>1. job_ \in Callers
    BY DEF JobInv, ActiveWorkers
  <2>2. ticket[t] \in written[job_]
    BY <2>1 DEF TicketInv, Holding, Rows
  <2>3. ticket[t] \in Unfinished
    BY <2>1 DEF TicketInv, Unfinished, Holding, Rows
  <2>4. \A u \in Threads : pc[u] = "finish" /\ u # t => ticket[u] # ticket[t]
    BY <2>1 DEF TicketInv, Holding
  <2>5. ticket[t] \notin Unfinished'
    BY <2>1, <2>2, <2>4 DEF Unfinished
  <2>6. \A i \in Rows(chunks_) \ {ticket[t]} : i \in Unfinished' <=> i \in Unfinished
    BY DEF Unfinished
  <2> QED
    BY <2>1, <2>3, <2>5, <2>6 DEF Unfinished
<1>a. /\ remaining_ = Cardinality(Unfinished)
      /\ remaining_' = Cardinality(Unfinished')
      /\ remaining_' \in Nat
  <2>1. IsFiniteSet(Unfinished)
    BY UnfinishedFinite
  <2>2. remaining_ = Cardinality(Unfinished)
    BY <1>0 DEF TicketInv
  <2>3. /\ Cardinality(Unfinished \ {ticket[t]}) = Cardinality(Unfinished) - 1
        /\ Cardinality(Unfinished \ {ticket[t]}) \in Nat
    BY <1>0, <2>1, TakeOut
  <2> QED
    BY <1>0, <2>2, <2>3
<1>1. TypeOK'
  BY <1>a
<1>2. LockInv'
  BY DEF LockInv
<1>3. JobInv'
  BY ActiveFrame DEF LockInv, JobInv, ActiveWorkers
<1>4. TicketInv'
  BY <1>0, <1>a DEF TicketInv, Holding, Rows
<1>5. BufferInv'
  BY DEF LockInv, JobInv, BufferInv, Rows
<1> QED
  BY <1>1, <1>2, <1>3, <1>4, <1>5

LEMMA NotifyLastInv ==
    ASSUME PoolInv, NEW t \in Threads, NotifyLast(t)
    PROVE  PoolInv'
<1> USE ThreadsAssumption
    DEF PoolInv, TypeOK, NotifyLast, Woken, Goto, Threads, CallerPC, WorkerPC,
        Running, Draining, shared, local
<1>1. TypeOK'
  BY CountsAssumption
<1>2. LockInv'
  BY DEF LockInv
<1>3. JobInv'
  BY ActiveFrame DEF LockInv, JobInv, ActiveWorkers
<1>4. TicketInv'
  BY TicketFrame DEF LockInv, JobInv
<1>5. BufferInv'
  BY DEF LockInv, JobInv, BufferInv, Rows
<1> QED
  BY <1>1, <1>2, <1>3, <1>4, <1>5

LEMMA LockForReadyInv ==
    ASSUME PoolInv, NEW w \in Workers, LockForReady(w)
    PROVE  PoolInv'
<1> USE ThreadsAssumption
    DEF PoolInv, TypeOK, LockForReady, Goto, Threads, CallerPC, WorkerPC,
        Running, Draining, shared, local
<1>1. TypeOK'
  BY CountsAssumption
<1>2. LockInv'
  BY DEF LockInv
<1>3. JobInv'
  BY ActiveFrame DEF LockInv, JobInv, ActiveWorkers
<1>4. TicketInv'
  BY TicketFrame DEF LockInv, JobInv
<1>5. BufferInv'
  BY DEF LockInv, JobInv, BufferInv, Rows
<1> QED
  BY <1>1, <1>2, <1>3, <1>4, <1>5

LEMMA TakeInv ==
    ASSUME PoolInv, NEW w \in Workers, Take(w)
    PROVE  PoolInv'
<1> USE ThreadsAssumption
    DEF PoolInv, TypeOK, Take, Goto, Threads, CallerPC, WorkerPC,
        Running, Draining, shared, local
<1>1. TypeOK'
  BY CountsAssumption
<1>2. LockInv'
  BY DEF LockInv
<1>3. JobInv'
  <2>1. CASE job_ = None
    BY <2>1, ActiveFrame DEF LockInv, JobInv, ActiveWorkers
  <2>2. CASE job_ # None
    <3>1. ActiveWorkers' = ActiveWorkers \cup {w} /\ w \notin ActiveWorkers
      BY <2>2 DEF ActiveWorkers
    <3>2. active_' = Cardinality(ActiveWorkers')
      BY <2>2, <3>1, ActiveFinite, FS_AddElement DEF JobInv
    <3> QED
      BY <2>2, <3>1, <3>2 DEF LockInv, JobInv
  <2> QED
    BY <2>1, <2>2
<1>4. TicketInv'
  BY TicketFrame DEF LockInv, JobInv
<1>5. BufferInv'
  BY DEF LockInv, JobInv, BufferInv, Rows
<1> QED
  BY <1>1, <1>2, <1>3, <1>4, <1>5

LEMMA SleepOnReadyInv ==
    ASSUME PoolInv, NEW w \in Workers, SleepOnReady(w)
    PROVE  PoolInv'
<1> USE ThreadsAssumption
    DEF PoolInv, TypeOK, SleepOnReady, Goto, Threads, CallerPC, WorkerPC,
        Running, Draining, shared, local
<1>1. TypeOK'
  BY CountsAssumption
<1>2. LockInv'
  BY DEF LockInv
<1>3. JobInv'
  BY ActiveFrame DEF LockInv, JobInv, ActiveWorkers
<1>4. TicketInv'
  BY TicketFrame DEF LockInv, JobInv
<1>5. BufferInv'
  BY DEF LockInv, JobInv, BufferInv, Rows
<1> QED
  BY <1>1, <1>2, <1>3, <1>4, <1>5

LEMMA LeaveInv ==
    ASSUME PoolInv, NEW w \in Workers, Leave(w)
    PROVE  PoolInv'
<1> USE ThreadsAssumption
    DEF PoolInv, TypeOK, Leave, Woken, Goto, Threads, CallerPC, WorkerPC,
        Running, Draining, shared, local
<1>0. /\ ActiveWorkers' = ActiveWorkers \ {w}
      /\ w \in ActiveWorkers
  BY DEF ActiveWorkers
<1>a. /\ active_' = Cardinality(ActiveWorkers')
      /\ active_' \in Nat
  <2>1. /\ Cardinality(ActiveWorkers \ {w}) = Cardinality(ActiveWorkers) - 1
        /\ Cardinality(ActiveWorkers \ {w}) \in Nat
    BY <1>0, ActiveFinite, TakeOut
  <2> QED
    BY <1>0, <2>1 DEF JobInv
<1>1. TypeOK'
  BY <1>a
<1>2. LockInv'
  BY DEF LockInv
<1>3. JobInv'
  BY <1>0, <1>a DEF LockInv, JobInv, ActiveWorkers
<1>4. TicketInv'
  BY TicketFrame DEF LockInv, JobInv
<1>5. BufferInv'
  BY DEF LockInv, JobInv, BufferInv, Rows
<1> QED
  BY <1>1, <1>2, <1>3, <1>4, <1>5

LEMMA SpuriousWakeupInv ==
    ASSUME PoolInv, NEW t \in Threads, SpuriousWakeup(t)
    PROVE  PoolInv'
<1> USE ThreadsAssumption
    DEF PoolInv, TypeOK, SpuriousWakeup, Goto, Threads, CallerPC, WorkerPC,
        Running, Draining, shared, local
<1>1. TypeOK'
  BY CountsAssumption
<1>2. LockInv'
  BY DEF LockInv
<1>3. JobInv'
  BY ActiveFrame DEF LockInv, JobInv, ActiveWorkers
<1>4. TicketInv'
  BY TicketFrame DEF LockInv, JobInv
<1>5. BufferInv'
  BY DEF LockInv, JobInv, BufferInv, Rows
<1> QED
  BY <1>1, <1>2, <1>3, <1>4, <1>5

LEMMA StutterInv == PoolInv /\ UNCHANGED vars => PoolInv'
<1> SUFFICES ASSUME PoolInv, UNCHANGED vars PROVE PoolInv'
  OBVIOUS
<1> USE DEF vars, shared, local
<1>1. ActiveWorkers' = ActiveWorkers /\ Unfinished' = Unfinished
  BY DEF ActiveWorkers, Unfinished
<1> QED
  BY <1>1 DEF PoolInv, TypeOK, LockInv, JobInv, TicketInv, BufferInv, Holding

\* PoolInv is inductive: every step of every thread preserves it.
LEMMA NextInv == PoolInv /\ [Next]_vars => PoolInv'
<1> SUFFICES ASSUME PoolInv, Next PROVE PoolInv'
  BY StutterInv
<1>1. ASSUME NEW c \in Callers, Lookup(c) \/ CallerStep(c) PROVE PoolInv'
  BY <1>1, LookupInv, ServeSeriallyInv, EnterInv, PublishInv, NotifyReadyInv,
     LockForDoneInv, RetireInv, SleepOnDoneInv, ReturnInv DEF CallerStep
<1>2. ASSUME NEW t \in Threads, Drain(t) \/ SpuriousWakeup(t) PROVE PoolInv'
  BY <1>2, ClaimInv, CheckTicketInv, ServeInv, FinishInv, NotifyLastInv,
     SpuriousWakeupInv DEF Drain
<1>3. ASSUME NEW w \in Workers, Acquire(w) \/ Leave(w) PROVE PoolInv'
  BY <1>3, LockForReadyInv, TakeInv, SleepOnReadyInv, LeaveInv DEF Acquire
<1> QED
  BY <1>1, <1>2, <1>3 DEF Next

\* PoolInv holds in every reachable state, for any number of callers, workers
\* and rows: the base of every theorem below.
THEOREM PoolInvariant == Spec => []PoolInv
<1>1. Init => PoolInv
  BY InitInv
<1>2. PoolInv /\ [Next]_vars => PoolInv'
  BY NextInv
<1> QED
  BY <1>1, <1>2, PTL DEF Spec

\* Every variable of the pool keeps its type; in particular the unsigned
\* counters remaining_ and active_ never go below zero.
THEOREM TypeCorrect == Spec => []TypeOK
BY PoolInvariant, PTL DEF PoolInv

\* No job is published, and no ticket counter reset, under a thread that is
\* still inside drain(): what run() waits for is enough.
THEOREM DrainsOnlyTheJob == Spec => []NoStaleDrain
<1>1. PoolInv => NoStaleDrain
  <2> SUFFICES ASSUME PoolInv, NEW t \in Threads, pc[t] \in Draining
               PROVE  /\ work[t] = job_ /\ job_ # None
                      /\ pc[job_] \in Running \ {"publish", "return"}
    BY DEF NoStaleDrain
  <2> USE ThreadsAssumption DEF PoolInv, Threads, Running, Draining
  <2>1. work[t] = job_ /\ job_ # None
    BY DEF JobInv, ActiveWorkers
  <2>2. job_ \in Callers
    BY <2>1 DEF TypeOK
  <2> QED
    BY <2>1, <2>2 DEF JobInv
<1> QED
  BY <1>1, PoolInvariant, PTL

\* Each row of a lookup is served by one thread, once.
THEOREM EachRowServedOnce == Spec => []ServedOnce
<1>1. PoolInv => ServedOnce
  <2> SUFFICES ASSUME PoolInv, NEW t \in Threads, pc[t] = "serve"
               PROVE  /\ ticket[t] \notin written[work[t]]
                      /\ ticket[t] \in Rows(count[work[t]])
                      /\ \A u \in Threads \ {t} :
                           pc[u] \in {"serve", "finish"} => ticket[u] # ticket[t]
    BY DEF ServedOnce
  <2> USE ThreadsAssumption DEF PoolInv, Threads, Running, Draining
  <2>1. work[t] = job_ /\ job_ # None
    BY DEF JobInv, ActiveWorkers
  <2>2. /\ ticket[t] \in Nat /\ ticket[t] < chunks_ /\ chunks_ = count[job_]
        /\ ticket[t] \notin written[job_]
    BY <2>1 DEF TypeOK, TicketInv, Holding
  <2>3. \A u \in Threads \ {t} : Holding(u) => ticket[u] # ticket[t]
    BY <2>1 DEF TicketInv, Holding
  <2> QED
    BY <2>1, <2>2, <2>3 DEF Rows, Holding, TypeOK
<1> QED
  BY <1>1, PoolInvariant, PTL

\* When row_store_lookup returns, every row it was asked for is in place.
THEOREM ReturnsComplete == Spec => []ReturnedComplete
<1>1. PoolInv => ReturnedComplete
  BY DEF PoolInv, BufferInv, ReturnedComplete
<1> QED
  BY <1>1, PoolInvariant, PTL

\* Only Lookup, ServeSerially and Serve write buffers.
LEMMA Writers ==
    ASSUME Next, written' # written
    PROVE  \/ \E c \in Callers : Lookup(c) \/ ServeSerially(c)
           \/ \E t \in Threads : Serve(t)
BY DEF Next, CallerStep, Drain, Acquire, Enter, Publish, NotifyReady,
       LockForDone, Retire, SleepOnDone, Return, Claim, CheckTicket, Finish,
       NotifyLast, LockForReady, Take, SleepOnReady, Leave, SpuriousWakeup

\* After the decision to return nothing writes the lookup's buffers, which the
\* stream is then reading.
THEOREM BuffersQuietAfterReturn == Spec => NoLateWrite
<1> DEFINE Quiet == \A c \in Callers : written'[c] # written[c] =>
                       \/ pc[c] = "idle" /\ pc'[c] # "idle"
                       \/ pc[c] = "serial"
                       \/ pc[c] \in Running \ {"publish", "return"}
<1>1. PoolInv /\ [Next]_vars => [Quiet]_vars
  <2> SUFFICES ASSUME PoolInv, Next, NEW c \in Callers, written'[c] # written[c]
               PROVE  \/ pc[c] = "idle" /\ pc'[c] # "idle"
                      \/ pc[c] = "serial"
                      \/ pc[c] \in Running \ {"publish", "return"}
    OBVIOUS
  <2> USE ThreadsAssumption DEF PoolInv, TypeOK, Threads
  <2>1. ASSUME NEW d \in Callers, Lookup(d) \/ ServeSerially(d)
        PROVE  c = d /\ ((pc[c] = "idle" /\ pc'[c] # "idle") \/ pc[c] = "serial")
    BY <2>1 DEF Lookup, ServeSerially, Goto
  <2>2. ASSUME NEW t \in Threads, Serve(t)
        PROVE  pc[c] \in Running \ {"publish", "return"}
    <3>1. c = work[t] /\ work[t] = job_
      BY <2>2 DEF Serve, JobInv, ActiveWorkers, Running, Draining
    <3> QED
      BY <3>1 DEF JobInv
  <2> QED
    BY <2>1, <2>2, Writers
<1> QED
  BY <1>1, PoolInvariant, PTL DEF Spec, NoLateWrite

\* The pool implements what row_store_lookup promises its stream: a step of a
\* worker is a row of the call in progress or invisible.
THEOREM PoolImplementsLookup == Spec => LookupSpec
<1> DEFINE busy == [c \in Callers |-> pc[c] # "idle"]
<1>1. Init => Lookups!Init
  BY ThreadsAssumption DEF Init, Lookups!Init, Threads
<1>2. PoolInv /\ [Next]_vars => [Lookups!Next]_(Lookups!vars)
  <2> SUFFICES ASSUME PoolInv, [Next]_vars
               PROVE  Lookups!Next \/ UNCHANGED Lookups!vars
    OBVIOUS
  <2> USE ThreadsAssumption DEF PoolInv, TypeOK, Threads
  <2>1. ASSUME NEW c \in Callers, Lookup(c)
        PROVE  Lookups!Call(c)
    BY <2>1 DEF Lookup, Goto, Lookups!Call
  <2>2. ASSUME NEW c \in Callers, ServeSerially(c)
        PROVE  Lookups!ServeAndReturn(c)
    BY <2>2 DEF ServeSerially, Goto, Rows, Lookups!ServeAndReturn
  <2>3. ASSUME NEW c \in Callers, Return(c)
        PROVE  Lookups!Return(c)
    BY <2>3 DEF Return, Goto, BufferInv, Rows, Lookups!Return
  <2>4. ASSUME NEW t \in Threads, Serve(t)
        PROVE  \E c \in Callers : \E i \in 0 .. count[c] - 1 : Lookups!Write(c, i)
    <3>1. work[t] = job_ /\ job_ \in Callers
      BY <2>4 DEF Serve, JobInv, ActiveWorkers, Running, Draining
    <3>2. pc[job_] # "idle"
      BY <3>1 DEF JobInv, Running, Draining
    <3>3. ticket[t] \in (0 .. count[job_] - 1) \ written[job_]
      BY <2>4, <3>1 DEF Serve, TicketInv, Holding
    <3>4. UNCHANGED <<busy, count>>
      BY <2>4, <3>1 DEF Serve, Goto
    <3>5. written' = [written EXCEPT ![job_] = @ \cup {ticket[t]}]
      BY <2>4, <3>1 DEF Serve
    <3>6. Lookups!Write(job_, ticket[t])
      BY <3>1, <3>2, <3>3, <3>4, <3>5 DEF Lookups!Write
    <3> QED
      BY <3>1, <3>3, <3>6
  <2>5. ASSUME NEW c \in Callers,
               \/ Enter(c) \/ Publish(c) \/ NotifyReady(c)
               \/ LockForDone(c) \/ Retire(c) \/ SleepOnDone(c)
        PROVE  UNCHANGED Lookups!vars
    BY <2>5 DEF Enter, Publish, NotifyReady, LockForDone, Retire, SleepOnDone,
                Goto, Lookups!vars
  <2>6. ASSUME NEW t \in Threads,
               \/ Claim(t) \/ CheckTicket(t) \/ Finish(t) \/ NotifyLast(t)
               \/ SpuriousWakeup(t)
        PROVE  UNCHANGED Lookups!vars
    BY <2>6 DEF Claim, CheckTicket, Finish, NotifyLast, SpuriousWakeup, Woken,
                Goto, Lookups!vars
  <2>7. ASSUME NEW w \in Workers,
               LockForReady(w) \/ Take(w) \/ SleepOnReady(w) \/ Leave(w)
        PROVE  UNCHANGED Lookups!vars
    BY <2>7 DEF LockForReady, Take, SleepOnReady, Leave, Woken, Goto, Lookups!vars
  <2>8. UNCHANGED vars => UNCHANGED Lookups!vars
    BY DEF vars, Lookups!vars
  <2> QED
    BY <2>1, <2>2, <2>3, <2>4, <2>5, <2>6, <2>7, <2>8
    DEF Next, CallerStep, Drain, Acquire, Lookups!Next
<1> QED
  BY <1>1, <1>2, PoolInvariant, PTL DEF Spec, LookupSpec, Lookups!Spec
=============================================================================
