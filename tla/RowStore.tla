------------------------------ MODULE RowStore ------------------------------
(***************************************************************************)
(* One Store of adapter/row_store.cpp: opened, given its ownership range   *)
(* and its packed shard by the adapter, then read by the pool's threads    *)
(* through a set-associative cache with one lock per group of sets.        *)
(*                                                                         *)
(* A row is the pair of table positions its 256 weight bytes and its 8     *)
(* scale bytes came from: a row is exact when both are its own id.         *)
(***************************************************************************)
EXTENDS Integers, FiniteSets

CONSTANTS
    Threads,       \* threads that call serve()
    NumRows,       \* rows of the table (Store::rows)
    Rank, Tp,      \* this rank and the tensor-parallel size
    Sets, Ways,    \* cache geometry; Sets = 0 is no cache
    Locks,         \* Store::locks has this many entries (256)
    MaxLookups,    \* bound: rows served in a behaviour
    None           \* no thread

ASSUME RowStoreAssumption ==
    /\ NumRows \in Nat /\ Rank \in Nat /\ Tp \in Nat \ {0} /\ Rank < Tp
    /\ Sets \in Nat /\ Ways \in Nat \ {0} /\ Locks \in Nat \ {0}
    /\ MaxLookups \in Nat

ASSUME NoneAssumption == None \notin Threads

VARIABLES
    phase,     \* "new", "open", "ranged", "serving", "closed", "aborted"
    sets,      \* sets of the row cache: Sets, or 0 in RAM mode
    row_lo, row_hi,
    scales,    \* first row of the pinned scale shard, or Absent
    packed,    \* first row of the packed shard, or Absent
    keys, cache, victim,
    locks,     \* locks[l]: the thread that holds lock l
    pc, id, row,
    way,       \* way[t]: the way t's insertion fills
    lookups

config == <<phase, sets, row_lo, row_hi, scales, packed>>
table  == <<keys, cache, victim>>
vars   == <<config, table, locks, pc, id, row, way, lookups>>

Absent == -1
Blank  == [w |-> Absent, s |-> Absent]   \* zeroed bytes
Row(i) == [w |-> i, s |-> i]
RowBytes == [w : Int, s : Int]

\* The adapter's split of the table over the ranks.
OwnLo == (NumRows * Rank) \div Tp
OwnHi == (NumRows * (Rank + 1)) \div Tp

Owned(i) == row_lo <= i /\ i < row_hi

SetOf(i)  == i % Sets
LockOf(i) == SetOf(i) % Locks

SetIds == 0 .. Sets - 1
WayIds == 0 .. Ways - 1

Init ==
    /\ phase = "new" /\ sets = 0
    /\ row_lo = 0 /\ row_hi = 0
    /\ scales = Absent /\ packed = Absent
    /\ keys   = [b \in SetIds |-> [w \in WayIds |-> 0]]
    /\ cache  = [b \in SetIds |-> [w \in WayIds |-> Blank]]
    /\ victim = [b \in SetIds |-> 0]
    /\ locks  = [l \in 0 .. Locks - 1 |-> None]
    /\ pc  = [t \in Threads |-> "idle"]
    /\ id  = [t \in Threads |-> 0]
    /\ row = [t \in Threads |-> Blank]
    /\ way = [t \in Threads |-> 0]
    /\ lookups = 0

Goto(t, where) == pc' = [pc EXCEPT ![t] = where]

-----------------------------------------------------------------------------
(* Opening, by the adapter's constructor, before any lookup. *)

\* row_store_open: OFFLOAD_MODE=ram maps the shard and gives up the cache.
Open ==
    /\ phase = "new"
    /\ sets' \in {0, Sets}
    /\ row_lo' = 0 /\ row_hi' = NumRows
    /\ phase' = "open"
    /\ UNCHANGED <<scales, packed, table, locks, pc, id, row, way, lookups>>

\* row_store_range(lo, hi), with or without pinning the owned scales: it may be
\* switched off, and pin_scales may fail, which is reported and served without.
SetRange(lo, hi) ==
    /\ row_lo' = lo /\ row_hi' = hi
    /\ \/ scales' = scales
       \/ scales = Absent /\ hi > lo /\ scales' = lo
    /\ phase' = "ranged"

Range ==
    /\ phase = "open"
    /\ SetRange(OwnLo, OwnHi)
    /\ UNCHANGED <<sets, packed, table, locks, pc, id, row, way, lookups>>

\* Mutant of Attach: the header's range is not compared.
AttachUnchecked ==
    /\ phase = "ranged"
    /\ \/ packed' = packed
       \/ \E lo \in 0 .. NumRows : packed' = lo
    /\ phase' = "serving"
    /\ UNCHANGED <<sets, row_lo, row_hi, scales, table, locks, pc, id, row,
                   way, lookups>>

\* row_store_attach_packed: no shard on disk, a shard whose header names this
\* range, or one that does not, which aborts.
Attach ==
    /\ phase = "ranged"
    /\ \/ packed' = packed /\ phase' = "serving"
       \/ \E lo, hi \in 0 .. NumRows :
            IF lo = row_lo /\ hi = row_hi
            THEN packed' = lo /\ phase' = "serving"
            ELSE packed' = packed /\ phase' = "aborted"
    /\ UNCHANGED <<sets, row_lo, row_hi, scales, table, locks, pc, id, row,
                   way, lookups>>

-----------------------------------------------------------------------------
(* serve() for one id, and fetch_row. *)

\* serve: abort on an id outside the table, zeros for a row of another rank.
Begin(t) ==
    /\ phase = "serving" /\ pc[t] = "idle"
    /\ lookups < MaxLookups
    /\ \E i \in -1 .. NumRows :
         /\ id' = [id EXCEPT ![t] = i]
         /\ row' = [row EXCEPT ![t] = Blank]
         /\ IF i < 0 \/ i >= NumRows
            THEN phase' = "aborted" /\ UNCHANGED pc
            ELSE /\ UNCHANGED phase
                 /\ Goto(t, IF ~Owned(i) THEN "served"
                            ELSE IF sets > 0 THEN "find" ELSE "miss")
    /\ lookups' = lookups + 1
    /\ UNCHANGED <<sets, row_lo, row_hi, scales, packed, table, locks, way>>

\* Mutant of LockSet: the lock does not exclude.
LockSetShared(t) ==
    /\ phase = "serving" /\ pc[t] \in {"find", "insert"}
    /\ locks' = [locks EXCEPT ![LockOf(id[t])] = t]
    /\ Goto(t, IF pc[t] = "find" THEN "finding" ELSE "inserting")
    /\ UNCHANGED <<config, table, id, row, way, lookups>>

\* Take the set's lock, for the search or for the insertion.
LockSet(t) ==
    /\ phase = "serving" /\ pc[t] \in {"find", "insert"}
    /\ locks[LockOf(id[t])] = None
    /\ locks' = [locks EXCEPT ![LockOf(id[t])] = t]
    /\ Goto(t, IF pc[t] = "find" THEN "finding" ELSE "inserting")
    /\ UNCHANGED <<config, table, id, row, way, lookups>>

Unlock(t) == locks' = [locks EXCEPT ![LockOf(id[t])] = None]

\* The key a cached row is stored under: 0 means an empty way.
Key(i) == i + 1

Find(t) ==
    /\ phase = "serving" /\ pc[t] = "finding"
    /\ LET b    == SetOf(id[t])
           Hits == {w \in WayIds : keys[b][w] = Key(id[t])}
       IN  \/ /\ Hits # {}
              /\ \E w \in Hits :
                   /\ \A x \in Hits : w <= x
                   /\ row' = [row EXCEPT ![t] = cache[b][w]]
              /\ Goto(t, "served")
           \/ /\ Hits = {}
              /\ Goto(t, "miss")
              /\ UNCHANGED row
    /\ Unlock(t)
    /\ UNCHANGED <<config, table, id, way, lookups>>

\* What the files hold at the offsets fetch_row computes from row_lo.
StoredRow(i) ==
    IF packed # Absent THEN Row(packed + (i - row_lo))
    ELSE [w |-> i, s |-> IF scales # Absent THEN scales + (i - row_lo) ELSE i]

\* The read runs outside the lock.
Miss(t) ==
    /\ phase = "serving" /\ pc[t] = "miss"
    /\ row' = [row EXCEPT ![t] = StoredRow(id[t])]
    /\ Goto(t, IF sets > 0 THEN "insert" ELSE "served")
    /\ UNCHANGED <<config, table, locks, id, way, lookups>>

\* A short or failed read aborts the process.
ReadFails(t) ==
    /\ phase = "serving" /\ pc[t] = "miss"
    /\ phase' = "aborted"
    /\ UNCHANGED <<sets, row_lo, row_hi, scales, packed, table, locks, pc, id,
                   row, way, lookups>>

\* Mutant of Insert: the cursor is never wrapped.
InsertUnwrapped(t) ==
    /\ phase = "serving" /\ pc[t] = "inserting"
    /\ LET b == SetOf(id[t])
           w == victim[b] % Ways
       IN  /\ way' = [way EXCEPT ![t] = w]
           /\ cache' = [cache EXCEPT ![b][w] = row[t]]
           /\ victim' = [victim EXCEPT ![b] = @ + 1]
    /\ Goto(t, "inserted")
    /\ UNCHANGED <<config, keys, locks, id, row, lookups>>

\* Advance the round-robin cursor and copy the bytes into its way ...
Insert(t) ==
    /\ phase = "serving" /\ pc[t] = "inserting"
    /\ LET b == SetOf(id[t])
           w == victim[b] % Ways
       IN  /\ way' = [way EXCEPT ![t] = w]
           /\ cache' = [cache EXCEPT ![b][w] = row[t]]
           /\ victim' = [victim EXCEPT ![b] = (@ + 1) % Ways]
    /\ Goto(t, "inserted")
    /\ UNCHANGED <<config, keys, locks, id, row, lookups>>

\* ... then name them, and release the lock.
Publish(t) ==
    /\ phase = "serving" /\ pc[t] = "inserted"
    /\ keys' = [keys EXCEPT ![SetOf(id[t])][way[t]] = Key(id[t])]
    /\ Unlock(t)
    /\ Goto(t, "served")
    /\ UNCHANGED <<config, cache, victim, id, row, way, lookups>>

\* serve copies the row out and takes the next id.
Deliver(t) ==
    /\ phase = "serving" /\ pc[t] = "served"
    /\ Goto(t, "idle")
    /\ UNCHANGED <<config, table, locks, id, row, way, lookups>>

\* row_store_close, when no lookup is in progress.
Close ==
    /\ phase = "serving"
    /\ \A t \in Threads : pc[t] = "idle"
    /\ phase' = "closed"
    /\ UNCHANGED <<sets, row_lo, row_hi, scales, packed, table, locks, pc, id,
                   row, way, lookups>>

Fetch(t) ==
    \/ LockSet(t) \/ Find(t) \/ Miss(t) \/ ReadFails(t)
    \/ Insert(t) \/ Publish(t) \/ Deliver(t)

Next ==
    \/ Open \/ Range \/ Attach \/ Close
    \/ \E t \in Threads : Begin(t) \/ Fetch(t)

Spec == Init /\ [][Next]_vars

-----------------------------------------------------------------------------
(* Properties. *)

Serving == {"find", "finding", "miss", "insert", "inserting", "inserted"}

\* The store's fields and the threads' rows keep their types; a victim cursor
\* always names a way.
TypeOK ==
    /\ phase \in {"new", "open", "ranged", "serving", "closed", "aborted"}
    /\ sets \in {0, Sets}
    /\ row_lo \in Nat /\ row_hi \in Nat
    /\ scales \in Nat \cup {Absent} /\ packed \in Nat \cup {Absent}
    /\ keys \in [SetIds -> [WayIds -> Nat]]
    /\ cache \in [SetIds -> [WayIds -> RowBytes]]
    /\ victim \in [SetIds -> WayIds]
    /\ locks \in [0 .. Locks - 1 -> Threads \cup {None}]
    /\ pc \in [Threads -> {"idle", "served"} \cup Serving]
    /\ id \in [Threads -> Int]
    /\ row \in [Threads -> RowBytes]
    /\ way \in [Threads -> WayIds]
    /\ lookups \in Nat

\* "Never allow a generation to continue with missing/stale rows": whatever
\* path a row took (cache hit, packed shard, pinned scales, checkpoint), what
\* serve() copies out is the row of its id, or zeros for another rank's row.
RowExact ==
    \A t \in Threads : pc[t] = "served" =>
        row[t] = IF Owned(id[t]) THEN Row(id[t]) ELSE Blank

BeingFilled(b, w) ==
    \E t \in Threads : pc[t] = "inserted" /\ SetOf(id[t]) = b /\ way[t] = w

HoldsItsRow(b, w) ==
    \E i \in 0 .. NumRows - 1 :
        keys[b][w] = i + 1 /\ cache[b][w] = Row(i) /\ SetOf(i) = b

WayCoherent(b, w) == keys[b][w] = 0 \/ BeingFilled(b, w) \/ HoldsItsRow(b, w)

\* A way that no thread is filling holds the row its key names, in the set
\* that row maps to.
CacheCoherent == \A b \in SetIds, w \in WayIds : WayCoherent(b, w)

\* The inductive invariant: what the shards are indexed from, who holds which
\* lock, and what each thread carries.
ShardInv ==
    /\ phase \in {"new", "open"} => scales = Absent /\ packed = Absent
    /\ phase \in {"ranged", "serving"} =>
          /\ row_hi <= NumRows
          /\ scales \in {Absent, row_lo} /\ packed \in {Absent, row_lo}
    /\ phase \in {"new", "open", "ranged"} => \A t \in Threads : pc[t] = "idle"

LockInv ==
    \A t \in Threads : pc[t] \in {"finding", "inserting", "inserted"} =>
        locks[LockOf(id[t])] = t

CarryInv ==
    \A t \in Threads : pc[t] \in Serving =>
        /\ id[t] \in 0 .. NumRows - 1 /\ Owned(id[t])
        /\ pc[t] # "miss" => sets > 0
        /\ pc[t] \in {"insert", "inserting", "inserted"} => row[t] = Row(id[t])
        /\ pc[t] = "inserted" => cache[SetOf(id[t])][way[t]] = Row(id[t])

StoreInv == TypeOK /\ RowExact /\ CacheCoherent /\ ShardInv /\ LockInv /\ CarryInv

=============================================================================
