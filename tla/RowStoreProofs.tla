--------------------------- MODULE RowStoreProofs ---------------------------
(***************************************************************************)
(* TLAPS proofs about RowStore: every row served is exact, for any table,  *)
(* rank, cache geometry, lock count and number of threads.                 *)
(***************************************************************************)
EXTENDS RowStore, TLAPS

\* The set of a row is a set of the cache, and its lock one of the locks.
LEMMA SetAndLock ==
    ASSUME NEW i \in Nat
    PROVE  /\ Sets > 0 => SetOf(i) \in SetIds
           /\ Sets > 0 => LockOf(i) \in 0 .. Locks - 1
<1>1. Sets > 0 => SetOf(i) \in Nat /\ SetOf(i) \in SetIds
  BY RowStoreAssumption DEF SetOf, SetIds
<1> QED
  BY <1>1, RowStoreAssumption DEF LockOf

\* This rank's range lies inside the table.
LEMMA OwnRange == OwnLo \in Nat /\ OwnHi \in Nat /\ OwnHi <= NumRows
<1>1. \A a, b \in Nat : a <= b * Tp => a \div Tp <= b
  BY RowStoreAssumption
<1>2. NumRows * (Rank + 1) <= NumRows * Tp
  BY RowStoreAssumption
<1> QED
  BY <1>1, <1>2, RowStoreAssumption DEF OwnLo, OwnHi


LEMMA WayOf == \A a \in Nat : a % Ways \in WayIds
BY RowStoreAssumption DEF WayIds

LEMMA RowTypes ==
    ASSUME NEW i \in Int, NEW j \in Int
    PROVE  [w |-> i, s |-> j] \in RowBytes
BY DEF RowBytes

LEMMA RowType == \A i \in Int : Row(i) \in RowBytes
BY RowTypes DEF Row

LEMMA BlankType == Blank \in RowBytes
<1>1. -1 \in Int
  OBVIOUS
<1> QED
  BY <1>1, RowTypes DEF Blank, Absent

LEMMA InitInv == Init => StoreInv
<1> SUFFICES ASSUME Init PROVE StoreInv
  OBVIOUS
<1>1. TypeOK
  <2>1. 0 \in WayIds
    BY RowStoreAssumption DEF WayIds
  <2>2. /\ keys \in [SetIds -> [WayIds -> Nat]]
        /\ victim \in [SetIds -> WayIds]
        /\ locks \in [0 .. Locks - 1 -> Threads \cup {None}]
    BY <2>1 DEF Init
  <2>3. cache \in [SetIds -> [WayIds -> RowBytes]]
    BY BlankType DEF Init
  <2> QED
    BY <2>1, <2>2, <2>3, BlankType DEF Init, TypeOK
<1>2. RowExact /\ CacheCoherent /\ ShardInv /\ LockInv /\ CarryInv
  BY DEF Init, RowExact, CacheCoherent, WayCoherent, ShardInv, LockInv, CarryInv, Serving
<1> QED
  BY <1>1, <1>2 DEF StoreInv

LEMMA OpenInv ==
    ASSUME StoreInv, Open
    PROVE  StoreInv'
<1> USE DEF StoreInv, TypeOK, Open, Goto, config, table, Serving
<1>1. TypeOK'
  BY RowStoreAssumption
<1>2. RowExact'
  BY DEF RowExact, ShardInv
<1>3. CacheCoherent'
  BY DEF CacheCoherent, WayCoherent, BeingFilled, HoldsItsRow
<1>4. ShardInv'
  BY DEF ShardInv
<1>5. LockInv'
  BY DEF LockInv, ShardInv
<1>6. CarryInv'
  BY DEF CarryInv, ShardInv
<1> QED
  BY <1>1, <1>2, <1>3, <1>4, <1>5, <1>6

LEMMA RangeInv ==
    ASSUME StoreInv, Range
    PROVE  StoreInv'
<1> USE DEF StoreInv, TypeOK, Range, SetRange, Goto, config, table, Serving
<1>1. TypeOK'
  BY OwnRange
<1>2. RowExact'
  BY DEF RowExact, ShardInv
<1>3. CacheCoherent'
  BY DEF CacheCoherent, WayCoherent, BeingFilled, HoldsItsRow
<1>4. ShardInv'
  BY OwnRange DEF ShardInv
<1>5. LockInv'
  BY DEF LockInv, ShardInv
<1>6. CarryInv'
  BY DEF CarryInv, ShardInv
<1> QED
  BY <1>1, <1>2, <1>3, <1>4, <1>5, <1>6

LEMMA AttachInv ==
    ASSUME StoreInv, Attach
    PROVE  StoreInv'
<1> USE DEF StoreInv, TypeOK, Attach, Goto, config, table, Serving
<1>1. TypeOK'
  OBVIOUS
<1>2. RowExact'
  BY DEF RowExact, ShardInv
<1>3. CacheCoherent'
  BY DEF CacheCoherent, WayCoherent, BeingFilled, HoldsItsRow
<1>4. ShardInv'
  BY DEF ShardInv
<1>5. LockInv'
  BY DEF LockInv, ShardInv
<1>6. CarryInv'
  BY DEF CarryInv, ShardInv
<1> QED
  BY <1>1, <1>2, <1>3, <1>4, <1>5, <1>6

LEMMA BeginInv ==
    ASSUME StoreInv, NEW t \in Threads, Begin(t)
    PROVE  StoreInv'
<1> USE DEF StoreInv, TypeOK, Begin, Goto, config, table, Serving
<1>x. PICK i \in -1 .. NumRows :
        /\ id' = [id EXCEPT ![t] = i]
        /\ row' = [row EXCEPT ![t] = Blank]
        /\ IF i < 0 \/ i >= NumRows
           THEN phase' = "aborted" /\ UNCHANGED pc
           ELSE /\ UNCHANGED phase
                /\ Goto(t, IF ~Owned(i) THEN "served"
                           ELSE IF sets > 0 THEN "find" ELSE "miss")
  BY DEF Begin
<1>0. \/ pc' = pc
      \/ i \in 0 .. NumRows - 1 /\ ~Owned(i) /\ pc' = [pc EXCEPT ![t] = "served"]
      \/ /\ i \in 0 .. NumRows - 1 /\ Owned(i)
         /\ \/ sets > 0 /\ pc' = [pc EXCEPT ![t] = "find"]
            \/ pc' = [pc EXCEPT ![t] = "miss"]
  BY <1>x, RowStoreAssumption DEF Goto
<1>a. /\ pc[t] = "idle" /\ phase = "serving" /\ phase' \in {"serving", "aborted"}
      /\ UNCHANGED <<sets, row_lo, row_hi, scales, packed, table, locks, way>>
  OBVIOUS
<1>1. TypeOK'
  <2>1. i \in Int
    BY RowStoreAssumption
  <2>2. row' \in [Threads -> RowBytes] /\ id' \in [Threads -> Int]
    BY <1>x, <2>1, BlankType
  <2>3. pc' \in [Threads -> {"idle", "served"} \cup Serving]
    BY <1>0
  <2>4. lookups' \in Nat
    OBVIOUS
  <2> QED
    BY <1>a, <2>2, <2>3, <2>4
<1>2. RowExact'
  BY <1>x, <1>0, <1>a DEF RowExact, Owned
<1>3. CacheCoherent'
  <2>1. \A u \in Threads : pc[u] = "inserted" => pc'[u] = "inserted" /\ id'[u] = id[u]
    BY <1>x, <1>0, <1>a
  <2>2. UNCHANGED <<keys, cache, way>>
    BY <1>a
  <2> SUFFICES ASSUME NEW b \in SetIds, NEW w \in WayIds
               PROVE  WayCoherent(b, w)'
    BY DEF CacheCoherent
  <2>3. BeingFilled(b, w) => BeingFilled(b, w)'
    BY <2>1, <2>2 DEF BeingFilled
  <2>4. HoldsItsRow(b, w) => HoldsItsRow(b, w)'
    BY <2>2 DEF HoldsItsRow
  <2> QED
    BY <2>2, <2>3, <2>4 DEF CacheCoherent, WayCoherent
<1>4. ShardInv'
  BY <1>a DEF ShardInv
<1>5. LockInv'
  BY <1>x, <1>0, <1>a DEF LockInv
<1>6. CarryInv'
  BY <1>x, <1>0, <1>a DEF CarryInv, Owned
<1> QED
  BY <1>1, <1>2, <1>3, <1>4, <1>5, <1>6

LEMMA LockSetInv ==
    ASSUME StoreInv, NEW t \in Threads, LockSet(t)
    PROVE  StoreInv'
<1> USE DEF StoreInv, TypeOK, LockSet, Goto, config, table, Serving
<1>0. /\ id[t] \in 0 .. NumRows - 1 /\ sets > 0
      /\ SetOf(id[t]) \in SetIds
      /\ LockOf(id[t]) \in 0 .. Locks - 1
  <2>1. id[t] \in 0 .. NumRows - 1 /\ sets > 0
    BY DEF CarryInv
  <2> QED
    BY <2>1, SetAndLock, RowStoreAssumption
<1>1. TypeOK'
  OBVIOUS
<1>2. RowExact'
  BY DEF RowExact, Owned
<1>3. CacheCoherent'
  BY DEF CacheCoherent, WayCoherent, BeingFilled, HoldsItsRow
<1>4. ShardInv'
  BY DEF ShardInv
<1>5. LockInv'
  BY <1>0, NoneAssumption DEF LockInv
<1>6. CarryInv'
  BY DEF CarryInv, Owned
<1> QED
  BY <1>1, <1>2, <1>3, <1>4, <1>5, <1>6

LEMMA FindInv ==
    ASSUME StoreInv, NEW t \in Threads, Find(t)
    PROVE  StoreInv'
<1> USE DEF StoreInv, TypeOK, Find, Unlock, Goto, config, table, Serving
<1>0. /\ id[t] \in 0 .. NumRows - 1 /\ sets > 0
      /\ SetOf(id[t]) \in SetIds
      /\ LockOf(id[t]) \in 0 .. Locks - 1
  <2>1. id[t] \in 0 .. NumRows - 1 /\ sets > 0
    BY DEF CarryInv
  <2> QED
    BY <2>1, SetAndLock, RowStoreAssumption
<1>a. \A u \in Threads \ {t} :
          pc[u] \in {"finding", "inserting", "inserted"} =>
              LockOf(id[u]) # LockOf(id[t]) /\ SetOf(id[u]) # SetOf(id[t])
  BY <1>0 DEF LockInv, LockOf
<1>b. \A w \in WayIds : keys[SetOf(id[t])][w] = Key(id[t]) =>
          cache[SetOf(id[t])][w] = Row(id[t])
  <2> SUFFICES ASSUME NEW w \in WayIds, keys[SetOf(id[t])][w] = id[t] + 1
               PROVE  cache[SetOf(id[t])][w] = Row(id[t])
    BY DEF Key
  <2>1. ~ \E u \in Threads : pc[u] = "inserted" /\ SetOf(id[u]) = SetOf(id[t])
    BY <1>a
  <2>2. keys[SetOf(id[t])][w] # 0
    BY <1>0, RowStoreAssumption
  <2>3. \E i \in 0 .. NumRows - 1 :
          keys[SetOf(id[t])][w] = i + 1 /\ cache[SetOf(id[t])][w] = Row(i)
    BY <1>0, <2>1, <2>2, Zenon DEF CacheCoherent, WayCoherent, BeingFilled, HoldsItsRow
  <2> QED
    BY <1>0, <2>3
<1>c. \/ row' = row /\ pc' = [pc EXCEPT ![t] = "miss"]
      \/ row' = [row EXCEPT ![t] = Row(id[t])] /\ pc' = [pc EXCEPT ![t] = "served"]
  <2> DEFINE Hits == {w \in WayIds : keys[SetOf(id[t])][w] = Key(id[t])}
  <2>1. \A w \in Hits : cache[SetOf(id[t])][w] = Row(id[t])
    BY <1>b
  <2> QED
    BY <2>1
<1>1. TypeOK'
  <2>0. Row(id[t]) \in RowBytes
    BY RowType
  <2>1. row' \in [Threads -> RowBytes]
    BY <1>c, <2>0
  <2>2. locks' \in [0 .. Locks - 1 -> Threads \cup {None}]
    BY <1>0
  <2>3. pc' \in [Threads -> {"idle", "served"} \cup Serving]
    BY <1>c
  <2> QED
    BY <2>1, <2>2, <2>3
<1>2. RowExact'
  BY <1>0, <1>c DEF RowExact, CarryInv, Owned
<1>3. CacheCoherent'
  BY DEF CacheCoherent, WayCoherent, BeingFilled, HoldsItsRow
<1>4. ShardInv'
  BY DEF ShardInv
<1>5. LockInv'
  <2>1. locks' = [locks EXCEPT ![LockOf(id[t])] = None]
    OBVIOUS
  <2> QED
    BY <1>0, <1>a, <1>c, <2>1 DEF LockInv
<1>6. CarryInv'
  BY DEF CarryInv, Owned
<1> QED
  BY <1>1, <1>2, <1>3, <1>4, <1>5, <1>6

LEMMA MissInv ==
    ASSUME StoreInv, NEW t \in Threads, Miss(t)
    PROVE  StoreInv'
<1> USE DEF StoreInv, TypeOK, Miss, Goto, config, table, Serving
<1>0. row'[t] = Row(id[t]) /\ id[t] \in 0 .. NumRows - 1 /\ Owned(id[t])
  BY DEF ShardInv, CarryInv, StoredRow, Row, Owned, Absent
<1>1. TypeOK'
  BY <1>0, RowType
<1>2. RowExact'
  BY <1>0 DEF RowExact, Owned
<1>3. CacheCoherent'
  BY DEF CacheCoherent, WayCoherent, BeingFilled, HoldsItsRow
<1>4. ShardInv'
  BY DEF ShardInv
<1>5. LockInv'
  BY DEF LockInv
<1>6. CarryInv'
  BY <1>0 DEF CarryInv, Owned
<1> QED
  BY <1>1, <1>2, <1>3, <1>4, <1>5, <1>6

LEMMA ReadFailsInv ==
    ASSUME StoreInv, NEW t \in Threads, ReadFails(t)
    PROVE  StoreInv'
<1> USE DEF StoreInv, TypeOK, ReadFails, Goto, config, table, Serving
<1>1. TypeOK'
  OBVIOUS
<1>2. RowExact'
  BY DEF RowExact, Owned
<1>3. CacheCoherent'
  BY DEF CacheCoherent, WayCoherent, BeingFilled, HoldsItsRow
<1>4. ShardInv'
  BY DEF ShardInv
<1>5. LockInv'
  BY DEF LockInv
<1>6. CarryInv'
  BY DEF CarryInv, Owned
<1> QED
  BY <1>1, <1>2, <1>3, <1>4, <1>5, <1>6

LEMMA InsertInv ==
    ASSUME StoreInv, NEW t \in Threads, Insert(t)
    PROVE  StoreInv'
<1> USE DEF StoreInv, TypeOK, Insert, Goto, config, table, Serving
<1>0. /\ id[t] \in 0 .. NumRows - 1 /\ sets > 0
      /\ SetOf(id[t]) \in SetIds
      /\ LockOf(id[t]) \in 0 .. Locks - 1
  <2>1. id[t] \in 0 .. NumRows - 1 /\ sets > 0
    BY DEF CarryInv
  <2> QED
    BY <2>1, SetAndLock, RowStoreAssumption
<1>a. \A u \in Threads \ {t} :
          pc[u] \in {"finding", "inserting", "inserted"} =>
              LockOf(id[u]) # LockOf(id[t]) /\ SetOf(id[u]) # SetOf(id[t])
  BY <1>0 DEF LockInv, LockOf
<1>b. victim[SetOf(id[t])] % Ways \in WayIds /\ (victim[SetOf(id[t])] + 1) % Ways \in WayIds
  <2>1. victim[SetOf(id[t])] \in Nat
    BY <1>0, RowStoreAssumption DEF WayIds
  <2> QED
    BY <2>1, WayOf, victim[SetOf(id[t])] + 1 \in Nat
<1>1. TypeOK'
  BY <1>0, <1>b
<1>2. RowExact'
  BY DEF RowExact, Owned
<1>c. /\ pc' = [pc EXCEPT ![t] = "inserted"]
      /\ way' = [way EXCEPT ![t] = victim[SetOf(id[t])] % Ways]
      /\ cache' = [cache EXCEPT ![SetOf(id[t])][victim[SetOf(id[t])] % Ways] = row[t]]
      /\ UNCHANGED <<keys, id>>
  OBVIOUS
<1>3. CacheCoherent'
  <2> SUFFICES ASSUME NEW b \in SetIds, NEW w \in WayIds
               PROVE  WayCoherent(b, w)'
    BY DEF CacheCoherent
  <2>1. CASE b = SetOf(id[t]) /\ w = victim[SetOf(id[t])] % Ways
    BY <1>c, <2>1 DEF WayCoherent, BeingFilled
  <2>2. CASE ~ (b = SetOf(id[t]) /\ w = victim[SetOf(id[t])] % Ways)
    <3>1. cache'[b][w] = cache[b][w]
      BY <1>0, <1>b, <1>c, <2>2
    <3>2. BeingFilled(b, w) => BeingFilled(b, w)'
      BY <1>c DEF BeingFilled
    <3>3. HoldsItsRow(b, w) => HoldsItsRow(b, w)'
      BY <1>c, <3>1 DEF HoldsItsRow
    <3> QED
      BY <1>c, <3>2, <3>3 DEF CacheCoherent, WayCoherent
  <2> QED
    BY <2>1, <2>2
<1>4. ShardInv'
  BY DEF ShardInv
<1>5. LockInv'
  BY DEF LockInv
<1>6. CarryInv'
  BY <1>0, <1>a, <1>b, <1>c DEF CarryInv, Owned
<1> QED
  BY <1>1, <1>2, <1>3, <1>4, <1>5, <1>6

LEMMA PublishInv ==
    ASSUME StoreInv, NEW t \in Threads, Publish(t)
    PROVE  StoreInv'
<1> USE DEF StoreInv, TypeOK, Publish, Unlock, Goto, config, table, Serving
<1>0. /\ id[t] \in 0 .. NumRows - 1 /\ sets > 0
      /\ SetOf(id[t]) \in SetIds
      /\ LockOf(id[t]) \in 0 .. Locks - 1
  <2>1. id[t] \in 0 .. NumRows - 1 /\ sets > 0
    BY DEF CarryInv
  <2> QED
    BY <2>1, SetAndLock, RowStoreAssumption
<1>a. \A u \in Threads \ {t} :
          pc[u] \in {"finding", "inserting", "inserted"} =>
              LockOf(id[u]) # LockOf(id[t]) /\ SetOf(id[u]) # SetOf(id[t])
  BY <1>0 DEF LockInv, LockOf
<1>b. cache[SetOf(id[t])][way[t]] = Row(id[t])
  BY DEF CarryInv
<1>1. TypeOK'
  BY <1>0 DEF Key
<1>2. RowExact'
  BY DEF RowExact, CarryInv, Owned
<1>c. /\ keys' = [keys EXCEPT ![SetOf(id[t])][way[t]] = id[t] + 1]
      /\ pc' = [pc EXCEPT ![t] = "served"]
      /\ UNCHANGED <<cache, id, way>>
  BY DEF Key
<1>3. CacheCoherent'
  <2> SUFFICES ASSUME NEW b \in SetIds, NEW w \in WayIds
               PROVE  WayCoherent(b, w)'
    BY DEF CacheCoherent
  <2>1. CASE b = SetOf(id[t]) /\ w = way[t]
    BY <1>0, <1>b, <1>c, <2>1 DEF WayCoherent, HoldsItsRow
  <2>2. CASE ~ (b = SetOf(id[t]) /\ w = way[t])
    <3>1. keys'[b][w] = keys[b][w]
      BY <1>0, <1>c, <2>2
    <3>2. BeingFilled(b, w) => BeingFilled(b, w)'
      BY <1>c, <2>2 DEF BeingFilled
    <3>3. HoldsItsRow(b, w) => HoldsItsRow(b, w)'
      BY <1>c, <3>1 DEF HoldsItsRow
    <3> QED
      BY <3>1, <3>2, <3>3 DEF CacheCoherent, WayCoherent
  <2> QED
    BY <2>1, <2>2
<1>4. ShardInv'
  BY DEF ShardInv
<1>5. LockInv'
  BY <1>0, <1>a DEF LockInv
<1>6. CarryInv'
  BY DEF CarryInv, Owned
<1> QED
  BY <1>1, <1>2, <1>3, <1>4, <1>5, <1>6

LEMMA DeliverInv ==
    ASSUME StoreInv, NEW t \in Threads, Deliver(t)
    PROVE  StoreInv'
<1> USE DEF StoreInv, TypeOK, Deliver, Goto, config, table, Serving
<1>1. TypeOK'
  OBVIOUS
<1>2. RowExact'
  BY DEF RowExact, Owned
<1>3. CacheCoherent'
  BY DEF CacheCoherent, WayCoherent, BeingFilled, HoldsItsRow
<1>4. ShardInv'
  BY DEF ShardInv
<1>5. LockInv'
  BY DEF LockInv
<1>6. CarryInv'
  BY DEF CarryInv, Owned
<1> QED
  BY <1>1, <1>2, <1>3, <1>4, <1>5, <1>6

LEMMA CloseInv ==
    ASSUME StoreInv, Close
    PROVE  StoreInv'
<1> USE DEF StoreInv, TypeOK, Close, Goto, config, table, Serving
<1>1. TypeOK'
  OBVIOUS
<1>2. RowExact'
  BY DEF RowExact, Owned
<1>3. CacheCoherent'
  BY DEF CacheCoherent, WayCoherent, BeingFilled, HoldsItsRow
<1>4. ShardInv'
  BY DEF ShardInv
<1>5. LockInv'
  BY DEF LockInv
<1>6. CarryInv'
  BY DEF CarryInv, Owned
<1> QED
  BY <1>1, <1>2, <1>3, <1>4, <1>5, <1>6

LEMMA StutterInv == StoreInv /\ UNCHANGED vars => StoreInv'
BY DEF vars, config, table, StoreInv, TypeOK, RowExact, CacheCoherent, WayCoherent,
       BeingFilled, HoldsItsRow, ShardInv, LockInv, CarryInv, Owned

\* StoreInv is inductive.
LEMMA NextInv == StoreInv /\ [Next]_vars => StoreInv'
BY StutterInv, OpenInv, RangeInv, AttachInv, CloseInv, BeginInv, LockSetInv, FindInv,
   MissInv, ReadFailsInv, InsertInv, PublishInv, DeliverInv DEF Next, Fetch

\* The store's inductive invariant holds in every reachable state.
THEOREM StoreInvariant == Spec => []StoreInv
<1>1. Init => StoreInv
  BY InitInv
<1>2. StoreInv /\ [Next]_vars => StoreInv'
  BY NextInv
<1> QED
  BY <1>1, <1>2, PTL DEF Spec

\* Every field keeps its type for any geometry of the cache; the round-robin
\* cursor of a set always names one of its ways, so an insertion never writes
\* past the set.
THEOREM StoreTypes == Spec => []TypeOK
BY StoreInvariant, PTL DEF StoreInv

\* Whatever path a row took, serve() copies out the row of its id, or zeros
\* when another rank owns it.
THEOREM RowsAreExact == Spec => []RowExact
BY StoreInvariant, PTL DEF StoreInv

\* The cache never names bytes it does not hold, however lookups of the same
\* set interleave.
THEOREM CacheIsCoherent == Spec => []CacheCoherent
BY StoreInvariant, PTL DEF StoreInv

=============================================================================
