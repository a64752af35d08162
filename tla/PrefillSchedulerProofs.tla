----------------------- MODULE PrefillSchedulerProofs -----------------------
(***************************************************************************)
(* Proofs about PrefillScheduler, for any set of requests, prompt lengths, *)
(* limits and cost model: what is stashed was computed, every stream has   *)
(* its first token, chunks run alone, solo passes alternate with them, and *)
(* no pass starts before the streams have had their share.                 *)
(***************************************************************************)
EXTENDS PrefillScheduler, FiniteSetTheorems, SequenceTheorems, WellFoundedInduction, TLAPS

-----------------------------------------------------------------------------
(* The inductive invariant. *)

Queued   == {waiting[i] : i \in 1 .. Len(waiting)}
InFlight == IF last.extend THEN last.reqs \ {chunked} ELSE {}
Record   == [prefix : Nat, start : Nat, end : Nat, parked : {0, 1}, middle : Nat,
             computed : Nat, first : {0, 1}, over : {0, 1}]

SchedTypes ==
    /\ solo \in BOOLEAN /\ overlap \in BOOLEAN
    /\ free \in SUBSET Reqs /\ running \in SUBSET Reqs /\ waiting \in Seq(Reqs)
    /\ chunked \in Reqs \cup {None} /\ stale \in Reqs \cup {None}
    /\ req \in [Reqs -> Record]
    /\ last \in [reqs : SUBSET Reqs, extend : BOOLEAN, chunked : Reqs \cup {None}]
    /\ solos \in {0, 1}

\* A request is in one place at a time.
Places ==
    /\ \A i \in 1 .. Len(waiting) : \A j \in 1 .. Len(waiting) : waiting[i] = waiting[j] => i = j
    /\ free \cap Queued = {} /\ running \cap (free \cup Queued) = {}
    /\ InFlight \cap (free \cup Queued \cup running) = {}
    /\ chunked \notin free \cup Queued \cup running
    /\ Reqs \subseteq free \cup Queued \cup running \cup InFlight \cup {chunked}
    /\ last.extend => last.chunked \in {None, chunked}

\* What the records say of a request, by its place.
Recorded(q) ==
    /\ q \in free \cup Queued => req[q] = Blank
    /\ q \in running \cup InFlight =>
         /\ req[q].computed = Tokens[q] /\ req[q].prefix <= req[q].computed
         /\ req[q].middle = 0
         /\ q \in running \/ ~ overlap => req[q].first = 1
         /\ q \in InFlight /\ overlap => req[q].first = 0 /\ req[q].over = 0
    /\ q = chunked =>
         /\ req[q].end = req[q].computed /\ req[q].computed < Tokens[q]
         /\ req[q].prefix <= req[q].computed
         /\ req[q].first = 0 /\ req[q].over = 0
         /\ req[q].middle = IF overlap /\ last.extend /\ q \in last.reqs THEN 1 ELSE 0

Alternating == solos = 1 => chunked # None /\ req[chunked].parked = 1

\* What is left of the yield and what the streams were given make up the
\* share that they are owed; without a chunked request nothing is owed, and
\* beside one there is a yield only if something is.
Shared ==
    /\ yieldLeft \in Int /\ owed \in Nat /\ served \in Nat
    /\ chunked = None => owed = 0
    /\ yieldLeft > 0 /\ chunked # None => owed > 0
    /\ served >= owed \/ (100 - Pct) * (yieldLeft + served) >= owed

SchedInv ==
    /\ SchedTypes /\ Places /\ (\A q \in Reqs : Recorded(q))
    /\ ChunkAlone /\ Alternating /\ Shared

-----------------------------------------------------------------------------
(* Minima, and the queue without a batch. *)

LEMMA MinOfTwo ==
    ASSUME NEW a \in Int, NEW b \in Int
    PROVE  /\ Min({a, b}) \in {a, b} /\ Min({a, b}) <= a /\ Min({a, b}) <= b
           /\ Min({a, b}) = IF a <= b THEN a ELSE b
<1>1. \E x \in {a, b} : \A y \in {a, b} : x =< y
  <2>1. CASE a <= b
    BY <2>1
  <2>2. CASE b <= a
    BY <2>2
  <2> QED
    BY <2>1, <2>2
<1>2. Min({a, b}) \in {a, b} /\ \A y \in {a, b} : Min({a, b}) =< y
  BY <1>1 DEF Min
<1> QED
  BY <1>2

\* The least number without a property.
LEMMA LeastWithout ==
    ASSUME NEW S \in SUBSET Nat, S # {}
    PROVE  \E n \in S : \A m \in S : n <= m
<1>1. \E n \in S : \A m \in S : ~ (<<m, n>> \in OpToRel(<, Nat))
  BY NatLessThanWellFounded, WFMin
<1>2. PICK n \in S : \A m \in S : ~ (<<m, n>> \in OpToRel(<, Nat))
  BY <1>1
<1>3. \A m \in S : ~ (m < n)
  BY <1>2 DEF OpToRel
<1>4. ASSUME NEW m \in S
      PROVE  n <= m
  <2>1. n \in Nat /\ m \in Nat /\ ~ (m < n)
    BY <1>3
  <2> QED
    BY <2>1
<1> QED
  BY <1>4

\* f keeps the elements of s outside S one by one, up to the n-th.
Keeps(f, s, S, n) ==
    f = [i \in 0 .. n |->
            IF i = 0 THEN <<>>
            ELSE IF s[i] \in S THEN f[i - 1] ELSE Append(f[i - 1], s[i])]

\* Such a function exists: by the least bound that has none.
LEMMA KeptExists ==
    ASSUME NEW s \in Seq(Reqs), NEW S, NEW n \in Nat
    PROVE  \E f : Keeps(f, s, S, n)
<1> DEFINE Is(f, m) == Keeps(f, s, S, m)
           Bad == {m \in Nat : ~ \E f : Is(f, m)}
<1> SUFFICES ASSUME Bad # {} PROVE FALSE
  OBVIOUS
<1>1. PICK m \in Bad : \A k \in Bad : m <= k
  <2> HIDE DEF Is
  <2> QED
    BY LeastWithout
<1>2. m # 0
  <2> SUFFICES ASSUME m = 0 PROVE FALSE
    OBVIOUS
  <2>1. PICK f : f = [i \in 0 .. 0 |-> <<>>]
    OBVIOUS
  <2>2. Is(f, 0)
    BY <2>1 DEF Keeps
  <2> HIDE DEF Is
  <2> QED
    BY <1>1, <2>2
<1>3. m - 1 \in Nat /\ ~ (m <= m - 1) /\ m \in Nat
  BY <1>1, <1>2
<1>4. PICK f : Is(f, m - 1)
  <2> HIDE DEF Is
  <2> QED
    BY <1>1, <1>3
<1>5. PICK g : g = [i \in 0 .. m |-> IF i < m THEN f[i]
                       ELSE IF s[m] \in S THEN f[m - 1] ELSE Append(f[m - 1], s[m])]
  OBVIOUS
<1>6. \A i \in 0 .. m - 1 : g[i] = f[i]
  BY <1>3, <1>5
<1>7. \A i \in 0 .. m : g[i] = IF i = 0 THEN <<>>
                        ELSE IF s[i] \in S THEN g[i - 1] ELSE Append(g[i - 1], s[i])
  <2> TAKE i \in 0 .. m
  <2>1. CASE i = 0
    <3>1. g[0] = f[0] /\ 0 \in 0 .. m - 1
      BY <1>3, <1>6
    <3>2. f[0] = <<>>
      BY <1>4, <3>1 DEF Keeps
    <3> QED
      BY <2>1, <3>1, <3>2
  <2>2. CASE i # 0 /\ i < m
    <3>1. i \in 0 .. m - 1 /\ i - 1 \in 0 .. m - 1
      BY <1>3, <2>2
    <3>2. f[i] = IF s[i] \in S THEN f[i - 1] ELSE Append(f[i - 1], s[i])
      BY <1>4, <2>2, <3>1 DEF Keeps
    <3> QED
      BY <1>6, <2>2, <3>1, <3>2
  <2>3. CASE i = m
    <3>1. m - 1 \in 0 .. m - 1 /\ m \in 0 .. m /\ ~ (m < m)
      BY <1>3
    <3> QED
      BY <1>2, <1>5, <1>6, <2>3, <3>1
  <2> QED
    BY <1>3, <2>1, <2>2, <2>3
<1>8. Is(g, m)
  BY <1>5, <1>7 DEF Keeps
<1> HIDE DEF Is
<1> QED
  BY <1>1, <1>8

\* Without is the last value of such a function.
LEMMA WithoutKeeps ==
    ASSUME NEW s \in Seq(Reqs), NEW S
    PROVE  \E f : Keeps(f, s, S, Len(s)) /\ Without(s, S) = f[Len(s)]
<1>1. \E f : Keeps(f, s, S, Len(s))
  <2>1. Len(s) \in Nat
    BY LenProperties
  <2> QED
    BY <2>1, KeptExists
<1>2. PICK g : g = CHOOSE f : Keeps(f, s, S, Len(s))
  OBVIOUS
<1>3. Keeps(g, s, S, Len(s))
  BY <1>1, <1>2
<1>4. Without(s, S) = (CHOOSE f : Keeps(f, s, S, Len(s)))[Len(s)]
  BY DEF Without, Keeps
<1> QED
  BY <1>2, <1>3, <1>4

\* What Without leaves: the other elements, each once if they were so before.
LEMMA WithoutLeaves ==
    ASSUME NEW s \in Seq(Reqs), NEW S,
           \A i \in 1 .. Len(s) : \A j \in 1 .. Len(s) : s[i] = s[j] => i = j
    PROVE  \E w \in Seq(Reqs) :
             /\ w = Without(s, S)
             /\ \A i \in 1 .. Len(w) : \A j \in 1 .. Len(w) : w[i] = w[j] => i = j
             /\ {w[i] : i \in 1 .. Len(w)} = {s[i] : i \in 1 .. Len(s)} \ S
<1>0. Len(s) \in Nat /\ \A i \in 1 .. Len(s) : s[i] \in Reqs
  BY LenProperties, ElementOfSeq
<1>1. PICK f : Keeps(f, s, S, Len(s)) /\ Without(s, S) = f[Len(s)]
  BY WithoutKeeps
<1> DEFINE Of(w, i) ==
             /\ w \in Seq(Reqs)
             /\ \A k \in 1 .. Len(w) : \A j \in 1 .. Len(w) : w[k] = w[j] => k = j
             /\ {w[k] : k \in 1 .. Len(w)} = {s[k] : k \in 1 .. i} \ S
           Good(i) == Of(f[i], i)
           Bad == {i \in 0 .. Len(s) : ~ Good(i)}
<1>2. f[0] = <<>>
  BY <1>0, <1>1 DEF Keeps
<1>3. \A i \in 1 .. Len(s) : f[i] = IF s[i] \in S THEN f[i - 1] ELSE Append(f[i - 1], s[i])
  <2> TAKE i \in 1 .. Len(s)
  <2>1. i \in 0 .. Len(s) /\ i # 0
    BY <1>0
  <2> QED
    BY <1>1, <2>1 DEF Keeps
<1>4. Good(0)
  <2>1. <<>> \in Seq(Reqs) /\ Len(<<>>) = 0
    BY EmptySeq
  <2>2. \A k \in 1 .. 0 : FALSE
    OBVIOUS
  <2> QED
    BY <1>2, <2>1, <2>2
<1>5. ASSUME NEW i \in 1 .. Len(s), Good(i - 1)
      PROVE  Good(i)
  <2> DEFINE p == f[i - 1]
  <2>1. /\ p \in Seq(Reqs) /\ Len(p) \in Nat /\ s[i] \in Reqs
        /\ \A k \in 1 .. Len(p) : \A j \in 1 .. Len(p) : p[k] = p[j] => k = j
        /\ {p[k] : k \in 1 .. Len(p)} = {s[k] : k \in 1 .. i - 1} \ S
    BY <1>0, <1>5, LenProperties
  <2>2. f[i] = IF s[i] \in S THEN p ELSE Append(p, s[i])
    BY <1>3
  <2>3. {s[k] : k \in 1 .. i} = {s[k] : k \in 1 .. i - 1} \cup {s[i]}
    <3>1. \A k : k \in 1 .. i <=> k \in 1 .. i - 1 \/ k = i
      BY <1>0
    <3> QED
      BY <3>1
  <2> HIDE DEF p
  <2>4. CASE s[i] \in S
    <3>1. Of(p, i)
      BY <2>1, <2>3, <2>4
    <3> HIDE DEF Of
    <3> QED
      BY <2>2, <2>4, <3>1
  <2>5. CASE s[i] \notin S
    <3>1. PICK w : w = Append(p, s[i])
      OBVIOUS
    <3>2. /\ w \in Seq(Reqs) /\ Len(w) = Len(p) + 1 /\ w[Len(p) + 1] = s[i]
          /\ \A k \in 1 .. Len(p) : w[k] = p[k]
      BY <2>1, <3>1, AppendProperties
    <3>3. s[i] \notin {s[k] : k \in 1 .. i - 1}
      <4> SUFFICES ASSUME NEW k \in 1 .. i - 1, s[k] = s[i] PROVE FALSE
        OBVIOUS
      <4>1. k \in 1 .. Len(s) /\ k # i
        BY <1>0
      <4> QED
        BY <4>1
    <3>4. \A k \in 1 .. Len(p) : p[k] # s[i]
      BY <2>1, <3>3
    <3>5. \A k : k \in 1 .. Len(w) <=> k \in 1 .. Len(p) \/ k = Len(p) + 1
      BY <2>1, <3>2
    <3>6. \A k \in 1 .. Len(w) : \A j \in 1 .. Len(w) : w[k] = w[j] => k = j
      BY <2>1, <3>2, <3>4, <3>5
    <3>7. {w[k] : k \in 1 .. Len(w)} = {p[k] : k \in 1 .. Len(p)} \cup {s[i]}
      BY <3>2, <3>5
    <3>8. {w[k] : k \in 1 .. Len(w)} = {s[k] : k \in 1 .. i} \ S
      BY <2>1, <2>3, <2>5, <3>7
    <3>9. f[i] = w
      BY <2>2, <2>5, <3>1
    <3>10. Of(w, i)
      BY <3>2, <3>6, <3>8
    <3> HIDE DEF Of
    <3> QED
      BY <3>9, <3>10
  <2> QED
    BY <2>4, <2>5
<1> HIDE DEF Of, Good
<1>6. Bad = {}
  <2> SUFFICES ASSUME Bad # {} PROVE FALSE
    OBVIOUS
  <2>1. Bad \in SUBSET Nat
    OBVIOUS
  <2>2. PICK i \in Bad : \A j \in Bad : i <= j
    BY <2>1, LeastWithout
  <2>3. i # 0
    BY <1>4, <2>2
  <2>4. i \in 1 .. Len(s) /\ i - 1 \in 0 .. Len(s) /\ ~ (i <= i - 1)
    BY <1>0, <2>2, <2>3
  <2>5. Good(i - 1)
    BY <2>2, <2>4
  <2> QED
    BY <1>5, <2>2, <2>4, <2>5
<1>7. Good(Len(s))
  BY <1>0, <1>6
<1>8. f[Len(s)] \in Seq(Reqs)
  BY <1>7 DEF Of, Good
<1> QED
  BY <1>1, <1>7, <1>8 DEF Of, Good

-----------------------------------------------------------------------------
(* The tokens of a batch, and the time they cost. *)

\* f sums the extend ranges of the sets of at most n requests of T, one
\* request at a time.
Sums(f, r, T, n) ==
    f = [s \in {s \in SUBSET T : Cardinality(s) <= n} |->
            IF s = {} THEN 0
            ELSE LET x == CHOOSE x \in s : TRUE
                 IN (r[x].end - r[x].start) + f[s \ {x}]]

\* Such a function exists: by the least bound that has none.
LEMMA SumsExist ==
    ASSUME NEW r, NEW T, IsFiniteSet(T), NEW n \in Nat
    PROVE  \E f : Sums(f, r, T, n)
<1> DEFINE Bad == {m \in Nat : ~ \E f : Sums(f, r, T, m)}
           Dom(m) == {s \in SUBSET T : Cardinality(s) <= m}
           Pick(s) == CHOOSE x \in s : TRUE
           Val(x) == r[x].end - r[x].start
<1>0. \A s \in SUBSET T :
         /\ Cardinality(s) \in Nat /\ (Cardinality(s) = 0 <=> s = {})
         /\ s # {} => /\ Pick(s) \in s /\ s \ {Pick(s)} \in SUBSET T
                      /\ Cardinality(s \ {Pick(s)}) = Cardinality(s) - 1
  <2> TAKE s \in SUBSET T
  <2>1. IsFiniteSet(s)
    BY FS_Subset
  <2>2. Cardinality(s) \in Nat /\ (Cardinality(s) = 0 <=> s = {})
    BY <2>1, FS_CardinalityType, FS_EmptySet
  <2>3. s # {} => Pick(s) \in s
    OBVIOUS
  <2> QED
    BY <2>1, <2>2, <2>3, FS_RemoveElement
<1> HIDE DEF Pick
<1> SUFFICES ASSUME Bad # {} PROVE FALSE
  OBVIOUS
<1>1. PICK m \in Bad : \A k \in Bad : m <= k
  BY LeastWithout
<1>2. m # 0
  <2> SUFFICES ASSUME m = 0 PROVE FALSE
    OBVIOUS
  <2>1. PICK f : f = [s \in Dom(0) |-> 0]
    OBVIOUS
  <2>2. ASSUME NEW s \in Dom(0) PROVE s = {}
    <3>1. s \in SUBSET T /\ Cardinality(s) \in Nat /\ Cardinality(s) <= 0
      BY <1>0
    <3>2. Cardinality(s) = 0
      BY <3>1
    <3> QED
      BY <1>0, <3>1, <3>2
  <2>3. Sums(f, r, T, 0)
    BY <2>1, <2>2 DEF Sums
  <2> QED
    BY <1>1, <2>3
<1>3. m - 1 \in Nat /\ ~ (m <= m - 1) /\ m \in Nat
  BY <1>1, <1>2
<1>4. PICK f : Sums(f, r, T, m - 1)
  BY <1>1, <1>3
<1>5. \A s \in Dom(m - 1) : f[s] = IF s = {} THEN 0 ELSE Val(Pick(s)) + f[s \ {Pick(s)}]
  BY <1>4 DEF Sums, Pick
<1>6. PICK g : g = [s \in Dom(m) |-> IF Cardinality(s) < m THEN f[s]
                                     ELSE Val(Pick(s)) + f[s \ {Pick(s)}]]
  OBVIOUS
<1>7. ASSUME NEW s \in Dom(m)
      PROVE  g[s] = IF s = {} THEN 0 ELSE Val(Pick(s)) + g[s \ {Pick(s)}]
  <2>0. s \in SUBSET T /\ Cardinality(s) \in Nat /\ Cardinality(s) <= m
    BY <1>0
  <2>1. CASE s = {}
    <3>1. Cardinality(s) = 0
      BY <1>0, <2>0, <2>1
    <3>2. s \in Dom(m - 1) /\ Cardinality(s) < m
      BY <1>2, <1>3, <2>0, <3>1
    <3> QED
      BY <1>5, <1>6, <2>1, <3>2
  <2>2. CASE s # {}
    <3>1. PICK u : u = s \ {Pick(s)}
      OBVIOUS
    <3>2. u \in SUBSET T /\ Cardinality(u) = Cardinality(s) - 1
      BY <1>0, <2>0, <2>2, <3>1
    <3>3. u \in Dom(m) /\ u \in Dom(m - 1) /\ Cardinality(u) < m
      BY <1>3, <2>0, <3>2
    <3>4. g[u] = f[u]
      BY <1>6, <3>3
    <3>5. CASE Cardinality(s) < m
      <4>1. s \in Dom(m - 1)
        BY <1>3, <2>0, <3>5
      <4>2. f[s] = Val(Pick(s)) + f[u]
        BY <1>5, <2>2, <3>1, <4>1
      <4> QED
        BY <1>6, <2>2, <3>1, <3>4, <3>5, <4>2
    <3>6. CASE ~ (Cardinality(s) < m)
      <4>1. g[s] = Val(Pick(s)) + f[u]
        BY <1>6, <3>1, <3>6
      <4> QED
        BY <2>2, <3>1, <3>4, <4>1
    <3> QED
      BY <3>5, <3>6
  <2> QED
    BY <2>1, <2>2
<1>8. Sums(g, r, T, m)
  <2>1. \A s \in Dom(m) : g[s] = IF s = {} THEN 0
           ELSE LET x == CHOOSE x \in s : TRUE IN (r[x].end - r[x].start) + g[s \ {x}]
    BY <1>7 DEF Pick
  <2>2. g = [s \in Dom(m) |-> g[s]]
    BY <1>6
  <2> QED
    BY <2>1, <2>2 DEF Sums
<1> QED
  BY <1>1, <1>8

\* The tokens of a batch are a natural number.
LEMMA TokensAreNat ==
    ASSUME NEW r \in [Reqs -> Record], NEW T \in SUBSET Reqs,
           \A q \in T : r[q].start <= r[q].end
    PROVE  MapThenSumSet(LAMBDA q : r[q].end - r[q].start, T) \in Nat
<1>1. IsFiniteSet(T) /\ Cardinality(T) \in Nat
  BY PrefillSchedulerAssumption, FS_Subset, FS_CardinalityType
<1>2. \A s \in SUBSET T : /\ IsFiniteSet(s) /\ Cardinality(s) \in Nat
                          /\ Cardinality(s) <= Cardinality(T)
  BY <1>1, FS_Subset, FS_CardinalityType
<1> DEFINE Sum(f) == f = [s \in SUBSET T |->
                            IF s = {} THEN 0
                            ELSE LET x == CHOOSE x \in s : TRUE
                                 IN (r[x].end - r[x].start) + f[s \ {x}]]
<1>3. \E f : Sum(f)
  <2>1. PICK f : Sums(f, r, T, Cardinality(T))
    BY <1>1, SumsExist
  <2>2. {s \in SUBSET T : Cardinality(s) <= Cardinality(T)} = SUBSET T
    BY <1>2
  <2>3. Sum(f)
    BY <2>1, <2>2 DEF Sums
  <2> QED
    BY <2>3
<1>4. MapThenSumSet(LAMBDA q : r[q].end - r[q].start, T) = (CHOOSE f : Sum(f))[T]
  BY DEF MapThenSumSet, MapThenFoldSet
<1>5. PICK f : f = (CHOOSE g : Sum(g))
  OBVIOUS
<1>6. Sum(f)
  <2> HIDE DEF Sum
  <2> QED
    BY <1>3, <1>5
<1> DEFINE Bad == {n \in Nat : \E s \in SUBSET T : Cardinality(s) = n /\ f[s] \notin Nat}
<1>7. Bad = {}
  <2> SUFFICES ASSUME Bad # {} PROVE FALSE
    OBVIOUS
  <2>1. PICK n \in Bad : \A m \in Bad : n <= m
    BY LeastWithout
  <2>2. PICK s \in SUBSET T : Cardinality(s) = n /\ f[s] \notin Nat
    BY <2>1
  <2>3. PICK x : x = CHOOSE y \in s : TRUE
    OBVIOUS
  <2>4. f[s] = IF s = {} THEN 0 ELSE (r[x].end - r[x].start) + f[s \ {x}]
    BY <1>6, <2>3
  <2>5. s # {}
    BY <2>2, <2>4
  <2>6. x \in s /\ x \in Reqs
    BY <2>3, <2>5
  <2>7. r[x].end - r[x].start \in Nat
    <3>1. r[x].end \in Nat /\ r[x].start \in Nat /\ r[x].start <= r[x].end
      BY <2>6 DEF Record
    <3> QED
      BY <3>1
  <2>8. s \ {x} \in SUBSET T /\ Cardinality(s \ {x}) = n - 1 /\ Cardinality(s \ {x}) \in Nat
    BY <1>2, <2>2, <2>6, FS_RemoveElement
  <2>9. f[s \ {x}] \in Nat
    <3>1. n \in Nat /\ ~ (n <= n - 1)
      BY <2>1
    <3>2. n - 1 \notin Bad
      BY <2>1, <3>1
    <3> QED
      BY <2>8, <3>2
  <2> QED
    BY <2>2, <2>4, <2>5, <2>7, <2>9
<1>8. f[T] \in Nat
  <2>1. Cardinality(T) \notin Bad
    BY <1>7
  <2> QED
    BY <1>1, <2>1
<1> QED
  BY <1>4, <1>5, <1>8

-----------------------------------------------------------------------------
(* What launching a batch does to a record. *)

\* Whether the results of a round that launches b are about request q.
Answered(b, q) == LET d == IF overlap THEN last ELSE b IN d.extend /\ q \in d.reqs

\* The record of a request before (x) and after (y) the launch of b.
Launched(b, q, x, y) ==
    /\ y \in Record
    /\ y.prefix = x.prefix /\ y.start = x.start /\ y.end = x.end
    /\ y.parked = x.parked /\ y.over = x.over
    /\ y.computed = IF b.extend /\ q \in b.reqs /\ x.start = x.computed
                    THEN x.end ELSE x.computed
    /\ y.middle = IF Answered(b, q) /\ x.middle > 0 THEN x.middle - 1 ELSE x.middle
    /\ y.first = IF Answered(b, q) /\ x.middle = 0 THEN 1 ELSE x.first

LEMMA ComputeRecord ==
    ASSUME NEW b, NEW r \in [Reqs -> Record], NEW q \in Reqs
    PROVE  LET y == Compute(b, r)[q] IN
           /\ y \in Record
           /\ y.prefix = r[q].prefix /\ y.start = r[q].start /\ y.end = r[q].end
           /\ y.parked = r[q].parked /\ y.over = r[q].over
           /\ y.middle = r[q].middle /\ y.first = r[q].first
           /\ y.computed = IF b.extend /\ q \in b.reqs /\ r[q].start = r[q].computed
                           THEN r[q].end ELSE r[q].computed
<1>1. PICK x : x = r[q]
  OBVIOUS
<1>2. x \in Record
  BY <1>1
<1>3. Compute(b, r)[q] = IF b.extend /\ q \in b.reqs /\ x.start = x.computed
                         THEN [x EXCEPT !.computed = x.end] ELSE x
  BY <1>1 DEF Compute
<1>4. [x EXCEPT !.computed = x.end] \in Record
  BY <1>2 DEF Record
<1> QED
  BY <1>1, <1>2, <1>3, <1>4 DEF Record

LEMMA ResultRecord ==
    ASSUME NEW d, NEW r, NEW q \in Reqs, r[q] \in Record
    PROVE  LET x == r[q]
               y == Results(d, r)[q]
               hit == d.extend /\ q \in d.reqs IN
           /\ y \in Record
           /\ y.prefix = x.prefix /\ y.start = x.start /\ y.end = x.end
           /\ y.parked = x.parked /\ y.over = x.over /\ y.computed = x.computed
           /\ y.middle = IF hit /\ x.middle > 0 THEN x.middle - 1 ELSE x.middle
           /\ y.first = IF hit /\ x.middle = 0 THEN 1 ELSE x.first
<1>1. PICK x : x = r[q]
  OBVIOUS
<1>2. x \in Record /\ x.middle \in Nat
  BY <1>1 DEF Record
<1>3. Results(d, r)[q] = IF ~ d.extend \/ q \notin d.reqs THEN x
                         ELSE IF x.middle > 0 THEN [x EXCEPT !.middle = @ - 1]
                         ELSE [x EXCEPT !.first = 1]
  BY <1>1 DEF Results
<1>4. x.middle > 0 => [x EXCEPT !.middle = @ - 1] \in Record
  BY <1>2 DEF Record
<1>5. [x EXCEPT !.first = 1] \in Record
  BY <1>2 DEF Record
<1>6. CASE ~ (d.extend /\ q \in d.reqs)
  BY <1>1, <1>2, <1>3, <1>6
<1>7. CASE d.extend /\ q \in d.reqs /\ x.middle > 0
  <2>1. PICK y : y = [x EXCEPT !.middle = @ - 1]
    OBVIOUS
  <2>2. /\ y.prefix = x.prefix /\ y.start = x.start /\ y.end = x.end
        /\ y.parked = x.parked /\ y.over = x.over /\ y.computed = x.computed
        /\ y.middle = x.middle - 1 /\ y.first = x.first
    BY <1>2, <2>1 DEF Record
  <2>3. Results(d, r)[q] = y /\ y \in Record
    BY <1>3, <1>4, <1>7, <2>1
  <2>4. x.middle # 0
    BY <1>2, <1>7
  <2> QED
    BY <1>1, <1>7, <2>2, <2>3, <2>4
<1>8. CASE d.extend /\ q \in d.reqs /\ ~ (x.middle > 0)
  <2>1. PICK y : y = [x EXCEPT !.first = 1]
    OBVIOUS
  <2>2. /\ y.prefix = x.prefix /\ y.start = x.start /\ y.end = x.end
        /\ y.parked = x.parked /\ y.over = x.over /\ y.computed = x.computed
        /\ y.middle = x.middle /\ y.first = 1
    BY <1>2, <2>1 DEF Record
  <2>3. Results(d, r)[q] = y /\ y \in Record
    BY <1>3, <1>5, <1>8, <2>1
  <2>4. x.middle = 0
    BY <1>2, <1>8
  <2> QED
    BY <1>1, <1>8, <2>2, <2>3, <2>4
<1> QED
  BY <1>6, <1>7, <1>8

LEMMA LaunchRecord ==
    ASSUME NEW b, NEW r \in [Reqs -> Record], NEW rows, NEW gone, Launch(b, r, rows, gone)
    PROVE  /\ req' \in [Reqs -> Record]
           /\ \A q \in Reqs : q \in gone => req'[q] = Blank
           /\ \A q \in Reqs : q \notin gone => Launched(b, q, r[q], req'[q])
<1>1. PICK d : d = IF overlap THEN last ELSE b
  OBVIOUS
<1>2. PICK c : c = Compute(b, r)
  OBVIOUS
<1>3. req' = [q \in Reqs |-> IF q \in gone THEN Blank ELSE Results(d, c)[q]]
  BY <1>1, <1>2 DEF Launch
<1>4. ASSUME NEW q \in Reqs
      PROVE  Launched(b, q, r[q], Results(d, c)[q])
  <2>1. c[q] \in Record
    BY <1>2, ComputeRecord
  <2>2. Answered(b, q) <=> d.extend /\ q \in d.reqs
    BY <1>1 DEF Answered
  <2> QED
    BY <1>2, <2>1, <2>2, ComputeRecord, ResultRecord DEF Launched
<1>5. Blank \in Record
  BY DEF Blank, Record
<1>6. \A q \in Reqs : Results(d, c)[q] \in Record
  BY <1>4 DEF Launched
<1> QED
  BY <1>3, <1>4, <1>5, <1>6

-----------------------------------------------------------------------------
(* The start of a round. *)

LEMMA MergeFacts ==
    ASSUME SchedInv
    PROVE  /\ Leaving \cup Joining = InFlight /\ Leaving \cap Joining = {}
           /\ overlap => Leaving = {}
           /\ \A q \in Leaving : req[q].over = 1
           /\ InFlight \subseteq Reqs /\ Rows \subseteq Reqs
           /\ \A q \in Reqs : last.extend /\ q \in last.reqs <=>
                 q \in InFlight \/ (q = chunked /\ last.extend /\ q \in last.reqs)
           /\ None \notin Reqs
<1>1. None \notin Reqs
  BY PrefillSchedulerAssumption
<1>2. last.reqs \subseteq Reqs /\ running \subseteq Reqs
  BY DEF SchedInv, SchedTypes
<1>3. last.extend => last.chunked \in {None, chunked}
  BY DEF SchedInv, Places
<1>4. Leaving \cup Joining = InFlight /\ Leaving \cap Joining = {}
  BY <1>1, <1>2, <1>3 DEF Leaving, Joining, InFlight
<1>5. overlap => Leaving = {}
  <2> SUFFICES ASSUME overlap, NEW q \in Leaving PROVE FALSE
    OBVIOUS
  <2>1. q \in InFlight /\ q \in Reqs /\ req[q].over = 1
    BY <1>2 DEF Leaving, InFlight
  <2>2. Recorded(q)
    BY <2>1 DEF SchedInv
  <2> QED
    BY <2>1, <2>2 DEF Recorded
<1>6. \A q \in Leaving : req[q].over = 1
  BY DEF Leaving
<1>7. InFlight \subseteq Reqs /\ Rows \subseteq Reqs
  BY <1>2 DEF InFlight, Rows, Joining
<1>8. \A q \in Reqs : last.extend /\ q \in last.reqs <=>
                 q \in InFlight \/ (q = chunked /\ last.extend /\ q \in last.reqs)
  BY DEF InFlight
<1> QED
  BY <1>1, <1>4, <1>5, <1>6, <1>7, <1>8

\* The stash changes nothing but the prefix of the chunked request, which
\* becomes what is computed of it.
LEMMA StashRecord ==
    ASSUME SchedInv
    PROVE  /\ Stashed \in [Reqs -> Record]
           /\ \A q \in Reqs : q # chunked => Stashed[q] = req[q]
           /\ chunked # None =>
                 /\ Stashed[chunked].prefix = req[chunked].computed
                 /\ Stashed[chunked].start = req[chunked].start
                 /\ Stashed[chunked].end = req[chunked].end
                 /\ Stashed[chunked].parked = req[chunked].parked
                 /\ Stashed[chunked].middle = req[chunked].middle
                 /\ Stashed[chunked].computed = req[chunked].computed
                 /\ Stashed[chunked].first = req[chunked].first
                 /\ Stashed[chunked].over = req[chunked].over
<1>1. req \in [Reqs -> Record] /\ chunked \in Reqs \cup {None}
  BY DEF SchedInv, SchedTypes
<1>2. CASE chunked = None
  <2>1. Stashed = req
    BY <1>2 DEF Stashed
  <2> QED
    BY <1>1, <1>2, <2>1
<1>3. CASE chunked # None
  <2>1. chunked \in Reqs
    BY <1>1, <1>3
  <2>2. PICK x : x = req[chunked]
    OBVIOUS
  <2>3. x \in Record /\ x.end = x.computed
    <3>1. Recorded(chunked)
      BY <2>1 DEF SchedInv
    <3> QED
      BY <1>1, <2>1, <2>2, <3>1 DEF Recorded
  <2>4. Stashed = [req EXCEPT ![chunked] = [x EXCEPT !.prefix = x.end]]
    BY <1>3, <2>2 DEF Stashed
  <2>5. PICK y : y = [x EXCEPT !.prefix = x.end]
    OBVIOUS
  <2>6. /\ y \in Record /\ y.prefix = x.end /\ y.start = x.start /\ y.end = x.end
        /\ y.parked = x.parked /\ y.middle = x.middle /\ y.computed = x.computed
        /\ y.first = x.first /\ y.over = x.over
    BY <2>3, <2>5 DEF Record
  <2>7. Stashed[chunked] = y /\ \A q \in Reqs : q # chunked => Stashed[q] = req[q]
    BY <1>1, <2>1, <2>4, <2>5
  <2>8. Stashed \in [Reqs -> Record]
    BY <1>1, <2>1, <2>4, <2>5, <2>6
  <2> QED
    BY <2>2, <2>3, <2>6, <2>7, <2>8
<1> QED
  BY <1>2, <1>3

\* Rounding up loses nothing.
LEMMA CeilCovers ==
    ASSUME NEW n \in Int, NEW d \in Nat \ {0}
    PROVE  Ceil(n, d) \in Int /\ d * Ceil(n, d) >= n
  BY DEF Ceil

LEMMA LessTimes ==
    ASSUME NEW a \in Int, NEW b \in Int, NEW d \in Nat, a <= b
    PROVE  d * a \in Int /\ d * b \in Int /\ d * a <= d * b
  OBVIOUS

LEMMA MaxOfTwo ==
    ASSUME NEW a \in Int, NEW b \in Int
    PROVE  Max({a, b}) \in Int /\ a <= Max({a, b})
<1>1. \E x \in {a, b} : \A y \in {a, b} : x >= y
  <2>1. CASE a >= b
    BY <2>1
  <2>2. CASE b >= a
    BY <2>2
  <2> QED
    BY <2>1, <2>2
<1>2. Max({a, b}) \in {a, b} /\ \A y \in {a, b} : Max({a, b}) >= y
  BY <1>1 DEF Max
<1> QED
  BY <1>2

\* The budget covers the share of the chunk's time, or the cap on it.
LEMMA BudgetCovers ==
    ASSUME NEW tokens \in Nat, NEW prefix \in Nat, NEW bs \in Nat
    PROVE  LET budget == yield_budget_us(tokens, prefix, bs)
               share  == Min({Pct * chunk_us(tokens, prefix), (100 - Pct) * MaxSteps * step_us(bs)})
           IN  /\ budget \in Int /\ share \in Nat /\ (100 - Pct) * budget >= share
               /\ tokens > 0 => share > 0
<1>1. /\ Pct \in Nat /\ Pct >= 1 /\ Pct <= 90 /\ MaxSteps \in Nat /\ Interval \in Nat
      /\ ChunkBase \in Nat /\ PrefixCost \in Nat /\ ChunkSize \in Nat \ {0}
      /\ StepBase \in Nat \ {0} /\ StepPerReq \in Nat /\ MaxSteps > 0
  BY PrefillSchedulerAssumption
<1>2. PICK d : d = 100 - Pct
  OBVIOUS
<1>3. d \in Nat \ {0}
  BY <1>1, <1>2
<1>4. PICK c : c = chunk_us(tokens, prefix)
  OBVIOUS
<1>5. c \in Nat /\ (tokens > 0 => c > 0)
  <2>1. prefix * PrefixCost \in Nat
    BY <1>1
  <2>2. PICK t : t = ChunkBase + prefix * PrefixCost
    OBVIOUS
  <2>3. t \in Nat /\ t >= ChunkSize
    BY <1>1, <2>1, <2>2, PrefillSchedulerAssumption
  <2>4. PICK n : n = tokens * t
    OBVIOUS
  <2>5. n \in Nat /\ (tokens > 0 => n >= ChunkSize)
    <3>1. tokens > 0 => tokens * t >= t
      BY <2>3
    <3> QED
      BY <1>1, <2>3, <2>4, <3>1
  <2>6. c = n \div ChunkSize
    BY <1>4, <2>2, <2>4 DEF chunk_us
  <2> QED
    BY <1>1, <2>5, <2>6
<1>6. PICK s : s = step_us(bs)
  OBVIOUS
<1>7. s \in Nat /\ s > 0
  BY <1>1, <1>6 DEF step_us
<1>8. PICK p : p = Pct * c
  OBVIOUS
<1>9. p \in Nat /\ (tokens > 0 => p > 0)
  BY <1>1, <1>5, <1>8
<1>10. PICK w : w = Want(c)
  OBVIOUS
<1>11. w \in Int /\ d * w >= p
  BY <1>2, <1>3, <1>8, <1>9, <1>10, CeilCovers DEF Want
<1>12. PICK i : i = Interval * s
  OBVIOUS
<1>13. PICK m : m = MaxSteps * s
  OBVIOUS
<1>14. i \in Nat /\ m \in Nat /\ m > 0
  BY <1>1, <1>7, <1>12, <1>13
<1>15. PICK x : x = Max({w, i})
  OBVIOUS
<1>16. x \in Int /\ w <= x
  BY <1>11, <1>14, <1>15, MaxOfTwo
<1>17. d * x \in Int /\ d * m \in Nat /\ d * x >= p
  <2>1. d * w <= d * x /\ d * x \in Int /\ d * w \in Int
    BY <1>3, <1>11, <1>16, LessTimes
  <2>2. d * m \in Nat
    BY <1>3, <1>14
  <2> QED
    BY <1>9, <1>11, <2>1, <2>2
<1>18. d * MaxSteps * s = d * m
  BY <1>1, <1>3, <1>7, <1>13
<1>19. PICK y : y = Min({x, m})
  OBVIOUS
<1>20. PICK z : z = Min({p, d * m})
  OBVIOUS
<1>21. y \in {x, m} /\ z \in {p, d * m} /\ z <= p /\ z <= d * m
  <2>1. PICK u : u = d * m
    OBVIOUS
  <2>2. x \in Int /\ m \in Int /\ p \in Int /\ u \in Int
    BY <1>9, <1>14, <1>16, <1>17, <2>1
  <2>3. y \in {x, m}
    BY <1>19, <2>2, MinOfTwo
  <2>4. z \in {p, u} /\ z <= p /\ z <= u
    BY <1>20, <2>1, <2>2, MinOfTwo
  <2> QED
    BY <2>1, <2>3, <2>4
<1>22. d * y >= z
  BY <1>9, <1>17, <1>21
<1>23. yield_budget_us(tokens, prefix, bs) = y
  BY <1>4, <1>6, <1>10, <1>12, <1>13, <1>15, <1>19 DEF yield_budget_us
<1>24. Min({Pct * chunk_us(tokens, prefix), (100 - Pct) * MaxSteps * step_us(bs)}) = z
  BY <1>2, <1>4, <1>6, <1>8, <1>18, <1>20
<1>25. tokens > 0 => z > 0
  <2>1. d * m > 0
    BY <1>3, <1>14
  <2> QED
    BY <1>9, <1>17, <1>21, <2>1
<1> QED
  BY <1>2, <1>9, <1>14, <1>16, <1>17, <1>21, <1>22, <1>23, <1>24, <1>25

\* Arming after a chunk, giving a share of the yield to a decode step, and
\* dropping it keep the account.
LEMMA ArmKeeps ==
    ASSUME SchedInv, NEW b, NEW long, NEW r \in [Reqs -> Record], NEW left \in Int,
           b.reqs \in SUBSET Reqs, b.chunked \in Reqs \cup {None},
           chunked' = long, arm_after(b, long, r, left),
           b.extend => \A q \in b.reqs : r[q].start <= r[q].end,
           left > 0 => ~ b.extend /\ _decode_rows /\ owed > 0,
           ~ b.extend => /\ long = chunked
                         /\ chunked # None => left + step_us(Cardinality(Rows)) >= yieldLeft
    PROVE  Shared'
<1>0. PICK bs : bs = Cardinality(Rows)
  OBVIOUS
<1>1. bs \in Nat
  BY <1>0, PrefillSchedulerAssumption, MergeFacts, FS_Subset, FS_CardinalityType
<1>2. PICK step : step = step_us(bs)
  OBVIOUS
<1>3. step \in Nat
  BY <1>1, <1>2, PrefillSchedulerAssumption DEF step_us
<1>4. PICK d : d = 100 - Pct
  OBVIOUS
<1>5. d \in Nat /\ d >= 1
  BY <1>4, PrefillSchedulerAssumption
<1>t. PICK tokens : tokens = MapThenSumSet(LAMBDA q : r[q].end - r[q].start, b.reqs)
  OBVIOUS
<1>6. CASE IsChunkBatch(b, long) /\ _decode_rows /\ tokens > 0
  <2>2. PICK prefix : prefix = r[b.chunked].start
    OBVIOUS
  <2>3. /\ yieldLeft' = yield_budget_us(tokens, prefix, bs)
        /\ owed' = Min({Pct * chunk_us(tokens, prefix), (100 - Pct) * MaxSteps * step_us(bs)})
        /\ served' = 0
    BY <1>0, <1>6, <1>t, <2>2 DEF arm_after
  <2>4. long # None /\ b.chunked \in Reqs /\ b.extend
    BY <1>6 DEF IsChunkBatch
  <2>5. prefix \in Nat
    BY <2>2, <2>4 DEF Record
  <2>6. tokens \in Nat
    BY <1>t, <2>4, TokensAreNat
  <2>7. /\ yieldLeft' \in Int /\ owed' \in Nat /\ (100 - Pct) * yieldLeft' >= owed'
        /\ owed' > 0
    BY <1>1, <1>6, <2>3, <2>5, <2>6, BudgetCovers
  <2>8. yieldLeft' + served' = yieldLeft'
    BY <2>3, <2>7
  <2> QED
    BY <2>3, <2>4, <2>7, <2>8 DEF Shared
<1>7. CASE ~ (IsChunkBatch(b, long) /\ _decode_rows /\ tokens > 0)
  <2>1. yieldLeft' = left
    BY <1>7, <1>t DEF arm_after
  <2>2. CASE b.extend \/ ~ _decode_rows \/ long = None
    <3>1. owed' = 0 /\ served' = 0
      BY <1>7, <1>t, <2>2 DEF arm_after
    <3>2. left > 0 => chunked' = None
      BY <2>2
    <3> QED
      BY <2>1, <3>1, <3>2 DEF Shared
  <2>3. CASE ~ (b.extend \/ ~ _decode_rows \/ long = None)
    <3>1. served' = Min({served + step, owed}) /\ owed' = owed
      BY <1>0, <1>2, <1>7, <1>t, <2>3 DEF arm_after
    <3>2. /\ yieldLeft \in Int /\ owed \in Nat /\ served \in Nat
          /\ served >= owed \/ d * (yieldLeft + served) >= owed
      BY <1>4 DEF SchedInv, Shared
    <3>3. /\ left + step >= yieldLeft /\ chunked' # None
          /\ left > 0 => owed > 0
      BY <1>0, <1>2, <2>3
    <3>4. /\ served' \in {served + step, owed} /\ served' \in Nat
          /\ served' = IF served + step <= owed THEN served + step ELSE owed
      <4>1. PICK u : u = served + step
        OBVIOUS
      <4>2. u \in Int /\ u \in Nat /\ owed \in Int
        BY <1>3, <3>2, <4>1
      <4>3. /\ Min({u, owed}) \in {u, owed}
            /\ Min({u, owed}) = IF u <= owed THEN u ELSE owed
        BY <4>2, MinOfTwo
      <4> QED
        BY <3>1, <3>2, <4>1, <4>2, <4>3
    <3>5. CASE served' = owed
      BY <2>1, <3>1, <3>2, <3>3, <3>4, <3>5 DEF Shared
    <3>6. CASE served' = served + step /\ served' # owed
      <4>1. ~ (served >= owed)
        BY <1>3, <3>2, <3>4, <3>6
      <4>2. yieldLeft + served <= left + served'
        BY <1>3, <3>2, <3>3, <3>6
      <4>3. d * (yieldLeft + served) <= d * (left + served')
        BY <1>5, <3>2, <3>4, <4>2, LessTimes
      <4>4. d * (yieldLeft + served) \in Int /\ d * (left + served') \in Int
        BY <1>5, <3>2, <3>4
      <4>5. d * (left + served') >= owed
        BY <3>2, <4>1, <4>3, <4>4
      <4> QED
        BY <1>4, <2>1, <3>1, <3>2, <3>3, <3>4, <4>5 DEF Shared
    <3> QED
      BY <3>4, <3>5, <3>6
  <2> QED
    BY <2>2, <2>3
<1> QED
  BY <1>6, <1>7

\* A yield that is over leaves no budget.
LEMMA CancelledIsOver == ASSUME SchedInv PROVE Cancelled \in Int /\ ~ (Cancelled > 0)
<1>1. yieldLeft \in Int /\ 0 \in Int
  BY DEF SchedInv, Shared
<1>2. PICK y : y = yieldLeft
  OBVIOUS
<1>3. Min({y, 0}) \in {y, 0} /\ Min({y, 0}) <= 0
  BY <1>1, <1>2, MinOfTwo
<1> QED
  BY <1>1, <1>2, <1>3 DEF Cancelled

-----------------------------------------------------------------------------
(* A round that decodes. *)

LEMMA DecodeKeeps ==
    ASSUME SchedInv, NEW left \in Int, Decode(left), UNCHANGED <<solo, overlap>>,
           left > 0 => _decode_rows /\ owed > 0,
           chunked # None => left + step_us(Cardinality(Rows)) >= yieldLeft
    PROVE  SchedInv'
<1>1. PICK gone : gone = {q \in Rows : req[q].over = 1} \cup Leaving
  OBVIOUS
<1>2. PICK b : b = IF Rows \ gone = {} THEN NoBatch
                   ELSE Batch(Rows \ gone, FALSE, IF running = {} /\ Joining # {}
                                                  THEN last.chunked ELSE stale)
  OBVIOUS
<1>3. /\ Launch(b, Stashed, Rows, gone)
      /\ waiting' = waiting /\ chunked' = chunked /\ solos' = solos
      /\ solo' = solo /\ overlap' = overlap
  BY <1>1, <1>2 DEF Decode
<1>4. b.extend = FALSE /\ b.reqs \subseteq Rows
  BY <1>2 DEF NoBatch, Batch
<1>5. last' = b /\ free' = free \cup gone /\ running' = Rows \ gone
  BY <1>3 DEF Launch
<1>6. /\ Stashed \in [Reqs -> Record]
      /\ \A q \in Reqs : q # chunked => Stashed[q] = req[q]
  BY StashRecord
<1>7. /\ req' \in [Reqs -> Record]
      /\ \A q \in Reqs : q \in gone => req'[q] = Blank
      /\ \A q \in Reqs : q \notin gone => Launched(b, q, Stashed[q], req'[q])
  BY <1>3, <1>6, LaunchRecord
<1>8. /\ gone \subseteq Rows \cup Leaving /\ Rows \cup Leaving = running \cup InFlight
      /\ Leaving \subseteq gone
  BY <1>1, MergeFacts DEF Rows
<1>9. Queued' = Queued /\ InFlight' = {}
  BY <1>3, <1>4, <1>5 DEF Queued, InFlight
<1>10. /\ free \cap Queued = {} /\ running \cap (free \cup Queued) = {}
       /\ InFlight \cap (free \cup Queued \cup running) = {}
       /\ chunked \notin free \cup Queued \cup running
       /\ Reqs \subseteq free \cup Queued \cup running \cup InFlight \cup {chunked}
  BY DEF SchedInv, Places
<1>11. chunked \notin InFlight /\ chunked \notin gone
  BY <1>8, <1>10 DEF InFlight
<1>12. \A q \in Reqs : q \notin InFlight /\ q # chunked => ~ Answered(b, q)
  BY <1>4, MergeFacts DEF Answered
<1>13. ASSUME NEW q \in Reqs
       PROVE  Recorded(q)'
  <2>0. Recorded(q) /\ q # None
    BY MergeFacts DEF SchedInv
  <2>1. CASE q \in gone
    <3>1. q \in free' /\ q \notin running' /\ q # chunked' /\ req'[q] = Blank
      BY <1>3, <1>5, <1>7, <1>11, <2>1
    <3> QED
      BY <1>9, <3>1 DEF Recorded
  <2>2. CASE q \in free \cup Queued
    <3>1. q \notin gone /\ q \notin running' /\ q # chunked' /\ q \notin InFlight
      BY <1>3, <1>5, <1>8, <1>10, <2>2
    <3>2. Launched(b, q, Blank, req'[q]) /\ ~ Answered(b, q)
      BY <1>3, <1>6, <1>7, <1>12, <2>0, <2>2, <3>1 DEF Recorded
    <3>3. req'[q] = Blank
      BY <1>4, <3>2 DEF Launched, Blank, Record
    <3> QED
      BY <1>9, <3>1, <3>3 DEF Recorded
  <2>3. CASE q = chunked
    <3>1. q \notin free' \cup Queued' /\ q \notin running' /\ q \notin gone
      BY <1>5, <1>8, <1>9, <1>10, <1>11, <2>3
    <3>2. Launched(b, q, Stashed[q], req'[q])
      BY <1>7, <3>1
    <3>3. PICK x : x = req[q]
      OBVIOUS
    <3>4. PICK y : y = Stashed[q]
      OBVIOUS
    <3>5. /\ x.end = x.computed /\ x.computed < Tokens[q] /\ x.first = 0 /\ x.over = 0
          /\ x.middle = IF overlap /\ last.extend /\ q \in last.reqs THEN 1 ELSE 0
      BY <2>0, <2>3, <3>3 DEF Recorded
    <3>6. /\ y.prefix = x.computed /\ y.end = x.end /\ y.computed = x.computed
          /\ y.first = x.first /\ y.over = x.over /\ y.middle = x.middle
      BY <2>0, <2>3, <3>3, <3>4, StashRecord
    <3>7. Answered(b, q) <=> overlap /\ last.extend /\ q \in last.reqs
      BY <1>4 DEF Answered
    <3>8. /\ req'[q].prefix = x.computed /\ req'[q].computed = x.computed
          /\ req'[q].end = x.computed /\ req'[q].over = 0
          /\ req'[q].middle = 0 /\ req'[q].first = 0
      BY <1>4, <3>2, <3>4, <3>5, <3>6, <3>7 DEF Launched
    <3>9. x.computed \in Nat
      BY <3>3 DEF SchedInv, SchedTypes, Record
    <3> QED
      BY <1>4, <1>5, <1>9, <3>1, <3>5, <3>8, <3>9 DEF Recorded
  <2>4. CASE q \in (running \cup InFlight) \ gone
    <3>1. q \notin free' \cup Queued' /\ q # chunked' /\ q \in running' /\ q # chunked
      BY <1>3, <1>5, <1>8, <1>9, <1>10, <1>11, <2>4
    <3>2. PICK x : x = req[q]
      OBVIOUS
    <3>3. Launched(b, q, x, req'[q])
      BY <1>6, <1>7, <2>4, <3>1, <3>2
    <3>4. /\ x.computed = Tokens[q] /\ x.prefix <= x.computed /\ x.middle = 0
          /\ q \in running \/ ~ overlap => x.first = 1
      BY <2>0, <2>4, <3>2 DEF Recorded
    <3>5. q \in running \/ ~ overlap \/ Answered(b, q)
      <4>1. q \in InFlight => last.extend /\ q \in last.reqs
        BY DEF InFlight
      <4> QED
        BY <2>4, <4>1 DEF Answered
    <3>6. /\ req'[q].prefix = x.prefix /\ req'[q].computed = x.computed
          /\ req'[q].middle = 0 /\ req'[q].first = 1
      BY <1>4, <3>3, <3>4, <3>5 DEF Launched
    <3> QED
      BY <1>9, <3>1, <3>4, <3>6 DEF Recorded
  <2> QED
    BY <1>10, <2>1, <2>2, <2>3, <2>4
<1>14. SchedTypes'
  <2>1. b \in [reqs : SUBSET Reqs, extend : BOOLEAN, chunked : Reqs \cup {None}]
    <3>1. stale \in Reqs \cup {None}
      BY DEF SchedInv, SchedTypes
    <3> QED
      BY <1>2, <3>1, MergeFacts DEF SchedInv, SchedTypes, NoBatch, Batch
  <2>2. gone \subseteq Reqs /\ Rows \subseteq Reqs
    BY <1>8, MergeFacts DEF SchedInv, SchedTypes
  <2>3. stale' \in Reqs \cup {None}
    BY <1>3 DEF Launch, SchedInv, SchedTypes
  <2> QED
    BY <1>3, <1>5, <1>7, <2>1, <2>2, <2>3 DEF SchedInv, SchedTypes
<1>15. Places'
  <2>1. \A i \in 1 .. Len(waiting) : \A j \in 1 .. Len(waiting) : waiting[i] = waiting[j] => i = j
    BY DEF SchedInv, Places
  <2>2. last'.extend = FALSE
    BY <1>4, <1>5
  <2>3. /\ free' \cap Queued' = {} /\ running' \cap (free' \cup Queued') = {}
        /\ chunked' \notin free' \cup Queued' \cup running'
        /\ Reqs \subseteq free' \cup Queued' \cup running' \cup {chunked'}
    BY <1>3, <1>5, <1>8, <1>9, <1>10, <1>11
  <2> QED
    BY <1>3, <1>9, <2>1, <2>2, <2>3 DEF Places
<1>16. ChunkAlone'
  BY <1>4, <1>5 DEF ChunkAlone
<1>17. Alternating'
  <2> SUFFICES ASSUME solos = 1 PROVE chunked # None /\ req'[chunked].parked = 1
    BY <1>3 DEF Alternating
  <2>1. chunked # None /\ req[chunked].parked = 1 /\ chunked \in Reqs
    BY DEF SchedInv, Alternating, SchedTypes
  <2>2. Launched(b, chunked, Stashed[chunked], req'[chunked])
    BY <1>7, <1>11, <2>1
  <2> QED
    BY <2>1, <2>2, StashRecord DEF Launched
<1>18. Shared'
  <2>1. arm_after(b, chunked, Stashed, left)
    BY <1>1, <1>2 DEF Decode
  <2>2. b.reqs \in SUBSET Reqs /\ b.chunked \in Reqs \cup {None}
    BY <1>5, <1>14 DEF SchedTypes
  <2> QED
    BY <1>3, <1>4, <1>6, <2>1, <2>2, ArmKeeps
<1> QED
  BY <1>13, <1>14, <1>15, <1>16, <1>17, <1>18 DEF SchedInv

-----------------------------------------------------------------------------
(* A round that prefills. *)

\* The records r that a pass gives Launch, but for the count of the chunk:
\* what it may have done with a request of the batch, with the long one, and
\* with every other.
Admits(b, long, counts, r) ==
    /\ b \in [reqs : SUBSET Reqs, extend : {TRUE}, chunked : {None, long}]
    /\ counts \in BOOLEAN
    /\ long \in Reqs \cup {None} /\ r \in [Reqs -> Record]
    /\ b.reqs \subseteq Queued \cup {chunked}
    /\ \A q \in Reqs : q \notin b.reqs /\ q # chunked => r[q] = req[q]
    /\ \A q \in b.reqs \cup ({long} \ {None}) :
          /\ r[q].prefix <= req[q].computed /\ r[q].computed = req[q].computed
          /\ r[q].first = req[q].first /\ r[q].over = req[q].over
          /\ r[q].middle = req[q].middle
    /\ \A q \in b.reqs :
          /\ r[q].start = req[q].computed /\ req[q].computed <= r[q].end
          /\ IF q = long THEN r[q].end < Tokens[q] ELSE r[q].end = Tokens[q]
    /\ chunked # None => chunked \in b.reqs \/ long = chunked
    /\ long # None =>
          \/ long \in b.reqs /\ counts
          \/ long = chunked /\ long \notin b.reqs /\ ~ counts /\ r[long].end = req[long].computed

\* What ChunkAlone asks of a pass.
Lone(b, r) ==
    solo => \A q \in b.reqs : r[q].start > 0 =>
               /\ b.reqs = {q}
               /\ r[q].end = Min({r[q].start + ChunkSize, Tokens[q]})

\* The count of the chunk that a pass leaves unfinished.
LEMMA CountRecord ==
    ASSUME NEW long \in Reqs \cup {None}, NEW counts \in BOOLEAN, NEW r \in [Reqs -> Record],
           NEW made,
           made = IF counts /\ long # None THEN [r EXCEPT ![long].middle = @ + 1] ELSE r
    PROVE  /\ made \in [Reqs -> Record]
           /\ \A q \in Reqs : ~ (q = long /\ counts) => made[q] = r[q]
           /\ \A q \in Reqs :
                 /\ made[q].prefix = r[q].prefix /\ made[q].start = r[q].start
                 /\ made[q].end = r[q].end /\ made[q].parked = r[q].parked
                 /\ made[q].computed = r[q].computed /\ made[q].first = r[q].first
                 /\ made[q].over = r[q].over
                 /\ made[q].middle = IF q = long /\ counts THEN r[q].middle + 1 ELSE r[q].middle
<1>0. None \notin Reqs
  BY PrefillSchedulerAssumption
<1>1. CASE ~ (counts /\ long # None)
  BY <1>0, <1>1
<1>2. CASE counts /\ long # None
  <2>1. long \in Reqs
    BY <1>2
  <2>2. PICK x : x = r[long]
    OBVIOUS
  <2>3. PICK y : y = [x EXCEPT !.middle = @ + 1]
    OBVIOUS
  <2>4. x \in Record
    BY <2>1, <2>2
  <2>5. /\ y \in Record /\ y.prefix = x.prefix /\ y.start = x.start /\ y.end = x.end
        /\ y.parked = x.parked /\ y.computed = x.computed /\ y.first = x.first
        /\ y.over = x.over /\ y.middle = x.middle + 1
    BY <2>3, <2>4 DEF Record
  <2>6. made = [r EXCEPT ![long] = y]
    BY <1>2, <2>2, <2>3
  <2>7. made[long] = y /\ \A q \in Reqs : q # long => made[q] = r[q]
    BY <2>1, <2>6
  <2>8. made \in [Reqs -> Record]
    BY <2>1, <2>5, <2>6
  <2> QED
    BY <1>2, <2>2, <2>5, <2>7, <2>8
<1> QED
  BY <1>1, <1>2

LEMMA PassKeeps ==
    ASSUME SchedInv, NEW b, NEW long, NEW counts, NEW r, Admits(b, long, counts, r),
           Lone(b, r), Pass(b, long, counts, r), UNCHANGED <<solo, overlap>>
    PROVE  /\ (SchedTypes' \/ solos' \notin {0, 1}) /\ Places' /\ (\A q \in Reqs : Recorded(q)')
           /\ ChunkAlone' /\ Shared'
           /\ \A q \in Reqs : q = chunked' => req'[q].parked = r[q].parked
<1>0. None \notin Reqs
  BY PrefillSchedulerAssumption
<1>1. PICK made :
        made = IF counts /\ long # None THEN [r EXCEPT ![long].middle = @ + 1] ELSE r
  OBVIOUS
<1>2. /\ Launch(b, made, Rows, Leaving) /\ chunked' = long
      /\ waiting' = Without(waiting, b.reqs) /\ solo' = solo /\ overlap' = overlap
  BY <1>1 DEF Pass
<1>3. /\ b.extend = TRUE /\ b.chunked \in {None, long} /\ b.reqs \subseteq Reqs
      /\ counts \in BOOLEAN /\ long \in Reqs \cup {None} /\ r \in [Reqs -> Record]
  BY DEF Admits
<1>4. /\ b.reqs \subseteq Queued \cup {chunked}
      /\ chunked # None => chunked \in b.reqs \/ long = chunked
      /\ long # None => long \in b.reqs \/ long = chunked
  BY DEF Admits
<1>5. /\ made \in [Reqs -> Record]
      /\ \A q \in Reqs : ~ (q = long /\ counts) => made[q] = r[q]
      /\ \A q \in Reqs :
            /\ made[q].prefix = r[q].prefix /\ made[q].start = r[q].start
            /\ made[q].end = r[q].end /\ made[q].parked = r[q].parked
            /\ made[q].computed = r[q].computed /\ made[q].first = r[q].first
            /\ made[q].over = r[q].over
            /\ made[q].middle = IF q = long /\ counts THEN r[q].middle + 1 ELSE r[q].middle
  BY <1>1, <1>3, CountRecord
<1>6. /\ req' \in [Reqs -> Record]
      /\ \A q \in Reqs : q \in Leaving => req'[q] = Blank
      /\ \A q \in Reqs : q \notin Leaving => Launched(b, q, made[q], req'[q])
  BY <1>2, <1>5, LaunchRecord
<1>7. last' = b /\ free' = free \cup Leaving /\ running' = Rows \ Leaving
  BY <1>2 DEF Launch
<1>8. /\ waiting' \in Seq(Reqs)
      /\ \A i \in 1 .. Len(waiting') : \A j \in 1 .. Len(waiting') :
            waiting'[i] = waiting'[j] => i = j
      /\ Queued' = Queued \ b.reqs
  <2>1. /\ waiting \in Seq(Reqs)
        /\ \A i \in 1 .. Len(waiting) : \A j \in 1 .. Len(waiting) :
              waiting[i] = waiting[j] => i = j
    BY DEF SchedInv, SchedTypes, Places
  <2>2. PICK w \in Seq(Reqs) :
          /\ w = Without(waiting, b.reqs)
          /\ \A i \in 1 .. Len(w) : \A j \in 1 .. Len(w) : w[i] = w[j] => i = j
          /\ {w[i] : i \in 1 .. Len(w)} = {waiting[i] : i \in 1 .. Len(waiting)} \ b.reqs
    BY <2>1, WithoutLeaves
  <2>3. w = waiting'
    BY <1>2, <2>2
  <2>4. Queued' = {w[i] : i \in 1 .. Len(w)}
    BY <2>3 DEF Queued
  <2> QED
    BY <2>2, <2>3, <2>4 DEF Queued
<1>9. /\ Leaving \cup Joining = InFlight /\ Leaving \cap Joining = {}
      /\ overlap => Leaving = {}
      /\ InFlight \subseteq Reqs /\ Rows \subseteq Reqs
  BY MergeFacts
<1>10. /\ free \cap Queued = {} /\ running \cap (free \cup Queued) = {}
       /\ InFlight \cap (free \cup Queued \cup running) = {}
       /\ chunked \notin free \cup Queued \cup running
       /\ Reqs \subseteq free \cup Queued \cup running \cup InFlight \cup {chunked}
  BY DEF SchedInv, Places
<1>11. chunked \notin InFlight /\ running' = running \cup Joining
  BY <1>7, <1>9, <1>10 DEF InFlight, Rows
<1>12. InFlight' = b.reqs \ {long}
  BY <1>2, <1>3, <1>7 DEF InFlight
<1>13. Places'
  <2>1. /\ free' \cap Queued' = {} /\ running' \cap (free' \cup Queued') = {}
        /\ InFlight' \cap (free' \cup Queued' \cup running') = {}
    BY <1>4, <1>7, <1>8, <1>9, <1>10, <1>11, <1>12
  <2>2. chunked' \notin free' \cup Queued' \cup running'
    <3>0. Queued \subseteq Reqs
      BY ElementOfSeq DEF Queued, SchedInv, SchedTypes
    <3>1. CASE long = None
      BY <1>0, <1>2, <1>7, <1>8, <1>9, <1>11, <3>0, <3>1 DEF SchedInv, SchedTypes
    <3>2. CASE long = chunked
      BY <1>2, <1>7, <1>8, <1>9, <1>10, <1>11, <3>2
    <3>3. CASE long \in b.reqs
      BY <1>2, <1>4, <1>7, <1>8, <1>9, <1>10, <1>11, <3>3
    <3> QED
      BY <1>4, <3>1, <3>2, <3>3
  <2>3. Reqs \subseteq free' \cup Queued' \cup running' \cup InFlight' \cup {chunked'}
    BY <1>0, <1>2, <1>4, <1>7, <1>8, <1>9, <1>10, <1>11, <1>12
  <2>4. last'.chunked \in {None, chunked'}
    BY <1>2, <1>3, <1>7
  <2> QED
    BY <1>8, <2>1, <2>2, <2>3, <2>4 DEF Places
<1>14. SchedTypes' \/ solos' \notin {0, 1}
  <2>1. stale' \in Reqs \cup {None}
    BY <1>2 DEF Launch, SchedInv, SchedTypes
  <2>2. last' \in [reqs : SUBSET Reqs, extend : BOOLEAN, chunked : Reqs \cup {None}]
    BY <1>3, <1>7 DEF Admits
  <2>3. free' \subseteq Reqs /\ running' \subseteq Reqs
    BY <1>7, <1>9, <1>11 DEF SchedInv, SchedTypes
  <2> QED
    BY <1>2, <1>3, <1>6, <1>8, <2>1, <2>2, <2>3 DEF SchedInv, SchedTypes
<1>15. \A q \in Reqs : q # chunked /\ q \notin InFlight =>
          (Answered(b, q) <=> ~ overlap /\ q \in b.reqs)
  BY <1>3, MergeFacts DEF Answered
<1>16. \A q \in Reqs : q \notin b.reqs /\ q # chunked /\ q # long => made[q] = req[q]
  BY <1>5 DEF Admits
<1>17. ASSUME NEW q \in Reqs
       PROVE  Recorded(q)'
  <2>0. Recorded(q) /\ q # None
    BY <1>0 DEF SchedInv
  <2>1. CASE q \in free' \cup Queued'
    <3>0. q \notin running' \cup InFlight' /\ q # chunked'
      BY <1>13, <2>1 DEF Places
    <3>1. CASE q \in Leaving
      BY <1>6, <3>0, <3>1 DEF Recorded
    <3>2. CASE q \in free \cup (Queued \ b.reqs)
      <4>1. q \notin Leaving /\ q \notin InFlight /\ q # chunked /\ q \notin b.reqs /\ q # long
        BY <1>2, <1>4, <1>9, <1>10, <3>0, <3>2
      <4>2. Launched(b, q, Blank, req'[q]) /\ ~ Answered(b, q)
        BY <1>6, <1>15, <1>16, <2>0, <3>2, <4>1 DEF Recorded
      <4>3. req'[q] = Blank
        BY <4>1, <4>2 DEF Launched, Blank, Record
      <4> QED
        BY <3>0, <4>3 DEF Recorded
    <3> QED
      BY <1>7, <1>8, <2>1, <3>1, <3>2
  <2>2. CASE q \in running'
    <3>0. q \notin free' \cup Queued' /\ q \notin InFlight' /\ q # chunked'
      BY <1>13, <2>2 DEF Places
    <3>1. q \notin Leaving /\ q # chunked /\ q \notin b.reqs /\ q # long /\ q \in running \cup InFlight
      BY <1>2, <1>4, <1>7, <1>9, <1>10, <1>11, <2>2, <3>0
    <3>2. PICK x : x = req[q]
      OBVIOUS
    <3>3. Launched(b, q, x, req'[q])
      BY <1>6, <1>16, <3>1, <3>2
    <3>4. /\ x.computed = Tokens[q] /\ x.prefix <= x.computed /\ x.middle = 0
          /\ q \in running \/ ~ overlap => x.first = 1
      BY <2>0, <3>1, <3>2 DEF Recorded
    <3>5. q \in running \/ ~ overlap \/ Answered(b, q)
      <4>1. q \in InFlight => last.extend /\ q \in last.reqs
        BY DEF InFlight
      <4> QED
        BY <3>1, <4>1 DEF Answered
    <3>6. /\ req'[q].prefix = x.prefix /\ req'[q].computed = x.computed
          /\ req'[q].middle = 0 /\ req'[q].first = 1
      BY <3>1, <3>3, <3>4, <3>5 DEF Launched
    <3> QED
      BY <3>0, <3>4, <3>6 DEF Recorded
  <2>3. CASE q \in b.reqs
    <3>0. q \notin free' \cup Queued' \cup running' /\ q \notin Leaving /\ q \notin InFlight
      BY <1>4, <1>7, <1>8, <1>9, <1>10, <1>11, <2>3
    <3>1. PICK x : x = req[q]
      OBVIOUS
    <3>2. PICK y : y = made[q]
      OBVIOUS
    <3>3. PICK z : z = req'[q]
      OBVIOUS
    <3>4. /\ y.prefix <= x.computed /\ y.computed = x.computed
          /\ y.first = x.first /\ y.over = x.over /\ y.start = x.computed
          /\ x.computed <= y.end
          /\ y.middle = IF q = long /\ counts THEN x.middle + 1 ELSE x.middle
          /\ IF q = long THEN y.end < Tokens[q] ELSE y.end = Tokens[q]
      BY <1>5, <2>3, <3>1, <3>2 DEF Admits
    <3>5. x.first = 0 /\ x.over = 0
          /\ x.middle = IF overlap /\ last.extend /\ q \in last.reqs THEN 1 ELSE 0
      <4>1. CASE q = chunked
        BY <2>0, <3>1, <4>1 DEF Recorded
      <4>2. CASE q \in Queued /\ q # chunked
        <5>1. x = Blank
          BY <2>0, <3>1, <4>2 DEF Recorded
        <5>2. ~ (last.extend /\ q \in last.reqs)
          BY <3>0, <4>2 DEF InFlight
        <5> QED
          BY <5>1, <5>2 DEF Blank
      <4> QED
        BY <1>4, <2>3, <4>1, <4>2
    <3>6. Answered(b, q) <=> IF overlap THEN last.extend /\ q \in last.reqs ELSE TRUE
      BY <1>3, <2>3 DEF Answered
    <3>7. Launched(b, q, y, z)
      BY <1>6, <3>0, <3>2, <3>3
    <3>8. /\ x.computed \in Nat /\ y.prefix \in Nat /\ y.end \in Nat
          /\ z.prefix = y.prefix /\ z.end = y.end /\ z.computed = y.end /\ z.over = 0
      <4>1. x.computed \in Nat
        BY <3>1 DEF SchedInv, SchedTypes, Record
      <4>2. y.prefix \in Nat /\ y.end \in Nat
        BY <1>5, <3>2 DEF Record
      <4> QED
        BY <1>3, <2>3, <3>4, <3>5, <3>7, <4>1, <4>2 DEF Launched
    <3>9. CASE q = long
      <4>0. counts
        BY <2>0, <2>3, <3>9 DEF Admits
      <4>1. y.middle = x.middle + 1
        BY <3>4, <3>9, <4>0
      <4>2. z.middle = (IF overlap THEN 1 ELSE 0) /\ z.first = 0
        BY <3>4, <3>5, <3>6, <3>7, <4>1 DEF Launched
      <4>3. q \notin InFlight' /\ q = chunked'
        BY <1>2, <1>12, <3>9
      <4>4. last'.extend /\ q \in last'.reqs /\ overlap' = overlap
        BY <1>2, <1>3, <1>7, <2>3
      <4>5. z.end = z.computed /\ z.computed < Tokens[q] /\ z.prefix <= z.computed
        BY <3>4, <3>8, <3>9
      <4> QED
        BY <3>0, <3>3, <3>8, <4>2, <4>3, <4>4, <4>5 DEF Recorded
    <3>10. CASE q # long
      <4>1. y.middle = x.middle
        BY <3>4, <3>10
      <4>2. z.middle = 0 /\ z.first = (IF overlap THEN 0 ELSE 1)
        BY <3>4, <3>5, <3>6, <3>7, <4>1 DEF Launched
      <4>3. q \in InFlight' /\ q # chunked'
        BY <1>2, <1>12, <2>3, <3>10
      <4>4. z.computed = Tokens[q] /\ z.prefix <= z.computed
        BY <3>4, <3>8, <3>10
      <4> QED
        BY <1>2, <3>0, <3>3, <3>8, <4>2, <4>3, <4>4 DEF Recorded
    <3> QED
      BY <3>9, <3>10
  <2>4. CASE q = long /\ q \notin b.reqs
    <3>0. /\ q \notin free' \cup Queued' \cup running' /\ q \notin Leaving
          /\ q \notin InFlight' /\ q = chunked' /\ q = chunked
      BY <1>2, <1>4, <1>9, <1>11, <1>12, <1>13, <2>0, <2>4 DEF Places
    <3>1. PICK x : x = req[q]
      OBVIOUS
    <3>2. PICK z : z = req'[q]
      OBVIOUS
    <3>3. ~ counts /\ r[q].end = x.computed
      BY <2>0, <2>4, <3>1 DEF Admits
    <3>4. /\ r[q].prefix <= x.computed /\ r[q].computed = x.computed
          /\ r[q].first = x.first /\ r[q].over = x.over /\ r[q].middle = x.middle
      BY <2>0, <2>4, <3>1 DEF Admits
    <3>5. Launched(b, q, r[q], z)
      BY <1>5, <1>6, <3>0, <3>2, <3>3
    <3>6. /\ x.computed < Tokens[q] /\ x.first = 0 /\ x.over = 0
          /\ x.middle = IF overlap /\ last.extend /\ q \in last.reqs THEN 1 ELSE 0
      BY <2>0, <3>0, <3>1 DEF Recorded
    <3>7. Answered(b, q) <=> overlap /\ last.extend /\ q \in last.reqs
      BY <2>4 DEF Answered
    <3>8. /\ z.end = x.computed /\ z.computed = x.computed /\ z.prefix = r[q].prefix
          /\ z.first = 0 /\ z.over = 0 /\ z.middle = 0
      BY <2>4, <3>3, <3>4, <3>5, <3>6, <3>7 DEF Launched
    <3>9. q \notin last'.reqs
      BY <1>7, <2>4
    <3> QED
      BY <3>0, <3>2, <3>4, <3>6, <3>8, <3>9 DEF Recorded
  <2> QED
    BY <1>2, <1>12, <1>13, <2>1, <2>2, <2>3, <2>4 DEF Places
<1>18. \A q \in b.reqs : req'[q].start = r[q].start /\ req'[q].end = r[q].end
  <2> TAKE q \in b.reqs
  <2>1. q \in Reqs /\ q \notin Leaving
    BY <1>3, <1>4, <1>9, <1>10, <1>11
  <2>2. Launched(b, q, made[q], req'[q])
    BY <1>6, <2>1
  <2> QED
    BY <1>5, <2>1, <2>2 DEF Launched
<1>19. ChunkAlone'
  <2> SUFFICES ASSUME solo, NEW q \in b.reqs, req'[q].start > 0
               PROVE  /\ b.reqs = {q}
                      /\ req'[q].end = Min({req'[q].start + ChunkSize, Tokens[q]})
    BY <1>2, <1>7 DEF ChunkAlone
  <2>1. r[q].start > 0 /\ req'[q].start = r[q].start /\ req'[q].end = r[q].end
    BY <1>18
  <2> QED
    BY <2>1 DEF Lone
<1>20. ASSUME NEW q \in Reqs, q = chunked'
       PROVE  req'[q].parked = r[q].parked
  <2>1. q \notin Leaving
    BY <1>7, <1>13, <1>20 DEF Places
  <2>2. Launched(b, q, made[q], req'[q])
    BY <1>6, <2>1
  <2> QED
    BY <1>5, <2>2 DEF Launched
<1>21. Shared'
  <2>1. PICK left : left = Cancelled
    OBVIOUS
  <2>2. left \in Int /\ ~ (left > 0)
    BY <2>1, CancelledIsOver
  <2>3. arm_after(b, long, made, left)
    BY <1>1, <2>1 DEF Pass
  <2>4. \A q \in b.reqs : made[q].start <= made[q].end
    <3> TAKE q \in b.reqs
    <3>1. r[q].start <= r[q].end /\ q \in Reqs
      BY <1>3 DEF Admits
    <3> QED
      BY <1>5, <3>1
  <2>5. b.reqs \in SUBSET Reqs /\ b.chunked \in Reqs \cup {None}
    BY <1>3
  <2> QED
    BY <1>2, <1>3, <1>5, <2>2, <2>3, <2>4, <2>5, ArmKeeps
<1> QED
  BY <1>13, <1>14, <1>17, <1>19, <1>20, <1>21

-----------------------------------------------------------------------------
(* The records that the three passes build. *)

LEMMA ChunkRecord ==
    ASSUME SchedInv, chunked # None
    PROVE  /\ WithChunk \in [Reqs -> Record] /\ chunked \in Reqs
           /\ \A q \in Reqs : q # chunked => WithChunk[q] = req[q]
           /\ req[chunked].computed < ChunkEnd /\ ChunkEnd <= Tokens[chunked] /\ ChunkEnd \in Nat
           /\ ChunkEnd = Min({req[chunked].computed + ChunkSize, Tokens[chunked]})
           /\ WithChunk[chunked].prefix = req[chunked].computed
           /\ WithChunk[chunked].start = req[chunked].computed
           /\ WithChunk[chunked].end = ChunkEnd
           /\ WithChunk[chunked].parked = 0
           /\ WithChunk[chunked].middle = req[chunked].middle
           /\ WithChunk[chunked].computed = req[chunked].computed
           /\ WithChunk[chunked].first = req[chunked].first
           /\ WithChunk[chunked].over = req[chunked].over
<1>1. chunked \in Reqs /\ req[chunked] \in Record
  BY DEF SchedInv, SchedTypes
<1>2. PICK c : c = req[chunked].computed
  OBVIOUS
<1>3. c \in Nat /\ c < Tokens[chunked]
  <2>1. Recorded(chunked)
    BY <1>1 DEF SchedInv
  <2> QED
    BY <1>1, <1>2, <2>1 DEF Recorded, Record
<1>4. Tokens[chunked] \in Nat /\ ChunkSize \in Nat /\ ChunkSize > 0
  BY <1>1, PrefillSchedulerAssumption
<1>5. Stashed \in [Reqs -> Record] /\ Stashed[chunked].prefix = c
  BY <1>2, StashRecord
<1>6. ChunkEnd = Min({c + ChunkSize, Tokens[chunked]})
  BY <1>5 DEF ChunkEnd
<1>7. ChunkEnd \in {c + ChunkSize, Tokens[chunked]} /\ ChunkEnd <= Tokens[chunked]
  <2>1. c + ChunkSize \in Int /\ Tokens[chunked] \in Int
    BY <1>3, <1>4
  <2> QED
    BY <1>6, <2>1, MinOfTwo
<1>8. c < ChunkEnd /\ ChunkEnd \in Nat
  BY <1>3, <1>4, <1>7
<1>9. PICK x : x = Stashed[chunked]
  OBVIOUS
<1>10. PICK y : y = [[[x EXCEPT !.start = c] EXCEPT !.end = ChunkEnd] EXCEPT !.parked = 0]
  OBVIOUS
<1>11. x \in Record
  BY <1>1, <1>5, <1>9
<1>12. /\ y \in Record /\ y.prefix = x.prefix /\ y.start = c /\ y.end = ChunkEnd
       /\ y.parked = 0 /\ y.middle = x.middle /\ y.computed = x.computed
       /\ y.first = x.first /\ y.over = x.over
  BY <1>3, <1>8, <1>10, <1>11 DEF Record
<1>13. WithChunk = [Stashed EXCEPT ![chunked] = y]
  BY <1>1, <1>5, <1>9, <1>10 DEF WithChunk
<1>14. /\ WithChunk[chunked] = y /\ WithChunk \in [Reqs -> Record]
       /\ \A q \in Reqs : q # chunked => WithChunk[q] = Stashed[q]
  BY <1>1, <1>5, <1>12, <1>13
<1> QED
  BY <1>1, <1>2, <1>6, <1>7, <1>8, <1>9, <1>12, <1>14, StashRecord

LEMMA ParkRecord ==
    ASSUME SchedInv, chunked # None
    PROVE  LET p == Parked(WithChunk) IN
           /\ p \in [Reqs -> Record]
           /\ \A q \in Reqs : q # chunked => p[q] = req[q]
           /\ p[chunked].prefix = req[chunked].computed
           /\ p[chunked].end = req[chunked].computed
           /\ p[chunked].parked = 1
           /\ p[chunked].middle = req[chunked].middle
           /\ p[chunked].computed = req[chunked].computed
           /\ p[chunked].first = req[chunked].first
           /\ p[chunked].over = req[chunked].over
<1>1. PICK x : x = WithChunk[chunked]
  OBVIOUS
<1>2. /\ x \in Record /\ chunked \in Reqs /\ WithChunk \in [Reqs -> Record]
      /\ x.prefix = req[chunked].computed
  BY <1>1, ChunkRecord
<1>3. PICK y : y = [[[x EXCEPT !.start = x.prefix] EXCEPT !.end = x.prefix] EXCEPT !.parked = 1]
  OBVIOUS
<1>4. /\ y \in Record /\ y.prefix = x.prefix /\ y.end = x.prefix
      /\ y.parked = 1 /\ y.middle = x.middle /\ y.computed = x.computed
      /\ y.first = x.first /\ y.over = x.over
  BY <1>2, <1>3 DEF Record
<1>5. Parked(WithChunk) = [WithChunk EXCEPT ![chunked] = y]
  BY <1>1, <1>2, <1>3 DEF Parked
<1>6. /\ Parked(WithChunk)[chunked] = y /\ Parked(WithChunk) \in [Reqs -> Record]
      /\ \A q \in Reqs : q # chunked => Parked(WithChunk)[q] = WithChunk[q]
  BY <1>2, <1>4, <1>5
<1> QED
  BY <1>1, <1>2, <1>4, <1>6, ChunkRecord

LEMMA WholeRecord ==
    ASSUME NEW r \in [Reqs -> Record], NEW S
    PROVE  /\ Whole(r, S) \in [Reqs -> Record]
           /\ \A q \in Reqs : q \notin S => Whole(r, S)[q] = r[q]
           /\ \A q \in Reqs : q \in S =>
                 LET y == Whole(r, S)[q] IN
                 /\ y.end = Tokens[q] /\ y.prefix = r[q].prefix /\ y.start = r[q].start
                 /\ y.parked = r[q].parked /\ y.middle = r[q].middle
                 /\ y.computed = r[q].computed /\ y.first = r[q].first /\ y.over = r[q].over
<1>1. ASSUME NEW q \in Reqs
      PROVE  LET y == [r[q] EXCEPT !.end = Tokens[q]] IN
             /\ y \in Record
             /\ y.end = Tokens[q] /\ y.prefix = r[q].prefix /\ y.start = r[q].start
             /\ y.parked = r[q].parked /\ y.middle = r[q].middle
             /\ y.computed = r[q].computed /\ y.first = r[q].first /\ y.over = r[q].over
  <2>1. r[q] \in Record /\ Tokens[q] \in Nat
    BY PrefillSchedulerAssumption
  <2> QED
    BY <2>1 DEF Record
<1>2. \A q \in Reqs : Whole(r, S)[q] = IF q \in S THEN [r[q] EXCEPT !.end = Tokens[q]] ELSE r[q]
  BY DEF Whole
<1>3. Whole(r, S) \in [Reqs -> Record]
  BY <1>1 DEF Whole
<1> QED
  BY <1>1, <1>2, <1>3

\* The scan admits requests of the queue only.
LEMMA ShortsQueued ==
    ASSUME SchedInv, NEW S \in Shorts
    PROVE  S \subseteq Queued /\ S \subseteq Reqs
<1>1. waiting \in Seq(Reqs) /\ Len(waiting) \in Nat
  BY LenProperties DEF SchedInv, SchedTypes
<1>2. ScanLimit \in Int /\ Len(waiting) \in Int
  BY <1>1, PrefillSchedulerAssumption
<1>3. PICK k : k = Min({ScanLimit, Len(waiting)})
  OBVIOUS
<1>4. k \in Int /\ k <= Len(waiting)
  BY <1>2, <1>3, MinOfTwo
<1>5. S \subseteq First(k)
  BY <1>3 DEF Shorts
<1>6. \A i \in 1 .. k : i \in 1 .. Len(waiting)
  BY <1>1, <1>4
<1>7. First(k) \subseteq Queued
  BY <1>6 DEF First, Queued
<1>8. Queued \subseteq Reqs
  BY <1>1, ElementOfSeq DEF Queued
<1> QED
  BY <1>5, <1>7, <1>8

\* A request of the queue is admitted from its first token on.
LEMMA QueuedBlank ==
    ASSUME SchedInv, NEW q \in Queued
    PROVE  /\ q \in Reqs /\ q # chunked /\ q # None
           /\ req[q].prefix = 0 /\ req[q].start = 0 /\ req[q].end = 0 /\ req[q].middle = 0
           /\ req[q].computed = 0 /\ req[q].first = 0 /\ req[q].over = 0
<1>1. Queued \subseteq Reqs
  BY ElementOfSeq DEF Queued, SchedInv, SchedTypes
<1>2. q # chunked /\ None \notin Reqs
  BY PrefillSchedulerAssumption DEF SchedInv, Places
<1>3. req[q] = Blank
  BY <1>1 DEF SchedInv, Recorded
<1> QED
  BY <1>1, <1>2, <1>3 DEF Blank

-----------------------------------------------------------------------------
(* The three passes. *)

LEMMA SoloPassKeeps ==
    ASSUME SchedInv, SoloPass, UNCHANGED <<solo, overlap>>
    PROVE  SchedInv'
<1>1. chunked # None /\ ~ Resuming /\ solo /\ solos' = Min({solos + 1, 2})
  BY DEF SoloPass, Scans
<1>2. PICK S \in Shorts :
        Pass(Batch(S, TRUE, None), chunked, ParkCounts, Whole(Parked(WithChunk), S))
  BY DEF SoloPass
<1>3. PICK p : p = Parked(WithChunk)
  OBVIOUS
<1>4. PICK r : r = Whole(p, S)
  OBVIOUS
<1>5. PICK b : b = Batch(S, TRUE, None)
  OBVIOUS
<1>6. Pass(b, chunked, ParkCounts, r)
  BY <1>2, <1>3, <1>4, <1>5
<1>7. /\ b \in [reqs : SUBSET Reqs, extend : {TRUE}, chunked : {None, chunked}]
      /\ b.reqs = S /\ ParkCounts = FALSE
  BY <1>5, ShortsQueued DEF Batch, ParkCounts
<1>8. S \subseteq Queued /\ S \subseteq Reqs /\ chunked \in Reqs /\ chunked \notin S
  BY <1>1, ShortsQueued, QueuedBlank DEF SchedInv, SchedTypes
<1>9. /\ p \in [Reqs -> Record]
      /\ \A q \in Reqs : q # chunked => p[q] = req[q]
      /\ p[chunked].prefix = req[chunked].computed /\ p[chunked].end = req[chunked].computed
      /\ p[chunked].parked = 1 /\ p[chunked].middle = req[chunked].middle
      /\ p[chunked].computed = req[chunked].computed
      /\ p[chunked].first = req[chunked].first /\ p[chunked].over = req[chunked].over
  BY <1>1, <1>3, ParkRecord
<1>10. r \in [Reqs -> Record] /\ \A q \in Reqs : q \notin S => r[q] = p[q]
  BY <1>4, <1>9, WholeRecord
<1>11. ASSUME NEW q \in S
       PROVE  /\ r[q].end = Tokens[q] /\ r[q].prefix = req[q].prefix /\ r[q].start = req[q].start
              /\ r[q].middle = req[q].middle /\ r[q].computed = req[q].computed
              /\ r[q].first = req[q].first /\ r[q].over = req[q].over
  <2>1. q \in Reqs /\ p[q] = req[q]
    BY <1>8, <1>9
  <2> QED
    BY <1>4, <1>9, <2>1, WholeRecord
<1>12. \A q \in S : /\ req[q].prefix = 0 /\ req[q].start = 0 /\ req[q].computed = 0
                    /\ q # chunked /\ Tokens[q] \in Nat
  BY <1>8, QueuedBlank, PrefillSchedulerAssumption
<1>13. req[chunked].computed \in Nat
  BY <1>8 DEF SchedInv, SchedTypes, Record
<1>14. Admits(b, chunked, ParkCounts, r)
  <2>1. \A q \in Reqs : q \notin b.reqs /\ q # chunked => r[q] = req[q]
    BY <1>7, <1>9, <1>10
  <2>2. \A q \in b.reqs \cup ({chunked} \ {None}) :
          /\ r[q].prefix <= req[q].computed /\ r[q].computed = req[q].computed
          /\ r[q].first = req[q].first /\ r[q].over = req[q].over
          /\ r[q].middle = req[q].middle
    <3> TAKE q \in b.reqs \cup ({chunked} \ {None})
    <3>1. CASE q \in S
      BY <1>11, <1>12, <3>1
    <3>2. CASE q = chunked
      BY <1>8, <1>9, <1>10, <1>13, <3>2
    <3> QED
      BY <1>7, <3>1, <3>2
  <2>3. \A q \in b.reqs :
          /\ r[q].start = req[q].computed /\ req[q].computed <= r[q].end
          /\ IF q = chunked THEN r[q].end < Tokens[q] ELSE r[q].end = Tokens[q]
    BY <1>7, <1>11, <1>12
  <2>4. chunked \notin b.reqs /\ ~ ParkCounts /\ r[chunked].end = req[chunked].computed
    BY <1>7, <1>8, <1>9, <1>10
  <2>5. ParkCounts \in BOOLEAN /\ chunked \in Reqs \cup {None} /\ r \in [Reqs -> Record]
        /\ b.reqs \subseteq Queued \cup {chunked}
    BY <1>7, <1>8, <1>10
  <2> QED
    BY <1>7, <2>1, <2>2, <2>3, <2>4, <2>5 DEF Admits
<1>15. Lone(b, r)
  <2>1. \A q \in b.reqs : r[q].start = 0
    BY <1>7, <1>11, <1>12
  <2> QED
    BY <2>1 DEF Lone
<1>16. /\ SchedTypes' \/ solos' \notin {0, 1}
       /\ Places' /\ (\A q \in Reqs : Recorded(q)') /\ ChunkAlone' /\ Shared'
       /\ \A q \in Reqs : q = chunked' => req'[q].parked = r[q].parked
  BY <1>6, <1>14, <1>15, PassKeeps
<1>17. solos' = 1
  <2>1. solos \in {0, 1} /\ solos # 1
    BY <1>1 DEF SchedInv, SchedTypes, Alternating, Resuming
  <2>2. solos + 1 \in Int /\ 2 \in Int /\ solos + 1 = 1 /\ solos + 1 <= 2
    BY <2>1
  <2>3. Min({solos + 1, 2}) = solos + 1
    BY <2>2, MinOfTwo
  <2> QED
    BY <1>1, <2>2, <2>3
<1>18. Alternating'
  <2>1. chunked' = chunked
    BY <1>6 DEF Pass
  <2>2. req'[chunked].parked = 1
    BY <1>8, <1>9, <1>10, <1>16, <2>1
  <2> QED
    BY <1>1, <2>1, <2>2 DEF Alternating
<1> QED
  BY <1>16, <1>17, <1>18 DEF SchedInv

\* A pass that is not a solo one.
LEMMA NoSoloKeeps ==
    ASSUME SchedInv, NEW b, NEW long, NEW counts, NEW r, Admits(b, long, counts, r),
           Lone(b, r), Pass(b, long, counts, r), UNCHANGED <<solo, overlap>>, solos' = 0
    PROVE  SchedInv'
<1>1. /\ SchedTypes' \/ solos' \notin {0, 1}
      /\ Places' /\ (\A q \in Reqs : Recorded(q)') /\ ChunkAlone' /\ Shared'
  BY PassKeeps
<1> QED
  BY <1>1 DEF SchedInv, Alternating

LEMMA ChunkPassKeeps ==
    ASSUME SchedInv, ChunkPass, UNCHANGED <<solo, overlap>>
    PROVE  SchedInv'
<1>1. chunked # None /\ solos' = 0
  BY DEF ChunkPass
<1>2. PICK long : long = IF IsFinal THEN None ELSE chunked
  OBVIOUS
<1>3. PICK S : /\ S = {} \/ (~ solo /\ S \in Shorts)
               /\ Pass(Batch({chunked} \cup S, TRUE, long), long, TRUE, Whole(WithChunk, S))
  <2>1. PICK S \in {{}} \cup (IF Scans /\ ~ solo THEN Shorts ELSE {}) :
          Pass(Batch({chunked} \cup S, TRUE, long), long, TRUE, Whole(WithChunk, S))
    BY <1>2 DEF ChunkPass
  <2> QED
    BY <2>1
<1>4. PICK b : b = Batch({chunked} \cup S, TRUE, long)
  OBVIOUS
<1>5. PICK w : w = WithChunk
  OBVIOUS
<1>6. PICK r : r = Whole(w, S)
  OBVIOUS
<1>7. PICK c : c = req[chunked].computed
  OBVIOUS
<1>8. PICK e : e = ChunkEnd
  OBVIOUS
<1>9. Pass(b, long, TRUE, r)
  BY <1>3, <1>4, <1>5, <1>6
<1>10. S \subseteq Queued /\ S \subseteq Reqs /\ chunked \in Reqs /\ chunked \notin S
  BY <1>1, <1>3, ShortsQueued, QueuedBlank DEF SchedInv, SchedTypes
<1>11. /\ b \in [reqs : SUBSET Reqs, extend : {TRUE}, chunked : {None, long}]
       /\ b.reqs = {chunked} \cup S /\ long \in Reqs \cup {None}
  BY <1>2, <1>4, <1>10 DEF Batch
<1>12. /\ w \in [Reqs -> Record]
       /\ \A q \in Reqs : q # chunked => w[q] = req[q]
       /\ c < e /\ e <= Tokens[chunked] /\ e \in Nat
       /\ e = Min({c + ChunkSize, Tokens[chunked]})
       /\ w[chunked].prefix = c /\ w[chunked].start = c /\ w[chunked].end = e
       /\ w[chunked].middle = req[chunked].middle /\ w[chunked].computed = c
       /\ w[chunked].first = req[chunked].first /\ w[chunked].over = req[chunked].over
  BY <1>1, <1>5, <1>7, <1>8, ChunkRecord
<1>13. r \in [Reqs -> Record] /\ \A q \in Reqs : q \notin S => r[q] = w[q]
  BY <1>6, <1>12, WholeRecord
<1>14. ASSUME NEW q \in S
       PROVE  /\ r[q].end = Tokens[q] /\ r[q].prefix = req[q].prefix /\ r[q].start = req[q].start
              /\ r[q].middle = req[q].middle /\ r[q].computed = req[q].computed
              /\ r[q].first = req[q].first /\ r[q].over = req[q].over
  <2>1. q \in Reqs /\ w[q] = req[q]
    BY <1>10, <1>12
  <2> QED
    BY <1>6, <1>12, <2>1, WholeRecord
<1>15. \A q \in S : /\ req[q].prefix = 0 /\ req[q].start = 0 /\ req[q].computed = 0
                    /\ q # chunked /\ q # long /\ Tokens[q] \in Nat
  <2>1. \A q \in S : q # chunked /\ q # None
    BY <1>10, QueuedBlank
  <2> QED
    BY <1>2, <1>10, <2>1, QueuedBlank, PrefillSchedulerAssumption
<1>16. c \in Nat /\ Tokens[chunked] \in Nat
  BY <1>7, <1>10, PrefillSchedulerAssumption DEF SchedInv, SchedTypes, Record
<1>17. IF chunked = long THEN e < Tokens[chunked] ELSE e = Tokens[chunked]
  <2>1. IsFinal <=> e = Tokens[chunked]
    BY <1>8 DEF IsFinal
  <2>2. chunked = long <=> ~ IsFinal
    BY <1>1, <1>2
  <2> QED
    BY <1>12, <1>16, <2>1, <2>2
<1>18. Admits(b, long, TRUE, r)
  <2>1. \A q \in Reqs : q \notin b.reqs /\ q # chunked => r[q] = req[q]
    BY <1>11, <1>12, <1>13
  <2>2. \A q \in b.reqs \cup ({long} \ {None}) :
          /\ r[q].prefix <= req[q].computed /\ r[q].computed = req[q].computed
          /\ r[q].first = req[q].first /\ r[q].over = req[q].over
          /\ r[q].middle = req[q].middle
    <3> TAKE q \in b.reqs \cup ({long} \ {None})
    <3>1. CASE q \in S
      BY <1>14, <1>15, <3>1
    <3>2. CASE q = chunked
      BY <1>7, <1>10, <1>12, <1>13, <1>16, <3>2
    <3> QED
      BY <1>2, <1>11, <3>1, <3>2
  <2>3. \A q \in b.reqs :
          /\ r[q].start = req[q].computed /\ req[q].computed <= r[q].end
          /\ IF q = long THEN r[q].end < Tokens[q] ELSE r[q].end = Tokens[q]
    <3> TAKE q \in b.reqs
    <3>1. CASE q \in S
      BY <1>14, <1>15, <3>1
    <3>2. CASE q = chunked
      BY <1>7, <1>10, <1>12, <1>13, <1>16, <1>17, <3>2
    <3> QED
      BY <1>11, <3>1, <3>2
  <2>4. chunked \in b.reqs /\ (long # None => long \in b.reqs)
        /\ b.reqs \subseteq Queued \cup {chunked}
    BY <1>2, <1>10, <1>11
  <2> QED
    BY <1>11, <1>13, <2>1, <2>2, <2>3, <2>4 DEF Admits
<1>19. Lone(b, r)
  <2> SUFFICES ASSUME solo, NEW q \in b.reqs
               PROVE  /\ b.reqs = {q}
                      /\ r[q].end = Min({r[q].start + ChunkSize, Tokens[q]})
    BY DEF Lone
  <2>1. S = {} /\ q = chunked
    BY <1>3, <1>11
  <2> QED
    BY <1>10, <1>11, <1>12, <1>13, <2>1
<1> QED
  BY <1>1, <1>9, <1>18, <1>19, NoSoloKeeps

LEMMA StockPassKeeps ==
    ASSUME SchedInv, StockPass, UNCHANGED <<solo, overlap>>
    PROVE  SchedInv'
<1>1. ~ Resuming /\ ~ Scans /\ solos' = 0
  BY DEF StockPass
<1>2. chunked # None => ~ solo /\ IsFinal
  BY <1>1 DEF Scans
<1>3. PICK w : w = WithChunk
  OBVIOUS
<1>4. PICK old : old = IF chunked = None THEN {} ELSE {chunked}
  OBVIOUS
<1>5. PICK k \in 0 .. Len(waiting), split \in BOOLEAN :
        LET S     == First(k)
            room  == ChunkSize - fresh_tokens(S)
                     - (IF chunked = None THEN 0 ELSE ChunkEnd - Stashed[chunked].prefix)
            long  == IF split THEN waiting[k + 1] ELSE None
            r     == Whole(w, S)
        IN /\ (split => k < Len(waiting))
           /\ split => room \in 1 .. Tokens[long] - 1
           /\ Pass(Batch(old \cup S \cup ({long} \ {None}), TRUE, long), long, TRUE,
                   IF split THEN [r EXCEPT ![long].end = room] ELSE r)
  BY <1>3, <1>4 DEF StockPass
<1>6. PICK S : S = First(k)
  OBVIOUS
<1>7. PICK room : room = ChunkSize - fresh_tokens(S)
                     - (IF chunked = None THEN 0 ELSE ChunkEnd - Stashed[chunked].prefix)
  OBVIOUS
<1>8. PICK long : long = IF split THEN waiting[k + 1] ELSE None
  OBVIOUS
<1>9. PICK v : v = Whole(w, S)
  OBVIOUS
<1>10. PICK r : r = IF split THEN [v EXCEPT ![long].end = room] ELSE v
  OBVIOUS
<1>11. PICK b : b = Batch(old \cup S \cup ({long} \ {None}), TRUE, long)
  OBVIOUS
<1>12. /\ Pass(b, long, TRUE, r)
       /\ split => k < Len(waiting)
       /\ split => room \in 1 .. Tokens[long] - 1
  BY <1>5, <1>6, <1>7, <1>8, <1>9, <1>10, <1>11
<1>13. /\ waiting \in Seq(Reqs) /\ Len(waiting) \in Nat
       /\ \A i \in 1 .. Len(waiting) : \A j \in 1 .. Len(waiting) :
             waiting[i] = waiting[j] => i = j
       /\ chunked \in Reqs \cup {None} /\ None \notin Reqs
  BY LenProperties, PrefillSchedulerAssumption DEF SchedInv, SchedTypes, Places
<1>14. S \subseteq Queued
  <2>1. \A i \in 1 .. k : i \in 1 .. Len(waiting)
    BY <1>5, <1>13
  <2> QED
    BY <1>6, <2>1 DEF First, Queued
<1>15. split => long \in Queued /\ long \notin S
  <2> SUFFICES ASSUME split PROVE long \in Queued /\ long \notin S
    OBVIOUS
  <2>1. k + 1 \in 1 .. Len(waiting) /\ long = waiting[k + 1]
    BY <1>5, <1>8, <1>12, <1>13
  <2>2. \A i \in 1 .. k : i \in 1 .. Len(waiting) /\ i # k + 1
    BY <1>5, <1>13
  <2>3. \A i \in 1 .. k : waiting[i] # long
    BY <1>13, <2>1, <2>2
  <2> QED
    BY <1>6, <2>1, <2>3 DEF First, Queued
<1>16. ~ split => long = None
  BY <1>8
<1>17. \A q \in Queued : q \in Reqs /\ q # chunked /\ q # None
  BY QueuedBlank
<1>18. /\ b \in [reqs : SUBSET Reqs, extend : {TRUE}, chunked : {None, long}]
       /\ b.reqs = old \cup S \cup ({long} \ {None}) /\ long \in Reqs \cup {None}
       /\ old \subseteq Reqs
  BY <1>4, <1>11, <1>13, <1>14, <1>15, <1>16, <1>17 DEF Batch
<1>19. w \in [Reqs -> Record] /\ \A q \in Reqs : q # chunked => w[q] = req[q]
  <2>1. CASE chunked = None
    BY <1>3, <2>1 DEF WithChunk, Stashed, SchedInv, SchedTypes
  <2>2. CASE chunked # None
    BY <1>3, <2>2, ChunkRecord
  <2> QED
    BY <2>1, <2>2
<1>20. v \in [Reqs -> Record] /\ \A q \in Reqs : q \notin S => v[q] = w[q]
  BY <1>9, <1>19, WholeRecord
<1>21. /\ r \in [Reqs -> Record] /\ \A q \in Reqs : q # long => r[q] = v[q]
       /\ split => /\ r[long].end = room /\ r[long].prefix = v[long].prefix
                   /\ r[long].start = v[long].start /\ r[long].middle = v[long].middle
                   /\ r[long].computed = v[long].computed /\ r[long].first = v[long].first
                   /\ r[long].over = v[long].over
  <2>1. CASE ~ split
    BY <1>10, <1>20, <2>1
  <2>2. CASE split
    <3>1. long \in Reqs
      BY <1>15, <1>17, <2>2
    <3>2. PICK x : x = v[long]
      OBVIOUS
    <3>3. PICK y : y = [x EXCEPT !.end = room]
      OBVIOUS
    <3>4. room \in Nat
      BY <1>12, <2>2
    <3>5. x \in Record
      BY <1>20, <3>1, <3>2
    <3>6. /\ y \in Record /\ y.end = room /\ y.prefix = x.prefix /\ y.start = x.start
          /\ y.middle = x.middle /\ y.computed = x.computed /\ y.first = x.first
          /\ y.over = x.over
      BY <3>3, <3>4, <3>5 DEF Record
    <3>7. r = [v EXCEPT ![long] = y]
      BY <1>10, <2>2, <3>2, <3>3
    <3>8. r[long] = y /\ r \in [Reqs -> Record] /\ \A q \in Reqs : q # long => r[q] = v[q]
      BY <1>20, <3>1, <3>6, <3>7
    <3> QED
      BY <3>2, <3>6, <3>8
  <2> QED
    BY <2>1, <2>2
<1>22. ASSUME NEW q \in S
       PROVE  /\ q # long /\ q # chunked /\ q \in Reqs /\ Tokens[q] \in Nat
              /\ r[q].end = Tokens[q] /\ r[q].prefix = 0 /\ r[q].start = 0
              /\ r[q].middle = req[q].middle /\ r[q].computed = req[q].computed
              /\ r[q].first = req[q].first /\ r[q].over = req[q].over
              /\ req[q].computed = 0
  <2>1. q \in Queued /\ q \in Reqs /\ q # chunked /\ q # long
    BY <1>14, <1>15, <1>16, <1>17
  <2>2. w[q] = req[q] /\ r[q] = v[q]
    BY <1>19, <1>21, <2>1
  <2>3. req[q].prefix = 0 /\ req[q].start = 0 /\ req[q].computed = 0
    BY <2>1, QueuedBlank
  <2> QED
    BY <1>9, <1>19, <2>1, <2>2, <2>3, WholeRecord, PrefillSchedulerAssumption
<1>23. ASSUME split
       PROVE  /\ long # chunked /\ long \in Reqs
              /\ r[long].end < Tokens[long] /\ 0 <= r[long].end
              /\ r[long].prefix = 0 /\ r[long].start = 0
              /\ r[long].middle = req[long].middle /\ r[long].computed = req[long].computed
              /\ r[long].first = req[long].first /\ r[long].over = req[long].over
              /\ req[long].computed = 0
  <2>1. long \in Queued /\ long \notin S /\ long \in Reqs /\ long # chunked
    BY <1>15, <1>17, <1>23
  <2>2. v[long] = req[long]
    BY <1>19, <1>20, <2>1
  <2>3. req[long].prefix = 0 /\ req[long].start = 0 /\ req[long].computed = 0
    BY <2>1, QueuedBlank
  <2>4. Tokens[long] \in Nat /\ room \in 1 .. Tokens[long] - 1
    BY <1>12, <1>23, <2>1, PrefillSchedulerAssumption
  <2>5. 0 <= room /\ room < Tokens[long]
    BY <2>4
  <2> QED
    BY <1>21, <1>23, <2>1, <2>2, <2>3, <2>5
<1>24. ASSUME chunked # None
       PROVE  /\ chunked # long /\ r[chunked].end = Tokens[chunked]
              /\ r[chunked].prefix = req[chunked].computed
              /\ r[chunked].start = req[chunked].computed
              /\ r[chunked].middle = req[chunked].middle
              /\ r[chunked].computed = req[chunked].computed
              /\ r[chunked].first = req[chunked].first /\ r[chunked].over = req[chunked].over
              /\ req[chunked].computed \in Nat /\ req[chunked].computed <= Tokens[chunked]
  <2>1. chunked \in Reqs /\ chunked \notin S /\ chunked # long
    BY <1>13, <1>14, <1>15, <1>16, <1>17, <1>24
  <2>2. r[chunked] = w[chunked]
    BY <1>20, <1>21, <2>1
  <2>3. ChunkEnd = Tokens[chunked]
    BY <1>2, <1>24 DEF IsFinal
  <2>4. req[chunked].computed \in Nat /\ Tokens[chunked] \in Nat
    BY <2>1, PrefillSchedulerAssumption DEF SchedInv, SchedTypes, Record
  <2> QED
    BY <1>3, <1>24, <2>1, <2>2, <2>3, <2>4, ChunkRecord
<1>25. \A q \in b.reqs : q \in S \/ (q = long /\ split) \/ (q = chunked /\ chunked # None)
  BY <1>4, <1>16, <1>18
<1>26. Admits(b, long, TRUE, r)
  <2>1. \A q \in Reqs : q \notin b.reqs /\ q # chunked => r[q] = req[q]
    BY <1>13, <1>18, <1>19, <1>20, <1>21
  <2>2. \A q \in b.reqs :
          /\ r[q].prefix <= req[q].computed /\ r[q].computed = req[q].computed
          /\ r[q].first = req[q].first /\ r[q].over = req[q].over
          /\ r[q].middle = req[q].middle
          /\ r[q].start = req[q].computed /\ req[q].computed <= r[q].end
          /\ IF q = long THEN r[q].end < Tokens[q] ELSE r[q].end = Tokens[q]
    <3> TAKE q \in b.reqs
    <3>1. CASE q \in S
      BY <1>22, <3>1
    <3>2. CASE q = long /\ split
      BY <1>23, <3>2
    <3>3. CASE q = chunked /\ chunked # None
      BY <1>24, <3>3
    <3> QED
      BY <1>25, <3>1, <3>2, <3>3
  <2>3. /\ b.reqs \cup ({long} \ {None}) = b.reqs /\ (long # None => long \in b.reqs)
        /\ (chunked # None => chunked \in b.reqs)
        /\ b.reqs \subseteq Queued \cup {chunked}
    BY <1>4, <1>14, <1>15, <1>16, <1>18
  <2> QED
    BY <1>18, <1>21, <2>1, <2>2, <2>3 DEF Admits
<1>27. Lone(b, r)
  <2> SUFFICES ASSUME solo, NEW q \in b.reqs PROVE ~ (r[q].start > 0)
    BY DEF Lone
  <2>1. chunked = None
    BY <1>2
  <2>2. r[q].start = 0
    BY <1>22, <1>23, <1>25, <2>1
  <2> QED
    BY <2>2
<1> QED
  BY <1>1, <1>12, <1>26, <1>27, NoSoloKeeps

-----------------------------------------------------------------------------
(* The environment. *)

\* ChunkAlone looks at the last batch and at its ranges only.
LEMMA SameRanges ==
    ASSUME SchedInv, solo' = solo, last' = last,
           \A z \in Reqs : req'[z].start = req[z].start /\ req'[z].end = req[z].end
    PROVE  ChunkAlone'
<1>1. last.reqs \subseteq Reqs
  BY DEF SchedInv, SchedTypes
<1>2. ASSUME solo, NEW z \in last.reqs, last.extend, req'[z].start > 0
      PROVE  /\ last.reqs = {z}
             /\ req'[z].end = Min({req'[z].start + ChunkSize, Tokens[z]})
  <2>1. z \in Reqs /\ req'[z].start = req[z].start /\ req'[z].end = req[z].end
    BY <1>1, <1>2
  <2>2. /\ last.reqs = {z}
        /\ req[z].end = Min({req[z].start + ChunkSize, Tokens[z]})
    BY <1>2, <2>1 DEF SchedInv, ChunkAlone
  <2> QED
    BY <2>1, <2>2
<1> QED
  BY <1>2 DEF ChunkAlone

LEMMA ArriveKeeps ==
    ASSUME SchedInv, NEW q \in Reqs, Arrive(q), UNCHANGED <<solo, overlap>>
    PROVE  SchedInv'
<1>0. Shared'
  BY DEF Arrive, SchedInv, Shared
<1>1. /\ q \in free /\ free' = free \ {q} /\ waiting' = Append(waiting, q)
      /\ running' = running /\ stale' = stale /\ req' = req /\ chunked' = chunked
      /\ last' = last /\ solos' = solos /\ solo' = solo /\ overlap' = overlap
  BY DEF Arrive
<1>2. waiting \in Seq(Reqs) /\ Len(waiting) \in Nat
  BY LenProperties DEF SchedInv, SchedTypes
<1>3. PICK w : w = Append(waiting, q)
  OBVIOUS
<1>4. /\ w \in Seq(Reqs) /\ Len(w) = Len(waiting) + 1 /\ w[Len(waiting) + 1] = q
      /\ \A i \in 1 .. Len(waiting) : w[i] = waiting[i]
  BY <1>2, <1>3, AppendProperties
<1>5. \A i : i \in 1 .. Len(w) <=> i \in 1 .. Len(waiting) \/ i = Len(waiting) + 1
  BY <1>2, <1>4
<1>6. Queued' = {w[i] : i \in 1 .. Len(w)}
  BY <1>1, <1>3 DEF Queued
<1>7. Queued' = Queued \cup {q}
  BY <1>4, <1>5, <1>6 DEF Queued
<1>8. /\ \A i \in 1 .. Len(waiting) : \A j \in 1 .. Len(waiting) :
            waiting[i] = waiting[j] => i = j
      /\ free \cap Queued = {} /\ running \cap (free \cup Queued) = {}
      /\ InFlight \cap (free \cup Queued \cup running) = {}
      /\ chunked \notin free \cup Queued \cup running
      /\ Reqs \subseteq free \cup Queued \cup running \cup InFlight \cup {chunked}
      /\ last.extend => last.chunked \in {None, chunked}
  BY DEF SchedInv, Places
<1>9. \A i \in 1 .. Len(waiting) : waiting[i] # q
  BY <1>1, <1>8 DEF Queued
<1>10. \A i \in 1 .. Len(w) : \A j \in 1 .. Len(w) : w[i] = w[j] => i = j
  BY <1>4, <1>5, <1>8, <1>9
<1>11. InFlight' = InFlight
  BY <1>1 DEF InFlight
<1>12. Places'
  <2>1. \A i \in 1 .. Len(waiting') : \A j \in 1 .. Len(waiting') :
           waiting'[i] = waiting'[j] => i = j
    BY <1>1, <1>3, <1>10
  <2>2. /\ free' \cap Queued' = {} /\ running' \cap (free' \cup Queued') = {}
        /\ InFlight' \cap (free' \cup Queued' \cup running') = {}
        /\ chunked' \notin free' \cup Queued' \cup running'
        /\ Reqs \subseteq free' \cup Queued' \cup running' \cup InFlight' \cup {chunked'}
        /\ last'.extend => last'.chunked \in {None, chunked'}
    BY <1>1, <1>7, <1>8, <1>11
  <2> QED
    BY <2>1, <2>2 DEF Places
<1>13. \A x \in Reqs : Recorded(x)'
  <2> TAKE x \in Reqs
  <2>1. Recorded(x)
    BY DEF SchedInv
  <2>2. free' \cup Queued' = free \cup Queued
    BY <1>1, <1>7
  <2> QED
    BY <1>1, <1>11, <2>1, <2>2 DEF Recorded
<1>14. SchedTypes'
  BY <1>1, <1>3, <1>4 DEF SchedInv, SchedTypes
<1>15. ChunkAlone'
  BY <1>1, SameRanges
<1>16. Alternating'
  BY <1>1 DEF SchedInv, Alternating
<1> QED
  BY <1>0, <1>12, <1>13, <1>14, <1>15, <1>16 DEF SchedInv

LEMMA FinishKeeps ==
    ASSUME SchedInv, NEW q \in Reqs, Finish(q), UNCHANGED <<solo, overlap>>
    PROVE  SchedInv'
<1>0. Shared'
  BY DEF Finish, SchedInv, Shared
<1>1. /\ free' = free /\ waiting' = waiting /\ running' = running /\ stale' = stale
      /\ chunked' = chunked /\ last' = last /\ solos' = solos
      /\ solo' = solo /\ overlap' = overlap /\ req[q].first = 1
  BY DEF Finish, queue
<1>2. req \in [Reqs -> Record]
  BY DEF SchedInv, SchedTypes
<1>3. PICK x : x = req[q]
  OBVIOUS
<1>4. PICK y : y = [x EXCEPT !.over = 1]
  OBVIOUS
<1>5. /\ y \in Record /\ y.prefix = x.prefix /\ y.start = x.start /\ y.end = x.end
      /\ y.parked = x.parked /\ y.middle = x.middle /\ y.computed = x.computed
      /\ y.first = x.first
  BY <1>2, <1>3, <1>4 DEF Record
<1>6. /\ req' = [req EXCEPT ![q] = y]
  BY <1>3, <1>4 DEF Finish
<1>7. req' \in [Reqs -> Record] /\ req'[q] = y /\ \A z \in Reqs : z # q => req'[z] = req[z]
  BY <1>2, <1>5, <1>6
<1>8. Queued' = Queued /\ InFlight' = InFlight
  BY <1>1 DEF Queued, InFlight
<1>9. Recorded(q)'
  <2>1. Recorded(q) /\ Blank.first = 0
    BY DEF SchedInv, Blank
  <2>2. q \notin free \cup Queued /\ q # chunked /\ ~ (q \in InFlight /\ overlap)
    BY <1>1, <2>1 DEF Recorded
  <2> QED
    BY <1>1, <1>3, <1>5, <1>7, <1>8, <2>1, <2>2 DEF Recorded
<1>10. \A z \in Reqs : z # q => Recorded(z)'
  <2> SUFFICES ASSUME NEW z \in Reqs, z # q PROVE Recorded(z)'
    OBVIOUS
  <2>1. Recorded(z) /\ req'[z] = req[z]
    BY <1>7 DEF SchedInv
  <2> QED
    BY <1>1, <1>8, <2>1 DEF Recorded
<1>11. SchedTypes' /\ Places'
  BY <1>1, <1>7, <1>8 DEF SchedInv, SchedTypes, Places
<1>12. \A z \in Reqs : /\ req'[z].start = req[z].start /\ req'[z].end = req[z].end
                       /\ req'[z].parked = req[z].parked
  BY <1>3, <1>5, <1>7
<1>13. ChunkAlone'
  BY <1>1, <1>12, SameRanges
<1>14. Alternating'
  <2>1. chunked # None => chunked \in Reqs
    BY DEF SchedInv, SchedTypes
  <2> QED
    BY <1>1, <1>12, <2>1 DEF SchedInv, Alternating
<1> QED
  BY <1>0, <1>9, <1>10, <1>11, <1>13, <1>14 DEF SchedInv

LEMMA AbortKeeps ==
    ASSUME SchedInv, AbortChunked, UNCHANGED <<solo, overlap>>
    PROVE  SchedInv'
<1>0. Shared'
  BY DEF AbortChunked, SchedInv, Shared
<1>1. /\ chunked # None /\ chunked' = None /\ free' = free \cup {chunked}
      /\ req' = [req EXCEPT ![chunked] = Blank]
      /\ last' = [last EXCEPT !.reqs = @ \ {chunked}, !.chunked = None]
      /\ stale' = IF stale = chunked THEN None ELSE stale
      /\ solos' = 0 /\ waiting' = waiting /\ running' = running
      /\ solo' = solo /\ overlap' = overlap
  BY DEF AbortChunked
<1>2. /\ chunked \in Reqs /\ req \in [Reqs -> Record] /\ None \notin Reqs
      /\ last \in [reqs : SUBSET Reqs, extend : BOOLEAN, chunked : Reqs \cup {None}]
  BY <1>1, PrefillSchedulerAssumption DEF SchedInv, SchedTypes
<1>3. /\ last' \in [reqs : SUBSET Reqs, extend : BOOLEAN, chunked : Reqs \cup {None}]
      /\ last'.reqs = last.reqs \ {chunked} /\ last'.extend = last.extend
      /\ last'.chunked = None
  BY <1>1, <1>2
<1>4. /\ req' \in [Reqs -> Record] /\ req'[chunked] = Blank
      /\ \A q \in Reqs : q # chunked => req'[q] = req[q]
  <2>1. Blank \in Record
    BY DEF Blank, Record
  <2> QED
    BY <1>1, <1>2, <2>1
<1>5. Queued' = Queued
  BY <1>1 DEF Queued
<1>6. InFlight' = InFlight /\ chunked \notin InFlight
  BY <1>1, <1>2, <1>3 DEF InFlight
<1>7. /\ free \cap Queued = {} /\ running \cap (free \cup Queued) = {}
      /\ InFlight \cap (free \cup Queued \cup running) = {}
      /\ chunked \notin free \cup Queued \cup running
      /\ Reqs \subseteq free \cup Queued \cup running \cup InFlight \cup {chunked}
      /\ \A i \in 1 .. Len(waiting) : \A j \in 1 .. Len(waiting) :
            waiting[i] = waiting[j] => i = j
  BY DEF SchedInv, Places
<1>8. Places'
  <2>1. None \notin free' \cup Queued' \cup running'
    <3>1. Queued \subseteq Reqs
      BY ElementOfSeq DEF Queued, SchedInv, SchedTypes
    <3> QED
      BY <1>1, <1>2, <1>5, <3>1 DEF SchedInv, SchedTypes
  <2>2. /\ free' \cap Queued' = {} /\ running' \cap (free' \cup Queued') = {}
        /\ InFlight' \cap (free' \cup Queued' \cup running') = {}
        /\ Reqs \subseteq free' \cup Queued' \cup running' \cup InFlight' \cup {chunked'}
    BY <1>1, <1>5, <1>6, <1>7
  <2> QED
    BY <1>1, <1>3, <1>7, <2>1, <2>2 DEF Places
<1>9. \A q \in Reqs : Recorded(q)'
  <2> TAKE q \in Reqs
  <2>0. Recorded(q) /\ q # chunked'
    BY <1>1, <1>2 DEF SchedInv
  <2>1. CASE q = chunked
    <3>1. q \notin running' \cup InFlight'
      BY <1>1, <1>6, <1>7, <2>1
    <3> QED
      BY <1>4, <2>0, <2>1, <3>1 DEF Recorded
  <2>2. CASE q # chunked
    <3>1. /\ req'[q] = req[q]
          /\ q \in free' \cup Queued' => q \in free \cup Queued
      BY <1>1, <1>4, <1>5, <2>2
    <3> QED
      BY <1>1, <1>6, <2>0, <3>1 DEF Recorded
  <2> QED
    BY <2>1, <2>2
<1>10. SchedTypes'
  BY <1>1, <1>2, <1>3, <1>4 DEF SchedInv, SchedTypes
<1>11. ChunkAlone'
  <2> SUFFICES ASSUME solo, NEW q \in last.reqs \ {chunked}, last.extend, req'[q].start > 0
               PROVE  /\ last.reqs \ {chunked} = {q}
                      /\ req'[q].end = Min({req'[q].start + ChunkSize, Tokens[q]})
    BY <1>1, <1>3 DEF ChunkAlone
  <2>1. req'[q] = req[q]
    BY <1>2, <1>4
  <2> QED
    BY <2>1 DEF SchedInv, ChunkAlone
<1>12. Alternating'
  BY <1>1 DEF Alternating
<1> QED
  BY <1>0, <1>8, <1>9, <1>10, <1>11, <1>12 DEF SchedInv

-----------------------------------------------------------------------------
(* The theorems. *)

\* SchedInv is an invariant of the scheduler for every set of requests, every
\* prompt and chunk length, with and without solo passes and overlap: a
\* request is in one place, and its record (extend_range, prefix,
\* inflight_middle_chunks) says what was computed of it there.
THEOREM SchedulerInvariant == Spec => []SchedInv
<1>1. Init => SchedInv
  <2> SUFFICES ASSUME Init PROVE SchedInv
    OBVIOUS
  <2>1. /\ free = Reqs /\ waiting = <<>> /\ running = {} /\ stale = None /\ solos = 0
        /\ req = [q \in Reqs |-> Blank] /\ chunked = None
        /\ last.reqs = {} /\ last.extend = FALSE /\ last.chunked = None
        /\ solo \in BOOLEAN /\ overlap \in BOOLEAN
    BY DEF Init, NoBatch, Batch
  <2>2. None \notin Reqs /\ <<>> \in Seq(Reqs) /\ Len(<<>>) = 0 /\ Blank \in Record
    BY PrefillSchedulerAssumption, EmptySeq DEF Blank, Record
  <2>3. \A i \in 1 .. 0 : FALSE
    OBVIOUS
  <2>4. Queued = {} /\ InFlight = {}
    BY <2>1, <2>2, <2>3 DEF Queued, InFlight
  <2>5. SchedTypes
    <3>1. last \in [reqs : SUBSET Reqs, extend : BOOLEAN, chunked : Reqs \cup {None}]
      BY DEF Init, NoBatch, Batch
    <3> QED
      BY <2>1, <2>2, <3>1 DEF SchedTypes
  <2>6. Places
    BY <2>1, <2>2, <2>3, <2>4 DEF Places
  <2>7. \A q \in Reqs : Recorded(q)
    BY <2>1, <2>2, <2>4 DEF Recorded
  <2>8. Shared
    BY DEF Init, Shared
  <2> QED
    BY <2>1, <2>5, <2>6, <2>7, <2>8 DEF SchedInv, ChunkAlone, Alternating
<1>2. SchedInv /\ [Next]_vars => SchedInv'
  <2> SUFFICES ASSUME SchedInv, [Next]_vars PROVE SchedInv'
    OBVIOUS
  <2>1. CASE Next
    <3>0. UNCHANGED <<solo, overlap>>
      BY <2>1 DEF Next
    <3>s. /\ step_us(Cardinality(Rows)) \in Nat /\ yieldLeft \in Int
          /\ yieldLeft > 0 /\ chunked # None => owed > 0
      <4>1. Cardinality(Rows) \in Nat
        BY PrefillSchedulerAssumption, MergeFacts, FS_Subset, FS_CardinalityType
      <4> QED
        BY <4>1, PrefillSchedulerAssumption DEF step_us, SchedInv, Shared
    <3>1. CASE Yield
      <4>1. PICK left : left = yieldLeft - step_us(Cardinality(Rows))
        OBVIOUS
      <4>2. left \in Int /\ left + step_us(Cardinality(Rows)) >= yieldLeft
        BY <3>s, <4>1
      <4>3. Decode(left) /\ _decode_rows /\ owed > 0
        BY <3>1, <3>s, <4>1 DEF Yield
      <4> QED
        BY <3>0, <4>2, <4>3, DecodeKeeps
    <3>2. CASE StockDefer
      <4>1. yieldLeft + step_us(Cardinality(Rows)) >= yieldLeft
        BY <3>s
      <4>2. ~ (yieldLeft > 0) /\ Decode(yieldLeft)
        BY <3>2, <3>s DEF StockDefer
      <4> QED
        BY <3>0, <3>s, <4>1, <4>2, DecodeKeeps
    <3>3. CASE SoloPass
      BY <3>0, <3>3, SoloPassKeeps
    <3>4. CASE ChunkPass
      BY <3>0, <3>4, ChunkPassKeeps
    <3>5. CASE StockPass
      BY <3>0, <3>5, StockPassKeeps
    <3>6. CASE NoPass
      <4>1. PICK left : left = Cancelled
        OBVIOUS
      <4>2. left \in Int /\ ~ (left > 0)
        BY <4>1, CancelledIsOver
      <4>3. Decode(left) /\ chunked = None
        BY <3>6, <4>1 DEF NoPass
      <4> QED
        BY <3>0, <4>2, <4>3, DecodeKeeps
    <3>7. ASSUME NEW q \in Reqs, Arrive(q) PROVE SchedInv'
      BY <3>0, <3>7, ArriveKeeps
    <3>8. ASSUME NEW q \in Reqs, Finish(q) PROVE SchedInv'
      BY <3>0, <3>8, FinishKeeps
    <3>9. CASE AbortChunked
      BY <3>0, <3>9, AbortKeeps
    <3> QED
      BY <2>1, <3>1, <3>2, <3>3, <3>4, <3>5, <3>6, <3>7, <3>8, <3>9 DEF Next, Round
  <2>2. CASE UNCHANGED vars
    <3>1. /\ solo' = solo /\ overlap' = overlap /\ free' = free /\ waiting' = waiting
          /\ running' = running /\ stale' = stale /\ req' = req /\ chunked' = chunked
          /\ last' = last /\ solos' = solos
      BY <2>2 DEF vars, queue
    <3>2. Queued' = Queued /\ InFlight' = InFlight
      BY <3>1 DEF Queued, InFlight
    <3>3. SchedTypes' /\ Places' /\ ChunkAlone' /\ Alternating'
      BY <3>1, <3>2 DEF SchedInv, SchedTypes, Places, ChunkAlone, Alternating
    <3>4. \A q \in Reqs : Recorded(q)'
      BY <3>1, <3>2 DEF SchedInv, Recorded
    <3>5. Shared'
      BY <2>2 DEF vars, SchedInv, Shared
    <3> QED
      BY <3>3, <3>4, <3>5 DEF SchedInv
  <2> QED
    BY <2>1, <2>2
<1> QED
  BY <1>1, <1>2, PTL DEF Spec

\* What the invariant says of one request, wherever it is.
LEMMA EveryRecord ==
    ASSUME SchedInv, NEW q \in Reqs
    PROVE  /\ req[q].prefix <= req[q].computed
           /\ q = chunked => req[q].end <= req[q].computed
           /\ q \in running => req[q].computed = Tokens[q] /\ req[q].first = 1
           /\ req[q].first = 1 => req[q].computed = Tokens[q]
<1>1. Recorded(q) /\ req[q].computed \in Nat /\ q # None
  BY PrefillSchedulerAssumption DEF SchedInv, SchedTypes, Record
<1>2. q \in free \cup Queued \cup running \cup InFlight \cup {chunked}
  BY DEF SchedInv, Places
<1>3. q \in running => req[q].computed = Tokens[q] /\ req[q].first = 1
  BY <1>1 DEF Recorded
<1>4. q = chunked => req[q].end <= req[q].computed
  BY <1>1 DEF Recorded
<1>5. CASE q \in free \cup Queued
  BY <1>1, <1>3, <1>4, <1>5 DEF Recorded, Blank
<1>6. CASE q \in running \cup InFlight
  BY <1>1, <1>3, <1>4, <1>6 DEF Recorded
<1>7. CASE q = chunked
  BY <1>1, <1>3, <1>4, <1>7 DEF Recorded
<1> QED
  BY <1>2, <1>5, <1>6, <1>7

\* The prefix that init_next_round_input stashes was computed, and no
\* request decodes on a prompt with a hole, however bypass, park and resume
\* interleave with late results.
THEOREM SchedulerPrefixComputed == Spec => []PrefixComputed
<1>1. SchedInv => PrefixComputed
  <2> SUFFICES ASSUME SchedInv PROVE PrefixComputed
    OBVIOUS
  <2>1. running \subseteq Reqs /\ (chunked # None => chunked \in Reqs)
    BY DEF SchedInv, SchedTypes
  <2> QED
    BY <2>1, EveryRecord DEF PrefixComputed
<1> QED
  BY <1>1, SchedulerInvariant, PTL

\* Every request in the running batch has had its first token, and a first
\* token comes only of a whole prompt: the countdown of
\* inflight_middle_chunks survives parked chunks and late results.
THEOREM SchedulerFirstToken == Spec => []FirstToken
<1>1. SchedInv => FirstToken
  BY EveryRecord DEF FirstToken
<1> QED
  BY <1>1, SchedulerInvariant, PTL

\* With solo passes (DSV41_PREFILL_BYPASS_SOLO) a chunk after the first runs
\* alone in its batch, and as long as a chunk can be.
THEOREM SchedulerChunkAlone == Spec => []ChunkAlone
<1>1. SchedInv => ChunkAlone
  BY DEF SchedInv
<1> QED
  BY <1>1, SchedulerInvariant, PTL

\* Between two chunks of the long prompt there is at most one solo pass: the
\* parked mark is set by one and cleared by no other round than a chunk's.
THEOREM SchedulerAlternate == Spec => []Alternate
<1>1. SchedInv => Alternate
  BY DEF SchedInv, SchedTypes, Alternate
<1> QED
  BY <1>1, SchedulerInvariant, PTL

\* While the prompt is there and streams run beside it, no prefill pass
\* starts before they have had the share of the last chunk's time that
\* yield_budget_us promises, for every percentage, cost model and cap.
THEOREM SchedulerShare == Spec => ShareHonoured
<1> DEFINE Starts == SoloPass \/ ChunkPass \/ StockPass
<1>1. SchedInv => [Starts /\ Rows # {} => served * (100 - Pct) >= owed]_vars
  <2> SUFFICES ASSUME SchedInv, Starts, Rows # {} PROVE served * (100 - Pct) >= owed
    OBVIOUS
  <2>1. MayPrefill
    BY DEF SoloPass, ChunkPass, StockPass
  <2>2. PICK d : d = 100 - Pct
    OBVIOUS
  <2>3. d \in Nat /\ d >= 1
    BY <2>2, PrefillSchedulerAssumption
  <2>4. /\ yieldLeft \in Int /\ owed \in Nat /\ served \in Nat
        /\ chunked = None => owed = 0
        /\ served >= owed \/ d * (yieldLeft + served) >= owed
    BY <2>2 DEF SchedInv, Shared
  <2>5. served * d \in Nat /\ served * d = d * served
    BY <2>3, <2>4
  <2>6. CASE yieldLeft > 0
    <3>1. chunked = None
      BY <2>1, <2>6 DEF MayPrefill, _decode_rows
    <3> QED
      BY <2>2, <2>4, <2>5, <3>1
  <2>7. CASE served >= owed
    <3>1. served * d >= served
      BY <2>3, <2>4
    <3> QED
      BY <2>2, <2>4, <2>5, <2>7, <3>1
  <2>8. CASE ~ (yieldLeft > 0) /\ d * (yieldLeft + served) >= owed
    <3>1. yieldLeft + served \in Int /\ yieldLeft + served <= served /\ served \in Int
      BY <2>4, <2>8
    <3>2. d * (yieldLeft + served) <= d * served /\ d * (yieldLeft + served) \in Int
      BY <2>3, <3>1, LessTimes
    <3> QED
      BY <2>2, <2>4, <2>5, <2>8, <3>2
  <2> QED
    BY <2>4, <2>6, <2>7, <2>8
<1> QED
  BY <1>1, SchedulerInvariant, PTL DEF ShareHonoured

\* For every budget, share and cost model, defer_step yields a round only for a
\* chunk of the prompt that is there: an abort, or the end of the last stream,
\* leaves nothing that would hold back the next prompt.
THEOREM SchedulerYieldIsOwed == Spec => YieldIsOwed
<1>1. SchedInv => [Yield => owed > 0]_vars
  BY DEF SchedInv, Shared, Yield
<1> QED
  BY <1>1, SchedulerInvariant, PTL DEF YieldIsOwed
=============================================================================
