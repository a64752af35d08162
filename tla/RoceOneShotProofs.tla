------------------------- MODULE RoceOneShotProofs -------------------------
(***************************************************************************)
(* Proofs about RoceOneShot, for any number of ranks, HCAs and blocks, any *)
(* grids, any number of operations up to the wrap of the sequence, spins   *)
(* that expire, queue pairs that break and proxies that are stopped and    *)
(* restarted.  The send queues are assumed to hold two operations; the     *)
(* code's hold 64.                                                         *)
(***************************************************************************)
EXTENDS RoceOneShot, FiniteSetTheorems, SequenceTheorems, TLAPS

(* The inductive invariant. *)

\* The operation in flight on rank r, or the next one, and its blocks.
Cur(r)     == epoch[r] + 1
CurSize(r) == Grid[Succ(epoch[r])]
CurGrid(r) == 1 .. CurSize(r)

GridSizes == {Grid[s] : s \in Seqs}

Staged(r, b) == send[r][SlotOf(Cur(r))][b] = Cur(r)

\* The blocks of the operation that arrived at the stage counter, and those
\* that are done.
Counted(r) == {b \in CurGrid(r) : Staged(r, b) /\ pc[r][b] # "arrive"}
Retired(r) == {b \in CurGrid(r) : pc[r][b] = "done"}

\* Every flag of the current operation has arrived.
AllFlags(r) == \A l \in Links(r) : flag[r][l[1]][SlotOf(Cur(r))][l[2]] >= Cur(r)

\* Operation s is whole in its send slot.
Intact(r, s) ==
    /\ nbytes[r][SlotOf(s)] = Grid[s]
    /\ \A b \in 1 .. Grid[s] : send[r][SlotOf(s)][b] = s

\* A rank's kernel: an active block works on the operation after the epoch,
\* what a block staged is in the slot, the doorbell has rung exactly when every
\* block was counted, and the operations rung since the epoch are in their slots.
BlockInv(r, b) ==
    /\ pc[r][b] # "done" => b \in CurGrid(r)
    /\ pc[r][b] \notin {"done", "start"} => op[r][b] = Cur(r)
    /\ pc[r][b] = "stage" => ~Staged(r, b)
    /\ pc[r][b] \in {"arrive", "ring", "wait", "reduce", "tail"} => Staged(r, b)
    /\ poison[r] = 0 /\ (pc[r][b] = "start" \/ Finished(r)) => ~Staged(r, b)
    /\ pc[r][b] = "ring" => /\ Counted(r) = CurGrid(r)
                            /\ nbytes[r][SlotOf(Cur(r))] = CurSize(r)
    /\ pc[r][b] = "reduce" => AllFlags(r)
    /\ \A k \in SlotIds : send[r][k][b] <= Cur(r)

KernelInv(r) ==
    /\ error[r] = poison[r]
    /\ seq[r] \in {epoch[r], Cur(r)}
    /\ \A b \in Blocks : BlockInv(r, b)
    /\ seq[r] = Cur(r) => Counted(r) = CurGrid(r)
    /\ Counted(r) = CurGrid(r) =>
          seq[r] = Cur(r) \/ \E b \in Blocks : pc[r][b] = "ring"
    /\ \A s \in epoch[r] .. seq[r] : s > 0 => Intact(r, s)

\* The never-reset counters, modulo a grid size, count the current operation's
\* arrivals if it is of that size, and are 0 otherwise.
Counts(counter, r, S) ==
    \A g \in GridSizes :
        counter[r][g] % g = IF g = CurSize(r) THEN Cardinality(S) % g ELSE 0

StageInv(r) == Counts(stage, r, Counted(r))

\* On a rank without an error, the tail counter counts the blocks that are done,
\* and these reduced under all their flags.
TailInv(r) ==
    error[r] = 0 =>
        /\ Counts(tail, r, Retired(r))
        /\ Finished(r) => stored[r] = IF epoch[r] = 0 THEN {} ELSE 1 .. Grid[epoch[r]]
        /\ ~Finished(r) =>
             /\ stored[r] = {b \in CurGrid(r) : pc[r][b] \in {"tail", "done"}}
             /\ \A b \in Retired(r) : Staged(r, b)
             /\ stored[r] # {} => AllFlags(r)

\* The proxy posts what rang, with the size of the operation it has open.
ProxyInv(r) ==
    /\ last_seq[r] <= upto[r] /\ upto[r] <= seq[r]
    /\ todo[r] # {} => Posting(r)
    /\ Posting(r) => bytes[r] = Grid[last_seq[r] + 1]

\* A sequence seen on a link was posted there: up to last_seq while the open
\* operation is still to be posted there, and one further after that.
Seen(r, l, s) ==
    /\ s <= seq[r] /\ s <= last_seq[r] + 1
    /\ broken[r] = {} /\ (l \in todo[r] \/ ~Posting(r)) => s <= last_seq[r]

\* Only a rank with a broken queue pair posts an operation again.
Before(r, s, t) == s < t \/ (s = t /\ t = last_seq[r] + 1 /\ broken[r] # {})

QueueInv(r, l) ==
    /\ \A i \in 1 .. Len(qp[r][l]) :
         /\ qp[r][l][i].s > 0 /\ qp[r][l][i].n = Grid[qp[r][l][i].s]
         /\ Seen(r, l, qp[r][l][i].s)
         /\ \A k \in SlotIds : Before(r, flag[l[1]][r][k][l[2]], qp[r][l][i].s)
    /\ \A i, j \in 1 .. Len(qp[r][l]) :
         i < j => Before(r, qp[r][l][i].s, qp[r][l][j].s)

\* The payload of a receive slot is the one its flag names, or that of the
\* queue's head once that was written.
Holds(r, l, s) ==
    \A b \in 1 .. Grid[s] : recv[l[1]][r][SlotOf(s)][l[2]][b] = s

Overwritten(r, l, k) == written[r][l] = 1 /\ SlotOf(qp[r][l][1].s) = k

SlotInv(r, l) ==
    /\ \A k \in SlotIds :
         LET s == flag[l[1]][r][k][l[2]]
         IN  /\ Seen(r, l, s)
             /\ s # 0 => SlotOf(s) = k /\ (~Overwritten(r, l, k) => Holds(r, l, s))
    /\ written[r][l] = 1 => Holds(r, l, qp[r][l][1].s)

LinkInv(r) == \A l \in Links(r) : QueueInv(r, l) /\ SlotInv(r, l)

\* A published epoch was seen from every peer; a broken link holds its peer
\* back.
EpochInv(r) ==
    /\ \A l \in Links(r) : flag[r][l[1]][SlotOf(epoch[r])][l[2]] >= epoch[r]
    /\ broken[r] # {} => \E l \in broken[r] : \A k \in SlotIds :
                            flag[l[1]][r][k][l[2]] <= last_seq[r]

RankInv(r) ==
    /\ KernelInv(r) /\ StageInv(r) /\ TailInv(r) /\ ProxyInv(r) /\ LinkInv(r)
    /\ EpochInv(r)

\* The functions over ranks and links that TypeOK speaks of pointwise.
Shape ==
    /\ DOMAIN todo = Ranks /\ DOMAIN broken = Ranks
    /\ DOMAIN qp = Ranks /\ DOMAIN written = Ranks
    /\ \A r \in Ranks : DOMAIN qp[r] = Links(r) /\ DOMAIN written[r] = Links(r)

RoceInv == TypeOK /\ Shape /\ \A r \in Ranks : RankInv(r)

-----------------------------------------------------------------------------
(* Arithmetic of sequences, slots and counters. *)

LEMMA ModUnique ==
    \A a \in Nat, x \in Nat \ {0}, q \in Int, m \in Nat :
        a = x * q + m /\ m < x => a % x = m
OBVIOUS

\* Small dividends.
LEMMA ModSmall == \A x \in Nat \ {0} : \A a \in 0 .. x - 1 : a % x = a
OBVIOUS

LEMMA ModSelf == \A x \in Nat \ {0} : x % x = 0
OBVIOUS

LEMMA ModType == \A x \in Nat \ {0} : \A a \in Int : a % x \in 0 .. x - 1
OBVIOUS

\* The remainder of a successor.
LEMMA ModSucc ==
    ASSUME NEW x \in Nat \ {0}, NEW a \in Nat
    PROVE  (a + 1) % x = IF (a % x) + 1 = x THEN 0 ELSE (a % x) + 1
<1> DEFINE q == a \div x
           m == a % x
<1>1. a = x * q + m /\ q \in Int /\ m \in 0 .. x - 1
  OBVIOUS
<1> HIDE DEF q, m
<1>2. CASE m + 1 = x
  <2>1. a + 1 = x * (q + 1) + 0 /\ q + 1 \in Int /\ a + 1 \in Nat /\ 0 < x
    BY <1>1, <1>2
  <2>2. (a + 1) % x = 0
    BY <2>1, ModUnique, 0 \in Nat
  <2> QED
    BY <1>2, <2>2 DEF m
<1>3. CASE m + 1 # x
  <2>1. a + 1 = x * q + (m + 1) /\ m + 1 \in Nat /\ m + 1 < x /\ a + 1 \in Nat
    BY <1>1, <1>3
  <2>2. (a + 1) % x = m + 1
    BY <1>1, <2>1, ModUnique
  <2> QED
    BY <1>3, <2>2 DEF m
<1> QED
  BY <1>2, <1>3

\* A counter kept modulo MaxBlocks counts modulo every grid size.
LEMMA CounterStep ==
    ASSUME NEW g \in GridSizes, NEW c \in 0 .. MaxBlocks - 1, NEW n \in Nat,
           c % g = n % g
    PROVE  /\ ((c + 1) % MaxBlocks) % g = (n + 1) % g
           /\ (c + 1) % g = (n + 1) % g
<1>1. g \in Nat \ {0} /\ MaxBlocks \in Nat \ {0} /\ MaxBlocks % g = 0
  BY RoceAssumption, GridAssumption DEF GridSizes, Blocks
<1>2. (c + 1) % g = (n + 1) % g
  <2>1. c \in Nat
    BY <1>1
  <2>2. (c + 1) % g = IF (c % g) + 1 = g THEN 0 ELSE (c % g) + 1
    BY <1>1, <2>1, ModSucc
  <2>3. (n + 1) % g = IF (n % g) + 1 = g THEN 0 ELSE (n % g) + 1
    BY <1>1, ModSucc
  <2> QED
    BY <2>2, <2>3
<1>3. CASE c + 1 < MaxBlocks
  BY <1>1, <1>2, <1>3, ModSmall
<1>4. CASE c + 1 = MaxBlocks
  <2>1. (c + 1) % MaxBlocks = 0 /\ 0 % g = 0
    BY <1>1, <1>4, ModSelf
  <2> QED
    BY <1>1, <1>2, <1>4, <2>1
<1> QED
  BY <1>1, <1>2, <1>3, <1>4

LEMMA Consts ==
    /\ SeqMod \in Nat \ {0, 1} /\ MaxBlocks \in Nat \ {0}
    /\ World \in Nat \ {0, 1} /\ HcaCount \in Nat \ {0}
    /\ \A s \in Seqs : Grid[s] \in 1 .. MaxBlocks /\ Grid[s] \in GridSizes
BY RoceAssumption DEF Blocks, GridSizes

LEMMA SuccFacts ==
    ASSUME NEW e \in Seqs
    PROVE  /\ Succ(e) \in Seqs
           /\ e + 1 \in Seqs => Succ(e) = e + 1
           /\ e + 1 \notin Seqs => Succ(e) = 0
<1>1. e \in Nat /\ SeqMod \in Nat \ {0} /\ e < SeqMod /\ 0 < SeqMod
  BY Consts DEF Seqs
<1>2. CASE e + 1 < SeqMod
  <2>1. (e + 1) % SeqMod = e + 1
    BY <1>1, <1>2, ModSmall
  <2> QED
    BY <1>1, <1>2, <2>1 DEF Seqs, Succ
<1>3. CASE e + 1 = SeqMod
  <2>1. (e + 1) % SeqMod = 0
    BY <1>1, <1>3, ModSelf
  <2> QED
    BY <1>1, <1>3, <2>1 DEF Seqs, Succ
<1> QED
  BY <1>1, <1>2, <1>3

LEMMA SlotFacts ==
    /\ \A s \in Nat : SlotOf(s) \in SlotIds
    /\ \A s \in Nat : SlotOf(s + 1) # SlotOf(s)
    /\ \A s, t \in Nat : SlotOf(s) = SlotOf(t) /\ s <= t /\ t <= s + 1 => s = t
    /\ SlotIds = {0, 1}
BY DEF SlotOf, SlotIds, Slots

\* There is a link to every peer, and each has its reverse.
LEMMA LinkFacts ==
    /\ \A r \in Ranks : Links(r) # {}
    /\ \A r \in Ranks : \A l \in Links(r) :
         /\ l[1] \in Ranks /\ l[1] # r /\ l[2] \in Hcas /\ l = <<l[1], l[2]>>
         /\ <<r, l[2]>> \in Links(l[1])
    /\ \A r, p \in Ranks : r # p => <<p, 0>> \in Links(r)
<1>1. 0 \in Hcas /\ 0 \in Ranks /\ 1 \in Ranks
  BY Consts DEF Hcas, Ranks
<1>2. \A r, p \in Ranks : \A h \in Hcas : r # p => <<p, h>> \in Links(r)
  BY DEF Links, Peers
<1>3. \A r \in Ranks : \E p \in Ranks : r # p
  BY <1>1
<1>4. \A r \in Ranks : \A l \in Links(r) :
        l[1] \in Ranks /\ l[1] # r /\ l[2] \in Hcas /\ l = <<l[1], l[2]>>
  BY DEF Links, Peers
<1>5. \A r \in Ranks : Links(r) # {}
  BY <1>1, <1>2, <1>3
<1>6. \A r \in Ranks : \A l \in Links(r) : <<r, l[2]>> \in Links(l[1])
  BY <1>2, <1>4
<1>7. \A r, p \in Ranks : r # p => <<p, 0>> \in Links(r)
  BY <1>1, <1>2
<1> QED
  BY <1>4, <1>5, <1>6, <1>7

-----------------------------------------------------------------------------
(* What the invariant says of a state. *)

\* Types of the words, per rank and link.
LEMMA Words ==
    ASSUME TypeOK, NEW r \in Ranks
    PROVE  /\ epoch[r] \in Seqs /\ seq[r] \in Seqs /\ last_seq[r] \in Seqs
           /\ upto[r] \in Seqs /\ Seqs \subseteq Nat
           /\ \A s \in Seqs : Grid[s] \in Nat \ {0} /\ Grid[s] \in Blocks
           /\ CurSize(r) \in Nat \ {0} /\ CurSize(r) \in GridSizes
           /\ CurGrid(r) \subseteq Blocks /\ Blocks \subseteq Nat
           /\ \A l \in Links(r) : \A k \in SlotIds :
                flag[l[1]][r][k][l[2]] \in Seqs /\ flag[r][l[1]][k][l[2]] \in Seqs
<1>1. /\ epoch[r] \in Seqs /\ seq[r] \in Seqs /\ last_seq[r] \in Seqs
      /\ upto[r] \in Seqs /\ Seqs \subseteq Nat
  BY DEF TypeOK, Seqs
<1>2. \A s \in Seqs : Grid[s] \in Nat \ {0} /\ Grid[s] \in Blocks
  BY Consts DEF Blocks
<1>3. CurSize(r) \in Nat \ {0} /\ CurSize(r) \in GridSizes /\ CurSize(r) \in Blocks
  BY <1>1, <1>2, SuccFacts, Consts DEF CurSize
<1>4. CurGrid(r) \subseteq Blocks /\ Blocks \subseteq Nat
  BY <1>3, Consts DEF CurGrid, Blocks
<1>5. \A l \in Links(r), k \in SlotIds :
        flag[l[1]][r][k][l[2]] \in Seqs /\ flag[r][l[1]][k][l[2]] \in Seqs
  <2>1. flag \in [Ranks -> [Ranks -> [SlotIds -> [Hcas -> Seqs]]]]
    BY DEF TypeOK
  <2> TAKE l \in Links(r), k \in SlotIds
  <2>2. l[1] \in Ranks /\ l[2] \in Hcas
    BY LinkFacts
  <2> QED
    BY <2>1, <2>2
<1> QED
  BY <1>1, <1>2, <1>3, <1>4, <1>5

\* "Peers cannot get further than one op ahead of us."
LEMMA OneAhead ==
    ASSUME RoceInv, NEW r \in Ranks, NEW p \in Ranks
    PROVE  epoch[r] <= epoch[p] + 1
<1>1. CASE r = p
  BY <1>1, Words DEF RoceInv
<1>2. CASE r # p
  <2>1. <<p, 0>> \in Links(r) /\ <<r, 0>> \in Links(p)
    BY <1>2, LinkFacts
  <2>2. SlotOf(epoch[r]) \in SlotIds
    BY Words, SlotFacts DEF RoceInv
  <2> DEFINE f == flag[r][p][SlotOf(epoch[r])][0]
  <2>3. f >= epoch[r]
    BY <2>1 DEF RoceInv, RankInv, EpochInv
  <2>4. f <= seq[p]
    BY <2>1, <2>2 DEF RoceInv, RankInv, LinkInv, SlotInv, Seen
  <2>5. seq[p] <= epoch[p] + 1
    BY Words DEF RoceInv, RankInv, KernelInv, Cur
  <2>6. f \in Nat /\ epoch[r] \in Nat /\ epoch[p] \in Nat /\ seq[p] \in Nat
    BY <2>1, <2>2, Words DEF RoceInv
  <2> HIDE DEF f
  <2> QED
    BY <2>3, <2>4, <2>5, <2>6
<1> QED
  BY <1>1, <1>2

\* Every peer has seen our last operation but one.
LEMMA SeenByPeers ==
    ASSUME RoceInv, NEW r \in Ranks, NEW l \in Links(r)
    PROVE  \E k \in SlotIds : flag[l[1]][r][k][l[2]] >= epoch[r] - 1
<1>1. l[1] \in Ranks /\ <<r, l[2]>> \in Links(l[1])
  BY LinkFacts
<1> DEFINE k == SlotOf(epoch[l[1]])
<1>2. k \in SlotIds /\ epoch[l[1]] \in Nat /\ epoch[r] \in Nat
  BY <1>1, Words, SlotFacts DEF RoceInv
<1>3. flag[l[1]][r][k][l[2]] >= epoch[l[1]]
  BY <1>1 DEF RoceInv, RankInv, EpochInv
<1>4. epoch[l[1]] >= epoch[r] - 1
  BY <1>1, <1>2, OneAhead
<1>5. flag[l[1]][r][k][l[2]] \in Nat
  BY <1>2, Words DEF RoceInv
<1> HIDE DEF k
<1>6. flag[l[1]][r][k][l[2]] >= epoch[r] - 1
  BY <1>2, <1>3, <1>4, <1>5
<1> QED
  BY <1>2, <1>6

\* A rank with a broken queue pair is held back.
LEMMA HeldBack ==
    ASSUME RoceInv, NEW r \in Ranks, broken[r] # {}
    PROVE  epoch[r] <= last_seq[r] + 1
<1>1. PICK l \in broken[r] : \A k \in SlotIds : flag[l[1]][r][k][l[2]] <= last_seq[r]
  BY DEF RoceInv, RankInv, EpochInv
<1>2. l \in Links(r)
  BY DEF RoceInv, TypeOK
<1>3. PICK k \in SlotIds : flag[l[1]][r][k][l[2]] >= epoch[r] - 1
  BY <1>2, SeenByPeers
<1>4. /\ flag[l[1]][r][k][l[2]] \in Nat
      /\ epoch[r] \in Nat /\ last_seq[r] \in Nat
  BY <1>2, Words DEF RoceInv
<1> QED
  BY <1>1, <1>3, <1>4

\* What a link has still to deliver is not older than the epoch.
LEMMA QueueRecent ==
    ASSUME RoceInv, NEW r \in Ranks, NEW l \in Links(r),
           NEW i \in 1 .. Len(qp[r][l])
    PROVE  /\ qp[r][l][i].s \in Seqs /\ qp[r][l][i].s >= epoch[r]
           /\ qp[r][l][i].s <= seq[r]
<1> DEFINE s == qp[r][l][i].s
<1>1. s \in Seqs
  <2>1. qp[r][l] \in Seq([s : Seqs, n : 0 .. MaxBlocks])
    BY DEF RoceInv, TypeOK
  <2>2. qp[r][l][i] \in [s : Seqs, n : 0 .. MaxBlocks]
    BY <2>1, ElementOfSeq
  <2> QED
    BY <2>2
<1>2. PICK k \in SlotIds : flag[l[1]][r][k][l[2]] >= epoch[r] - 1
  BY SeenByPeers
<1>3. Before(r, flag[l[1]][r][k][l[2]], s) /\ s <= seq[r]
  BY <1>2 DEF RoceInv, RankInv, LinkInv, QueueInv, Seen
<1>4. /\ flag[l[1]][r][k][l[2]] \in Nat /\ s \in Nat
      /\ epoch[r] \in Nat /\ last_seq[r] \in Nat
  BY <1>1, Words DEF RoceInv
<1> HIDE DEF s
<1>5. s >= epoch[r]
  BY <1>2, <1>3, <1>4, HeldBack DEF Before
<1> QED
  BY <1>1, <1>3, <1>5 DEF s

\* The proxy trails the epoch by one operation at most.
LEMMA PostedRecent ==
    ASSUME RoceInv, NEW r \in Ranks
    PROVE  /\ Posted(r) \in {last_seq[r], last_seq[r] + 1}
           /\ Posted(r) \in Nat /\ Posted(r) <= seq[r] /\ Posted(r) >= epoch[r] - 1
           /\ Posting(r) => Succ(last_seq[r]) = last_seq[r] + 1 /\ last_seq[r] + 1 \in Seqs
<1>1. /\ epoch[r] \in Nat /\ last_seq[r] \in Seqs /\ upto[r] \in Seqs /\ seq[r] \in Seqs
      /\ Seqs \subseteq Nat
  BY Words DEF RoceInv
<1>2. last_seq[r] <= upto[r] /\ upto[r] <= seq[r]
  BY DEF RoceInv, RankInv, ProxyInv
<1>3. Posting(r) => last_seq[r] + 1 <= seq[r] /\ last_seq[r] + 1 \in Seqs
  <2>1. SUFFICES ASSUME Posting(r)
                 PROVE  last_seq[r] + 1 <= seq[r] /\ last_seq[r] + 1 \in Seqs
    OBVIOUS
  <2>2. last_seq[r] < upto[r]
    BY <1>1, <1>2, <2>1, last_seq[r] \in Nat, upto[r] \in Nat DEF Posting
  <2> QED
    BY <1>1, <1>2, <2>2, Consts DEF Seqs
<1>4. Posting(r) => Succ(last_seq[r]) = last_seq[r] + 1
  BY <1>1, <1>3, SuccFacts
<1>5. /\ Posted(r) \in {last_seq[r], last_seq[r] + 1} /\ Posted(r) \in Nat
      /\ Posted(r) <= seq[r]
  <2>1. \/ Posted(r) = last_seq[r]
        \/ Posting(r) /\ Posted(r) = last_seq[r] + 1
    BY <1>4 DEF Posted
  <2>2. last_seq[r] \in Nat /\ upto[r] \in Nat /\ seq[r] \in Nat
    BY <1>1
  <2> QED
    BY <1>2, <1>3, <2>1, <2>2
<1>6. Posted(r) >= epoch[r] - 1
  <2>1. CASE broken[r] # {}
    BY <1>1, <1>5, <2>1, HeldBack
  <2>2. CASE broken[r] = {}
    <3>1. PICK l \in Links(r) : todo[r] # {} => l \in todo[r]
      <4>1. todo[r] \subseteq Links(r)
        BY DEF RoceInv, TypeOK
      <4> QED
        BY <4>1, LinkFacts
    <3>2. PICK k \in SlotIds : flag[l[1]][r][k][l[2]] >= epoch[r] - 1
      BY SeenByPeers
    <3>3. flag[l[1]][r][k][l[2]] \in Nat
      BY Words DEF RoceInv
    <3>4. Seen(r, l, flag[l[1]][r][k][l[2]])
      BY DEF RoceInv, RankInv, LinkInv, SlotInv
    <3>5. flag[l[1]][r][k][l[2]] <= Posted(r)
      BY <1>1, <1>4, <2>2, <3>1, <3>3, <3>4 DEF Seen, Posted
    <3> QED
      BY <1>1, <1>5, <3>2, <3>3, <3>5
  <2> QED
    BY <2>1, <2>2
<1> QED
  BY <1>3, <1>4, <1>5, <1>6

\* While its queue pairs work, a rank always finds room for the next operation.
LEMMA Roomy ==
    ASSUME RoceInv, NEW r \in Ranks, broken[r] = {}, NEW l \in todo[r]
    PROVE  Len(qp[r][l]) <= 1
<1>1. l \in Links(r) /\ Posting(r)
  BY DEF RoceInv, TypeOK, RankInv, ProxyInv
<1>2. Len(qp[r][l]) \in Nat
  BY <1>1, LenProperties DEF RoceInv, TypeOK
<1>3. \A i \in 1 .. Len(qp[r][l]) :
        /\ qp[r][l][i].s \in Nat /\ qp[r][l][i].s >= epoch[r]
        /\ qp[r][l][i].s <= last_seq[r]
  BY <1>1, QueueRecent, Words DEF RoceInv, RankInv, LinkInv, QueueInv, Seen
<1>4. last_seq[r] <= epoch[r] /\ last_seq[r] \in Nat /\ epoch[r] \in Nat
  BY <1>1, Words, PostedRecent DEF RoceInv, RankInv, KernelInv, ProxyInv, Cur, Posting
<1>5. SUFFICES ASSUME 2 <= Len(qp[r][l]) PROVE FALSE
  BY <1>2
<1>6. 1 \in 1 .. Len(qp[r][l]) /\ 2 \in 1 .. Len(qp[r][l])
  BY <1>2, <1>5
<1>7. qp[r][l][1].s < qp[r][l][2].s
  BY <1>1, <1>6 DEF RoceInv, RankInv, LinkInv, QueueInv, Before
<1> QED
  BY <1>3, <1>4, <1>6, <1>7

-----------------------------------------------------------------------------
(* The properties that follow. *)

LEMMA ReducesOwnOpHolds == RoceInv => ReducesOwnOp
<1> SUFFICES ASSUME RoceInv, NEW r \in Ranks, NEW b \in Blocks,
                    pc[r][b] = "reduce", NEW l \in Links(r)
             PROVE  recv[r][l[1]][SlotOf(op[r][b])][l[2]][b] = op[r][b]
  BY DEF ReducesOwnOp
<1> DEFINE p == l[1]
           h == l[2]
           m == <<r, l[2]>>
           s == Cur(r)
           f == flag[r][p][SlotOf(s)][h]
<1>1. p \in Ranks /\ m \in Links(p) /\ m[1] = r /\ m[2] = h
  BY LinkFacts
<1>2. BlockInv(r, b)
  BY DEF RoceInv, RankInv, KernelInv
<1>3. op[r][b] = s /\ b \in CurGrid(r) /\ f >= s /\ op[r][b] \in Seqs
  BY <1>2 DEF BlockInv, AllFlags, RoceInv, TypeOK
<1>4. s \in Nat /\ f \in Nat /\ SlotOf(s) \in SlotIds /\ epoch[r] \in Nat
  BY <1>1, Words, SlotFacts DEF RoceInv, Cur
<1>5. CurGrid(r) = 1 .. Grid[s]
  BY <1>3, SuccFacts, Words DEF CurGrid, CurSize, Cur, RoceInv
<1>6. SlotInv(p, m) /\ QueueInv(p, m)
  BY <1>1 DEF RoceInv, RankInv, LinkInv
<1>7. seq[p] <= s + 1 /\ seq[p] \in Nat
  <2>1. seq[p] \in {epoch[p], epoch[p] + 1}
    BY <1>1 DEF RoceInv, RankInv, KernelInv, Cur
  <2>2. epoch[p] <= epoch[r] + 1 /\ epoch[p] \in Nat
    BY <1>1, OneAhead, Words DEF RoceInv
  <2> QED
    BY <1>4, <2>1, <2>2 DEF Cur
<1>8. f = s
  <2>1. f <= seq[p] /\ SlotOf(f) = SlotOf(s)
    BY <1>1, <1>3, <1>4, <1>6 DEF SlotInv, Seen, Cur
  <2> QED
    BY <1>3, <1>4, <1>7, <2>1, SlotFacts
<1> HIDE DEF s, f
<1>9. Holds(p, m, s)
  <2>1. CASE ~Overwritten(p, m, SlotOf(s))
    BY <1>1, <1>3, <1>4, <1>6, <1>8, <2>1 DEF SlotInv, f, s, Cur
  <2>2. CASE Overwritten(p, m, SlotOf(s))
    <3> DEFINE t == qp[p][m][1].s
    <3>1. Len(qp[p][m]) \in Nat /\ written[p][m] \in 0 .. Len(qp[p][m]) /\ written[p][m] = 1
      BY <1>1, <2>2, LenProperties DEF RoceInv, TypeOK, Overwritten
    <3>2. 1 \in 1 .. Len(qp[p][m])
      BY <3>1
    <3>3. t \in Nat /\ t <= seq[p] /\ SlotOf(t) = SlotOf(s)
      BY <1>1, <2>2, <3>2, QueueRecent, Words DEF Overwritten, RoceInv
    <3>4. Before(p, f, t)
      BY <1>1, <1>4, <1>6, <3>2 DEF QueueInv, f
    <3>5. t = s
      BY <1>4, <1>7, <1>8, <3>3, <3>4, SlotFacts DEF Before
    <3> QED
      BY <1>6, <3>1, <3>5 DEF SlotInv
  <2> QED
    BY <2>1, <2>2
<1> QED
  BY <1>1, <1>3, <1>5, <1>9 DEF Holds

LEMMA LockStepHolds == RoceInv => LockStep
BY OneAhead DEF LockStep

LEMMA HealthyHolds == RoceInv => HealthyIsComplete
BY DEF RoceInv, RankInv, TailInv, HealthyIsComplete

\* The operations without a payload in the network are few and whole.
LEMMA SendSlotIntactHolds == RoceInv => SendSlotIntact
<1> SUFFICES ASSUME RoceInv, NEW r \in Ranks
             PROVE  /\ Unposted(r) <= Slots
                    /\ \A s \in Unsent(r) : Intact(r, s)
  BY DEF SendSlotIntact, Intact
<1>1. /\ Posted(r) \in Nat /\ Posted(r) <= seq[r] /\ Posted(r) >= epoch[r] - 1
      /\ seq[r] \in Seqs /\ epoch[r] \in Nat /\ seq[r] <= epoch[r] + 1
  BY PostedRecent, Words DEF RoceInv, RankInv, KernelInv, Cur
<1>2. SeqMod \in Nat \ {0} /\ seq[r] < SeqMod /\ seq[r] \in Nat
  BY <1>1, Consts DEF Seqs
<1>3. Unposted(r) = seq[r] - Posted(r)
  BY <1>1, <1>2, ModSmall DEF Unposted
<1>4. \A i \in 1 .. Unposted(r) : (Posted(r) + i) % SeqMod = Posted(r) + i
  BY <1>1, <1>2, <1>3, ModSmall
<1>5. \A s \in epoch[r] .. seq[r] : s > 0 => Intact(r, s)
  BY DEF RoceInv, RankInv, KernelInv
<1>6. \A i \in 1 .. Unposted(r) : Intact(r, (Posted(r) + i) % SeqMod)
  <2> TAKE i \in 1 .. Unposted(r)
  <2>1. Posted(r) + i \in epoch[r] .. seq[r] /\ Posted(r) + i > 0
    BY <1>1, <1>2, <1>3
  <2> QED
    BY <1>4, <1>5, <2>1
<1>7. \A l \in Links(r) : \A i \in (1 + written[r][l]) .. Len(qp[r][l]) :
        Intact(r, qp[r][l][i].s)
  <2> SUFFICES ASSUME NEW l \in Links(r),
                      NEW i \in (1 + written[r][l]) .. Len(qp[r][l])
               PROVE  Intact(r, qp[r][l][i].s)
    OBVIOUS
  <2>1. Len(qp[r][l]) \in Nat /\ written[r][l] \in 0 .. Len(qp[r][l])
    BY LenProperties DEF RoceInv, TypeOK
  <2>2. i \in 1 .. Len(qp[r][l])
    BY <2>1
  <2> DEFINE s == qp[r][l][i].s
  <2>3. s \in Nat /\ epoch[r] <= s /\ s <= seq[r]
    BY <2>2, QueueRecent, Words DEF RoceInv
  <2>4. s > 0
    BY <2>2 DEF RoceInv, RankInv, LinkInv, QueueInv
  <2> HIDE DEF s
  <2>5. s \in epoch[r] .. seq[r]
    BY <1>1, <1>2, <2>3
  <2>6. Intact(r, s)
    BY <1>5, <2>4, <2>5
  <2> QED
    BY <2>6 DEF s
<1>8. \A s \in Unsent(r) : Intact(r, s)
  BY <1>6, <1>7 DEF Unsent
<1> QED
  BY <1>1, <1>2, <1>3, <1>8 DEF Slots

-----------------------------------------------------------------------------
(* What leaves each part of a rank's invariant as it was. *)

LEMMA KernelFrame ==
    ASSUME NEW q \in Ranks, KernelInv(q),
           epoch'[q] = epoch[q], poison'[q] = poison[q], error'[q] = error[q],
           seq'[q] = seq[q], nbytes'[q] = nbytes[q], send'[q] = send[q],
           pc'[q] = pc[q], op'[q] = op[q],
           AllFlags(q) => AllFlags(q)'
    PROVE  KernelInv(q)'
<1>1. /\ Cur(q)' = Cur(q) /\ CurSize(q)' = CurSize(q) /\ CurGrid(q)' = CurGrid(q)
      /\ Finished(q)' = Finished(q)
      /\ \A b : Staged(q, b)' = Staged(q, b)
  BY DEF Cur, CurSize, CurGrid, Staged, Finished
<1>2. Counted(q)' = Counted(q) /\ \A s : Intact(q, s)' = Intact(q, s)
  BY <1>1 DEF Counted, Intact
<1>3. ASSUME NEW b \in Blocks PROVE BlockInv(q, b)'
  BY <1>1, <1>2 DEF KernelInv, BlockInv
<1> QED
  BY <1>1, <1>2, <1>3 DEF KernelInv

LEMMA StageFrame ==
    ASSUME NEW q \in Ranks, StageInv(q),
           epoch'[q] = epoch[q], stage'[q] = stage[q], Counted(q)' = Counted(q)
    PROVE  StageInv(q)'
BY DEF StageInv, Counts, CurSize

LEMMA TailFrame ==
    ASSUME NEW q \in Ranks, TailInv(q),
           epoch'[q] = epoch[q], error'[q] = error[q], tail'[q] = tail[q],
           stored'[q] = stored[q], Finished(q)' = Finished(q),
           \A b \in CurGrid(q) :
              /\ pc'[q][b] = "done" <=> pc[q][b] = "done"
              /\ pc'[q][b] = "tail" <=> pc[q][b] = "tail"
              /\ Staged(q, b) => Staged(q, b)',
           AllFlags(q) => AllFlags(q)'
    PROVE  TailInv(q)'
<1>1. /\ Cur(q)' = Cur(q) /\ CurSize(q)' = CurSize(q) /\ CurGrid(q)' = CurGrid(q)
  BY DEF Cur, CurSize, CurGrid
<1>2. Retired(q)' = Retired(q)
  BY <1>1 DEF Retired
<1>3. {b \in CurGrid(q) : pc'[q][b] \in {"tail", "done"}}
        = {b \in CurGrid(q) : pc[q][b] \in {"tail", "done"}}
  OBVIOUS
<1>4. \A b \in Retired(q) : b \in CurGrid(q)
  BY DEF Retired
<1>5. Counts(tail, q, Retired(q))' = Counts(tail, q, Retired(q))
  BY <1>1, <1>2 DEF Counts
<1> QED
  BY <1>1, <1>2, <1>3, <1>4, <1>5 DEF TailInv

LEMMA ProxyFrame ==
    ASSUME NEW q \in Ranks, ProxyInv(q),
           last_seq'[q] = last_seq[q], upto'[q] = upto[q], todo'[q] = todo[q],
           bytes'[q] = bytes[q], seq'[q] = seq[q]
    PROVE  ProxyInv(q)'
BY DEF ProxyInv, Posting

LEMMA LinkFrame ==
    ASSUME NEW q \in Ranks, LinkInv(q),
           qp'[q] = qp[q], written'[q] = written[q], broken'[q] = broken[q],
           last_seq'[q] = last_seq[q], todo'[q] = todo[q], upto'[q] = upto[q],
           seq'[q] = seq[q],
           \A l \in Links(q) : /\ flag'[l[1]][q] = flag[l[1]][q]
                               /\ recv'[l[1]][q] = recv[l[1]][q]
    PROVE  LinkInv(q)'
<1> SUFFICES ASSUME NEW l \in Links(q) PROVE QueueInv(q, l)' /\ SlotInv(q, l)'
  BY DEF LinkInv
<1>1. /\ \A s : Seen(q, l, s)' = Seen(q, l, s)
      /\ \A s, t : Before(q, s, t)' = Before(q, s, t)
      /\ \A s : Holds(q, l, s)' = Holds(q, l, s)
      /\ \A k : Overwritten(q, l, k)' = Overwritten(q, l, k)
  BY DEF Seen, Before, Holds, Overwritten, Posting
<1>2. QueueInv(q, l) /\ SlotInv(q, l)
  BY DEF LinkInv
<1>3. QueueInv(q, l)'
  BY <1>1, <1>2 DEF QueueInv
<1>4. SlotInv(q, l)'
  BY <1>1, <1>2 DEF SlotInv
<1> QED
  BY <1>3, <1>4

LEMMA EpochFrame ==
    ASSUME NEW q \in Ranks, EpochInv(q),
           epoch'[q] = epoch[q], broken'[q] = broken[q], last_seq'[q] = last_seq[q],
           flag' = flag
    PROVE  EpochInv(q)'
BY DEF EpochInv

LEMMA FlagsFrame ==
    ASSUME NEW q \in Ranks, epoch'[q] = epoch[q], flag'[q] = flag[q], AllFlags(q)
    PROVE  AllFlags(q)'
BY DEF AllFlags, Cur

LEMMA CountedFrame ==
    ASSUME NEW q \in Ranks, epoch'[q] = epoch[q],
           \A b \in CurGrid(q) :
              Staged(q, b)' /\ pc'[q][b] # "arrive" <=> Staged(q, b) /\ pc[q][b] # "arrive"
    PROVE  Counted(q)' = Counted(q)
BY DEF Counted, CurGrid, CurSize

\* Nothing of what the rank's kernel, proxy and queue pairs keep has changed.
Untouched(q) ==
    /\ epoch'[q] = epoch[q] /\ poison'[q] = poison[q] /\ stage'[q] = stage[q]
    /\ tail'[q] = tail[q] /\ seq'[q] = seq[q] /\ nbytes'[q] = nbytes[q]
    /\ error'[q] = error[q] /\ send'[q] = send[q] /\ pc'[q] = pc[q]
    /\ op'[q] = op[q] /\ stored'[q] = stored[q] /\ last_seq'[q] = last_seq[q]
    /\ upto'[q] = upto[q] /\ bytes'[q] = bytes[q] /\ todo'[q] = todo[q]
    /\ qp'[q] = qp[q] /\ written'[q] = written[q] /\ broken'[q] = broken[q]

LEMMA RankFrame ==
    ASSUME NEW q \in Ranks, RankInv(q), Untouched(q), flag' = flag,
           \A l \in Links(q) : recv'[l[1]][q] = recv[l[1]][q]
    PROVE  RankInv(q)'
<1> USE DEF Untouched
<1>1. AllFlags(q) => AllFlags(q)'
  BY FlagsFrame
<1>2. Counted(q)' = Counted(q) /\ \A b : Staged(q, b)' = Staged(q, b)
  BY CountedFrame DEF Staged, Cur
<1>3. KernelInv(q)'
  BY <1>1, KernelFrame DEF RankInv
<1>4. StageInv(q)'
  BY <1>2, StageFrame DEF RankInv
<1>5. Finished(q)' = Finished(q)
  BY DEF Finished
<1>6. TailInv(q)'
  BY <1>1, <1>2, <1>5, TailFrame DEF RankInv
<1>7. ProxyInv(q)'
  BY ProxyFrame DEF RankInv
<1>8. LinkInv(q)'
  BY LinkFrame DEF RankInv
<1>9. EpochInv(q)'
  BY EpochFrame DEF RankInv
<1> QED
  BY <1>3, <1>4, <1>6, <1>7, <1>8, <1>9 DEF RankInv

\* A step of the host, the proxy's supervision, or a stuttering step.
LEMMA QuietStep ==
    ASSUME RoceInv, TypeOK',
           UNCHANGED <<device, region, kernel, last_seq, upto, bytes, todo, net>>
    PROVE  RoceInv'
<1>1. Shape'
  BY DEF RoceInv, Shape, net
<1>2. ASSUME NEW q \in Ranks PROVE RankInv(q)'
  BY RankFrame DEF RoceInv, Untouched, device, region, kernel, net
<1> QED
  BY <1>1, <1>2 DEF RoceInv

-----------------------------------------------------------------------------
(* The initial state. *)

LEMMA InitInv == Init => RoceInv
<1> SUFFICES ASSUME Init PROVE RoceInv
  OBVIOUS
<1>1. 0 \in Seqs /\ 0 \in 0 .. MaxBlocks - 1 /\ 0 \in 0 .. MaxBlocks
  BY Consts DEF Seqs
<1>2. \A r \in Ranks : \A l \in Links(r) :
        /\ qp[r][l] = <<>> /\ written[r][l] = 0 /\ Len(qp[r][l]) = 0
        /\ qp[r][l] \in Seq([s : Seqs, n : 0 .. MaxBlocks])
  BY EmptySeq DEF Init
<1>3. \A r \in Ranks : todo[r] \subseteq Links(r) /\ broken[r] \subseteq Links(r)
  BY DEF Init
<1>4. TypeOK
  <2>1. Depth \in Nat /\ 0 \in 0 .. 0
    BY RoceAssumption
  <2>2. send \in [Ranks -> [SlotIds -> [Blocks -> Seqs]]]
    BY <1>1 DEF Init
  <2>3. recv \in [Ranks -> [Ranks -> [SlotIds -> [Hcas -> [Blocks -> Seqs]]]]]
    BY <1>1 DEF Init
  <2>4. flag \in [Ranks -> [Ranks -> [SlotIds -> [Hcas -> Seqs]]]]
    BY <1>1 DEF Init
  <2>5. /\ stage \in [Ranks -> [Blocks -> 0 .. MaxBlocks - 1]]
        /\ tail \in [Ranks -> [Blocks -> 0 .. MaxBlocks - 1]]
        /\ nbytes \in [Ranks -> [SlotIds -> 0 .. MaxBlocks]]
    BY <1>1 DEF Init
  <2>6. /\ pc \in [Ranks -> [Blocks -> {"done", "start", "stage", "arrive", "ring",
                                        "wait", "reduce", "tail"}]]
        /\ op \in [Ranks -> [Blocks -> Seqs]]
        /\ stored \in [Ranks -> SUBSET Blocks]
    BY <1>1 DEF Init
  <2>7. \A r \in Ranks : \A l \in Links(r) : written[r][l] \in 0 .. Len(qp[r][l])
                                          /\ Len(qp[r][l]) <= Depth
    BY <1>2, <2>1
  <2> QED
    BY <1>1, <1>2, <1>3, <2>2, <2>3, <2>4, <2>5, <2>6, <2>7 DEF Init, TypeOK
<1>5. Shape
  BY DEF Init, Shape
<1>6. ASSUME NEW r \in Ranks PROVE RankInv(r)
  <2>1. /\ epoch[r] = 0 /\ seq[r] = 0 /\ error[r] = 0 /\ poison[r] = 0
        /\ last_seq[r] = 0 /\ upto[r] = 0 /\ todo[r] = {} /\ stored[r] = {}
        /\ broken[r] = {}
        /\ \A b \in Blocks : pc[r][b] = "done"
        /\ \A k \in SlotIds : \A b \in Blocks : send[r][k][b] = 0
        /\ \A g \in Blocks : stage[r][g] = 0 /\ tail[r][g] = 0
    BY DEF Init
  <2>2. Cur(r) = 1 /\ SlotOf(Cur(r)) \in SlotIds
    BY <2>1, SlotFacts DEF Cur
  <2>3. CurGrid(r) \subseteq Blocks /\ CurSize(r) \in Nat \ {0} /\ CurGrid(r) # {}
    BY <1>4, Words DEF CurGrid
  <2>4. \A b \in Blocks : ~Staged(r, b)
    BY <2>1, <2>2 DEF Staged
  <2>5. Counted(r) = {} /\ Retired(r) = CurGrid(r)
    BY <2>1, <2>3, <2>4 DEF Counted, Retired
  <2>6. KernelInv(r)
    <3>1. ASSUME NEW b \in Blocks PROVE BlockInv(r, b)
      BY <2>1, <2>2, <2>4 DEF BlockInv
    <3>2. \A s \in epoch[r] .. seq[r] : ~(s > 0)
      BY <2>1
    <3> QED
      BY <2>1, <2>2, <2>3, <2>5, <3>1, <3>2 DEF KernelInv
  <2>7. Cardinality(Counted(r)) = 0 /\ Cardinality(Retired(r)) = CurSize(r)
    BY <2>3, <2>5, FS_EmptySet, FS_Interval DEF CurGrid
  <2>8. \A g \in GridSizes : g \in Nat \ {0} /\ 0 % g = 0 /\ g % g = 0 /\ g \in Blocks
    BY Consts, ModSelf DEF GridSizes, Blocks
  <2>9. StageInv(r)
    BY <2>1, <2>7, <2>8 DEF StageInv, Counts
  <2>10. TailInv(r)
    <3>1. Counts(tail, r, Retired(r))
      BY <2>1, <2>7, <2>8 DEF Counts
    <3>2. Finished(r)
      BY <2>1 DEF Finished
    <3> QED
      BY <2>1, <3>1, <3>2 DEF TailInv
  <2>11. ProxyInv(r)
    BY <2>1 DEF ProxyInv, Posting
  <2>12. \A l \in Links(r) : \A k \in SlotIds : flag[l[1]][r][k][l[2]] = 0
                                             /\ flag[r][l[1]][k][l[2]] = 0
    BY LinkFacts DEF Init
  <2>13. LinkInv(r)
    <3> SUFFICES ASSUME NEW l \in Links(r) PROVE QueueInv(r, l) /\ SlotInv(r, l)
      BY DEF LinkInv
    <3>1. 1 .. Len(qp[r][l]) = {}
      BY <1>2
    <3>2. QueueInv(r, l)
      BY <3>1 DEF QueueInv
    <3>3. Seen(r, l, 0)
      BY <2>1 DEF Seen
    <3>4. SlotInv(r, l)
      BY <1>2, <2>12, <3>3 DEF SlotInv
    <3> QED
      BY <3>2, <3>4
  <2>14. EpochInv(r)
    <3>1. SlotOf(epoch[r]) \in SlotIds
      BY <2>1, SlotFacts
    <3> QED
      BY <2>1, <2>12, <3>1 DEF EpochInv
  <2> QED
    BY <2>6, <2>9, <2>10, <2>11, <2>13, <2>14 DEF RankInv
<1> QED
  BY <1>4, <1>5, <1>6 DEF RoceInv

-----------------------------------------------------------------------------
(* The steps that touch none of it. *)

LEMMA CheckHealthStep ==
    ASSUME RoceInv, NEW r \in Ranks, CheckHealth(r)
    PROVE  RoceInv'
<1>1. TypeOK'
  BY DEF CheckHealth, RoceInv, TypeOK, device, region, kernel, proxy, net
<1> QED
  BY <1>1, QuietStep DEF CheckHealth, proxy

LEMMA StopStep ==
    ASSUME RoceInv, NEW r \in Ranks, Stop(r)
    PROVE  RoceInv'
<1>1. TypeOK'
  BY DEF Stop, RoceInv, TypeOK, device, region, kernel, net
<1> QED
  BY <1>1, QuietStep DEF Stop

LEMMA LeaveStep ==
    ASSUME RoceInv, NEW r \in Ranks, Leave(r)
    PROVE  RoceInv'
<1>1. TypeOK'
  BY DEF Leave, RoceInv, TypeOK, device, region, kernel, net
<1> QED
  BY <1>1, QuietStep DEF Leave

LEMMA StartStep ==
    ASSUME RoceInv, NEW r \in Ranks, Start(r)
    PROVE  RoceInv'
<1>1. TypeOK'
  BY DEF Start, RoceInv, TypeOK, device, region, kernel, net
<1> QED
  BY <1>1, QuietStep DEF Start

-----------------------------------------------------------------------------
(* The kernel's steps. *)

LEMMA GotoFacts ==
    ASSUME TypeOK, NEW r \in Ranks, NEW b \in Blocks,
           NEW w \in {"done", "stage", "arrive", "ring", "wait", "reduce", "tail"},
           Goto(r, b, w)
    PROVE  /\ pc' \in [Ranks -> [Blocks -> {"done", "start", "stage", "arrive", "ring",
                                            "wait", "reduce", "tail"}]]
           /\ pc'[r][b] = w
           /\ \A q \in Ranks \ {r} : pc'[q] = pc[q]
           /\ \A c \in Blocks \ {b} : pc'[r][c] = pc[r][c]
BY DEF TypeOK, Goto

\* A step of one rank's kernel leaves the others, and what they exchanged.
LEMMA KernelStep ==
    ASSUME RoceInv, TypeOK', NEW r \in Ranks,
           UNCHANGED <<recv, flag, last_seq, upto, bytes, todo, net>>,
           \A q \in Ranks \ {r} : Untouched(q),
           KernelInv(r)', StageInv(r)', TailInv(r)',
           ProxyInv(r)', LinkInv(r)', EpochInv(r)'
    PROVE  RoceInv'
<1>1. Shape'
  BY DEF RoceInv, Shape, net
<1>2. ASSUME NEW q \in Ranks \ {r} PROVE RankInv(q)'
  BY RankFrame DEF RoceInv
<1>3. RankInv(r)'
  BY DEF RankInv
<1> QED
  BY <1>1, <1>2, <1>3 DEF RoceInv

\* So does a step that neither rings nor publishes, and the proxy's part too.
LEMMA BlockStep ==
    ASSUME RoceInv, TypeOK', NEW r \in Ranks,
           UNCHANGED <<recv, flag, last_seq, upto, bytes, todo, net, seq, epoch>>,
           \A q \in Ranks \ {r} : Untouched(q),
           KernelInv(r)', StageInv(r)', TailInv(r)'
    PROVE  RoceInv'
<1>1. ProxyInv(r)'
  BY ProxyFrame DEF RoceInv, RankInv
<1>2. LinkInv(r)'
  BY LinkFrame DEF RoceInv, RankInv, net
<1>3. EpochInv(r)'
  BY EpochFrame DEF RoceInv, RankInv, net
<1> QED
  BY <1>1, <1>2, <1>3, KernelStep

\* A block moves on; nobody arrives at the stage counter and the doorbell is
\* left alone.
LEMMA KernelMove ==
    ASSUME NEW r \in Ranks, NEW b \in Blocks, KernelInv(r),
           epoch'[r] = epoch[r], seq'[r] = seq[r], nbytes'[r] = nbytes[r],
           send'[r] = send[r], error'[r] = poison'[r],
           \A c \in Blocks \ {b} : pc'[r][c] = pc[r][c] /\ op'[r][c] = op[r][c],
           pc[r][b] \notin {"arrive", "ring"}, pc'[r][b] \notin {"arrive", "ring"},
           poison'[r] = 0 => poison[r] = 0 /\ ~Finished(r)',
           AllFlags(r) => AllFlags(r)', CurGrid(r) \subseteq Blocks,
           pc'[r][b] # "done" => b \in CurGrid(r),
           pc'[r][b] \notin {"done", "start"} => op'[r][b] = Cur(r),
           pc'[r][b] = "stage" => ~Staged(r, b),
           pc'[r][b] \in {"wait", "reduce", "tail"} => Staged(r, b),
           pc'[r][b] # "start",
           pc'[r][b] = "reduce" => AllFlags(r)
    PROVE  KernelInv(r)' /\ Counted(r)' = Counted(r)
<1>1. /\ Cur(r)' = Cur(r) /\ CurSize(r)' = CurSize(r) /\ CurGrid(r)' = CurGrid(r)
      /\ \A c : Staged(r, c)' = Staged(r, c)
      /\ \A s : Intact(r, s)' = Intact(r, s)
  BY DEF Cur, CurSize, CurGrid, Staged, Intact
<1>2. Counted(r)' = Counted(r)
  BY <1>1, CountedFrame
<1>3. ASSUME NEW c \in Blocks PROVE BlockInv(r, c)'
  <2>1. BlockInv(r, c)
    BY DEF KernelInv
  <2>2. CASE c = b
    BY <1>1, <1>2, <2>1, <2>2 DEF BlockInv
  <2>3. CASE c # b
    BY <1>1, <1>2, <2>1, <2>3 DEF BlockInv
  <2> QED
    BY <2>2, <2>3
<1>4. Counted(r)' = CurGrid(r)' => seq'[r] = Cur(r)' \/ \E c \in Blocks : pc'[r][c] = "ring"
  BY <1>1, <1>2 DEF KernelInv
<1> QED
  BY <1>1, <1>2, <1>3, <1>4 DEF KernelInv

LEMMA LaunchStep ==
    ASSUME RoceInv, NEW r \in Ranks, Launch(r)
    PROVE  RoceInv'
<1>1. TypeOK'
  <2>1. /\ pc' \in [Ranks -> [Blocks -> {"done", "start", "stage", "arrive", "ring",
                                        "wait", "reduce", "tail"}]]
        /\ stored' \in [Ranks -> SUBSET Blocks]
    BY DEF Launch, RoceInv, TypeOK
  <2> QED
    BY <2>1 DEF Launch, RoceInv, TypeOK, device, region, proxy, net
<1>2. \A q \in Ranks \ {r} : Untouched(q)
  BY DEF Launch, RoceInv, TypeOK, Untouched, device, region, proxy, net
<1>3. /\ \A b \in Blocks : /\ pc[r][b] = "done"
                           /\ b \in CurGrid(r) => pc'[r][b] = "start"
                           /\ b \notin CurGrid(r) => pc'[r][b] = "done"
      /\ stored'[r] = {} /\ CurGrid(r) \subseteq Blocks
      /\ CurSize(r) \in Nat \ {0} /\ 1 \in CurGrid(r)
  <2>1. CurGrid(r) \subseteq Blocks /\ CurSize(r) \in Nat \ {0}
    BY Words DEF RoceInv
  <2>2. \A b \in Blocks : b <= CurSize(r) <=> b \in CurGrid(r)
    BY <2>1, Consts DEF CurGrid, Blocks
  <2>3. \A b \in Blocks : pc'[r][b] = IF b <= CurSize(r) THEN "start" ELSE "done"
    BY DEF Launch, RoceInv, TypeOK, CurSize
  <2>4. stored'[r] = {} /\ \A b \in Blocks : pc[r][b] = "done"
    BY DEF Launch, RoceInv, TypeOK, Finished
  <2> QED
    BY <2>1, <2>2, <2>3, <2>4 DEF CurGrid
<1>4. /\ UNCHANGED <<epoch, poison, stage, tail, seq, nbytes, error, send, recv, flag, op>>
      /\ UNCHANGED <<last_seq, upto, bytes, todo, net>>
  BY DEF Launch, device, region, proxy
<1>5. /\ Cur(r)' = Cur(r) /\ CurSize(r)' = CurSize(r) /\ CurGrid(r)' = CurGrid(r)
      /\ \A c : Staged(r, c)' = Staged(r, c)
      /\ \A s : Intact(r, s)' = Intact(r, s)
  BY <1>4 DEF Cur, CurSize, CurGrid, Staged, Intact
<1>6. Counted(r)' = Counted(r)
  BY <1>3, <1>4, <1>5, CountedFrame
<1>7. KernelInv(r)'
  <2>1. KernelInv(r) /\ Finished(r)
    BY DEF RoceInv, RankInv, Launch
  <2>2. ASSUME NEW c \in Blocks PROVE BlockInv(r, c)'
    <3>1. BlockInv(r, c)
      BY <2>1 DEF KernelInv
    <3>2. pc'[r][c] \in {"start", "done"} /\ (pc'[r][c] = "start" => c \in CurGrid(r))
      BY <1>3
    <3>3. poison'[r] = 0 => ~Staged(r, c)'
      BY <1>4, <1>5, <2>1, <3>1 DEF BlockInv
    <3> QED
      BY <1>4, <1>5, <3>1, <3>2, <3>3 DEF BlockInv
  <2>3. Counted(r) # CurGrid(r) \/ seq[r] = Cur(r)
    BY <1>3, <2>1 DEF KernelInv
  <2> QED
    BY <1>4, <1>5, <1>6, <2>1, <2>2, <2>3 DEF KernelInv
<1>8. StageInv(r)'
  BY <1>4, <1>6, StageFrame DEF RoceInv, RankInv
<1>9. TailInv(r)'
  <2>1. SUFFICES ASSUME error[r] = 0 PROVE TailInv(r)'
    BY <1>4 DEF TailInv
  <2>2. Counts(tail, r, Retired(r))
    BY <2>1 DEF RoceInv, RankInv, TailInv
  <2>3. Retired(r) = CurGrid(r) /\ Retired(r)' = {}
    BY <1>3, <1>5 DEF Retired
  <2>4. Cardinality(Retired(r)) = CurSize(r) /\ Cardinality(Retired(r)') = 0
    BY <1>3, <2>3, FS_EmptySet, FS_Interval DEF CurGrid
  <2>5. CurSize(r) % CurSize(r) = 0 /\ 0 % CurSize(r) = 0
    BY <1>3, ModSelf
  <2>6. Counts(tail, r, Retired(r))'
    BY <1>4, <1>5, <2>2, <2>4, <2>5 DEF Counts
  <2>7. ~Finished(r)'
    BY <1>3 DEF Finished
  <2>8. {b \in CurGrid(r) : pc'[r][b] \in {"tail", "done"}} = {}
    BY <1>3
  <2> QED
    BY <1>3, <1>5, <2>3, <2>6, <2>7, <2>8 DEF TailInv
<1> QED
  BY <1>1, <1>2, <1>4, <1>7, <1>8, <1>9, BlockStep

LEMMA StartBlockStep ==
    ASSUME RoceInv, NEW r \in Ranks, NEW b \in Blocks, StartBlock(r, b)
    PROVE  RoceInv'
<1> DEFINE s == Succ(epoch[r])
           w == IF s = 0 \/ poison[r] # 0 THEN "done" ELSE "stage"
<1>1. s \in Seqs /\ Goto(r, b, w) /\ w \in {"done", "stage"} /\ pc[r][b] = "start"
  BY Words, SuccFacts DEF StartBlock, RoceInv
<1>2. /\ pc' \in [Ranks -> [Blocks -> {"done", "start", "stage", "arrive", "ring",
                                       "wait", "reduce", "tail"}]]
      /\ pc'[r][b] = w
      /\ \A q \in Ranks \ {r} : pc'[q] = pc[q]
      /\ \A c \in Blocks \ {b} : pc'[r][c] = pc[r][c]
  BY <1>1, GotoFacts DEF RoceInv
<1>3. /\ op' \in [Ranks -> [Blocks -> Seqs]] /\ op'[r][b] = s
      /\ \A q \in Ranks \ {r} : op'[q] = op[q]
      /\ \A c \in Blocks \ {b} : op'[r][c] = op[r][c]
  BY <1>1 DEF StartBlock, RoceInv, TypeOK
<1>4. /\ poison' \in [Ranks -> Seqs \cup {Sentinel}]
      /\ error' \in [Ranks -> Seqs \cup {Sentinel}]
      /\ \A q \in Ranks \ {r} : poison'[q] = poison[q] /\ error'[q] = error[q]
      /\ s = 0 => poison'[r] = Sentinel /\ error'[r] = Sentinel
      /\ s # 0 => poison'[r] = poison[r] /\ error'[r] = error[r]
  BY DEF StartBlock, RoceInv, TypeOK
<1>5. /\ UNCHANGED <<epoch, stage, tail, seq, nbytes, send, recv, flag, stored>>
      /\ UNCHANGED <<last_seq, upto, bytes, todo, net>>
  BY DEF StartBlock, proxy
<1>6. TypeOK'
  BY <1>2, <1>3, <1>4, <1>5 DEF StartBlock, RoceInv, TypeOK, proxy, net
<1>7. \A q \in Ranks \ {r} : Untouched(q)
  BY <1>2, <1>3, <1>4, <1>5 DEF Untouched, net
<1>8. KernelInv(r) /\ BlockInv(r, b) /\ CurGrid(r) \subseteq Blocks /\ epoch[r] \in Seqs
  BY Words DEF RoceInv, RankInv, KernelInv
<1>9. AllFlags(r) => AllFlags(r)'
  BY <1>5, FlagsFrame
<1>10. Sentinel # 0
  BY Consts DEF Sentinel
<1>11. s # 0 => s = Cur(r)
  BY <1>8, SuccFacts DEF Cur
<1>12. error'[r] = poison'[r]
  BY <1>4, <1>8 DEF KernelInv
<1>13. poison'[r] = 0 => poison[r] = 0 /\ s # 0 /\ w = "stage"
  BY <1>4, <1>10
<1>14. poison'[r] = 0 => poison[r] = 0 /\ ~Finished(r)'
  BY <1>2, <1>13 DEF Finished
<1> HIDE DEF s
<1>15. pc[r][b] \notin {"arrive", "ring"} /\ pc'[r][b] \notin {"arrive", "ring"}
  BY <1>1, <1>2
<1>16. /\ pc'[r][b] # "done" => b \in CurGrid(r)
       /\ pc'[r][b] \notin {"done", "start"} => op'[r][b] = Cur(r)
       /\ pc'[r][b] = "stage" => ~Staged(r, b)
       /\ pc'[r][b] \in {"wait", "reduce", "tail"} => Staged(r, b)
       /\ pc'[r][b] # "start"
       /\ pc'[r][b] = "reduce" => AllFlags(r)
  BY <1>1, <1>2, <1>3, <1>8, <1>11 DEF BlockInv
<1>17. KernelInv(r)' /\ Counted(r)' = Counted(r)
  BY <1>2, <1>3, <1>5, <1>8, <1>9, <1>12, <1>14, <1>15, <1>16, KernelMove
<1>18. StageInv(r)'
  BY <1>5, <1>17, StageFrame DEF RoceInv, RankInv
<1>19. TailInv(r)'
  <2>1. CASE error'[r] # 0
    BY <2>1 DEF TailInv
  <2>2. CASE error'[r] = 0
    <3>1. pc'[r][b] = "stage" /\ error'[r] = error[r]
      BY <1>2, <1>4, <1>12, <1>13, <2>2
    <3>2. Finished(r)' = Finished(r)
      BY <1>1, <3>1 DEF Finished
    <3>3. \A c \in CurGrid(r) :
            /\ pc'[r][c] = "done" <=> pc[r][c] = "done"
            /\ pc'[r][c] = "tail" <=> pc[r][c] = "tail"
            /\ Staged(r, c) => Staged(r, c)'
      BY <1>1, <1>2, <1>5, <1>8, <3>1 DEF Staged, Cur
    <3>4. TailInv(r)
      BY DEF RoceInv, RankInv
    <3> QED
      BY <1>5, <1>9, <3>1, <3>2, <3>3, <3>4, TailFrame
  <2> QED
    BY <2>1, <2>2
<1> QED
  BY <1>5, <1>6, <1>7, <1>17, <1>18, <1>19, BlockStep

LEMMA WaitStep ==
    ASSUME RoceInv, NEW r \in Ranks, NEW b \in Blocks, Wait(r, b)
    PROVE  RoceInv'
<1> DEFINE w == IF poison[r] = 0 THEN "reduce" ELSE "tail"
<1>1. /\ pc' \in [Ranks -> [Blocks -> {"done", "start", "stage", "arrive", "ring",
                                       "wait", "reduce", "tail"}]]
      /\ pc[r][b] = "wait" /\ pc'[r][b] = w
      /\ \A q \in Ranks \ {r} : pc'[q] = pc[q]
      /\ \A c \in Blocks \ {b} : pc'[r][c] = pc[r][c]
  <2>1. Goto(r, b, w) /\ w \in {"reduce", "tail"} /\ pc[r][b] = "wait"
    BY DEF Wait
  <2> QED
    BY <2>1, GotoFacts DEF RoceInv
<1>2. /\ UNCHANGED <<epoch, poison, stage, tail, seq, nbytes, error, send, recv, flag, op, stored>>
      /\ UNCHANGED <<last_seq, upto, bytes, todo, net>>
  BY DEF Wait, device, region, proxy
<1>3. TypeOK'
  BY <1>1, <1>2 DEF Wait, RoceInv, TypeOK, proxy, net
<1>4. \A q \in Ranks \ {r} : Untouched(q)
  BY <1>1, <1>2 DEF Untouched, net
<1>5. KernelInv(r) /\ BlockInv(r, b) /\ CurGrid(r) \subseteq Blocks
  BY Words DEF RoceInv, RankInv, KernelInv
<1>6. AllFlags(r)
  <2>1. op[r][b] = Cur(r)
    BY <1>1, <1>5 DEF BlockInv
  <2>2. Cur(r) \in Nat
    BY Words DEF RoceInv, Cur
  <2> QED
    BY <2>1, <2>2 DEF Wait, Arrived, FlagSet, AllFlags
<1>7. AllFlags(r) => AllFlags(r)'
  BY <1>2, FlagsFrame
<1>8. poison'[r] = 0 => poison[r] = 0 /\ ~Finished(r)'
  BY <1>1, <1>2 DEF Finished
<1>9. KernelInv(r)' /\ Counted(r)' = Counted(r)
  <2>1. error'[r] = poison'[r]
    BY <1>2, <1>5 DEF KernelInv
  <2>2. pc'[r][b] \in {"reduce", "tail"} /\ pc[r][b] = "wait"
    BY <1>1
  <2>3. b \in CurGrid(r) /\ op'[r][b] = Cur(r) /\ Staged(r, b)
    BY <1>1, <1>2, <1>5 DEF BlockInv
  <2>4. pc[r][b] \notin {"arrive", "ring"} /\ pc'[r][b] \notin {"arrive", "ring", "start", "stage"}
    BY <2>2
  <2> QED
    BY <1>1, <1>2, <1>5, <1>6, <1>7, <1>8, <2>1, <2>3, <2>4, KernelMove
<1>10. StageInv(r)'
  BY <1>2, <1>9, StageFrame DEF RoceInv, RankInv
<1>11. TailInv(r)'
  <2>1. CASE error'[r] # 0
    BY <2>1 DEF TailInv
  <2>2. CASE error'[r] = 0
    <3>1. pc'[r][b] = "reduce" /\ error'[r] = error[r]
      BY <1>1, <1>2, <1>5, <2>2 DEF KernelInv
    <3>2. Finished(r)' = Finished(r)
      BY <1>1, <3>1 DEF Finished
    <3>3. \A c \in CurGrid(r) :
            /\ pc'[r][c] = "done" <=> pc[r][c] = "done"
            /\ pc'[r][c] = "tail" <=> pc[r][c] = "tail"
            /\ Staged(r, c) => Staged(r, c)'
      BY <1>1, <1>2, <1>5, <3>1 DEF Staged, Cur
    <3>4. TailInv(r)
      BY DEF RoceInv, RankInv
    <3> QED
      BY <1>2, <1>7, <3>1, <3>2, <3>3, <3>4, TailFrame
  <2> QED
    BY <2>1, <2>2
<1> QED
  BY <1>2, <1>3, <1>4, <1>9, <1>10, <1>11, BlockStep

LEMMA TimeOutStep ==
    ASSUME RoceInv, NEW r \in Ranks, NEW b \in Blocks, TimeOut(r, b)
    PROVE  RoceInv'
<1>1. /\ pc' \in [Ranks -> [Blocks -> {"done", "start", "stage", "arrive", "ring",
                                       "wait", "reduce", "tail"}]]
      /\ pc[r][b] = "wait" /\ pc'[r][b] = "tail"
      /\ \A q \in Ranks \ {r} : pc'[q] = pc[q]
      /\ \A c \in Blocks \ {b} : pc'[r][c] = pc[r][c]
  <2>1. Goto(r, b, "tail") /\ pc[r][b] = "wait"
    BY DEF TimeOut
  <2> QED
    BY <2>1, GotoFacts DEF RoceInv
<1>2. /\ UNCHANGED <<epoch, stage, tail, seq, nbytes, send, recv, flag, op, stored>>
      /\ UNCHANGED <<last_seq, upto, bytes, todo, net>>
  BY DEF TimeOut, proxy
<1>3. KernelInv(r) /\ BlockInv(r, b) /\ CurGrid(r) \subseteq Blocks
  BY Words DEF RoceInv, RankInv, KernelInv
<1>4. op[r][b] = Cur(r) /\ op[r][b] \in Seqs /\ Cur(r) # 0
  <2>1. op[r][b] = Cur(r)
    BY <1>1, <1>3 DEF BlockInv
  <2>2. op[r][b] \in Seqs
    BY DEF RoceInv, TypeOK
  <2>3. Cur(r) # 0
    BY Words DEF RoceInv, Cur
  <2> QED
    BY <2>1, <2>2, <2>3
<1>5. /\ poison' \in [Ranks -> Seqs \cup {Sentinel}]
      /\ error' \in [Ranks -> Seqs \cup {Sentinel}]
      /\ \A q \in Ranks \ {r} : poison'[q] = poison[q] /\ error'[q] = error[q]
      /\ poison'[r] = Cur(r) /\ error'[r] = Cur(r)
  BY <1>4 DEF TimeOut, Report, RoceInv, TypeOK
<1>6. TypeOK'
  BY <1>1, <1>2, <1>5 DEF TimeOut, RoceInv, TypeOK, proxy, net
<1>7. \A q \in Ranks \ {r} : Untouched(q)
  BY <1>1, <1>2, <1>5 DEF Untouched, net
<1>8. AllFlags(r) => AllFlags(r)'
  BY <1>2, FlagsFrame
<1>9. KernelInv(r)' /\ Counted(r)' = Counted(r)
  <2>1. error'[r] = poison'[r] /\ poison'[r] # 0
    BY <1>4, <1>5
  <2>2. b \in CurGrid(r) /\ op'[r][b] = Cur(r) /\ Staged(r, b)
    BY <1>1, <1>2, <1>3 DEF BlockInv
  <2>3. pc[r][b] \notin {"arrive", "ring"} /\ pc'[r][b] \notin {"arrive", "ring", "start", "stage", "reduce"}
    BY <1>1
  <2> QED
    BY <1>1, <1>2, <1>3, <1>8, <2>1, <2>2, <2>3, KernelMove
<1>10. StageInv(r)'
  BY <1>2, <1>9, StageFrame DEF RoceInv, RankInv
<1>11. TailInv(r)'
  BY <1>4, <1>5 DEF TailInv
<1> QED
  BY <1>2, <1>6, <1>7, <1>9, <1>10, <1>11, BlockStep

LEMMA ReduceStep ==
    ASSUME RoceInv, NEW r \in Ranks, NEW b \in Blocks, Reduce(r, b)
    PROVE  RoceInv'
<1>1. /\ pc' \in [Ranks -> [Blocks -> {"done", "start", "stage", "arrive", "ring",
                                       "wait", "reduce", "tail"}]]
      /\ pc[r][b] = "reduce" /\ pc'[r][b] = "tail"
      /\ \A q \in Ranks \ {r} : pc'[q] = pc[q]
      /\ \A c \in Blocks \ {b} : pc'[r][c] = pc[r][c]
  <2>1. Goto(r, b, "tail") /\ pc[r][b] = "reduce"
    BY DEF Reduce
  <2> QED
    BY <2>1, GotoFacts DEF RoceInv
<1>2. /\ UNCHANGED <<epoch, poison, stage, tail, seq, nbytes, error, send, recv, flag, op>>
      /\ UNCHANGED <<last_seq, upto, bytes, todo, net>>
  BY DEF Reduce, device, region, proxy
<1>3. /\ stored' \in [Ranks -> SUBSET Blocks] /\ stored'[r] = stored[r] \cup {b}
      /\ \A q \in Ranks \ {r} : stored'[q] = stored[q]
  BY DEF Reduce, RoceInv, TypeOK
<1>4. TypeOK'
  BY <1>1, <1>2, <1>3 DEF Reduce, RoceInv, TypeOK, proxy, net
<1>5. \A q \in Ranks \ {r} : Untouched(q)
  BY <1>1, <1>2, <1>3 DEF Untouched, net
<1>6. KernelInv(r) /\ BlockInv(r, b) /\ CurGrid(r) \subseteq Blocks
  BY Words DEF RoceInv, RankInv, KernelInv
<1>7. AllFlags(r) /\ AllFlags(r)' /\ b \in CurGrid(r)
  BY <1>1, <1>2, <1>6, FlagsFrame DEF BlockInv
<1>8. ~Finished(r) /\ ~Finished(r)'
  BY <1>1 DEF Finished
<1>9. KernelInv(r)' /\ Counted(r)' = Counted(r)
  <2>1. error'[r] = poison'[r]
    BY <1>2, <1>6 DEF KernelInv
  <2>2. op'[r][b] = Cur(r) /\ Staged(r, b) /\ (poison'[r] = 0 => poison[r] = 0)
    BY <1>1, <1>2, <1>6 DEF BlockInv
  <2>3. pc[r][b] \notin {"arrive", "ring"} /\ pc'[r][b] \notin {"arrive", "ring", "start", "stage"}
    BY <1>1
  <2> QED
    BY <1>1, <1>2, <1>6, <1>7, <1>8, <2>1, <2>2, <2>3, KernelMove
<1>10. StageInv(r)'
  BY <1>2, <1>9, StageFrame DEF RoceInv, RankInv
<1>11. TailInv(r)'
  <2>1. SUFFICES ASSUME error[r] = 0 PROVE TailInv(r)'
    BY <1>2 DEF TailInv
  <2>2. TailInv(r)
    BY DEF RoceInv, RankInv
  <2>3. /\ CurSize(r)' = CurSize(r) /\ CurGrid(r)' = CurGrid(r)
        /\ \A c : Staged(r, c)' = Staged(r, c)
    BY <1>2 DEF Cur, CurSize, CurGrid, Staged
  <2>4. Retired(r)' = Retired(r)
    BY <1>1, <1>6, <2>3 DEF Retired
  <2>5. Counts(tail, r, Retired(r))'
    BY <1>2, <2>1, <2>2, <2>3, <2>4 DEF TailInv, Counts
  <2>6. stored[r] = {c \in CurGrid(r) : pc[r][c] \in {"tail", "done"}}
    BY <1>8, <2>1, <2>2 DEF TailInv
  <2>7. stored'[r] = {c \in CurGrid(r) : pc'[r][c] \in {"tail", "done"}}
    BY <1>1, <1>3, <1>6, <1>7, <2>6
  <2>8. \A c \in Retired(r) : Staged(r, c)
    BY <1>8, <2>1, <2>2 DEF TailInv
  <2> QED
    BY <1>7, <1>8, <2>3, <2>4, <2>5, <2>7, <2>8 DEF TailInv
<1> QED
  BY <1>2, <1>4, <1>5, <1>9, <1>10, <1>11, BlockStep

\* The operation an active block works on is the one after the epoch.
LEMMA ActiveOp ==
    ASSUME RoceInv, NEW r \in Ranks, NEW b \in Blocks, pc[r][b] \notin {"done", "start"}
    PROVE  /\ op[r][b] = Cur(r) /\ Cur(r) \in Seqs /\ Cur(r) \in Nat \ {0}
           /\ Succ(epoch[r]) = Cur(r) /\ CurSize(r) = Grid[Cur(r)]
           /\ b \in CurGrid(r) /\ CurGrid(r) \subseteq Blocks
           /\ SlotOf(Cur(r)) \in SlotIds /\ epoch[r] \in Nat
           /\ SlotOf(epoch[r]) # SlotOf(Cur(r))
<1>1. BlockInv(r, b)
  BY DEF RoceInv, RankInv, KernelInv
<1>2. op[r][b] = Cur(r) /\ b \in CurGrid(r)
  BY <1>1 DEF BlockInv
<1>3. op[r][b] \in Seqs
  BY DEF RoceInv, TypeOK
<1>4. epoch[r] \in Seqs /\ epoch[r] \in Nat /\ CurGrid(r) \subseteq Blocks
  BY Words DEF RoceInv
<1>5. Cur(r) \in Seqs /\ Cur(r) \in Nat \ {0} /\ Cur(r) = epoch[r] + 1
  BY <1>2, <1>3, <1>4 DEF Cur
<1>6. Succ(epoch[r]) = Cur(r)
  BY <1>4, <1>5, SuccFacts
<1>7. SlotOf(Cur(r)) \in SlotIds /\ SlotOf(epoch[r]) # SlotOf(Cur(r))
  BY <1>4, <1>5, SlotFacts
<1> QED
  BY <1>2, <1>4, <1>5, <1>6, <1>7 DEF CurSize

\* Until its last block is counted, an operation has not rung.
LEMMA NotRung ==
    ASSUME RoceInv, NEW r \in Ranks, NEW b \in CurGrid(r), b \notin Counted(r)
    PROVE  /\ seq[r] = epoch[r] /\ seq[r] # Cur(r)
           /\ \A c \in Blocks : pc[r][c] # "ring"
           /\ \A s \in epoch[r] .. seq[r] : s = epoch[r]
<1>1. KernelInv(r) /\ Counted(r) # CurGrid(r)
  BY DEF RoceInv, RankInv
<1>2. epoch[r] \in Nat
  BY Words DEF RoceInv
<1> QED
  BY <1>1, <1>2 DEF KernelInv, BlockInv

LEMMA StageStep ==
    ASSUME RoceInv, NEW r \in Ranks, NEW b \in Blocks, Stage(r, b)
    PROVE  RoceInv'
<1> DEFINE k == SlotOf(Cur(r))
<1>1. /\ pc' \in [Ranks -> [Blocks -> {"done", "start", "stage", "arrive", "ring",
                                       "wait", "reduce", "tail"}]]
      /\ pc[r][b] = "stage" /\ pc'[r][b] = "arrive"
      /\ \A q \in Ranks \ {r} : pc'[q] = pc[q]
      /\ \A c \in Blocks \ {b} : pc'[r][c] = pc[r][c]
  <2>1. Goto(r, b, "arrive") /\ pc[r][b] = "stage"
    BY DEF Stage
  <2> QED
    BY <2>1, GotoFacts DEF RoceInv
<1>2. /\ UNCHANGED <<epoch, poison, stage, tail, seq, nbytes, error, recv, flag, op, stored>>
      /\ UNCHANGED <<last_seq, upto, bytes, todo, net>>
  BY DEF Stage, device, proxy
<1>3. /\ op[r][b] = Cur(r) /\ Cur(r) \in Seqs /\ Cur(r) \in Nat \ {0}
      /\ b \in CurGrid(r) /\ CurGrid(r) \subseteq Blocks /\ k \in SlotIds
      /\ SlotOf(epoch[r]) # k /\ epoch[r] \in Nat
  BY <1>1, ActiveOp
<1>4. /\ send' \in [Ranks -> [SlotIds -> [Blocks -> Seqs]]]
      /\ send'[r][k][b] = Cur(r)
      /\ \A q \in Ranks \ {r} : send'[q] = send[q]
      /\ \A c \in Blocks \ {b} : send'[r][k][c] = send[r][k][c]
      /\ \A j \in SlotIds \ {k} : send'[r][j] = send[r][j]
  BY <1>3 DEF Stage, RoceInv, TypeOK
<1>5. TypeOK'
  BY <1>1, <1>2, <1>4 DEF Stage, RoceInv, TypeOK, proxy, net
<1>6. \A q \in Ranks \ {r} : Untouched(q)
  BY <1>1, <1>2, <1>4 DEF Untouched, net
<1>7. KernelInv(r) /\ BlockInv(r, b) /\ ~Staged(r, b) /\ b \notin Counted(r)
  BY <1>1 DEF RoceInv, RankInv, KernelInv, BlockInv, Counted
<1>8. /\ Cur(r)' = Cur(r) /\ CurSize(r)' = CurSize(r) /\ CurGrid(r)' = CurGrid(r)
      /\ Staged(r, b)' /\ \A c \in Blocks \ {b} : Staged(r, c)' = Staged(r, c)
  BY <1>2, <1>4 DEF Cur, CurSize, CurGrid, Staged
<1>9. Counted(r)' = Counted(r)
  BY <1>1, <1>2, <1>3, <1>7, <1>8, CountedFrame
<1>10. AllFlags(r) => AllFlags(r)'
  BY <1>2, FlagsFrame
<1>11. ~Finished(r) /\ ~Finished(r)'
  BY <1>1 DEF Finished
<1>12. KernelInv(r)'
  <2>1. ASSUME NEW c \in Blocks PROVE BlockInv(r, c)'
    <3>1. BlockInv(r, c)
      BY <1>7 DEF KernelInv
    <3>2. \A j \in SlotIds : send'[r][j][c] <= Cur(r)'
      BY <1>3, <1>4, <1>8, <3>1 DEF BlockInv
    <3>3. CASE c = b
      BY <1>1, <1>2, <1>3, <1>8, <1>11, <3>1, <3>2, <3>3 DEF BlockInv
    <3>4. CASE c # b
      BY <1>1, <1>2, <1>8, <1>9, <1>10, <1>11, <3>1, <3>2, <3>4 DEF BlockInv
    <3> QED
      BY <3>3, <3>4
  <2>2. \A s \in epoch'[r] .. seq'[r] : s > 0 => Intact(r, s)'
    <3>1. SUFFICES ASSUME NEW s \in epoch[r] .. seq[r], s > 0 PROVE Intact(r, s)'
      BY <1>2
    <3>2. s = epoch[r] /\ SlotOf(s) # k /\ SlotOf(s) \in SlotIds
      BY <1>3, <1>7, NotRung, SlotFacts
    <3>3. Intact(r, s)
      BY <1>7, <3>1 DEF KernelInv
    <3> QED
      BY <1>2, <1>4, <3>2, <3>3 DEF Intact
  <2>3. error'[r] = poison'[r] /\ seq'[r] \in {epoch'[r], Cur(r)'}
    BY <1>2, <1>7, <1>8 DEF KernelInv
  <2>4. seq'[r] # Cur(r)' /\ Counted(r)' # CurGrid(r)'
    BY <1>2, <1>3, <1>7, <1>8, <1>9, NotRung
  <2> QED
    BY <2>1, <2>2, <2>3, <2>4 DEF KernelInv
<1>13. StageInv(r)'
  BY <1>2, <1>9, StageFrame DEF RoceInv, RankInv
<1>14. TailInv(r)'
  <2>1. \A c \in CurGrid(r) :
          /\ pc'[r][c] = "done" <=> pc[r][c] = "done"
          /\ pc'[r][c] = "tail" <=> pc[r][c] = "tail"
          /\ Staged(r, c) => Staged(r, c)'
    BY <1>1, <1>3, <1>8
  <2>2. TailInv(r) /\ Finished(r)' = Finished(r)
    BY <1>1 DEF RoceInv, RankInv, Finished
  <2> QED
    BY <1>2, <1>10, <2>1, <2>2, TailFrame
<1> QED
  BY <1>2, <1>5, <1>6, <1>12, <1>13, <1>14, BlockStep

\* A grid is complete when as many blocks are counted as it has.
LEMMA WholeGrid ==
    ASSUME NEW n \in Nat \ {0}, NEW S \in SUBSET (1 .. n), NEW b \in 1 .. n, b \notin S
    PROVE  /\ Cardinality(S) \in Nat
           /\ Cardinality(S \cup {b}) = Cardinality(S) + 1
           /\ Cardinality(S \cup {b}) % n = 0 <=> S \cup {b} = 1 .. n
<1>1. IsFiniteSet(1 .. n) /\ Cardinality(1 .. n) = n
  BY FS_Interval
<1>2. IsFiniteSet(S) /\ Cardinality(S) \in Nat
  BY <1>1, FS_Subset, FS_CardinalityType
<1>3. IsFiniteSet(S \cup {b}) /\ Cardinality(S \cup {b}) = Cardinality(S) + 1
  BY <1>2, FS_AddElement
<1>4. /\ Cardinality(S \cup {b}) <= n
      /\ Cardinality(S \cup {b}) = n => S \cup {b} = 1 .. n
  BY <1>1, FS_Subset, S \cup {b} \subseteq 1 .. n
<1>5. \A m \in 1 .. n : m % n = 0 <=> m = n
  BY ModSmall, ModSelf
<1>6. Cardinality(S \cup {b}) \in 1 .. n
  BY <1>2, <1>3, <1>4
<1>7. Cardinality(S \cup {b}) % n = 0 <=> Cardinality(S \cup {b}) = n
  BY <1>5, <1>6
<1> QED
  BY <1>1, <1>2, <1>3, <1>4, <1>7

\* One more arrival at a counter that counts the blocks of S.
LEMMA Arrivals ==
    ASSUME RoceInv, NEW r \in Ranks, NEW counter \in [Ranks -> [Blocks -> 0 .. MaxBlocks - 1]],
           NEW S \in SUBSET CurGrid(r), NEW b \in CurGrid(r), b \notin S,
           Counts(counter, r, S)
    PROVE  /\ IsLast(counter, r, CurSize(r)) <=> S \cup {b} = CurGrid(r)
           /\ Arrival(counter, r, CurSize(r)) \in [Ranks -> [Blocks -> 0 .. MaxBlocks - 1]]
           /\ \A q \in Ranks \ {r} : Arrival(counter, r, CurSize(r))[q] = counter[q]
           /\ Counts(Arrival(counter, r, CurSize(r)), r, S \cup {b})
<1> DEFINE g == CurSize(r)
           c == counter[r][g]
           n == Cardinality(S)
<1>1. g \in GridSizes /\ g \in Nat \ {0} /\ g \in Blocks
  <2>1. g \in GridSizes /\ g \in Nat \ {0}
    BY Words DEF RoceInv
  <2> QED
    BY <2>1, Consts DEF GridSizes, Blocks
<1>2. CurGrid(r) = 1 .. g
  BY DEF CurGrid
<1> HIDE DEF g
<1>3. /\ n \in Nat /\ Cardinality(S \cup {b}) = n + 1
      /\ Cardinality(S \cup {b}) % g = 0 <=> S \cup {b} = CurGrid(r)
  BY <1>1, <1>2, WholeGrid
<1>4. c \in 0 .. MaxBlocks - 1 /\ c % g = n % g
  BY <1>1 DEF Counts, g
<1> HIDE DEF c, n
<1>5. ((c + 1) % MaxBlocks) % g = (n + 1) % g /\ (c + 1) % g = (n + 1) % g
  BY <1>1, <1>3, <1>4, CounterStep
<1>6. IsLast(counter, r, g) <=> S \cup {b} = CurGrid(r)
  BY <1>3, <1>5 DEF IsLast, CounterClass, c
<1>7. (c + 1) % MaxBlocks \in 0 .. MaxBlocks - 1
  BY <1>4, Consts, ModType
<1>8. Arrival(counter, r, g) = [counter EXCEPT ![r][g] = (c + 1) % MaxBlocks]
  BY <1>1 DEF Arrival, CounterClass, c
<1>9. /\ Arrival(counter, r, g) \in [Ranks -> [Blocks -> 0 .. MaxBlocks - 1]]
      /\ \A q \in Ranks \ {r} : Arrival(counter, r, g)[q] = counter[q]
      /\ Arrival(counter, r, g)[r][g] = (c + 1) % MaxBlocks
      /\ \A h \in Blocks \ {g} : Arrival(counter, r, g)[r][h] = counter[r][h]
  BY <1>1, <1>7, <1>8
<1>10. \A h \in GridSizes : h \in Blocks
  BY Consts DEF GridSizes, Blocks
<1>11. Counts(Arrival(counter, r, g), r, S \cup {b})
  BY <1>3, <1>5, <1>9, <1>10 DEF Counts, g
<1> QED
  BY <1>6, <1>9, <1>11 DEF g

LEMMA ArriveStep ==
    ASSUME RoceInv, NEW r \in Ranks, NEW b \in Blocks, Arrive(r, b)
    PROVE  RoceInv'
<1> DEFINE k == SlotOf(Cur(r))
           last == IsLast(stage, r, CurSize(r))
           w == IF last THEN "ring" ELSE "wait"
<1>1. pc[r][b] = "arrive"
  BY DEF Arrive
<1>2. /\ op[r][b] = Cur(r) /\ Cur(r) \in Seqs /\ Cur(r) \in Nat \ {0}
      /\ CurSize(r) = Grid[Cur(r)]
      /\ b \in CurGrid(r) /\ CurGrid(r) \subseteq Blocks /\ k \in SlotIds
      /\ SlotOf(epoch[r]) # k /\ epoch[r] \in Nat
  BY <1>1, ActiveOp
<1>3. /\ UNCHANGED <<epoch, poison, tail, seq, error, send, recv, flag, op, stored>>
      /\ UNCHANGED <<last_seq, upto, bytes, todo, net>>
      /\ stage' = Arrival(stage, r, CurSize(r))
      /\ Goto(r, b, w)
      /\ IF last THEN nbytes' = [nbytes EXCEPT ![r][k] = CurSize(r)] ELSE nbytes' = nbytes
  BY <1>2 DEF Arrive, proxy
<1>4. /\ pc' \in [Ranks -> [Blocks -> {"done", "start", "stage", "arrive", "ring",
                                       "wait", "reduce", "tail"}]]
      /\ pc'[r][b] = w
      /\ \A q \in Ranks \ {r} : pc'[q] = pc[q]
      /\ \A c \in Blocks \ {b} : pc'[r][c] = pc[r][c]
  BY <1>3, GotoFacts DEF RoceInv
<1>5. CurSize(r) \in 0 .. MaxBlocks
  BY <1>2, Consts
<1>6. /\ nbytes' \in [Ranks -> [SlotIds -> 0 .. MaxBlocks]]
      /\ last => nbytes'[r][k] = CurSize(r)
      /\ \A q \in Ranks \ {r} : nbytes'[q] = nbytes[q]
      /\ \A j \in SlotIds \ {k} : nbytes'[r][j] = nbytes[r][j]
  <2>1. nbytes \in [Ranks -> [SlotIds -> 0 .. MaxBlocks]]
    BY DEF RoceInv, TypeOK
  <2> HIDE DEF last, k
  <2> QED
    BY <1>2, <1>3, <1>5, <2>1
<1>7. KernelInv(r) /\ BlockInv(r, b) /\ Staged(r, b) /\ b \notin Counted(r)
  BY <1>1 DEF RoceInv, RankInv, KernelInv, BlockInv, Counted
<1>8. /\ last <=> Counted(r) \cup {b} = CurGrid(r)
      /\ stage' \in [Ranks -> [Blocks -> 0 .. MaxBlocks - 1]]
      /\ \A q \in Ranks \ {r} : stage'[q] = stage[q]
      /\ Counts(stage', r, Counted(r) \cup {b})
  <2>1. stage \in [Ranks -> [Blocks -> 0 .. MaxBlocks - 1]] /\ Counts(stage, r, Counted(r))
    BY DEF RoceInv, TypeOK, RankInv, StageInv
  <2>2. Counted(r) \in SUBSET CurGrid(r)
    BY DEF Counted
  <2> DEFINE next == Arrival(stage, r, CurSize(r))
  <2>3. /\ IsLast(stage, r, CurSize(r)) <=> Counted(r) \cup {b} = CurGrid(r)
        /\ next \in [Ranks -> [Blocks -> 0 .. MaxBlocks - 1]]
        /\ \A q \in Ranks \ {r} : next[q] = stage[q]
        /\ Counts(next, r, Counted(r) \cup {b})
    BY <1>2, <1>7, <2>1, <2>2, Arrivals
  <2>4. stage' = next
    BY <1>3
  <2> QED
    BY <2>3, <2>4 DEF Counts
<1> HIDE DEF last, k
<1>9. TypeOK'
  BY <1>3, <1>4, <1>6, <1>8 DEF Arrive, RoceInv, TypeOK, proxy, net
<1>10. \A q \in Ranks \ {r} : Untouched(q)
  BY <1>3, <1>4, <1>6, <1>8 DEF Untouched, net
<1>11. /\ Cur(r)' = Cur(r) /\ CurSize(r)' = CurSize(r) /\ CurGrid(r)' = CurGrid(r)
       /\ \A c : Staged(r, c)' = Staged(r, c)
  BY <1>3 DEF Cur, CurSize, CurGrid, Staged
<1>12. Counted(r)' = Counted(r) \cup {b}
  BY <1>2, <1>4, <1>7, <1>11 DEF Counted
<1>13. AllFlags(r) => AllFlags(r)'
  BY <1>3, FlagsFrame
<1>14. ~Finished(r) /\ ~Finished(r)'
  BY <1>1, <1>4 DEF Finished
<1>15. KernelInv(r)'
  <2>1. ASSUME NEW c \in Blocks PROVE BlockInv(r, c)'
    <3>1. BlockInv(r, c) /\ pc[r][c] # "ring"
      BY <1>2, <1>7, NotRung DEF KernelInv
    <3>2. CASE c = b
      <4>1. pc'[r][b] = "ring" => Counted(r)' = CurGrid(r)' /\ nbytes'[r][SlotOf(Cur(r)')] = CurSize(r)'
        BY <1>4, <1>6, <1>8, <1>11, <1>12 DEF k
      <4>2. pc'[r][b] \in {"ring", "wait"}
        BY <1>4
      <4> QED
        BY <1>2, <1>3, <1>7, <1>11, <1>14, <3>1, <3>2, <4>1, <4>2 DEF BlockInv
    <3>3. CASE c # b
      BY <1>3, <1>4, <1>11, <1>13, <1>14, <3>1, <3>3 DEF BlockInv
    <3> QED
      BY <3>2, <3>3
  <2>2. \A s \in epoch'[r] .. seq'[r] : s > 0 => Intact(r, s)'
    <3>1. SUFFICES ASSUME NEW s \in epoch[r] .. seq[r], s > 0 PROVE Intact(r, s)'
      BY <1>3
    <3>2. s = epoch[r] /\ SlotOf(s) # k /\ SlotOf(s) \in SlotIds
      BY <1>2, <1>7, NotRung, SlotFacts
    <3>3. Intact(r, s)
      BY <1>7, <3>1 DEF KernelInv
    <3> QED
      BY <1>3, <1>6, <3>2, <3>3 DEF Intact
  <2>3. error'[r] = poison'[r] /\ seq'[r] \in {epoch'[r], Cur(r)'}
    BY <1>3, <1>7, <1>11 DEF KernelInv
  <2>4. seq'[r] # Cur(r)'
    BY <1>2, <1>3, <1>7, <1>11, NotRung
  <2>5. Counted(r)' = CurGrid(r)' => \E c \in Blocks : pc'[r][c] = "ring"
    BY <1>4, <1>8, <1>11, <1>12
  <2> QED
    BY <2>1, <2>2, <2>3, <2>4, <2>5 DEF KernelInv
<1>16. StageInv(r)'
  <2>1. Counts(stage, r, Counted(r))'
    BY <1>8, <1>11, <1>12 DEF Counts
  <2> QED
    BY <2>1 DEF StageInv
<1>17. TailInv(r)'
  <2>1. \A c \in CurGrid(r) :
          /\ pc'[r][c] = "done" <=> pc[r][c] = "done"
          /\ pc'[r][c] = "tail" <=> pc[r][c] = "tail"
          /\ Staged(r, c) => Staged(r, c)'
    BY <1>1, <1>2, <1>4, <1>11
  <2>2. TailInv(r) /\ Finished(r)' = Finished(r)
    BY <1>1, <1>4 DEF RoceInv, RankInv, Finished
  <2> QED
    BY <1>3, <1>13, <2>1, <2>2, TailFrame
<1> QED
  BY <1>3, <1>9, <1>10, <1>15, <1>16, <1>17, BlockStep

\* The links of a rank whose doorbell, proxy or queue pairs moved on.
LEMMA LinkWeaken ==
    ASSUME TypeOK, NEW q \in Ranks, LinkInv(q),
           qp'[q] = qp[q], written'[q] = written[q],
           \A l \in Links(q) : /\ flag'[l[1]][q] = flag[l[1]][q]
                               /\ recv'[l[1]][q] = recv[l[1]][q],
           \A l \in Links(q) : \A s \in Seqs : Seen(q, l, s) => Seen(q, l, s)',
           \A s, t \in Seqs : Before(q, s, t) => Before(q, s, t)'
    PROVE  LinkInv(q)'
<1> SUFFICES ASSUME NEW l \in Links(q) PROVE QueueInv(q, l)' /\ SlotInv(q, l)'
  BY DEF LinkInv
<1>1. /\ \A s : Holds(q, l, s)' = Holds(q, l, s)
      /\ \A k : Overwritten(q, l, k)' = Overwritten(q, l, k)
  BY DEF Holds, Overwritten
<1>2. QueueInv(q, l) /\ SlotInv(q, l)
  BY DEF LinkInv
<1>3. \A k \in SlotIds : flag[l[1]][q][k][l[2]] \in Seqs
  BY Words
<1>4. \A i \in 1 .. Len(qp[q][l]) : qp[q][l][i].s \in Seqs
  <2> TAKE i \in 1 .. Len(qp[q][l])
  <2>1. qp[q][l] \in Seq([s : Seqs, n : 0 .. MaxBlocks])
    BY DEF TypeOK
  <2>2. qp[q][l][i] \in [s : Seqs, n : 0 .. MaxBlocks]
    BY <2>1, ElementOfSeq
  <2> QED
    BY <2>2
<1>5. QueueInv(q, l)'
  BY <1>2, <1>3, <1>4 DEF QueueInv
<1>6. SlotInv(q, l)'
  BY <1>1, <1>2, <1>3 DEF SlotInv
<1> QED
  BY <1>5, <1>6

LEMMA RingStep ==
    ASSUME RoceInv, NEW r \in Ranks, NEW b \in Blocks, Ring(r, b)
    PROVE  RoceInv'
<1>1. /\ pc' \in [Ranks -> [Blocks -> {"done", "start", "stage", "arrive", "ring",
                                       "wait", "reduce", "tail"}]]
      /\ pc[r][b] = "ring" /\ pc'[r][b] = "wait"
      /\ \A q \in Ranks \ {r} : pc'[q] = pc[q]
      /\ \A c \in Blocks \ {b} : pc'[r][c] = pc[r][c]
  <2>1. Goto(r, b, "wait") /\ pc[r][b] = "ring"
    BY DEF Ring
  <2> QED
    BY <2>1, GotoFacts DEF RoceInv
<1>2. /\ UNCHANGED <<epoch, poison, stage, tail, nbytes, error, send, recv, flag, op, stored>>
      /\ UNCHANGED <<last_seq, upto, bytes, todo, net>>
  BY DEF Ring, device, proxy
<1>3. /\ op[r][b] = Cur(r) /\ Cur(r) \in Seqs /\ Cur(r) \in Nat \ {0}
      /\ CurSize(r) = Grid[Cur(r)] /\ Cur(r) = epoch[r] + 1
      /\ b \in CurGrid(r) /\ CurGrid(r) \subseteq Blocks /\ epoch[r] \in Nat
  BY <1>1, ActiveOp DEF Cur
<1>4. /\ seq' \in [Ranks -> Seqs] /\ seq'[r] = Cur(r)
      /\ \A q \in Ranks \ {r} : seq'[q] = seq[q]
  BY <1>3 DEF Ring, RoceInv, TypeOK
<1>5. TypeOK'
  BY <1>1, <1>2, <1>4 DEF Ring, RoceInv, TypeOK, proxy, net
<1>6. \A q \in Ranks \ {r} : Untouched(q)
  BY <1>1, <1>2, <1>4 DEF Untouched, net
<1>7. /\ KernelInv(r) /\ BlockInv(r, b) /\ Staged(r, b)
      /\ Counted(r) = CurGrid(r) /\ nbytes[r][SlotOf(Cur(r))] = CurSize(r)
  BY <1>1 DEF RoceInv, RankInv, KernelInv, BlockInv
<1>8. /\ Cur(r)' = Cur(r) /\ CurSize(r)' = CurSize(r) /\ CurGrid(r)' = CurGrid(r)
      /\ \A c : Staged(r, c)' = Staged(r, c)
      /\ \A s : Intact(r, s)' = Intact(r, s)
  BY <1>2 DEF Cur, CurSize, CurGrid, Staged, Intact
<1>9. Counted(r)' = Counted(r)
  BY <1>1, <1>2, <1>3, <1>8, CountedFrame
<1>10. AllFlags(r) => AllFlags(r)'
  BY <1>2, FlagsFrame
<1>11. ~Finished(r) /\ ~Finished(r)' /\ Finished(r) = Finished(r)'
  BY <1>1 DEF Finished
<1>12. seq[r] \in Nat /\ epoch[r] <= seq[r] /\ seq[r] <= Cur(r)
  BY <1>3, <1>7 DEF KernelInv
<1>13. KernelInv(r)'
  <2>1. ASSUME NEW c \in Blocks PROVE BlockInv(r, c)'
    <3>1. BlockInv(r, c)
      BY <1>7 DEF KernelInv
    <3>2. CASE c = b
      BY <1>1, <1>2, <1>3, <1>7, <1>8, <1>11, <3>1, <3>2 DEF BlockInv
    <3>3. CASE c # b
      BY <1>1, <1>2, <1>8, <1>9, <1>10, <1>11, <3>1, <3>3 DEF BlockInv
    <3> QED
      BY <3>2, <3>3
  <2>2. Intact(r, Cur(r))
    <3>1. \A c \in CurGrid(r) : send[r][SlotOf(Cur(r))][c] = Cur(r)
      BY <1>7 DEF Counted, Staged
    <3> QED
      BY <1>3, <1>7, <3>1 DEF Intact, CurGrid
  <2>3. \A s \in epoch'[r] .. seq'[r] : s > 0 => Intact(r, s)'
    <3>1. SUFFICES ASSUME NEW s \in epoch[r] .. Cur(r), s > 0 PROVE Intact(r, s)
      BY <1>2, <1>4, <1>8
    <3>2. CASE s = Cur(r)
      BY <2>2, <3>2
    <3>3. CASE s # Cur(r)
      <4>1. s \in epoch[r] .. seq[r]
        BY <1>3, <1>12, <3>3
      <4> QED
        BY <1>7, <3>1, <4>1 DEF KernelInv
    <3> QED
      BY <3>2, <3>3
  <2>4. error'[r] = poison'[r]
    BY <1>2, <1>7 DEF KernelInv
  <2> QED
    BY <1>4, <1>7, <1>8, <1>9, <2>1, <2>3, <2>4 DEF KernelInv
<1>14. StageInv(r)'
  BY <1>2, <1>9, StageFrame DEF RoceInv, RankInv
<1>15. TailInv(r)'
  <2>1. \A c \in CurGrid(r) :
          /\ pc'[r][c] = "done" <=> pc[r][c] = "done"
          /\ pc'[r][c] = "tail" <=> pc[r][c] = "tail"
          /\ Staged(r, c) => Staged(r, c)'
    BY <1>1, <1>3, <1>8
  <2>2. TailInv(r)
    BY DEF RoceInv, RankInv
  <2> QED
    BY <1>2, <1>10, <1>11, <2>1, <2>2, TailFrame
<1>16. ProxyInv(r)'
  <2>1. upto[r] \in Nat /\ ProxyInv(r)
    BY Words DEF RoceInv, RankInv
  <2> QED
    BY <1>2, <1>3, <1>4, <1>12, <2>1 DEF ProxyInv, Posting
<1>17. LinkInv(r)'
  <2>1. \A l \in Links(r) : \A s \in Seqs : Seen(r, l, s) => Seen(r, l, s)'
    <3>1. Seqs \subseteq Nat
      BY DEF Seqs
    <3> QED
      BY <1>2, <1>3, <1>4, <1>12, <3>1 DEF Seen, Posting, net
  <2>2. \A s, t \in Seqs : Before(r, s, t) => Before(r, s, t)'
    BY <1>2 DEF Before, net
  <2>3. LinkInv(r) /\ TypeOK
    BY DEF RoceInv, RankInv
  <2>4. qp'[r] = qp[r] /\ written'[r] = written[r]
    BY <1>2 DEF net
  <2> QED
    BY <1>2, <2>1, <2>2, <2>3, <2>4, LinkWeaken
<1>18. EpochInv(r)'
  BY <1>2, EpochFrame DEF RoceInv, RankInv, net
<1> QED
  BY <1>2, <1>5, <1>6, <1>13, <1>14, <1>15, <1>16, <1>17, <1>18, KernelStep

\* What a block that reaches the tail counter without an error finds, and what
\* the epoch it may publish stands for.
LEMMA LastBlock ==
    ASSUME RoceInv, NEW r \in Ranks, NEW b \in Blocks, pc[r][b] = "tail", error[r] = 0
    PROVE  /\ b \notin Retired(r) /\ Retired(r) \subseteq CurGrid(r) /\ b \in CurGrid(r)
           /\ Counts(tail, r, Retired(r))
           /\ IsLast(tail, r, CurSize(r)) <=> Retired(r) \cup {b} = CurGrid(r)
           /\ Retired(r) \cup {b} = CurGrid(r) =>
                /\ stored[r] = CurGrid(r) /\ AllFlags(r)
                /\ Counted(r) = CurGrid(r) /\ seq[r] = Cur(r)
                /\ \A c \in Blocks \ {b} : pc[r][c] = "done"
<1>1. b \in CurGrid(r) /\ CurGrid(r) \subseteq Blocks
  BY ActiveOp
<1>2. b \notin Retired(r) /\ Retired(r) \subseteq CurGrid(r)
  BY DEF Retired
<1>3. TailInv(r) /\ KernelInv(r) /\ ~Finished(r)
  BY DEF RoceInv, RankInv, Finished
<1>4. Counts(tail, r, Retired(r))
  BY <1>3 DEF TailInv
<1>5. IsLast(tail, r, CurSize(r)) <=> Retired(r) \cup {b} = CurGrid(r)
  <2>1. tail \in [Ranks -> [Blocks -> 0 .. MaxBlocks - 1]] /\ Retired(r) \in SUBSET CurGrid(r)
    BY <1>2 DEF RoceInv, TypeOK
  <2> DEFINE next == Arrival(tail, r, CurSize(r))
  <2>2. /\ IsLast(tail, r, CurSize(r)) <=> Retired(r) \cup {b} = CurGrid(r)
        /\ next \in [Ranks -> [Blocks -> 0 .. MaxBlocks - 1]]
        /\ \A q \in Ranks \ {r} : next[q] = tail[q]
        /\ Counts(next, r, Retired(r) \cup {b})
    BY <1>1, <1>2, <1>4, <2>1, Arrivals
  <2> QED
    BY <2>2
<1>6. ASSUME Retired(r) \cup {b} = CurGrid(r)
      PROVE  /\ stored[r] = CurGrid(r) /\ AllFlags(r)
             /\ Counted(r) = CurGrid(r) /\ seq[r] = Cur(r)
             /\ \A c \in Blocks \ {b} : pc[r][c] = "done"
  <2>1. \A c \in CurGrid(r) \ {b} : pc[r][c] = "done"
    BY <1>6 DEF Retired
  <2>2. \A c \in Blocks \ {b} : pc[r][c] = "done"
    BY <1>3, <2>1 DEF KernelInv, BlockInv
  <2>3. stored[r] = CurGrid(r)
    BY <1>3, <2>1 DEF TailInv
  <2>4. AllFlags(r)
    BY <1>1, <1>3, <2>3 DEF TailInv
  <2>5. \A c \in CurGrid(r) : Staged(r, c)
    <3>1. Staged(r, b)
      BY <1>3 DEF KernelInv, BlockInv
    <3>2. \A c \in Retired(r) : Staged(r, c)
      BY <1>3 DEF TailInv
    <3> QED
      BY <1>6, <3>1, <3>2
  <2>6. Counted(r) = CurGrid(r)
    BY <2>1, <2>5 DEF Counted
  <2>7. seq[r] = Cur(r)
    BY <1>3, <2>2, <2>6 DEF KernelInv
  <2> QED
    BY <2>2, <2>3, <2>4, <2>6, <2>7
<1> QED
  BY <1>1, <1>2, <1>4, <1>5, <1>6

\* The kernel of the next operation, once the epoch is published.
LEMMA Published ==
    ASSUME RoceInv, TypeOK', NEW r \in Ranks, NEW b \in Blocks,
           pc[r][b] = "tail", error[r] = 0, Retired(r) \cup {b} = CurGrid(r),
           epoch'[r] = Cur(r), tail'[r] = Arrival(tail, r, CurSize(r))[r],
           \A c \in Blocks : pc'[r][c] = "done",
           UNCHANGED <<poison, stage, seq, nbytes, error, send, stored, flag, op, broken, last_seq>>
    PROVE  KernelInv(r)' /\ StageInv(r)' /\ TailInv(r)' /\ EpochInv(r)'
<1>1. /\ Cur(r) \in Seqs /\ Cur(r) \in Nat \ {0} /\ CurSize(r) = Grid[Cur(r)]
      /\ CurGrid(r) \subseteq Blocks
  BY ActiveOp
<1>2. /\ stored[r] = CurGrid(r) /\ AllFlags(r) /\ Counted(r) = CurGrid(r)
      /\ seq[r] = Cur(r) /\ b \notin Retired(r) /\ b \in CurGrid(r)
      /\ Counts(tail, r, Retired(r)) /\ Retired(r) \subseteq CurGrid(r)
  BY LastBlock
<1>3. /\ Cur(r)' = Cur(r) + 1 /\ SlotOf(Cur(r)') \in SlotIds
      /\ CurSize(r)' \in Nat \ {0} /\ CurSize(r)' \in GridSizes
      /\ CurGrid(r)' = 1 .. CurSize(r)' /\ CurGrid(r)' \subseteq Blocks
  <2>1. Cur(r)' = Cur(r) + 1 /\ SlotOf(Cur(r)') \in SlotIds
    BY <1>1, SlotFacts DEF Cur
  <2>2. Succ(epoch'[r]) \in Seqs
    BY <1>1, SuccFacts
  <2>3. CurSize(r)' = Grid[Succ(epoch'[r])]
    BY DEF CurSize
  <2>4. CurSize(r)' \in 1 .. MaxBlocks /\ CurSize(r)' \in GridSizes /\ MaxBlocks \in Nat
    BY <2>2, <2>3, Consts
  <2>5. CurGrid(r)' = 1 .. CurSize(r)'
    BY DEF CurGrid
  <2> QED
    BY <2>1, <2>4, <2>5 DEF Blocks
<1>4. KernelInv(r) /\ StageInv(r)
  BY DEF RoceInv, RankInv
<1>5. \A c \in Blocks : \A k \in SlotIds : send[r][k][c] \in Nat /\ send[r][k][c] <= Cur(r)
  <2>1. send \in [Ranks -> [SlotIds -> [Blocks -> Seqs]]] /\ Seqs \subseteq Nat
    BY DEF RoceInv, TypeOK, Seqs
  <2>2. \A c \in Blocks : \A k \in SlotIds : send[r][k][c] <= Cur(r)
    BY <1>4 DEF KernelInv, BlockInv
  <2>3. \A c \in Blocks : \A k \in SlotIds : send[r][k][c] \in Seqs
    BY <2>1
  <2> QED
    BY <2>1, <2>2, <2>3
<1>6. \A c \in Blocks : ~Staged(r, c)'
  BY <1>1, <1>3, <1>5 DEF Staged
<1>7. Counted(r)' = {} /\ CurGrid(r)' # {} /\ Retired(r)' = CurGrid(r)'
  BY <1>3, <1>6 DEF Counted, Retired
<1>8. KernelInv(r)'
  <2>1. ASSUME NEW c \in Blocks PROVE BlockInv(r, c)'
    <3>1. \A k \in SlotIds : send'[r][k][c] <= Cur(r)'
      BY <1>1, <1>3, <1>5
    <3> QED
      BY <1>6, <3>1 DEF BlockInv
  <2>2. Intact(r, Cur(r))
    <3>1. epoch[r] \in Nat /\ Cur(r) = epoch[r] + 1
      BY Words DEF RoceInv, Cur
    <3>2. Cur(r) \in epoch[r] .. seq[r] /\ Cur(r) > 0
      BY <1>1, <1>2, <3>1
    <3> QED
      BY <1>4, <3>2 DEF KernelInv
  <2>3. \A s \in epoch'[r] .. seq'[r] : s > 0 => Intact(r, s)'
    BY <1>1, <1>2, <2>2 DEF Intact
  <2>4. error'[r] = poison'[r] /\ seq'[r] = epoch'[r] /\ seq'[r] # Cur(r)'
    BY <1>1, <1>2, <1>3, <1>4 DEF KernelInv
  <2> QED
    BY <1>7, <2>1, <2>3, <2>4 DEF KernelInv
<1>9. \A g \in GridSizes : g \in Nat \ {0} /\ 0 % g = 0 /\ g % g = 0
  BY Consts, ModSelf DEF GridSizes
<1>10. /\ Cardinality(CurGrid(r)) = CurSize(r) /\ Cardinality(CurGrid(r)') = CurSize(r)'
       /\ Cardinality({}) = 0 /\ CurSize(r) \in GridSizes
  <2>1. CurSize(r) \in Nat \ {0} /\ CurSize(r) \in GridSizes
    BY Words DEF RoceInv
  <2>2. \A n \in Nat \ {0} : Cardinality(1 .. n) = n
    BY FS_Interval
  <2>3. CurGrid(r) = 1 .. CurSize(r)
    BY DEF CurGrid
  <2> QED
    BY <1>3, <2>1, <2>2, <2>3, FS_EmptySet
<1>11. StageInv(r)'
  <2>1. \A g \in GridSizes : stage[r][g] % g = 0
    BY <1>2, <1>4, <1>9, <1>10 DEF StageInv, Counts
  <2> QED
    BY <1>3, <1>7, <1>9, <1>10, <2>1 DEF StageInv, Counts
<1>12. TailInv(r)'
  <2> DEFINE next == Arrival(tail, r, CurSize(r))
  <2>1. Counts(next, r, CurGrid(r))
    <3>1. tail \in [Ranks -> [Blocks -> 0 .. MaxBlocks - 1]] /\ Retired(r) \in SUBSET CurGrid(r)
      BY <1>2 DEF RoceInv, TypeOK
    <3>2. /\ IsLast(tail, r, CurSize(r)) <=> Retired(r) \cup {b} = CurGrid(r)
          /\ next \in [Ranks -> [Blocks -> 0 .. MaxBlocks - 1]]
          /\ \A q \in Ranks \ {r} : next[q] = tail[q]
          /\ Counts(next, r, Retired(r) \cup {b})
      BY <1>2, <3>1, Arrivals
    <3> QED
      BY <3>2
  <2> HIDE DEF next
  <2>2. \A g \in GridSizes : next[r][g] % g = 0
    BY <1>9, <1>10, <2>1 DEF Counts
  <2>3. tail'[r] = next[r]
    BY DEF next
  <2>4. Counts(tail, r, Retired(r))'
    BY <1>3, <1>7, <1>9, <1>10, <2>2, <2>3 DEF Counts
  <2>5. Finished(r)'
    BY DEF Finished
  <2>6. stored'[r] = 1 .. Grid[epoch'[r]] /\ epoch'[r] # 0
    BY <1>1, <1>2 DEF CurGrid
  <2> QED
    BY <2>4, <2>5, <2>6 DEF TailInv
<1>13. EpochInv(r)'
  BY <1>2 DEF RoceInv, RankInv, EpochInv, AllFlags
<1> QED
  BY <1>8, <1>11, <1>12, <1>13

LEMMA FinishStep ==
    ASSUME RoceInv, NEW r \in Ranks, NEW b \in Blocks, Finish(r, b)
    PROVE  RoceInv'
<1> DEFINE g == CurSize(r)
           next == Arrival(tail, r, g)
           last == IsLast(tail, r, g) /\ NoError(r)
<1>1. /\ pc' \in [Ranks -> [Blocks -> {"done", "start", "stage", "arrive", "ring",
                                       "wait", "reduce", "tail"}]]
      /\ pc[r][b] = "tail" /\ pc'[r][b] = "done"
      /\ \A q \in Ranks \ {r} : pc'[q] = pc[q]
      /\ \A c \in Blocks \ {b} : pc'[r][c] = pc[r][c]
  <2>1. Goto(r, b, "done") /\ pc[r][b] = "tail"
    BY DEF Finish
  <2> QED
    BY <2>1, GotoFacts DEF RoceInv
<1>2. /\ op[r][b] = Cur(r) /\ Cur(r) \in Seqs /\ g = Grid[Cur(r)] /\ b \in CurGrid(r)
      /\ CurGrid(r) \subseteq Blocks
  BY <1>1, ActiveOp
<1>3. /\ UNCHANGED <<poison, stage, seq, nbytes, error, send, recv, flag, op, stored>>
      /\ UNCHANGED <<last_seq, upto, bytes, todo, net>>
      /\ tail' = next
      /\ epoch' = IF last THEN [epoch EXCEPT ![r] = Cur(r)] ELSE epoch
  BY <1>2 DEF Finish, region, proxy
<1>4. g \in Blocks /\ CounterClass(g) = g
  BY <1>2, Words DEF RoceInv, CounterClass
<1>5. /\ tail' \in [Ranks -> [Blocks -> 0 .. MaxBlocks - 1]]
      /\ \A q \in Ranks \ {r} : tail'[q] = tail[q]
  <2>1. tail \in [Ranks -> [Blocks -> 0 .. MaxBlocks - 1]]
    BY DEF RoceInv, TypeOK
  <2>2. tail[r][g] \in Int /\ (tail[r][g] + 1) % MaxBlocks \in 0 .. MaxBlocks - 1
    BY <1>4, <2>1, Consts, ModType
  <2>3. tail' = [tail EXCEPT ![r][g] = (tail[r][g] + 1) % MaxBlocks]
    BY <1>3, <1>4, <2>1 DEF Arrival
  <2> HIDE DEF g
  <2> QED
    BY <1>4, <2>1, <2>2, <2>3
<1>6. /\ epoch' \in [Ranks -> Seqs] /\ \A q \in Ranks \ {r} : epoch'[q] = epoch[q]
      /\ last => epoch'[r] = Cur(r)
      /\ ~last => epoch' = epoch
  <2>1. epoch \in [Ranks -> Seqs]
    BY DEF RoceInv, TypeOK
  <2> HIDE DEF last
  <2> QED
    BY <1>2, <1>3, <2>1
<1>7. TypeOK'
  BY <1>1, <1>3, <1>5, <1>6 DEF Finish, RoceInv, TypeOK, proxy, net
<1>8. \A q \in Ranks \ {r} : Untouched(q)
  BY <1>1, <1>3, <1>5, <1>6 DEF Untouched, net
<1>9. ProxyInv(r)'
  BY <1>3, ProxyFrame DEF RoceInv, RankInv
<1>10. LinkInv(r)'
  BY <1>3, LinkFrame DEF RoceInv, RankInv, net
<1>11. KernelInv(r) /\ BlockInv(r, b)
  BY DEF RoceInv, RankInv, KernelInv
<1>12. KernelInv(r)' /\ StageInv(r)' /\ TailInv(r)' /\ EpochInv(r)'
  <2>1. CASE last
    <3>1. error[r] = 0 /\ Retired(r) \cup {b} = CurGrid(r)
      BY <1>1, <2>1, LastBlock DEF NoError
    <3>2. \A c \in Blocks : pc'[r][c] = "done"
      BY <1>1, <3>1, LastBlock
    <3>3. epoch'[r] = Cur(r) /\ tail'[r] = Arrival(tail, r, CurSize(r))[r]
      BY <1>3, <1>6, <2>1
    <3>4. UNCHANGED <<poison, stage, seq, nbytes, error, send, stored, flag, op, broken, last_seq>>
      BY <1>3 DEF net
    <3> QED
      BY <1>1, <1>7, <3>1, <3>2, <3>3, <3>4, Published
  <2>2. CASE ~last
    <3>1. epoch' = epoch
      BY <1>6, <2>2
    <3>2. AllFlags(r) => AllFlags(r)'
      BY <1>3, <3>1, FlagsFrame
    <3>3. error'[r] = poison'[r] /\ (error[r] = 0 <=> poison'[r] = 0) /\ (poison'[r] = 0 => poison[r] = 0)
      BY <1>3, <1>11 DEF KernelInv
    <3>4. /\ CurSize(r)' = CurSize(r) /\ CurGrid(r)' = CurGrid(r)
          /\ \A c : Staged(r, c)' = Staged(r, c)
      BY <1>3, <3>1 DEF Cur, CurSize, CurGrid, Staged
    <3>5. error[r] = 0 => /\ b \notin Retired(r) /\ Retired(r) \subseteq CurGrid(r)
                          /\ Retired(r) \cup {b} # CurGrid(r)
                          /\ Counts(tail, r, Retired(r))
      BY <1>1, <2>2, LastBlock DEF NoError
    <3>6. Retired(r)' = Retired(r) \cup {b}
      BY <1>1, <1>2, <3>4 DEF Retired
    <3>7. error[r] = 0 => ~Finished(r)'
      <4>1. SUFFICES ASSUME error[r] = 0 PROVE ~Finished(r)'
        OBVIOUS
      <4>2. PICK c \in CurGrid(r) : c \notin Retired(r)'
        BY <1>2, <3>5, <3>6, <4>1
      <4>3. pc'[r][c] # "done" /\ c \in Blocks
        BY <1>2, <3>4, <4>2 DEF Retired
      <4> QED
        BY <4>3 DEF Finished
    <3>8. KernelInv(r)' /\ Counted(r)' = Counted(r)
      <4>1. pc[r][b] \notin {"arrive", "ring"} /\ pc'[r][b] \notin {"arrive", "ring", "start", "stage", "wait", "reduce", "tail"}
        BY <1>1
      <4>2. poison'[r] = 0 => poison[r] = 0 /\ ~Finished(r)'
        BY <3>3, <3>7
      <4> QED
        BY <1>1, <1>2, <1>3, <1>11, <3>1, <3>2, <3>3, <4>1, <4>2, KernelMove
    <3>9. StageInv(r)'
      BY <1>3, <3>1, <3>8, StageFrame DEF RoceInv, RankInv
    <3>10. TailInv(r)'
      <4>1. SUFFICES ASSUME error[r] = 0 PROVE TailInv(r)'
        BY <1>3 DEF TailInv
      <4>2. TailInv(r) /\ ~Finished(r)
        BY <1>1 DEF RoceInv, RankInv, Finished
      <4>3. Counts(next, r, Retired(r) \cup {b})
        <5>1. tail \in [Ranks -> [Blocks -> 0 .. MaxBlocks - 1]] /\ Retired(r) \in SUBSET CurGrid(r)
          BY <3>5, <4>1 DEF RoceInv, TypeOK
        <5>2. /\ IsLast(tail, r, CurSize(r)) <=> Retired(r) \cup {b} = CurGrid(r)
              /\ next \in [Ranks -> [Blocks -> 0 .. MaxBlocks - 1]]
              /\ \A q \in Ranks \ {r} : next[q] = tail[q]
              /\ Counts(next, r, Retired(r) \cup {b})
          BY <1>2, <3>5, <4>1, <5>1, Arrivals
        <5> QED
          BY <5>2
      <4> HIDE DEF next
      <4>4. Counts(tail, r, Retired(r))'
        BY <1>3, <3>4, <3>6, <4>3 DEF Counts
      <4>5. stored'[r] = {c \in CurGrid(r) : pc'[r][c] \in {"tail", "done"}}
        <5>1. stored[r] = {c \in CurGrid(r) : pc[r][c] \in {"tail", "done"}}
          BY <4>1, <4>2 DEF TailInv
        <5> QED
          BY <1>1, <1>2, <1>3, <5>1
      <4>6. \A c \in Retired(r)' : Staged(r, c)'
        <5>1. Staged(r, b)
          BY <1>1, <1>11 DEF BlockInv
        <5>2. \A c \in Retired(r) : Staged(r, c)
          BY <4>1, <4>2 DEF TailInv
        <5> QED
          BY <3>4, <3>6, <5>1, <5>2
      <4>7. stored'[r] # {} => AllFlags(r)'
        BY <1>3, <3>2, <4>1, <4>2 DEF TailInv
      <4>8. ~Finished(r)'
        BY <3>7, <4>1
      <4> QED
        BY <3>4, <4>4, <4>5, <4>6, <4>7, <4>8 DEF TailInv
    <3>11. EpochInv(r)'
      BY <1>3, <3>1, EpochFrame DEF RoceInv, RankInv, net
    <3> QED
      BY <3>8, <3>9, <3>10, <3>11
  <2> QED
    BY <2>1, <2>2
<1> QED
  BY <1>3, <1>7, <1>8, <1>9, <1>10, <1>12, KernelStep

-----------------------------------------------------------------------------
(* The proxy's steps. *)

\* A step of one rank's proxy or queue pairs, which may fill its slots of the
\* peers' receive buffers.
LEMMA ProxyStep ==
    ASSUME RoceInv, TypeOK', Shape', NEW r \in Ranks,
           UNCHANGED <<device, seq, nbytes, error, send, flag, kernel>>,
           \A q \in Ranks \ {r} : Untouched(q),
           \A q \in Ranks \ {r} : \A l \in Links(q) : recv'[l[1]][q] = recv[l[1]][q],
           ProxyInv(r)', LinkInv(r)', EpochInv(r)'
    PROVE  RoceInv'
<1> USE DEF device, kernel
<1>1. ASSUME NEW q \in Ranks \ {r} PROVE RankInv(q)'
  BY RankFrame DEF RoceInv
<1>2. AllFlags(r) => AllFlags(r)'
  BY FlagsFrame
<1>3. Counted(r)' = Counted(r) /\ \A b : Staged(r, b)' = Staged(r, b)
  BY CountedFrame DEF Staged, Cur
<1>4. KernelInv(r)'
  BY <1>2, KernelFrame DEF RoceInv, RankInv
<1>5. StageInv(r)'
  BY <1>3, StageFrame DEF RoceInv, RankInv
<1>6. Finished(r)' = Finished(r)
  BY DEF Finished
<1>7. TailInv(r)'
  BY <1>2, <1>3, <1>6, TailFrame DEF RoceInv, RankInv
<1>8. RankInv(r)'
  BY <1>4, <1>5, <1>7 DEF RankInv
<1> QED
  BY <1>1, <1>8 DEF RoceInv

\* A proxy that gives up: it has nothing open any more, and nothing else changes.
LEMMA FailStep ==
    ASSUME RoceInv, NEW r \in Ranks, Fail(r), ~Posting(r) \/ broken[r] # {},
           UNCHANGED <<device, region, kernel, last_seq, bytes, stops, net, host>>
    PROVE  RoceInv'
<1> USE DEF device, region, kernel, net
<1>1. /\ upto' \in [Ranks -> Seqs] /\ upto'[r] = last_seq[r]
      /\ \A q \in Ranks \ {r} : upto'[q] = upto[q]
  BY DEF Fail, RoceInv, TypeOK
<1>2. /\ todo'[r] = {} /\ DOMAIN todo' = Ranks
      /\ \A q \in Ranks \ {r} : todo'[q] = todo[q]
  BY DEF Fail, RoceInv, Shape
<1>3. TypeOK'
  <2>1. /\ thread' \in [Ranks -> {"running", "stopping", "stopped", "dead"}]
        /\ failed' \in [Ranks -> {0, 1}]
    BY DEF Fail, RoceInv, TypeOK
  <2>2. \A q \in Ranks : todo'[q] \subseteq Links(q)
    BY <1>2 DEF RoceInv, TypeOK
  <2> QED
    BY <1>1, <2>1, <2>2 DEF RoceInv, TypeOK
<1>4. Shape'
  BY <1>2 DEF RoceInv, Shape
<1>5. \A q \in Ranks \ {r} : Untouched(q)
  BY <1>1, <1>2 DEF Untouched
<1>6. ProxyInv(r) /\ LinkInv(r) /\ EpochInv(r)
  BY DEF RoceInv, RankInv
<1>7. ~Posting(r)' /\ last_seq'[r] = last_seq[r]
  BY <1>1 DEF Posting
<1>8. ProxyInv(r)'
  <2>1. last_seq[r] \in Nat /\ seq[r] \in Nat /\ upto[r] \in Nat
    BY Words DEF RoceInv
  <2> QED
    BY <1>1, <1>2, <1>6, <1>7, <2>1 DEF ProxyInv
<1>9. LinkInv(r)'
  <2>1. \A l \in Links(r) : \A s \in Seqs : Seen(r, l, s) => Seen(r, l, s)'
    BY <1>2, <1>7 DEF Seen
  <2>2. \A s, t \in Seqs : Before(r, s, t) => Before(r, s, t)'
    BY DEF Before
  <2> QED
    BY <1>6, <2>1, <2>2, LinkWeaken DEF RoceInv
<1>10. EpochInv(r)'
  BY <1>6, EpochFrame
<1> QED
  BY <1>3, <1>4, <1>5, <1>8, <1>9, <1>10, ProxyStep

\* A proxy that opens operation s: its size is read from a slot that is whole.
LEMMA OpenOpSize ==
    ASSUME RoceInv, NEW r \in Ranks, NEW s \in Seqs, OpenOp(r, s),
           epoch[r] <= s, s <= seq[r], 0 < s
    PROVE  /\ bytes' \in [Ranks -> 0 .. MaxBlocks] /\ bytes'[r] = Grid[s]
           /\ todo'[r] = Links(r) /\ DOMAIN todo' = Ranks
           /\ \A q \in Ranks \ {r} : bytes'[q] = bytes[q] /\ todo'[q] = todo[q]
<1>1. s \in epoch[r] .. seq[r] /\ SlotOf(s) \in SlotIds
  BY Words, SlotFacts DEF RoceInv
<1>2. nbytes[r][SlotOf(s)] = Grid[s]
  BY <1>1 DEF RoceInv, RankInv, KernelInv, Intact
<1>3. Grid[s] \in 0 .. MaxBlocks
  BY Consts
<1>4. /\ bytes' \in [Ranks -> 0 .. MaxBlocks] /\ bytes'[r] = Grid[s]
      /\ \A q \in Ranks \ {r} : bytes'[q] = bytes[q]
  BY <1>2, <1>3 DEF OpenOp, RoceInv, TypeOK
<1>5. /\ todo'[r] = Links(r) /\ DOMAIN todo' = Ranks
      /\ \A q \in Ranks \ {r} : todo'[q] = todo[q]
  BY DEF OpenOp, RoceInv, Shape
<1> QED
  BY <1>4, <1>5

LEMMA PollStep ==
    ASSUME RoceInv, NEW r \in Ranks, Poll(r)
    PROVE  RoceInv'
<1>1. ~Posting(r) /\ seq[r] # last_seq[r]
  BY DEF Poll
<1>2. CASE Pending(r) > Slots
  BY <1>1, <1>2, FailStep DEF Poll
<1>3. CASE /\ upto' = [upto EXCEPT ![r] = seq[r]] /\ OpenOp(r, Succ(last_seq[r]))
           /\ UNCHANGED <<thread, failed>>
  <2> USE DEF device, region, kernel, net
  <2>1. UNCHANGED <<device, region, kernel, last_seq, stops, net, host>>
    BY DEF Poll
  <2>2. /\ last_seq[r] \in Seqs /\ last_seq[r] \in Nat /\ seq[r] \in Seqs /\ seq[r] \in Nat
        /\ epoch[r] \in Nat
    BY Words DEF RoceInv
  <2>3. ProxyInv(r) /\ LinkInv(r) /\ EpochInv(r)
    BY DEF RoceInv, RankInv
  <2>4. upto[r] = last_seq[r] /\ last_seq[r] < seq[r] /\ todo[r] = {}
    BY <1>1, <2>2, <2>3 DEF ProxyInv, Posting
  <2>5. last_seq[r] + 1 \in Seqs /\ Succ(last_seq[r]) = last_seq[r] + 1
    <3>1. last_seq[r] + 1 \in Seqs
      BY <2>2, <2>4, Consts DEF Seqs
    <3> QED
      BY <2>2, <3>1, SuccFacts
  <2>6. epoch[r] <= last_seq[r] + 1 /\ last_seq[r] + 1 <= seq[r] /\ 0 < last_seq[r] + 1
    <3>1. Posted(r) = last_seq[r] /\ Posted(r) >= epoch[r] - 1
      BY <1>1, PostedRecent DEF Posted
    <3> QED
      BY <2>2, <2>4, <3>1
  <2>7. /\ bytes' \in [Ranks -> 0 .. MaxBlocks] /\ bytes'[r] = Grid[last_seq[r] + 1]
        /\ todo'[r] = Links(r) /\ DOMAIN todo' = Ranks
        /\ \A q \in Ranks \ {r} : bytes'[q] = bytes[q] /\ todo'[q] = todo[q]
    BY <1>3, <2>5, <2>6, OpenOpSize
  <2>8. /\ upto' \in [Ranks -> Seqs] /\ upto'[r] = seq[r]
        /\ \A q \in Ranks \ {r} : upto'[q] = upto[q]
    BY <1>3, <2>2 DEF RoceInv, TypeOK
  <2>9. TypeOK'
    <3>1. \A q \in Ranks : todo'[q] \subseteq Links(q)
      BY <2>7 DEF RoceInv, TypeOK
    <3> QED
      BY <1>3, <2>1, <2>7, <2>8, <3>1 DEF RoceInv, TypeOK
  <2>10. Shape'
    BY <2>1, <2>7 DEF RoceInv, Shape
  <2>11. \A q \in Ranks \ {r} : Untouched(q)
    BY <2>1, <2>7, <2>8 DEF Untouched
  <2>12. ProxyInv(r)'
    BY <2>1, <2>2, <2>4, <2>7, <2>8 DEF ProxyInv, Posting
  <2>13. LinkInv(r)'
    <3>1. \A l \in Links(r) : \A s \in Seqs : Seen(r, l, s) => Seen(r, l, s)'
      BY <1>1, <2>1 DEF Seen
    <3>2. \A s, t \in Seqs : Before(r, s, t) => Before(r, s, t)'
      BY <2>1 DEF Before
    <3> QED
      BY <2>1, <2>3, <3>1, <3>2, LinkWeaken DEF RoceInv
  <2>14. EpochInv(r)'
    BY <2>1, <2>3, EpochFrame
  <2> QED
    BY <2>1, <2>9, <2>10, <2>11, <2>12, <2>13, <2>14, ProxyStep
<1> QED
  BY <1>2, <1>3 DEF Poll

LEMMA IdlePollStep ==
    ASSUME RoceInv, NEW r \in Ranks, IdlePoll(r)
    PROVE  RoceInv'
BY FailStep DEF IdlePoll

LEMMA LeastOf ==
    ASSUME NEW T \in SUBSET Nat, T # {}
    PROVE  \E x \in T : \A y \in T : x <= y
<1> DEFINE R == {ss \in Nat \X Nat : ss[1] < ss[2]}
<1>1. IsWellFoundedOn(R, Nat)
  BY NatLessThanWellFounded DEF OpToRel
<1>2. PICK x \in T : \A y \in T : ~(<<y, x>> \in R)
  <2> HIDE DEF R
  <2> QED
    BY <1>1, WFMin
<1>3. \A y \in T : x <= y
  <2> TAKE y \in T
  <2>1. x \in Nat /\ y \in Nat
    OBVIOUS
  <2>2. <<y, x>> \in Nat \X Nat /\ <<y, x>>[1] = y /\ <<y, x>>[2] = x
    BY <2>1
  <2>3. ~(y < x)
    BY <1>2, <2>2
  <2> QED
    BY <2>1, <2>3
<1> QED
  BY <1>3

\* The link the proxy posts to next is one it has still to post to.
LEMMA NextLinkFound ==
    ASSUME NEW r \in Ranks, todo[r] # {}, todo[r] \subseteq Links(r)
    PROVE  NextLink(r) \in todo[r] /\ NextLink(r) \in Links(r)
<1>1. todo[r] \subseteq Links(r)
  OBVIOUS
<1>2. \A m \in todo[r] : m[1] \in Nat /\ m[2] \in Nat
  <2>1. Ranks \subseteq Nat /\ Hcas \subseteq Nat
    BY Consts DEF Ranks, Hcas
  <2>2. \A m \in todo[r] : m[1] \in Ranks /\ m[2] \in Hcas
    BY <1>1, LinkFacts
  <2> QED
    BY <2>1, <2>2
<1> DEFINE P == {m[1] : m \in todo[r]}
<1>3. P \in SUBSET Nat /\ P # {}
  BY <1>2
<1>4. PICK p \in P : \A y \in P : p <= y
  BY <1>3, LeastOf
<1> DEFINE H == {m[2] : m \in {n \in todo[r] : n[1] = p}}
<1>5. H \in SUBSET Nat /\ H # {}
  BY <1>2, <1>4
<1>6. PICK h \in H : \A y \in H : h <= y
  BY <1>5, LeastOf
<1>7. PICK l \in todo[r] : l[1] = p /\ l[2] = h
  BY <1>6
<1>8. \A m \in todo[r] : l[1] < m[1] \/ (l[1] = m[1] /\ l[2] <= m[2])
  <2> TAKE m \in todo[r]
  <2>1. p <= m[1] /\ p \in Nat /\ m[1] \in Nat
    BY <1>2, <1>3, <1>4
  <2>2. m[1] = p => h <= m[2]
    BY <1>6
  <2> QED
    BY <1>7, <2>1, <2>2
<1>9. NextLink(r) \in todo[r]
  BY <1>8 DEF NextLink
<1> QED
  BY <1>1, <1>9

LEMMA NextLinkIsLeft ==
    ASSUME RoceInv, NEW r \in Ranks, todo[r] # {}
    PROVE  NextLink(r) \in todo[r] /\ NextLink(r) \in Links(r)
BY NextLinkFound DEF RoceInv, TypeOK

LEMMA ThrottleStep ==
    ASSUME Depth >= 2, RoceInv, NEW r \in Ranks, Throttle(r)
    PROVE  RoceInv'
<1> DEFINE l == NextLink(r)
<1>1. l \in todo[r] /\ l \in Links(r) /\ ~HasRoom(r, l)
  BY NextLinkIsLeft DEF Throttle
<1>2. Len(qp[r][l]) \in Nat /\ ~(Len(qp[r][l]) < Depth) /\ Depth \in Nat
  BY <1>1, LenProperties, RoceAssumption DEF HasRoom, RoceInv, TypeOK
<1> HIDE DEF l
<1>3. broken[r] # {}
  <2>1. SUFFICES ASSUME broken[r] = {} PROVE FALSE
    OBVIOUS
  <2>2. Len(qp[r][l]) <= 1
    BY <1>1, <2>1, Roomy
  <2> QED
    BY <1>2, <2>2
<1> QED
  BY <1>3, FailStep DEF Throttle

LEMMA EndOpStep ==
    ASSUME RoceInv, NEW r \in Ranks, EndOp(r)
    PROVE  RoceInv'
<1>1. Posting(r) /\ todo[r] = {}
  BY DEF EndOp
<1>2. CASE DrainFails(r, Links(r))
  <2>1. broken[r] # {} /\ Fail(r)
    BY <1>2 DEF DrainFails, EndOp
  <2> QED
    BY <1>2, <2>1, FailStep DEF EndOp
<1>3. CASE ~DrainFails(r, Links(r))
  <2> USE DEF device, region, kernel, net
  <2> DEFINE s == last_seq[r] + 1
  <2>1. UNCHANGED <<device, region, kernel, thread, failed, upto, stops, net, host>>
    BY <1>3 DEF EndOp
  <2>2. broken[r] = {}
    BY <1>3 DEF DrainFails, RoceInv, TypeOK
  <2>3. /\ last_seq[r] \in Nat /\ seq[r] \in Seqs /\ seq[r] \in Nat
        /\ upto[r] \in Nat /\ epoch[r] \in Nat
    BY Words DEF RoceInv
  <2>4. ProxyInv(r) /\ LinkInv(r) /\ EpochInv(r)
    BY DEF RoceInv, RankInv
  <2>5. s \in Seqs /\ Succ(last_seq[r]) = s /\ epoch[r] <= s + 1
    <3>1. Succ(last_seq[r]) = s /\ s \in Seqs /\ Posted(r) >= epoch[r] - 1
      BY <1>1, PostedRecent
    <3>2. Posted(r) = s
      BY <1>1, <3>1 DEF Posted
    <3> QED
      BY <2>3, <3>1, <3>2
  <2>6. s <= upto[r] /\ upto[r] <= seq[r]
    BY <1>1, <2>3, <2>4 DEF ProxyInv, Posting
  <2>7. /\ last_seq' = [last_seq EXCEPT ![r] = s]
        /\ IF s # upto[r] THEN OpenOp(r, Succ(s)) ELSE UNCHANGED <<bytes, todo>>
    BY <1>3, <2>5 DEF EndOp
  <2>8. /\ last_seq' \in [Ranks -> Seqs] /\ last_seq'[r] = s
        /\ \A q \in Ranks \ {r} : last_seq'[q] = last_seq[q]
    BY <2>5, <2>7 DEF RoceInv, TypeOK
  <2>9. s # upto[r] => s + 1 \in Seqs /\ Succ(s) = s + 1 /\ s + 1 <= upto[r]
    <3>1. SUFFICES ASSUME s # upto[r] PROVE s + 1 \in Seqs /\ Succ(s) = s + 1 /\ s + 1 <= upto[r]
      OBVIOUS
    <3>2. s + 1 <= upto[r] /\ s + 1 <= seq[r]
      BY <2>3, <2>6, <3>1
    <3>3. s + 1 \in Seqs
      BY <2>3, <3>2, Consts DEF Seqs
    <3> QED
      BY <2>5, <3>2, <3>3, SuccFacts
  <2>10. /\ bytes' \in [Ranks -> 0 .. MaxBlocks]
         /\ DOMAIN todo' = Ranks /\ todo'[r] \subseteq Links(r)
         /\ \A q \in Ranks \ {r} : bytes'[q] = bytes[q] /\ todo'[q] = todo[q]
         /\ s # upto[r] => bytes'[r] = Grid[s + 1]
         /\ s = upto[r] => todo'[r] = {}
    <3>1. CASE s # upto[r]
      <4>1. s + 1 \in Seqs /\ OpenOp(r, s + 1) /\ s + 1 <= seq[r] /\ epoch[r] <= s + 1 /\ 0 < s + 1
        BY <2>3, <2>5, <2>6, <2>7, <2>9, <3>1
      <4>2. /\ bytes' \in [Ranks -> 0 .. MaxBlocks] /\ bytes'[r] = Grid[s + 1]
            /\ todo'[r] = Links(r) /\ DOMAIN todo' = Ranks
            /\ \A q \in Ranks \ {r} : bytes'[q] = bytes[q] /\ todo'[q] = todo[q]
        BY <4>1, OpenOpSize
      <4> QED
        BY <3>1, <4>2
    <3>2. CASE s = upto[r]
      BY <1>1, <2>7, <3>2 DEF RoceInv, TypeOK, Shape
    <3> QED
      BY <3>1, <3>2
  <2>11. TypeOK'
    <3>1. \A q \in Ranks : todo'[q] \subseteq Links(q)
      BY <2>10 DEF RoceInv, TypeOK
    <3> QED
      BY <2>1, <2>8, <2>10, <3>1 DEF RoceInv, TypeOK
  <2>12. Shape'
    BY <2>1, <2>10 DEF RoceInv, Shape
  <2>13. \A q \in Ranks \ {r} : Untouched(q)
    BY <2>1, <2>8, <2>10 DEF Untouched
  <2>14. ProxyInv(r)'
    BY <2>1, <2>6, <2>8, <2>10 DEF ProxyInv, Posting
  <2>15. LinkInv(r)'
    <3>1. \A l \in Links(r) : \A t \in Seqs : Seen(r, l, t) => Seen(r, l, t)'
      <4>1. Seqs \subseteq Nat
        BY DEF Seqs
      <4> QED
        BY <2>1, <2>3, <2>8, <4>1 DEF Seen
    <3>2. \A t, u \in Seqs : Before(r, t, u) => Before(r, t, u)'
      BY <2>2 DEF Before
    <3> QED
      BY <2>1, <2>4, <3>1, <3>2, LinkWeaken DEF RoceInv
  <2>16. EpochInv(r)'
    BY <2>1, <2>2, <2>4 DEF EpochInv
  <2> QED
    BY <2>1, <2>11, <2>12, <2>13, <2>14, <2>15, <2>16, ProxyStep
<1> QED
  BY <1>2, <1>3

LEMMA OneMore == \A n \in Nat : \A j \in 1 .. n + 1 : j \in 1 .. n \/ j = n + 1
OBVIOUS

LEMMA PostStep ==
    ASSUME RoceInv, NEW r \in Ranks, Post(r)
    PROVE  RoceInv'
<1> USE DEF device, region, kernel, net
<1> PICK l : l = NextLink(r)
  OBVIOUS
<1> PICK e : e = [s |-> last_seq[r] + 1, n |-> bytes[r]]
  OBVIOUS
<1> PICK n : n = Len(qp[r][l])
  OBVIOUS
<1>1. Posting(r) /\ l \in todo[r] /\ l \in Links(r) /\ HasRoom(r, l)
  BY NextLinkIsLeft DEF Post
<1>2. Succ(last_seq[r]) = last_seq[r] + 1 /\ last_seq[r] + 1 \in Seqs
  BY <1>1, PostedRecent
<1>3. /\ UNCHANGED <<device, region, kernel, thread, failed, last_seq, upto, bytes,
                     stops, written, broken, host>>
      /\ qp' = [qp EXCEPT ![r][l] = Append(qp[r][l], e)]
      /\ todo' = [todo EXCEPT ![r] = todo[r] \ {l}]
  BY <1>2 DEF Post
<1>4. /\ last_seq[r] \in Nat /\ seq[r] \in Nat /\ upto[r] \in Nat /\ epoch[r] \in Nat
      /\ Seqs \subseteq Nat
  BY Words DEF RoceInv
<1>5. ProxyInv(r) /\ LinkInv(r) /\ EpochInv(r) /\ KernelInv(r)
  BY DEF RoceInv, RankInv
<1>6. bytes[r] = Grid[last_seq[r] + 1] /\ last_seq[r] + 1 <= seq[r] /\ bytes[r] \in 0 .. MaxBlocks
  <2>1. bytes[r] = Grid[last_seq[r] + 1] /\ last_seq[r] + 1 <= seq[r]
    BY <1>1, <1>4, <1>5 DEF ProxyInv, Posting
  <2> QED
    BY <2>1 DEF RoceInv, TypeOK
<1>7. e \in [s : Seqs, n : 0 .. MaxBlocks] /\ e.s = last_seq[r] + 1 /\ e.n = bytes[r]
  BY <1>2, <1>6
<1>8. /\ qp'[r][l] = Append(qp[r][l], e)
      /\ \A q \in Ranks \ {r} : qp'[q] = qp[q]
      /\ \A m \in Links(r) \ {l} : qp'[r][m] = qp[r][m]
      /\ DOMAIN qp' = Ranks /\ \A q \in Ranks : DOMAIN qp'[q] = Links(q)
  BY <1>1, <1>3 DEF RoceInv, Shape
<1>9. /\ todo'[r] = todo[r] \ {l} /\ DOMAIN todo' = Ranks
      /\ \A q \in Ranks \ {r} : todo'[q] = todo[q]
  BY <1>3 DEF RoceInv, Shape
<1>10. qp[r][l] \in Seq([s : Seqs, n : 0 .. MaxBlocks]) /\ n \in Nat
  BY <1>1, LenProperties DEF RoceInv, TypeOK
<1>11. /\ qp'[r][l] \in Seq([s : Seqs, n : 0 .. MaxBlocks]) /\ Len(qp'[r][l]) = n + 1
       /\ \A i \in 1 .. n : qp'[r][l][i] = qp[r][l][i]
       /\ qp'[r][l][n + 1] = e
  BY <1>7, <1>8, <1>10, AppendProperties
<1>12. TypeOK'
  <2>1. \A q \in Ranks : todo'[q] \subseteq Links(q) /\ broken'[q] \subseteq Links(q)
    BY <1>3, <1>9 DEF RoceInv, TypeOK
  <2>2. Len(qp'[r][l]) <= Depth
    BY <1>1, <1>10, <1>11, RoceAssumption DEF HasRoom
  <2>3. written[r][l] \in 0 .. n
    BY <1>1 DEF RoceInv, TypeOK
  <2>4. written'[r][l] \in 0 .. Len(qp'[r][l])
    BY <1>3, <1>10, <1>11, <2>3
  <2>5. ASSUME NEW q \in Ranks, NEW m \in Links(q)
        PROVE  /\ qp'[q][m] \in Seq([s : Seqs, n : 0 .. MaxBlocks])
               /\ Len(qp'[q][m]) <= Depth /\ written'[q][m] \in 0 .. Len(qp'[q][m])
    <3>1. CASE q = r /\ m = l
      BY <1>11, <2>2, <2>4, <3>1
    <3>2. CASE ~(q = r /\ m = l)
      <4>1. qp'[q][m] = qp[q][m] /\ written'[q][m] = written[q][m]
        BY <1>3, <1>8, <3>2
      <4> QED
        BY <4>1 DEF RoceInv, TypeOK
    <3> QED
      BY <3>1, <3>2
  <2> QED
    BY <1>3, <2>1, <2>5 DEF RoceInv, TypeOK
<1>13. Shape'
  BY <1>3, <1>8, <1>9 DEF RoceInv, Shape
<1>14. \A q \in Ranks \ {r} : Untouched(q)
  BY <1>3, <1>8, <1>9 DEF Untouched
<1>15. Posting(r)' /\ Posting(r)' = Posting(r)
  BY <1>1, <1>3 DEF Posting
<1>16. ProxyInv(r)'
  BY <1>3, <1>5, <1>15 DEF ProxyInv
<1>17. \A s, t : Before(r, s, t)' = Before(r, s, t)
  BY <1>3 DEF Before
<1>18. LinkInv(r)'
  <2> SUFFICES ASSUME NEW m \in Links(r) PROVE QueueInv(r, m)' /\ SlotInv(r, m)'
    BY DEF LinkInv
  <2>1. QueueInv(r, m) /\ SlotInv(r, m)
    BY <1>5 DEF LinkInv
  <2>2. \A s : Holds(r, m, s)' = Holds(r, m, s)
    BY <1>3 DEF Holds
  <2>3. CASE m # l
    <3>1. \A s : Seen(r, m, s)' = Seen(r, m, s)
      BY <1>3, <1>9, <1>15, <2>3 DEF Seen
    <3>2. \A k : Overwritten(r, m, k)' = Overwritten(r, m, k)
      BY <1>3, <1>8, <2>3 DEF Overwritten
    <3>3. qp'[r][m] = qp[r][m]
      BY <1>8, <2>3
    <3>4. QueueInv(r, m)'
      <4>1. flag' = flag /\ written' = written
        BY <1>3
      <4>2. /\ \A s, t : Before(r, s, t) => Before(r, s, t)'
            /\ \A s : Seen(r, m, s) => Seen(r, m, s)'
        BY <1>17, <3>1
      <4> QED
        BY <2>1, <3>3, <4>1, <4>2 DEF QueueInv
    <3>5. SlotInv(r, m)'
      BY <1>3, <2>1, <2>2, <3>1, <3>2, <3>3 DEF SlotInv
    <3> QED
      BY <3>4, <3>5
  <2>4. CASE m = l
    <3>1. /\ \A s : Seen(r, l, s) => Seen(r, l, s)'
          /\ \A s : Seen(r, l, s) => /\ s <= last_seq[r] + 1
                                     /\ broken[r] = {} => s <= last_seq[r]
      BY <1>1, <1>3, <1>9, <1>15 DEF Seen
    <3>2. Seen(r, l, e.s)'
      BY <1>3, <1>4, <1>6, <1>7, <1>9, <1>15 DEF Seen
    <3>3. ASSUME NEW s \in Nat, Seen(r, l, s) PROVE Before(r, s, e.s)
      BY <1>4, <1>7, <3>1, <3>3 DEF Before
    <3>4. \A k \in SlotIds : /\ flag[l[1]][r][k][l[2]] \in Nat
                             /\ Seen(r, l, flag[l[1]][r][k][l[2]])
      BY <1>1, <1>4, <2>1, <2>4, Words DEF SlotInv, RoceInv
    <3>5. \A i \in 1 .. n : qp[r][l][i].s \in Nat
      <4> TAKE i \in 1 .. n
      <4>1. qp[r][l][i] \in [s : Seqs, n : 0 .. MaxBlocks]
        BY <1>10, ElementOfSeq
      <4> QED
        BY <1>4, <4>1
    <3>6. \A i \in 1 .. n : Seen(r, l, qp[r][l][i].s)
      BY <2>1, <2>4 DEF QueueInv
    <3>7. QueueInv(r, m)'
      <4>1. ASSUME NEW i \in 1 .. n + 1
            PROVE  /\ qp'[r][l][i].s > 0 /\ qp'[r][l][i].n = Grid[qp'[r][l][i].s]
                   /\ Seen(r, l, qp[r][l][i].s)'
                   /\ \A k \in SlotIds : Before(r, flag[l[1]][r][k][l[2]], qp[r][l][i].s)'
        <5>1. CASE i \in 1 .. n
          BY <1>3, <1>11, <1>17, <2>1, <2>4, <3>1, <5>1 DEF QueueInv
        <5>2. CASE i = n + 1
          <6>1. e.s > 0 /\ e.n = Grid[e.s]
            BY <1>4, <1>6, <1>7
          <6>2. \A k \in SlotIds : Before(r, flag[l[1]][r][k][l[2]], e.s)'
            BY <1>3, <1>17, <3>3, <3>4
          <6> QED
            BY <1>11, <3>2, <5>2, <6>1, <6>2
        <5> QED
          BY <1>10, <5>1, <5>2
      <4>2. ASSUME NEW i \in 1 .. n + 1, NEW j \in 1 .. n + 1, i < j
            PROVE  Before(r, qp[r][l][i].s, qp[r][l][j].s)'
        <5>1. i \in 1 .. n
          BY <1>10, <4>2
        <5>2. CASE j \in 1 .. n
          <6>1. Before(r, qp[r][l][i].s, qp[r][l][j].s)
            BY <2>1, <2>4, <4>2, <5>1, <5>2 DEF QueueInv
          <6> QED
            BY <1>11, <1>17, <5>1, <5>2, <6>1
        <5>3. CASE j = n + 1
          BY <1>11, <1>17, <3>3, <3>5, <3>6, <5>1, <5>3
        <5>4. j \in 1 .. n \/ j = n + 1
          BY <1>10, OneMore
        <5> QED
          BY <5>2, <5>3, <5>4
      <4>3. 1 .. Len(qp'[r][m]) = 1 .. n + 1
        BY <1>11, <2>4
      <4>4. \A i, j \in 1 .. n + 1 : i < j => Before(r, qp[r][l][i].s, qp[r][l][j].s)'
        BY <4>2
      <4> QED
        BY <2>4, <4>1, <4>3, <4>4 DEF QueueInv
    <3>8. SlotInv(r, m)'
      <4>1. written[r][l] = 1 => qp'[r][l][1] = qp[r][l][1]
        <5>1. written[r][l] \in 0 .. n
          BY <1>1 DEF RoceInv, TypeOK
        <5>2. written[r][l] = 1 => 1 \in 1 .. n
          BY <1>10, <5>1
        <5>3. 1 \in 1 .. n => qp'[r][l][1] = qp[r][l][1]
          BY <1>11
        <5> QED
          BY <5>2, <5>3
      <4>2. \A k : Overwritten(r, l, k)' = Overwritten(r, l, k)
        BY <1>3, <4>1 DEF Overwritten
      <4> QED
        BY <1>3, <2>1, <2>2, <2>4, <3>1, <4>1, <4>2 DEF SlotInv
    <3> QED
      BY <3>7, <3>8
  <2> QED
    BY <2>3, <2>4
<1>19. EpochInv(r)'
  BY <1>3, <1>5, EpochFrame
<1> QED
  BY <1>3, <1>12, <1>13, <1>14, <1>16, <1>18, <1>19, ProxyStep

-----------------------------------------------------------------------------
(* The network's steps. *)

\* The write at the head of a link.
LEMMA HeadFacts ==
    ASSUME RoceInv, NEW r \in Ranks, NEW l \in Links(r), Live(r, l)
    PROVE  /\ Len(qp[r][l]) \in Nat \ {0} /\ 1 \in 1 .. Len(qp[r][l])
           /\ Head(qp[r][l]) = qp[r][l][1]
           /\ qp[r][l][1].s \in Seqs /\ qp[r][l][1].s \in Nat \ {0}
           /\ qp[r][l][1].n = Grid[qp[r][l][1].s]
           /\ 1 .. Grid[qp[r][l][1].s] \subseteq Blocks
           /\ SlotOf(qp[r][l][1].s) \in SlotIds
           /\ Intact(r, qp[r][l][1].s) /\ l \notin broken[r]
<1>1. qp[r][l] \in Seq([s : Seqs, n : 0 .. MaxBlocks]) /\ qp[r][l] # <<>>
  BY DEF RoceInv, TypeOK, Live
<1>2. /\ Len(qp[r][l]) \in Nat \ {0} /\ Head(qp[r][l]) = qp[r][l][1]
  BY <1>1, HeadTailProperties, LenProperties, EmptySeq
<1>3. 1 \in 1 .. Len(qp[r][l])
  BY <1>2
<1> DEFINE s == qp[r][l][1].s
<1>4. s \in Seqs /\ s >= epoch[r] /\ s <= seq[r]
  BY <1>3, QueueRecent
<1>5. s > 0 /\ qp[r][l][1].n = Grid[s]
  BY <1>3 DEF RoceInv, RankInv, LinkInv, QueueInv
<1> HIDE DEF s
<1>6. s \in Nat \ {0} /\ epoch[r] \in Nat /\ seq[r] \in Nat
  BY <1>4, <1>5, Words DEF RoceInv
<1>7. Intact(r, s)
  <2>1. s \in epoch[r] .. seq[r]
    BY <1>4, <1>6
  <2> QED
    BY <1>5, <2>1 DEF RoceInv, RankInv, KernelInv
<1>8. SlotOf(s) \in SlotIds
  BY <1>6, SlotFacts
<1>9. 1 .. Grid[s] \subseteq Blocks
  BY <1>4, Consts DEF Blocks
<1> QED
  BY <1>2, <1>3, <1>4, <1>5, <1>6, <1>7, <1>8, <1>9 DEF s, Live

LEMMA WritePayloadStep ==
    ASSUME RoceInv, NEW r \in Ranks, NEW l \in Links(r), WritePayload(r, l)
    PROVE  RoceInv'
<1> USE DEF device, kernel, net, proxy
<1>1. PICK s : s = qp[r][l][1].s
  OBVIOUS
<1>2. PICK k : k = SlotOf(s)
  OBVIOUS
<1>3. /\ Len(qp[r][l]) \in Nat \ {0}
      /\ Head(qp[r][l]) = qp[r][l][1] /\ s \in Seqs /\ s \in Nat \ {0}
      /\ qp[r][l][1].n = Grid[s] /\ 1 .. Grid[s] \subseteq Blocks /\ k \in SlotIds
      /\ Intact(r, s) /\ Grid[s] \in Nat \ {0}
  BY <1>1, <1>2, HeadFacts, Words DEF WritePayload, RoceInv
<1>4. /\ UNCHANGED <<device, seq, nbytes, error, send, flag, kernel, proxy, qp, broken, host>>
      /\ written[r][l] = 0 /\ written' = [written EXCEPT ![r][l] = 1]
      /\ recv' = [recv EXCEPT ![l[1]][r][k][l[2]] =
                    [b \in Blocks |-> IF b <= Grid[s] THEN send[r][k][b] ELSE @[b]]]
  <2>1. Head(qp[r][l]).s = s /\ Head(qp[r][l]).n = Grid[s] /\ SlotOf(Head(qp[r][l]).s) = k
    BY <1>1, <1>2, <1>3
  <2>2. recv' = [recv EXCEPT ![l[1]][r][SlotOf(Head(qp[r][l]).s)][l[2]] =
                  [b \in Blocks |-> IF b <= Head(qp[r][l]).n
                                    THEN send[r][SlotOf(Head(qp[r][l]).s)][b] ELSE @[b]]]
    BY DEF WritePayload
  <2>3. /\ UNCHANGED <<device, seq, nbytes, error, send, flag, kernel, proxy, qp, broken, host>>
        /\ written[r][l] = 0 /\ written' = [written EXCEPT ![r][l] = 1]
    BY DEF WritePayload
  <2> QED
    BY <2>1, <2>2, <2>3
<1>5. l[1] \in Ranks /\ l[2] \in Hcas
  BY LinkFacts
<1>6. /\ recv \in [Ranks -> [Ranks -> [SlotIds -> [Hcas -> [Blocks -> Seqs]]]]]
      /\ send \in [Ranks -> [SlotIds -> [Blocks -> Seqs]]]
  BY DEF RoceInv, TypeOK
<1>7. \A b \in Blocks : send[r][k][b] \in Seqs /\ recv[l[1]][r][k][l[2]][b] \in Seqs
  BY <1>3, <1>5, <1>6
<1>8. PICK new : new = [b \in Blocks |-> IF b <= Grid[s] THEN send[r][k][b]
                                          ELSE recv[l[1]][r][k][l[2]][b]]
  OBVIOUS
<1>9. /\ new \in [Blocks -> Seqs]
      /\ recv' = [recv EXCEPT ![l[1]][r][k][l[2]] = new]
  BY <1>3, <1>4, <1>5, <1>6, <1>7, <1>8
<1>10. \A b \in 1 .. Grid[s] : new[b] = s
  <2>1. \A b \in 1 .. Grid[s] : b \in Blocks /\ b <= Grid[s] /\ send[r][k][b] = s
    BY <1>2, <1>3 DEF Intact
  <2> QED
    BY <1>8, <2>1
<1>11. /\ recv' \in [Ranks -> [Ranks -> [SlotIds -> [Hcas -> [Blocks -> Seqs]]]]]
       /\ recv'[l[1]][r][k][l[2]] = new
       /\ \A j \in SlotIds \ {k} : recv'[l[1]][r][j] = recv[l[1]][r][j]
       /\ \A h \in Hcas \ {l[2]} : recv'[l[1]][r][k][h] = recv[l[1]][r][k][h]
       /\ \A p \in Ranks \ {l[1]} : recv'[p] = recv[p]
       /\ \A q \in Ranks \ {r} : recv'[l[1]][q] = recv[l[1]][q]
  BY <1>3, <1>5, <1>6, <1>9
<1>12. \A q \in Ranks \ {r} : \A m \in Links(q) : recv'[m[1]][q] = recv[m[1]][q]
  BY <1>11, LinkFacts
<1>13. /\ written'[r][l] = 1 /\ \A m \in Links(r) \ {l} : written'[r][m] = written[r][m]
       /\ \A q \in Ranks \ {r} : written'[q] = written[q]
       /\ DOMAIN written' = Ranks /\ \A q \in Ranks : DOMAIN written'[q] = Links(q)
  BY <1>4 DEF RoceInv, Shape
<1>14. TypeOK'
  <2>1. ASSUME NEW q \in Ranks, NEW m \in Links(q)
        PROVE  written'[q][m] \in 0 .. Len(qp[q][m])
    <3>1. written[q][m] \in 0 .. Len(qp[q][m])
      BY DEF RoceInv, TypeOK
    <3>2. 1 \in 0 .. Len(qp[r][l])
      BY <1>3
    <3> QED
      BY <1>13, <3>1, <3>2
  <2> QED
    BY <1>4, <1>11, <2>1 DEF RoceInv, TypeOK
<1>15. Shape'
  BY <1>4, <1>13 DEF RoceInv, Shape
<1>16. \A q \in Ranks \ {r} : Untouched(q)
  BY <1>4, <1>13 DEF Untouched
<1>17. ProxyInv(r)'
  BY <1>4, ProxyFrame DEF RoceInv, RankInv
<1>18. EpochInv(r)'
  BY <1>4, EpochFrame DEF RoceInv, RankInv
<1>19. LinkInv(r)'
  <2> SUFFICES ASSUME NEW m \in Links(r) PROVE QueueInv(r, m)' /\ SlotInv(r, m)'
    BY DEF LinkInv
  <2>1. QueueInv(r, m) /\ SlotInv(r, m)
    BY DEF RoceInv, RankInv, LinkInv
  <2>2. /\ \A t : Seen(r, m, t)' = Seen(r, m, t)
        /\ \A t, u : Before(r, t, u)' = Before(r, t, u)
    BY <1>4 DEF Seen, Before, Posting
  <2>3. QueueInv(r, m)'
    <3>1. flag' = flag /\ qp' = qp
      BY <1>4
    <3> QED
      BY <2>1, <2>2, <3>1 DEF QueueInv
  <2>4. SlotInv(r, m)'
    <3>1. \A j \in SlotIds : flag[m[1]][r][j][m[2]] \in Nat
      BY Words DEF RoceInv
    <3>2. CASE m = l
      <4>1. Holds(r, l, s)'
        BY <1>2, <1>4, <1>10, <1>11 DEF Holds
      <4>2. \A j \in SlotIds : Overwritten(r, l, j)' <=> j = k
        BY <1>1, <1>2, <1>4, <1>13 DEF Overwritten
      <4>3. \A j \in SlotIds : ~Overwritten(r, l, j)
        BY <1>4 DEF Overwritten
      <4>4. ASSUME NEW j \in SlotIds \ {k}, NEW t, SlotOf(t) = j, Holds(r, l, t)
            PROVE  Holds(r, l, t)'
        BY <1>4, <1>11, <4>4 DEF Holds
      <4>5. ASSUME NEW j \in SlotIds
            PROVE  LET t == flag[l[1]][r][j][l[2]]
                   IN  /\ Seen(r, l, t)
                       /\ t # 0 => SlotOf(t) = j /\ Holds(r, l, t)
        BY <2>1, <3>2, <4>3 DEF SlotInv
      <4>6. flag' = flag /\ qp'[r][l][1].s = s
        BY <1>1, <1>4
      <4> QED
        BY <2>2, <3>2, <4>1, <4>2, <4>4, <4>5, <4>6 DEF SlotInv
    <3>3. CASE m # l
      <4>1. \A j \in SlotIds : recv'[m[1]][r][j][m[2]] = recv[m[1]][r][j][m[2]]
        <5>1. m[1] \in Ranks /\ m[2] \in Hcas /\ (m[1] # l[1] \/ m[2] # l[2])
          BY <3>3, LinkFacts
        <5> QED
          BY <1>11, <5>1
      <4>2. ASSUME NEW t, SlotOf(t) \in SlotIds PROVE Holds(r, m, t)' = Holds(r, m, t)
        BY <4>1, <4>2 DEF Holds
      <4>3. \A j : Overwritten(r, m, j)' = Overwritten(r, m, j)
        BY <1>4, <1>13, <3>3 DEF Overwritten
      <4>4. flag' = flag /\ qp' = qp /\ written'[r][m] = written[r][m]
        BY <1>4, <1>13, <3>3
      <4>5. written[r][m] = 1 => SlotOf(qp[r][m][1].s) \in SlotIds
        <5>1. SUFFICES ASSUME written[r][m] = 1 PROVE SlotOf(qp[r][m][1].s) \in SlotIds
          OBVIOUS
        <5>2. Len(qp[r][m]) \in Nat /\ written[r][m] \in 0 .. Len(qp[r][m])
          BY LenProperties DEF RoceInv, TypeOK
        <5>3. 1 \in 1 .. Len(qp[r][m])
          BY <5>1, <5>2
        <5>4. qp[r][m][1].s \in Nat
          BY <5>3, QueueRecent, Words DEF RoceInv
        <5> QED
          BY <5>4, SlotFacts
      <4> QED
        BY <2>1, <2>2, <4>2, <4>3, <4>4, <4>5 DEF SlotInv
    <3> QED
      BY <3>2, <3>3
  <2> QED
    BY <2>3, <2>4
<1> QED
  BY <1>4, <1>12, <1>14, <1>15, <1>16, <1>17, <1>18, <1>19, ProxyStep

LEMMA WriteFlagStep ==
    ASSUME RoceInv, NEW r \in Ranks, NEW l \in Links(r), WriteFlag(r, l)
    PROVE  RoceInv'
<1> USE DEF device, kernel, net, proxy
<1>1. PICK s : s = qp[r][l][1].s
  OBVIOUS
<1>2. PICK k : k = SlotOf(s)
  OBVIOUS
<1>3. PICK n : n = Len(qp[r][l])
  OBVIOUS
<1>4. /\ n \in Nat \ {0} /\ 1 \in 1 .. n
      /\ Head(qp[r][l]) = qp[r][l][1] /\ s \in Seqs /\ s \in Nat \ {0}
      /\ k \in SlotIds /\ l \notin broken[r]
  BY <1>1, <1>2, <1>3, HeadFacts DEF WriteFlag
<1>5. /\ UNCHANGED <<device, seq, nbytes, error, send, recv, kernel, proxy, broken, host>>
      /\ written[r][l] = 1 /\ written' = [written EXCEPT ![r][l] = 0]
      /\ qp' = [qp EXCEPT ![r][l] = Tail(qp[r][l])]
      /\ flag' = [flag EXCEPT ![l[1]][r][k][l[2]] = s]
  <2>1. Head(qp[r][l]).s = s /\ SlotOf(Head(qp[r][l]).s) = k
    BY <1>1, <1>2, <1>4
  <2>2. flag' = [flag EXCEPT ![l[1]][r][SlotOf(Head(qp[r][l]).s)][l[2]] = Head(qp[r][l]).s]
    BY DEF WriteFlag
  <2>3. /\ UNCHANGED <<device, seq, nbytes, error, send, recv, kernel, proxy, broken, host>>
        /\ written[r][l] = 1 /\ written' = [written EXCEPT ![r][l] = 0]
        /\ qp' = [qp EXCEPT ![r][l] = Tail(qp[r][l])]
    BY DEF WriteFlag
  <2> QED
    BY <2>1, <2>2, <2>3
<1>6. l[1] \in Ranks /\ l[2] \in Hcas
  BY LinkFacts
<1>7. flag \in [Ranks -> [Ranks -> [SlotIds -> [Hcas -> Seqs]]]]
  BY DEF RoceInv, TypeOK
<1>8. /\ flag' \in [Ranks -> [Ranks -> [SlotIds -> [Hcas -> Seqs]]]]
      /\ flag'[l[1]][r][k][l[2]] = s
      /\ \A j \in SlotIds \ {k} : flag'[l[1]][r][j] = flag[l[1]][r][j]
      /\ \A h \in Hcas \ {l[2]} : flag'[l[1]][r][k][h] = flag[l[1]][r][k][h]
      /\ \A p \in Ranks \ {l[1]} : flag'[p] = flag[p]
      /\ \A q \in Ranks \ {r} : flag'[l[1]][q] = flag[l[1]][q]
  BY <1>4, <1>5, <1>6, <1>7
<1>9. \A q \in Ranks \ {r} : \A m \in Links(q) : flag'[m[1]][q] = flag[m[1]][q]
  BY <1>8, LinkFacts
<1>10. \A m \in Links(r) \ {l} : \A j \in SlotIds : flag'[m[1]][r][j][m[2]] = flag[m[1]][r][j][m[2]]
  <2> TAKE m \in Links(r) \ {l}
  <2> TAKE j \in SlotIds
  <2>1. m[1] \in Ranks /\ m[2] \in Hcas /\ (m[1] # l[1] \/ m[2] # l[2])
    BY LinkFacts
  <2> QED
    BY <1>8, <2>1
<1>11. /\ qp[r][l] \in Seq([s : Seqs, n : 0 .. MaxBlocks]) /\ qp[r][l] # <<>>
  BY DEF RoceInv, TypeOK, WriteFlag, Live
<1>12. /\ qp'[r][l] = Tail(qp[r][l])
       /\ \A q \in Ranks \ {r} : qp'[q] = qp[q]
       /\ \A m \in Links(r) \ {l} : qp'[r][m] = qp[r][m]
       /\ DOMAIN qp' = Ranks /\ \A q \in Ranks : DOMAIN qp'[q] = Links(q)
  BY <1>5 DEF RoceInv, Shape
<1>13. /\ qp'[r][l] \in Seq([s : Seqs, n : 0 .. MaxBlocks]) /\ Len(qp'[r][l]) = n - 1
       /\ \A i \in 1 .. n - 1 : qp'[r][l][i] = qp[r][l][i + 1]
  BY <1>3, <1>11, <1>12, HeadTailProperties
<1>14. /\ written'[r][l] = 0 /\ \A m \in Links(r) \ {l} : written'[r][m] = written[r][m]
       /\ \A q \in Ranks \ {r} : written'[q] = written[q]
       /\ DOMAIN written' = Ranks /\ \A q \in Ranks : DOMAIN written'[q] = Links(q)
  BY <1>5 DEF RoceInv, Shape
<1>15. TypeOK'
  <2>1. ASSUME NEW q \in Ranks, NEW m \in Links(q)
        PROVE  /\ qp'[q][m] \in Seq([s : Seqs, n : 0 .. MaxBlocks])
               /\ Len(qp'[q][m]) <= Depth /\ written'[q][m] \in 0 .. Len(qp'[q][m])
    <3>1. CASE q = r /\ m = l
      <4>1. n <= Depth /\ Depth \in Nat
        BY <1>3, RoceAssumption DEF RoceInv, TypeOK
      <4>2. n - 1 <= Depth /\ 0 \in 0 .. n - 1
        BY <1>4, <4>1
      <4> QED
        BY <1>13, <1>14, <3>1, <4>2
    <3>2. CASE ~(q = r /\ m = l)
      <4>1. qp'[q][m] = qp[q][m] /\ written'[q][m] = written[q][m]
        BY <1>12, <1>14, <3>2
      <4> QED
        BY <4>1 DEF RoceInv, TypeOK
    <3> QED
      BY <3>1, <3>2
  <2> QED
    BY <1>5, <1>8, <2>1 DEF RoceInv, TypeOK
<1>16. Shape'
  BY <1>5, <1>12, <1>14 DEF RoceInv, Shape
<1>17. QueueInv(r, l) /\ SlotInv(r, l)
  BY DEF RoceInv, RankInv, LinkInv
<1>18. flag[l[1]][r][k][l[2]] <= s /\ flag[l[1]][r][k][l[2]] \in Nat
  <2>1. Before(r, flag[l[1]][r][k][l[2]], s)
    BY <1>1, <1>3, <1>4, <1>17 DEF QueueInv
  <2>2. flag[l[1]][r][k][l[2]] \in Nat
    BY <1>4, Words DEF RoceInv
  <2> QED
    BY <1>4, <2>1, <2>2 DEF Before
\* No flag ever goes back.
<1>19. ASSUME NEW q \in Ranks, NEW m \in Links(q), NEW j \in SlotIds
       PROVE  flag'[q][m[1]][j][m[2]] >= flag[q][m[1]][j][m[2]]
  <2>1. m[1] \in Ranks /\ m[2] \in Hcas /\ flag[q][m[1]][j][m[2]] \in Nat
    BY LinkFacts, Words DEF RoceInv
  <2>2. CASE q = l[1] /\ m[1] = r /\ j = k /\ m[2] = l[2]
    BY <1>8, <1>18, <2>2
  <2>3. CASE ~(q = l[1] /\ m[1] = r /\ j = k /\ m[2] = l[2])
    <3>1. flag'[q][m[1]][j][m[2]] = flag[q][m[1]][j][m[2]]
      BY <1>8, <2>1, <2>3
    <3> QED
      BY <2>1, <3>1
  <2> QED
    BY <2>2, <2>3
<1>20. ASSUME NEW q \in Ranks, NEW c \in Nat, NEW j \in SlotIds,
              \A m \in Links(q) : flag[q][m[1]][j][m[2]] >= c
       PROVE  \A m \in Links(q) : flag'[q][m[1]][j][m[2]] >= c
  <2> TAKE m \in Links(q)
  <2>1. m[1] \in Ranks /\ m[2] \in Hcas /\ flag[q][m[1]][j][m[2]] \in Nat
    BY LinkFacts, Words DEF RoceInv
  <2>2. flag'[q][m[1]][j][m[2]] \in Nat
    BY <1>8, <2>1 DEF Seqs
  <2>3. flag'[q][m[1]][j][m[2]] >= flag[q][m[1]][j][m[2]] /\ flag[q][m[1]][j][m[2]] >= c
    BY <1>19, <1>20
  <2> QED
    BY <2>1, <2>2, <2>3
<1>21. ASSUME NEW q \in Ranks PROVE KernelInv(q)' /\ StageInv(q)' /\ TailInv(q)' /\ ProxyInv(q)'
  <2>1. AllFlags(q) => AllFlags(q)'
    <3>1. Cur(q)' = Cur(q) /\ Cur(q) \in Nat /\ SlotOf(Cur(q)) \in SlotIds
      BY <1>5, Words, SlotFacts DEF Cur, RoceInv
    <3>2. PICK c \in Nat : c = Cur(q)
      BY <3>1
    <3>3. PICK j \in SlotIds : j = SlotOf(c)
      BY <3>1, <3>2
    <3>4. AllFlags(q) => \A m \in Links(q) : flag[q][m[1]][j][m[2]] >= c
      BY <3>2, <3>3 DEF AllFlags
    <3>5. AllFlags(q) => \A m \in Links(q) : flag'[q][m[1]][j][m[2]] >= c
      BY <1>20, <3>4
    <3> QED
      BY <3>1, <3>2, <3>3, <3>5 DEF AllFlags
  <2>2. Counted(q)' = Counted(q) /\ \A b : Staged(q, b)' = Staged(q, b)
    BY <1>5, CountedFrame DEF Staged, Cur
  <2>3. Finished(q)' = Finished(q)
    BY <1>5 DEF Finished
  <2>4. KernelInv(q)'
    BY <1>5, <2>1, KernelFrame DEF RoceInv, RankInv
  <2>5. StageInv(q)'
    BY <1>5, <2>2, StageFrame DEF RoceInv, RankInv
  <2>6. TailInv(q)'
    BY <1>5, <2>1, <2>2, <2>3, TailFrame DEF RoceInv, RankInv
  <2>7. ProxyInv(q)'
    BY <1>5, ProxyFrame DEF RoceInv, RankInv
  <2> QED
    BY <2>4, <2>5, <2>6, <2>7
<1>22. ASSUME NEW q \in Ranks PROVE EpochInv(q)'
  <2>1. EpochInv(q) /\ epoch'[q] = epoch[q] /\ broken' = broken /\ last_seq' = last_seq
    BY <1>5 DEF RoceInv, RankInv
  <2>2. \A m \in Links(q) : flag'[q][m[1]][SlotOf(epoch'[q])][m[2]] >= epoch'[q]
    <3>1. epoch[q] \in Nat /\ SlotOf(epoch[q]) \in SlotIds
      BY Words, SlotFacts DEF RoceInv
    <3>2. PICK c \in Nat : c = epoch[q]
      BY <3>1
    <3>3. PICK j \in SlotIds : j = SlotOf(c)
      BY <3>1, <3>2
    <3>4. \A m \in Links(q) : flag[q][m[1]][j][m[2]] >= c
      BY <2>1, <3>2, <3>3 DEF EpochInv
    <3>5. \A m \in Links(q) : flag'[q][m[1]][j][m[2]] >= c
      BY <1>20, <3>4
    <3> QED
      BY <2>1, <3>2, <3>3, <3>5
  <2>3. ASSUME broken[q] # {}
        PROVE  \E m \in broken[q] : \A j \in SlotIds : flag'[m[1]][q][j][m[2]] <= last_seq[q]
    <3>1. PICK m \in broken[q] : \A j \in SlotIds : flag[m[1]][q][j][m[2]] <= last_seq[q]
      BY <2>1, <2>3 DEF EpochInv
    <3>2. m \in Links(q)
      BY DEF RoceInv, TypeOK
    <3>3. \A j \in SlotIds : flag'[m[1]][q][j][m[2]] = flag[m[1]][q][j][m[2]]
      BY <1>4, <1>9, <1>10, <3>2
    <3> QED
      BY <3>1, <3>3
  <2> QED
    BY <2>1, <2>2, <2>3 DEF EpochInv
<1>23. ASSUME NEW q \in Ranks \ {r} PROVE LinkInv(q)'
  BY <1>5, <1>9, <1>12, <1>14, LinkFrame DEF RoceInv, RankInv
<1>24. LinkInv(r)'
  <2> SUFFICES ASSUME NEW m \in Links(r) PROVE QueueInv(r, m)' /\ SlotInv(r, m)'
    BY DEF LinkInv
  <2>1. QueueInv(r, m) /\ SlotInv(r, m)
    BY DEF RoceInv, RankInv, LinkInv
  <2>2. /\ \A t : Seen(r, m, t)' = Seen(r, m, t)
        /\ \A t, u : Before(r, t, u)' = Before(r, t, u)
        /\ \A t : Holds(r, m, t)' = Holds(r, m, t)
    BY <1>5 DEF Seen, Before, Posting, Holds
  <2>3. CASE m # l
    <3>1. /\ qp'[r][m] = qp[r][m] /\ written'[r][m] = written[r][m]
          /\ \A j \in SlotIds : flag'[m[1]][r][j][m[2]] = flag[m[1]][r][j][m[2]]
      BY <1>10, <1>12, <1>14, <2>3
    <3>2. \A j : Overwritten(r, m, j)' = Overwritten(r, m, j)
      BY <3>1 DEF Overwritten
    <3>3. QueueInv(r, m)'
      BY <2>1, <2>2, <3>1 DEF QueueInv
    <3>4. SlotInv(r, m)'
      BY <2>1, <2>2, <3>1, <3>2 DEF SlotInv
    <3> QED
      BY <3>3, <3>4
  <2>4. CASE m = l
    <3>1. \A i \in 1 .. n - 1 : i + 1 \in 1 .. n /\ 1 < i + 1
      BY <1>4
    <3>2. QueueInv(r, l)'
      <4>1. ASSUME NEW i \in 1 .. n - 1
            PROVE  /\ qp'[r][l][i].s > 0 /\ qp'[r][l][i].n = Grid[qp'[r][l][i].s]
                   /\ Seen(r, l, qp[r][l][i].s)'
                   /\ \A j \in SlotIds : Before(r, flag[l[1]][r][j][l[2]], qp[r][l][i].s)'
        <5> DEFINE t == qp[r][l][i + 1].s
        <5>1. /\ t > 0 /\ qp[r][l][i + 1].n = Grid[t] /\ Seen(r, l, t)
              /\ \A j \in SlotIds : Before(r, flag[l[1]][r][j][l[2]], t)
          BY <1>3, <1>17, <3>1 DEF QueueInv
        <5>2. Before(r, s, t)
          BY <1>1, <1>3, <1>4, <1>17, <3>1 DEF QueueInv
        <5>3. qp'[r][l][i] = qp[r][l][i + 1]
          BY <1>13
        <5>4. PICK u : u = t
          OBVIOUS
        <5> HIDE DEF t
        <5>5. qp'[r][l][i].s = u
          BY <5>3, <5>4 DEF t
        <5>6. \A j \in SlotIds : Before(r, flag[l[1]][r][j][l[2]], qp[r][l][i].s)'
          <6> TAKE j \in SlotIds
          <6>1. PICK v : v = flag'[l[1]][r][j][l[2]]
            OBVIOUS
          <6>2. v = s \/ v = flag[l[1]][r][j][l[2]]
            BY <1>8, <6>1
          <6>3. Before(r, v, u)
            BY <5>1, <5>2, <5>4, <6>2
          <6> QED
            BY <2>2, <5>5, <6>1, <6>3
        <5>7. Seen(r, l, qp[r][l][i].s)'
          BY <2>2, <2>4, <5>1, <5>4, <5>5
        <5>8. qp'[r][l][i].s > 0 /\ qp'[r][l][i].n = Grid[qp'[r][l][i].s]
          BY <5>1, <5>3 DEF t
        <5> QED
          BY <5>6, <5>7, <5>8
      <4>2. ASSUME NEW i \in 1 .. n - 1, NEW j \in 1 .. n - 1, i < j
            PROVE  Before(r, qp[r][l][i].s, qp[r][l][j].s)'
        <5>1. i + 1 \in 1 .. n /\ j + 1 \in 1 .. n /\ i + 1 < j + 1
          BY <1>4, <4>2
        <5>2. Before(r, qp[r][l][i + 1].s, qp[r][l][j + 1].s)
          BY <1>3, <1>17, <5>1 DEF QueueInv
        <5> QED
          BY <1>13, <2>2, <5>2
      <4>3. 1 .. Len(qp'[r][l]) = 1 .. n - 1
        BY <1>13
      <4>4. \A i, j \in 1 .. n - 1 : i < j => Before(r, qp[r][l][i].s, qp[r][l][j].s)'
        BY <4>2
      <4> QED
        BY <4>1, <4>3, <4>4 DEF QueueInv
    <3>3. SlotInv(r, l)'
      <4>1. Seen(r, l, s)
        BY <1>1, <1>3, <1>4, <1>17 DEF QueueInv
      <4>2. Holds(r, l, s)
        BY <1>1, <1>5, <1>17 DEF SlotInv
      <4>3. ASSUME NEW j \in SlotIds
            PROVE  LET t == flag[l[1]][r][j][l[2]]
                   IN  Seen(r, l, t)' /\ (t' # 0 => SlotOf(t') = j /\ Holds(r, l, t)')
        <5>1. CASE j = k
          BY <1>2, <1>8, <2>2, <2>4, <4>1, <4>2, <5>1
        <5>2. CASE j # k
          <6>1. ~Overwritten(r, l, j)
            BY <1>1, <1>2, <5>2 DEF Overwritten
          <6>2. flag'[l[1]][r][j][l[2]] = flag[l[1]][r][j][l[2]]
            BY <1>8, <5>2
          <6> QED
            BY <1>17, <2>2, <2>4, <6>1, <6>2 DEF SlotInv
        <5> QED
          BY <5>1, <5>2
      <4>4. written'[r][l] # 1
        BY <1>14
      <4> QED
        BY <4>3, <4>4 DEF SlotInv
    <3> QED
      BY <2>4, <3>2, <3>3
  <2> QED
    BY <2>3, <2>4
<1>25. ASSUME NEW q \in Ranks PROVE RankInv(q)'
  BY <1>21, <1>22, <1>23, <1>24 DEF RankInv
<1> QED
  BY <1>15, <1>16, <1>25 DEF RoceInv

LEMMA BreakStep ==
    ASSUME RoceInv, NEW r \in Ranks, NEW l \in Links(r), Break(r, l)
    PROVE  RoceInv'
<1> USE DEF device, region, kernel, net, proxy
<1>1. /\ UNCHANGED <<device, region, kernel, proxy, qp, written, host>> /\ Live(r, l)
      /\ broken' = [broken EXCEPT ![r] = broken[r] \cup {l}]
  BY DEF Break
<1>2. /\ broken'[r] = broken[r] \cup {l} /\ DOMAIN broken' = Ranks
      /\ \A q \in Ranks \ {r} : broken'[q] = broken[q]
  BY <1>1 DEF RoceInv, Shape
<1>3. TypeOK'
  <2>1. \A q \in Ranks : broken'[q] \subseteq Links(q)
    BY <1>2 DEF RoceInv, TypeOK
  <2> QED
    BY <1>1, <2>1 DEF RoceInv, TypeOK
<1>4. Shape'
  BY <1>1, <1>2 DEF RoceInv, Shape
<1>5. \A q \in Ranks \ {r} : Untouched(q)
  BY <1>1, <1>2 DEF Untouched
<1>6. ProxyInv(r)'
  BY <1>1, ProxyFrame DEF RoceInv, RankInv
<1>7. LinkInv(r)'
  <2>1. \A m \in Links(r) : \A s \in Seqs : Seen(r, m, s) => Seen(r, m, s)'
    BY <1>1, <1>2 DEF Seen
  <2>2. \A s, t \in Seqs : Before(r, s, t) => Before(r, s, t)'
    BY <1>1, <1>2 DEF Before
  <2>3. LinkInv(r) /\ TypeOK
    BY DEF RoceInv, RankInv
  <2> QED
    BY <1>1, <2>1, <2>2, <2>3, LinkWeaken
<1>8. EpochInv(r)'
  <2>1. EpochInv(r) /\ epoch' = epoch /\ flag' = flag /\ last_seq' = last_seq
    BY <1>1 DEF RoceInv, RankInv
  <2>2. CASE broken[r] # {}
    BY <1>2, <2>1, <2>2 DEF EpochInv
  <2>3. CASE broken[r] = {}
    <3> DEFINE s == qp[r][l][1].s
    <3>1. s \in Nat /\ 1 \in 1 .. Len(qp[r][l])
      BY <1>1, HeadFacts
    <3>2. QueueInv(r, l)
      BY DEF RoceInv, RankInv, LinkInv
    <3>3. s <= last_seq[r] + 1 /\ \A k \in SlotIds : flag[l[1]][r][k][l[2]] < s
      BY <2>3, <3>1, <3>2 DEF QueueInv, Seen, Before
    <3>4. last_seq[r] \in Nat /\ \A k \in SlotIds : flag[l[1]][r][k][l[2]] \in Nat
      BY Words DEF RoceInv
    <3> HIDE DEF s
    <3>5. \A k \in SlotIds : flag[l[1]][r][k][l[2]] <= last_seq[r]
      BY <3>1, <3>3, <3>4
    <3> QED
      BY <1>2, <2>1, <3>5 DEF EpochInv
  <2> QED
    BY <2>2, <2>3
<1> QED
  BY <1>1, <1>3, <1>4, <1>5, <1>6, <1>7, <1>8, ProxyStep

-----------------------------------------------------------------------------
(* Every step. *)

LEMMA NextInv ==
    ASSUME Depth >= 2, RoceInv, [Next]_vars
    PROVE  RoceInv'
<1>1. CASE UNCHANGED vars
  <2>1. TypeOK'
    BY <1>1 DEF vars, device, region, kernel, proxy, net, RoceInv, TypeOK
  <2> QED
    BY <1>1, <2>1, QuietStep DEF vars, proxy
<1>2. CASE Next
  <2>1. PICK r \in Ranks :
          \/ Launch(r) \/ CheckHealth(r)
          \/ \E b \in Blocks : Block(r, b) \/ TimeOut(r, b)
          \/ Proxy(r) \/ Stop(r) \/ Start(r)
          \/ \E l \in Links(r) : Network(r, l) \/ Break(r, l)
    BY <1>2 DEF Next
  <2>2. CASE Launch(r) \/ CheckHealth(r) \/ Stop(r) \/ Start(r)
    BY <2>2, LaunchStep, CheckHealthStep, StopStep, StartStep
  <2>3. ASSUME NEW b \in Blocks, Block(r, b) \/ TimeOut(r, b) PROVE RoceInv'
    BY <2>3, StartBlockStep, StageStep, ArriveStep, RingStep, WaitStep,
       ReduceStep, FinishStep, TimeOutStep DEF Block
  <2>4. CASE Proxy(r)
    BY <2>4, PollStep, IdlePollStep, PostStep, ThrottleStep, EndOpStep, LeaveStep
       DEF Proxy
  <2>5. ASSUME NEW l \in Links(r), Network(r, l) \/ Break(r, l) PROVE RoceInv'
    BY <2>5, WritePayloadStep, WriteFlagStep, BreakStep DEF Network
  <2> QED
    BY <2>1, <2>2, <2>3, <2>4, <2>5
<1> QED
  BY <1>1, <1>2

\* The invariant that ties the blocks of a kernel, its counters, the doorbell,
\* the proxy's progress, the writes in flight and the peers' flags and slots.
THEOREM RoceInvariant == ASSUME Depth >= 2 PROVE Spec => []RoceInv
<1>1. RoceInv /\ [Next]_vars => RoceInv'
  BY NextInv
<1> QED
  BY <1>1, InitInv, PTL DEF Spec

\* Every word, counter and queue keeps its type, and no send queue outgrows its
\* depth.
THEOREM RoceTypes == ASSUME Depth >= 2 PROVE Spec => []TypeOK
<1>1. RoceInv => TypeOK
  BY DEF RoceInv
<1> QED
  BY <1>1, RoceInvariant, PTL

\* "The GPU waits for every stripe flag before consuming the receive slot": a
\* block that reduces reads its own operation's payload from every peer, on
\* every HCA, although each slot serves every other operation.
THEOREM RoceReducesOwnOp == ASSUME Depth >= 2 PROVE Spec => []ReducesOwnOp
BY RoceInvariant, ReducesOwnOpHolds, PTL

\* A send slot keeps the payload of its operation until every HCA has read it.
THEOREM RoceSendSlotIntact == ASSUME Depth >= 2 PROVE Spec => []SendSlotIntact
BY RoceInvariant, SendSlotIntactHolds, PTL

\* "Peers cannot get further than one op ahead of us."
THEOREM RoceLockStep == ASSUME Depth >= 2 PROVE Spec => []LockStep
BY RoceInvariant, LockStepHolds, PTL

\* A kernel that finished without an error stored its whole result.
THEOREM RoceHealthyIsComplete == ASSUME Depth >= 2 PROVE Spec => []HealthyIsComplete
BY RoceInvariant, HealthyHolds, PTL

\* What a step may do to the epochs.
EpochStep ==
    \A r \in Ranks : epoch'[r] # epoch[r] =>
        /\ error[r] = 0 /\ epoch'[r] = Succ(epoch[r])
        /\ stored[r] = 1 .. Grid[epoch'[r]]

LEMMA EpochStepHolds ==
    ASSUME RoceInv, [Next]_vars
    PROVE  EpochStep
<1> SUFFICES ASSUME NEW q \in Ranks, epoch'[q] # epoch[q]
             PROVE  /\ error[q] = 0 /\ epoch'[q] = Succ(epoch[q])
                    /\ stored[q] = 1 .. Grid[epoch'[q]]
  BY DEF EpochStep
<1>1. epoch' # epoch
  OBVIOUS
<1>2. PICK r \in Ranks, b \in Blocks : Finish(r, b)
  <2> USE DEF device
  <2>1. Next
    BY <1>1 DEF vars
  <2>2. PICK r \in Ranks :
          \/ Launch(r) \/ CheckHealth(r)
          \/ \E b \in Blocks : Block(r, b) \/ TimeOut(r, b)
          \/ Proxy(r) \/ Stop(r) \/ Start(r)
          \/ \E l \in Links(r) : Network(r, l) \/ Break(r, l)
    BY <2>1 DEF Next
  <2>3. ~(Launch(r) \/ CheckHealth(r) \/ Stop(r) \/ Start(r))
    BY <1>1 DEF Launch, CheckHealth, Stop, Start
  <2>4. ~Proxy(r)
    BY <1>1 DEF Proxy, Poll, IdlePoll, Post, Throttle, EndOp, Leave
  <2>5. \A l \in Links(r) : ~(Network(r, l) \/ Break(r, l))
    BY <1>1 DEF Network, WritePayload, WriteFlag, Break
  <2>6. PICK b \in Blocks : Block(r, b) \/ TimeOut(r, b)
    BY <2>2, <2>3, <2>4, <2>5
  <2>7. Finish(r, b)
    BY <1>1, <2>6 DEF Block, TimeOut, StartBlock, Stage, Arrive, Ring, Wait, Reduce
  <2> QED
    BY <2>7
<1>3. /\ pc[r][b] = "tail"
      /\ epoch' = IF IsLast(tail, r, Grid[op[r][b]]) /\ NoError(r)
                  THEN [epoch EXCEPT ![r] = op[r][b]] ELSE epoch
  BY <1>2 DEF Finish
<1>4. /\ op[r][b] = Cur(r) /\ Succ(epoch[r]) = Cur(r) /\ CurSize(r) = Grid[Cur(r)]
  BY <1>3, ActiveOp
<1>5. IsLast(tail, r, CurSize(r)) /\ NoError(r) /\ epoch' = [epoch EXCEPT ![r] = Cur(r)]
  BY <1>1, <1>3, <1>4
<1>6. q = r /\ epoch'[r] = Cur(r)
  BY <1>5 DEF RoceInv, TypeOK
<1>7. error[r] = 0
  BY <1>5 DEF NoError
<1>8. stored[r] = CurGrid(r)
  BY <1>3, <1>5, <1>7, LastBlock
<1> QED
  BY <1>4, <1>6, <1>7, <1>8 DEF CurGrid

\* The epoch of a rank advances by one operation at a time, over a kernel all
\* of whose blocks stored their result, and never once its error word is set.
THEOREM RoceEpochOverFailure == ASSUME Depth >= 2 PROVE Spec => EpochOverFailure
<1>1. RoceInv /\ [Next]_vars => [EpochStep]_vars
  BY EpochStepHolds
<1>2. Spec => [][EpochStep]_vars
  BY <1>1, RoceInvariant, PTL DEF Spec
<1> QED
  BY <1>2 DEF EpochOverFailure, EpochStep

=============================================================================
