------------------------------ MODULE GcProofs ------------------------------
(***************************************************************************)
(* Proofs about the garbage-collecting FTL and its restarts, for every     *)
(* value of the constants: what the FTL works on is in its queue, every    *)
(* collection meets its number of erases, pending erases wait for reads    *)
(* that are under way, no erased page is lost, and the tables of used and  *)
(* dirty pages agree with the map and with their counters.                 *)
(***************************************************************************)
EXTENDS GcRestart, FtlProofs

GcReadPackets == [type : {"GC_READ"}, address : Addr, page : Pages]
ErasePackets == [type : {"ERASE"}, address : Blocks, page : Pages]
GcPackets ==
    [type : {"READ", "DATA", "WRITE", "GC_WRITE"}, address : Addr, page : Pages]
        \cup GcReadPackets \cup ErasePackets
PendingErases == [erase_block : Blocks, pending_reads : (SUBSET Addr) \ {{}}]
SavedTables ==
    [addressMap : [Addr -> Pages \cup {NoPage}], dirty : SUBSET Pages, used : SUBSET Pages]

(* The kinds of queue entries that are counted.                            *)
Erasures == [type : {"BLOCK_ERASE"}, address : Blocks]
WaitingFor(a) == {e \in PendingErases : a \in e.pending_reads}
ReadPacketsOf(a) == {p \in GcReadPackets : p.address = a}

-----------------------------------------------------------------------------
(* The work of a collection.                                               *)

LEMMA BlocksFacts ==
    /\ NumBlocks \in Nat \ {0} /\ NumPlanes \in Nat \ {0}
    /\ NumBlocks = NumPlanes * BLOCKS_PER_PLANE
    /\ 0 \in Blocks
<1>1. NUM_PACKAGES * DIES_PER_PACKAGE \in Nat \ {0}
      BY GeometryAssumption, ProductType
<1>2. NumPlanes \in Nat \ {0}
      BY <1>1, GeometryAssumption, ProductType DEF NumPlanes
<1>3. NumPlanes * BLOCKS_PER_PLANE \in Nat \ {0}  BY <1>2, GeometryAssumption, ProductType
<1>4. NumBlocks = NumPlanes * BLOCKS_PER_PLANE  BY DEF NumBlocks, NumPlanes
<1>5. QED  BY <1>2, <1>3, <1>4 DEF Blocks

LEMMA PagesFinite ==
    /\ IsFiniteSet(Pages)
    /\ \A ps \in SUBSET Pages : /\ IsFiniteSet(ps) /\ Cardinality(ps) \in 0 .. NumPages
<1>1. IsFiniteSet(Pages) /\ Cardinality(Pages) = NumPages
  <2>1. NumPages \in Nat \ {0}  BY NumPagesType
  <2>2. IsFiniteSet(0 .. NumPages - 1)
        /\ Cardinality(0 .. NumPages - 1) = (NumPages - 1) - 0 + 1
        BY <2>1, FS_Interval
  <2>3. QED  BY <2>1, <2>2 DEF Pages
<1>2. ASSUME NEW ps \in SUBSET Pages
      PROVE  IsFiniteSet(ps) /\ Cardinality(ps) \in 0 .. NumPages
  <2>1. IsFiniteSet(ps) /\ Cardinality(ps) <= Cardinality(Pages)  BY <1>1, FS_Subset
  <2>2. Cardinality(ps) \in Nat  BY <2>1, FS_CardinalityType
  <2>3. QED  BY <1>1, <2>1, <2>2, NumPagesType
<1>3. QED  BY <1>1, <1>2

(* The dirtiest block is a block of the flash.                             *)
LEMMA DirtiestType ==
    ASSUME dirty \in SUBSET Pages, NEW range \in SUBSET Blocks
    PROVE  Dirtiest(range) \in Blocks
<1> DEFINE most == {b \in range : \A c \in range : DirtyCount(c) <= DirtyCount(b)}
           Spare(b) == NumPages - DirtyCount(b)
           spares == {Spare(b) : b \in range}
<1>1. \A b \in range : DirtyCount(b) \in 0 .. NumPages
  <2>1. ASSUME NEW b \in range  PROVE DirtyCount(b) \in 0 .. NumPages
    <3>1. {p \in dirty : BlockOf(p) = b} \in SUBSET Pages  OBVIOUS
    <3>2. QED  BY <3>1, PagesFinite DEF DirtyCount
  <2>2. QED  BY <2>1
<1>2. CASE \A b \in range : DirtyCount(b) = 0  BY <1>2, BlocksFacts DEF Dirtiest
<1>3. CASE ~ \A b \in range : DirtyCount(b) = 0
  <2>1. spares \in SUBSET Nat /\ spares # {}
    <3>1. \A b \in range : Spare(b) \in Nat  BY <1>1, NumPagesType
    <3> HIDE DEF Spare
    <3>2. QED  BY <1>3, <3>1
  <2>2. PICK m \in spares : \A k \in spares : m <= k
    <3> HIDE DEF spares
    <3>1. QED  BY <2>1, LeastExists
  <2>3. PICK b \in range : m = Spare(b)  BY <2>2
  <2>4. \A c \in range : Spare(b) <= Spare(c)  BY <2>2, <2>3
  <2>5. \A c \in range : DirtyCount(c) <= DirtyCount(b)  BY <1>1, <2>4, NumPagesType
  <2>6. most # {} /\ most \in SUBSET Nat
    <3>1. range \in SUBSET Nat  BY BlocksFacts DEF Blocks
    <3>2. b \in most  BY <2>5
    <3>3. QED  BY <3>1, <3>2
  <2>7. Least(most) \in most
    <3> HIDE DEF most
    <3>1. QED  BY <2>6, LeastIn
  <2>8. Dirtiest(range) = Least(most)  BY <1>3 DEF Dirtiest
  <2>9. QED  BY <2>7, <2>8
<1>4. QED  BY <1>2, <1>3

LEMMA PlaneBlocksType ==
    ASSUME NEW i \in 1 .. NumPlanes
    PROVE  PlaneBlocks(i - 1) \in SUBSET Blocks
<1>1. ASSUME NEW m \in Nat, NEW n \in Nat, m <= n, NEW k \in Nat  PROVE m * k <= n * k
      BY <1>1
<1>2. i \in Nat /\ i - 1 \in Nat /\ i <= NumPlanes /\ NumPlanes \in Nat
      /\ BLOCKS_PER_PLANE \in Nat
      BY BlocksFacts, GeometryAssumption
<1>3. i * BLOCKS_PER_PLANE <= NumPlanes * BLOCKS_PER_PLANE  BY <1>1, <1>2
<1>4. (i - 1) * BLOCKS_PER_PLANE \in Nat /\ i * BLOCKS_PER_PLANE \in Nat  BY <1>2
<1>5. PlaneBlocks(i - 1) = (i - 1) * BLOCKS_PER_PLANE .. i * BLOCKS_PER_PLANE - 1
  <2>1. i - 1 + 1 = i  BY <1>2
  <2>2. QED  BY <2>1 DEF PlaneBlocks
<1>6. QED  BY <1>3, <1>4, <1>5, BlocksFacts DEF Blocks

(* The pages of a set in ascending order.                                  *)
LEMMA InOrderProperties ==
    ASSUME NEW ps \in SUBSET Pages
    PROVE  /\ InOrder(ps) \in Seq(ps) /\ Len(InOrder(ps)) = Cardinality(ps)
           /\ DOMAIN InOrder(ps) = 1 .. Cardinality(ps)
           /\ \A i \in 1 .. Cardinality(ps) : InOrder(ps)[i] \in ps
           /\ \A p \in ps : \E i \in 1 .. Cardinality(ps) : InOrder(ps)[i] = p
<1> DEFINE n == Cardinality(ps)
           UpTo(p) == Cardinality({q \in ps : q <= p})
<1>1. IsFiniteSet(ps) /\ n \in Nat /\ ps \in SUBSET Nat
      BY PagesFinite, NoPageIsNoPage
<1>2. /\ \A p \in ps : UpTo(p) \in 1 .. n
      /\ \A p, q \in ps : UpTo(p) = UpTo(q) => p = q
      /\ \A i \in 1 .. n : \E p \in ps : UpTo(p) = i
  <2>1. /\ Rank(ps) \in [ps -> 1 .. n]
        /\ \A p, q \in ps : Rank(ps)[p] = Rank(ps)[q] => p = q
        /\ \A i \in 1 .. n : \E p \in ps : Rank(ps)[p] = i
        BY <1>1, RankIsBijective
  <2>2. \A p \in ps : Rank(ps)[p] = UpTo(p)  BY DEF Rank
  <2> HIDE DEF UpTo
  <2>3. QED  BY <2>1, <2>2
<1>3. InOrder(ps) = [i \in 1 .. n |-> CHOOSE p \in ps : UpTo(p) = i]  BY DEF InOrder
<1> HIDE DEF UpTo, n
<1>4. \A i \in 1 .. n : InOrder(ps)[i] \in ps /\ UpTo(InOrder(ps)[i]) = i  BY <1>2, <1>3
<1>5. \A p \in ps : \E i \in 1 .. n : InOrder(ps)[i] = p  BY <1>2, <1>4
<1>6. InOrder(ps) \in [1 .. n -> ps]  BY <1>3, <1>4
<1>7. InOrder(ps) \in Seq(ps) /\ Len(InOrder(ps)) = n /\ DOMAIN InOrder(ps) = 1 .. n
      BY <1>1, <1>6
<1>8. QED  BY <1>4, <1>5, <1>7 DEF n

(* What is queued for a block.                                             *)
Collectable == Erasures \cup {GcRead(a) : a \in {c \in Addr : Mapped(c)}}

LEMMA CollectableType == Collectable \subseteq GcTransactions
BY DEF Collectable, Erasures, GcRead, GcTransactions

(* One block: its erase is queued at once, or is pending and waits for     *)
(* reads that are queued.                                                  *)
LEMMA WorkProperties ==
    ASSUME dirty \in SUBSET Pages, used \in SUBSET Pages, NEW b \in Blocks, NEW owner,
           \A p \in Live(b) : owner[p] \in Addr /\ addressMap[owner[p]] = p
    PROVE  LET w == Work(b, owner)
               e == Pending(b, owner)
           IN  /\ w \in Seq(Collectable) /\ e \in Seq(PendingErases)
               /\ w # <<>>
               /\ CountIn(w, Erasures) + Len(e) = 1
               /\ \A a : CountIn(e, WaitingFor(a)) <= CountIn(w, {GcRead(a)})
<1> DEFINE w == Work(b, owner)
           e == Pending(b, owner)
           n == Cardinality(Live(b))
           pages == InOrder(Live(b))
<1>1. Live(b) \in SUBSET Pages /\ IsFiniteSet(Live(b)) /\ n \in Nat
      BY PagesFinite DEF Live
<1>2. /\ pages \in Seq(Live(b)) /\ Len(pages) = n /\ DOMAIN pages = 1 .. n
      /\ \A i \in 1 .. n : pages[i] \in Live(b)
      /\ \A p \in Live(b) : \E i \in 1 .. n : pages[i] = p
      BY <1>1, InOrderProperties
<1>3. pages = <<>> <=> Live(b) = {}
  <2>1. Live(b) = {} <=> n = 0  BY <1>1, FS_EmptySet
  <2> HIDE DEF pages, n
  <2>2. pages = <<>> <=> n = 0  BY <1>2, EmptySeq
  <2>3. QED  BY <2>1, <2>2
<1>4. CASE Live(b) = {}
  <2>1. w = <<BlockErase(b)>> /\ e = <<>>  BY <1>3, <1>4 DEF Work, Pending
  <2>2. BlockErase(b) \in Collectable /\ BlockErase(b) \in Erasures
        BY DEF BlockErase, Collectable, Erasures
  <2> HIDE DEF w, e
  <2>3. w \in Seq(Collectable) /\ e \in Seq(PendingErases) /\ Len(w) = 1 /\ w[1] = BlockErase(b)
        BY <2>1, <2>2, SingletonSeq, EmptySeq
  <2>4. CountIn(w, Erasures) = 1  BY <2>1, <2>2, CountOne DEF OneIf
  <2>5. Len(e) = 0 /\ \A a : CountIn(e, WaitingFor(a)) = 0  BY <2>1, CountEmpty, EmptySeq
  <2>6. \A a : CountIn(w, {GcRead(a)}) \in Nat  BY <2>3, CountType
  <2>7. w # <<>>
    <3>1. Len(w) # 0  BY <2>3
    <3>2. QED  BY <3>1, EmptySeq
  <2>8. QED  BY <2>3, <2>4, <2>5, <2>6, <2>7 DEF w, e
<1>5. CASE Live(b) # {}
  <2> DEFINE r == [erase_block |-> b, pending_reads |-> {owner[p] : p \in Live(b)}]
  <2>1. w = [i \in 1 .. n |-> GcRead(owner[pages[i]])] /\ e = <<r>>
        BY <1>2, <1>3, <1>5 DEF Work, Pending
  <2>2. \A i \in 1 .. n : /\ owner[pages[i]] \in Addr /\ Mapped(owner[pages[i]])
                          /\ GcRead(owner[pages[i]]) \in Collectable \ Erasures
    <3> SUFFICES ASSUME NEW i \in 1 .. n
                 PROVE  /\ owner[pages[i]] \in Addr /\ Mapped(owner[pages[i]])
                        /\ GcRead(owner[pages[i]]) \in Collectable \ Erasures
        OBVIOUS
    <3>1. pages[i] \in Live(b) /\ pages[i] \in Pages  BY <1>1, <1>2
    <3>2. owner[pages[i]] \in Addr /\ addressMap[owner[pages[i]]] = pages[i]  BY <3>1
    <3>3. Mapped(owner[pages[i]])  BY <3>1, <3>2, NoPageIsNoPage DEF Mapped
    <3>4. QED  BY <3>2, <3>3 DEF GcRead, Collectable, Erasures
  <2>3. r \in PendingErases
    <3>1. {owner[p] : p \in Live(b)} \in (SUBSET Addr) \ {{}}  BY <1>5
    <3>2. QED  BY <3>1 DEF PendingErases
  <2>4. w \in [1 .. n -> Collectable]
    <3> HIDE DEF pages, n
    <3>1. QED  BY <2>1, <2>2
  <2>5. n # 0  BY <1>1, <1>5, FS_EmptySet
  <2> HIDE DEF w, e, n
  <2>6. w \in Seq(Collectable) /\ Len(w) = n  BY <1>1, <2>4
  <2>7. w # <<>>  BY <2>5, <2>6, EmptySeq
  <2>8. e \in Seq(PendingErases) /\ Len(e) = 1
    <3> HIDE DEF r
    <3>1. QED  BY <2>1, <2>3, SingletonSeq
  <2>9. \A i \in 1 .. n : w[i] = GcRead(owner[pages[i]])  BY <2>1
  <2>10. CountIn(w, Erasures) = 0
    <3>1. CountIn(w, Erasures) \in Nat  BY <2>6, CountType
    <3>2. ~(CountIn(w, Erasures) > 0)  BY <2>2, <2>6, <2>9, CountPositive
    <3>3. QED  BY <3>1, <3>2
  <2>11. ASSUME NEW a  PROVE CountIn(e, WaitingFor(a)) <= CountIn(w, {GcRead(a)})
    <3>1. CountIn(w, {GcRead(a)}) \in Nat  BY <2>6, CountType
    <3>2. CountIn(e, WaitingFor(a)) = OneIf(r \in WaitingFor(a))
      <4> HIDE DEF r
      <4>1. QED  BY <2>1, CountOne
    <3>3. CASE r \notin WaitingFor(a)  BY <3>1, <3>2, <3>3 DEF OneIf
    <3>4. CASE r \in WaitingFor(a)
      <4>1. PICK p \in Live(b) : a = owner[p]  BY <3>4 DEF WaitingFor
      <4>2. PICK i \in 1 .. n : pages[i] = p  BY <1>2, <4>1 DEF n
      <4>3. i \in 1 .. Len(w) /\ w[i] \in {GcRead(a)}  BY <2>6, <2>9, <4>1, <4>2
      <4>4. CountIn(w, {GcRead(a)}) > 0  BY <2>6, <4>3, CountPositive
      <4>5. QED  BY <3>1, <3>2, <3>4, <4>4 DEF OneIf
    <3>5. QED  BY <3>3, <3>4
  <2>12. CountIn(w, Erasures) + Len(e) = 1  BY <2>8, <2>10
  <2>13. QED  BY <2>6, <2>7, <2>8, <2>11, <2>12 DEF w, e
<1>6. QED  BY <1>4, <1>5

(* All blocks of a collection.                                             *)
CollectionAdds(n) ==
    \E w \in Seq(Collectable), e \in Seq(PendingErases) :
       /\ gcQueue' = gcQueue \o w /\ gc_pending_erase' = e \o gc_pending_erase
       /\ w # <<>>
       /\ CountIn(w, Erasures) + Len(e) = n
       /\ \A a : CountIn(e, WaitingFor(a)) <= CountIn(w, {GcRead(a)})

LEMMA AddGcProperties ==
    ASSUME dirty \in SUBSET Pages, used \in SUBSET Pages, NEW n \in Nat \ {0},
           NEW blocks \in [1 .. n -> Blocks], addGC(blocks)
    PROVE  CollectionAdds(n)
<1>0. DOMAIN blocks = 1 .. n  OBVIOUS
<1>1. PICK owner \in Owners(UNION {Live(blocks[i]) : i \in DOMAIN blocks}) :
         /\ gcQueue' = gcQueue \o FlattenSeq([i \in DOMAIN blocks |-> Work(blocks[i], owner)])
         /\ gc_pending_erase' =
               Reverse(FlattenSeq([i \in DOMAIN blocks |-> Pending(blocks[i], owner)]))
                   \o gc_pending_erase
      BY DEF addGC
<1> DEFINE ws == [i \in 1 .. n |-> Work(blocks[i], owner)]
           es == [i \in 1 .. n |-> Pending(blocks[i], owner)]
<1>2. ASSUME NEW i \in 1 .. n, NEW p \in Live(blocks[i])
      PROVE  owner[p] \in Addr /\ addressMap[owner[p]] = p
  <2>1. p \in UNION {Live(blocks[j]) : j \in DOMAIN blocks}  BY <1>0
  <2>2. QED  BY <1>1, <2>1 DEF Owners
<1>3. \A i \in 1 .. n :
         /\ Work(blocks[i], owner) \in Seq(Collectable)
         /\ Pending(blocks[i], owner) \in Seq(PendingErases)
         /\ Work(blocks[i], owner) # <<>>
         /\ CountIn(Work(blocks[i], owner), Erasures) + Len(Pending(blocks[i], owner)) = 1
         /\ \A a : CountIn(Pending(blocks[i], owner), WaitingFor(a))
                     <= CountIn(Work(blocks[i], owner), {GcRead(a)})
      BY <1>2, WorkProperties
<1>4. /\ ws \in Seq(Seq(Collectable)) /\ Len(ws) = n
      /\ es \in Seq(Seq(PendingErases)) /\ Len(es) = n
  <2>1. ws \in [1 .. n -> Seq(Collectable)] /\ es \in [1 .. n -> Seq(PendingErases)]
        BY <1>3
  <2> HIDE DEF ws, es
  <2>2. QED  BY <2>1
<1>5. \A i \in 1 .. n :
         /\ ws[i] \in Seq(Collectable) /\ es[i] \in Seq(PendingErases) /\ ws[i] # <<>>
         /\ CountIn(ws[i], Erasures) + Len(es[i]) = 1
         /\ \A a : CountIn(es[i], WaitingFor(a)) <= CountIn(ws[i], {GcRead(a)})
      BY <1>3
<1>6. /\ gcQueue' = gcQueue \o FlattenSeq(ws)
      /\ gc_pending_erase' = Reverse(FlattenSeq(es)) \o gc_pending_erase
      BY <1>0, <1>1
<1> HIDE DEF ws, es
<1>7. /\ FlattenSeq(ws) \in Seq(Collectable) /\ FlattenSeq(es) \in Seq(PendingErases)
      /\ FlattenSeq(ws) # <<>>
  <2>1. ws # <<>>
    <3>1. Len(ws) # 0  BY <1>4
    <3>2. QED  BY <3>1, EmptySeq
  <2>2. \A m \in 1 .. Len(ws) : ws[m] # <<>>  BY <1>4, <1>5
  <2>3. QED  BY <1>4, <2>1, <2>2, FlattenType
<1>8. CountIn(FlattenSeq(ws), Erasures) + Len(FlattenSeq(es)) = n
  <2>1. \A i \in 1 .. Len(ws) : CountIn(ws[i], Erasures) + Len(es[i]) = 1  BY <1>4, <1>5
  <2>2. QED  BY <1>4, <2>1, FlattenOneEach
<1>9. ASSUME NEW a
      PROVE  CountIn(FlattenSeq(es), WaitingFor(a)) <= CountIn(FlattenSeq(ws), {GcRead(a)})
  <2>1. \A i \in 1 .. Len(ws) : CountIn(es[i], WaitingFor(a)) <= CountIn(ws[i], {GcRead(a)})
        BY <1>4, <1>5
  <2>2. QED  BY <1>4, <2>1, FlattenFewer
<1>10. /\ Reverse(FlattenSeq(es)) \in Seq(PendingErases)
       /\ Len(Reverse(FlattenSeq(es))) = Len(FlattenSeq(es))
       /\ \A T : CountIn(Reverse(FlattenSeq(es)), T) = CountIn(FlattenSeq(es), T)
       BY <1>7, ReverseProperties
<1>11. QED  BY <1>6, <1>7, <1>8, <1>9, <1>10 DEF CollectionAdds

LEMMA RunGcProperties ==
    ASSUME dirty \in SUBSET Pages, used \in SUBSET Pages, erase_pointer \in Blocks, runGC
    PROVE  CollectionAdds(1) /\ erase_pointer' \in Blocks
<1> DEFINE b == Dirtiest(erase_pointer .. NumBlocks - 1)
<1>1. erase_pointer .. NumBlocks - 1 \in SUBSET Blocks  BY BlocksFacts DEF Blocks
<1>2. b \in Blocks  BY <1>1, DirtiestType
<1>3. erase_pointer' = (b + 1) % NumBlocks /\ addGC(<<b>>)  BY DEF runGC
<1> HIDE DEF b
<1>4. <<b>> \in [1 .. 1 -> Blocks] /\ 1 \in Nat \ {0}  BY <1>2
<1>5. CollectionAdds(1)  BY <1>3, <1>4, AddGcProperties
<1>6. erase_pointer' \in Blocks
  <2>1. b + 1 \in Int /\ NumBlocks \in Nat \ {0}  BY <1>2, BlocksFacts DEF Blocks
  <2>2. QED  BY <1>3, <2>1, IntRemainderType DEF Blocks
<1>7. QED  BY <1>5, <1>6

LEMMA RunPanicProperties ==
    ASSUME dirty \in SUBSET Pages, used \in SUBSET Pages, runPanicGC
    PROVE  CollectionAdds(NumPlanes)
<1> DEFINE blocks == [i \in 1 .. NumPlanes |-> Dirtiest(PlaneBlocks(i - 1))]
<1>1. \A i \in 1 .. NumPlanes : Dirtiest(PlaneBlocks(i - 1)) \in Blocks
      BY PlaneBlocksType, DirtiestType
<1>2. blocks \in [1 .. NumPlanes -> Blocks]  BY <1>1
<1>3. addGC(blocks)  BY DEF runPanicGC
<1> HIDE DEF blocks
<1>4. QED  BY <1>2, <1>3, BlocksFacts, AddGcProperties

-----------------------------------------------------------------------------
(* The queues and what the FTL works on.                                   *)
HostQueues ==
    /\ readQueue \in Seq(Transactions) /\ writeQueue \in Seq(QueuedWrites)
    /\ read_pointer \in Nat \ {0} /\ read_iterator_counter \in Nat
    /\ TwoQueues => \A i \in 1 .. Len(readQueue) : readQueue[i].type = "DATA_READ"
    /\ TwoQueues => readQueue = <<>> \/ read_pointer <= Len(readQueue)

GcQueueInv ==
    /\ HostQueues
    /\ busy \in BOOLEAN /\ lookupCounter \in Nat
    /\ currentTransaction \in Transactions \cup EmptyTransactions \cup GcTransactions
    /\ gcQueue \in Seq(GcTransactions)
    /\ WorkIsQueued

LEMMA KindsDiffer ==
    /\ Transactions \cap GcTransactions = {} /\ EmptyTransactions \cap GcTransactions = {}
    /\ \A t \in GcTransactions : t.type \in {"GC_DATA_READ", "GC_DATA_WRITE", "BLOCK_ERASE"}
    /\ \A a : /\ a \in Addr => GcRead(a) \in GcTransactions /\ GcWrite(a) \in GcTransactions
             /\ a \in Blocks => BlockErase(a) \in GcTransactions
BY DEF Transactions, EmptyTransactions, GcTransactions, GcRead, GcWrite, BlockErase

LEMMA GcQueueInit == GcNvInit => GcQueueInv
<1> SUFFICES ASSUME GcNvInit PROVE GcQueueInv  OBVIOUS
<1>1. GcInit /\ Init  BY DEF GcNvInit, GcInit
<1>2. HostQueues  BY <1>1, EmptySeq DEF Init, HostQueues
<1>3. busy = FALSE  BY <1>1 DEF Init
<1>4. busy \in BOOLEAN /\ WorkIsQueued  BY <1>3, Zenon DEF WorkIsQueued
<1>5. QED  BY <1>1, <1>2, <1>4, EmptySeq DEF GcInit, Init, GcQueueInv

(* The FTL goes on with what it does, or stops.                            *)
LEMMA SameWork ==
    ASSUME GcQueueInv, UNCHANGED queueVars, UNCHANGED <<gcQueue, currentTransaction>>,
           lookupCounter' \in Nat, busy' = busy \/ busy' = FALSE
    PROVE  GcQueueInv'
<1>1. UNCHANGED <<readQueue, writeQueue, read_pointer, read_iterator_counter>>
      BY DEF queueVars
<1>2. HostQueues'  BY <1>1 DEF GcQueueInv, HostQueues, TwoQueues
<1>3. WorkIsQueued'
      BY <1>1 DEF GcQueueInv, WorkIsQueued, QueuedCurrent, TwoQueues, GcTransactions
<1>4. busy' \in BOOLEAN  BY DEF GcQueueInv
<1>5. QED  BY <1>2, <1>3, <1>4 DEF GcQueueInv

(* The FTL is idle.                                                        *)
LEMMA IdleWork ==
    ASSUME HostQueues', busy' = FALSE, lookupCounter' \in Nat,
           currentTransaction' \in Transactions \cup EmptyTransactions \cup GcTransactions,
           gcQueue' \in Seq(GcTransactions)
    PROVE  GcQueueInv'
<1>1. WorkIsQueued' /\ busy' \in BOOLEAN  BY Zenon DEF WorkIsQueued
<1>2. QED  BY <1>1 DEF GcQueueInv

(* More is queued for the collector.                                       *)
LEMMA GcWorkGrows ==
    ASSUME GcQueueInv, UNCHANGED <<queueVars, currentVars>>,
           NEW w \in Seq(GcTransactions), gcQueue' = gcQueue \o w
    PROVE  GcQueueInv'
<1>1. UNCHANGED <<readQueue, writeQueue, read_pointer, read_iterator_counter, busy,
                  currentTransaction, lookupCounter>>
      BY DEF queueVars, currentVars
<1>2. HostQueues'  BY <1>1 DEF GcQueueInv, HostQueues, TwoQueues
<1>3. gcQueue' \in Seq(GcTransactions)  BY ConcatProperties DEF GcQueueInv
<1>4. gcQueue # <<>> => gcQueue' # <<>> /\ Head(gcQueue') = Head(gcQueue)
      BY HeadTailConcat DEF GcQueueInv
<1>5. WorkIsQueued'
      BY <1>1, <1>4 DEF GcQueueInv, WorkIsQueued, QueuedCurrent, TwoQueues, GcTransactions
<1>6. QED  BY <1>1, <1>2, <1>3, <1>5 DEF GcQueueInv

(* The FTL starts with the first transaction of the gcQueue.               *)
LEMMA StartGcWork ==
    ASSUME GcQueueInv, UNCHANGED queueVars, gcQueue' \in Seq(GcTransactions),
           gcQueue' # <<>>, Start(Head(gcQueue'))
    PROVE  GcQueueInv'
<1>1. UNCHANGED <<readQueue, writeQueue, read_pointer, read_iterator_counter>>
      BY DEF queueVars
<1>2. HostQueues'  BY <1>1 DEF GcQueueInv, HostQueues, TwoQueues
<1>3. /\ busy' = TRUE /\ currentTransaction' = Head(gcQueue')
      /\ lookupCounter' = LOOKUP_CYCLES
      BY DEF Start
<1>4. currentTransaction' \in GcTransactions  BY <1>3, HeadTailProperties
<1>5. WorkIsQueued'  BY <1>3, <1>4 DEF WorkIsQueued, GcTransactions
<1>6. busy' \in BOOLEAN  BY <1>3, Zenon
<1>7. QED  BY <1>2, <1>3, <1>4, <1>5, <1>6, OptionAssumption DEF GcQueueInv

(* The FTL starts with a transaction of the host.                          *)
LEMMA StartHostWork ==
    ASSUME GcQueueInv, UNCHANGED <<queueVars, gcQueue>>, NEW t \in Transactions, Start(t),
           QueuedCurrent'
    PROVE  GcQueueInv'
<1>1. UNCHANGED <<readQueue, writeQueue, read_pointer, read_iterator_counter, gcQueue>>
      BY DEF queueVars
<1>2. HostQueues'  BY <1>1 DEF GcQueueInv, HostQueues, TwoQueues
<1>3. busy' = TRUE /\ currentTransaction' = t /\ lookupCounter' = LOOKUP_CYCLES
      BY DEF Start
<1>4. currentTransaction' \notin GcTransactions  BY <1>3, KindsDiffer
<1>5. WorkIsQueued'  BY <1>4 DEF WorkIsQueued, GcTransactions
<1>6. busy' \in BOOLEAN  BY <1>3, Zenon
<1>7. QED  BY <1>1, <1>2, <1>3, <1>5, <1>6, OptionAssumption DEF GcQueueInv

(* The host appends to a queue, or replaces a write that is not at work.   *)
LEMMA ReadAddedWork ==
    ASSUME GcQueueInv, NEW t \in Transactions, TwoQueues => t.type = "DATA_READ",
           AddToReadQueue(t), UNCHANGED <<read_iterator_counter, currentVars, gcQueue>>
    PROVE  GcQueueInv'
<1>1. /\ readQueue' \in Seq(Transactions) /\ Len(readQueue') = Len(readQueue) + 1
      /\ \A i \in 1 .. Len(readQueue) : readQueue'[i] = readQueue[i]
      /\ readQueue'[Len(readQueue) + 1] = t
      /\ readQueue' # <<>> /\ Len(readQueue) \in Nat
      BY AppendProperties, LenProperties DEF AddToReadQueue, GcQueueInv, HostQueues
<1>2. /\ DOMAIN readQueue = 1 .. Len(readQueue)
      /\ DOMAIN readQueue' = 1 .. Len(readQueue) + 1
      BY <1>1, LenProperties DEF GcQueueInv, HostQueues
<1>3. read_pointer' = IF TwoQueues /\ readQueue = <<>> THEN 1 ELSE read_pointer
      BY DEF AddToReadQueue
<1>4. UNCHANGED <<writeQueue, read_iterator_counter, busy, currentTransaction,
                  lookupCounter, gcQueue>>
      BY DEF AddToReadQueue, currentVars
<1>5. TwoQueues => \A i \in 1 .. Len(readQueue') : readQueue'[i].type = "DATA_READ"
      BY <1>1 DEF GcQueueInv, HostQueues
<1>6. read_pointer' \in Nat \ {0} /\ (TwoQueues => read_pointer' <= Len(readQueue'))
      BY <1>1, <1>3 DEF GcQueueInv, HostQueues
<1>7. HostQueues'  BY <1>1, <1>4, <1>5, <1>6 DEF GcQueueInv, HostQueues, TwoQueues
<1>8. QueuedCurrent => QueuedCurrent'
  <2> SUFFICES ASSUME QueuedCurrent PROVE QueuedCurrent'  OBVIOUS
  <2>1. CASE ~TwoQueues
    <3>1. readQueue # <<>> /\ Head(readQueue) = currentTransaction
          BY <2>1 DEF QueuedCurrent
    <3>2. Head(readQueue') = Head(readQueue)
          BY <3>1, HeadTailAppend DEF GcQueueInv, HostQueues, AddToReadQueue
    <3>3. QED  BY <1>1, <1>4, <2>1, <3>1, <3>2 DEF QueuedCurrent, TwoQueues
  <2>2. CASE TwoQueues
    <3>1. currentTransaction.type = "DATA_READ" => readQueue # <<>>
          BY <1>2, <2>2 DEF QueuedCurrent
    <3>2. QED  BY <1>1, <1>2, <1>3, <1>4, <2>2, <3>1 DEF QueuedCurrent, TwoQueues
  <2>3. QED  BY <2>1, <2>2
<1>9. WorkIsQueued'  BY <1>4, <1>8 DEF GcQueueInv, WorkIsQueued, GcTransactions
<1>10. QED  BY <1>4, <1>7, <1>9 DEF GcQueueInv

LEMMA WriteAddedWork ==
    ASSUME GcQueueInv, TwoQueues, UNCHANGED <<readQueue, read_pointer, read_iterator_counter>>,
           UNCHANGED <<currentVars, gcQueue>>, writeQueue' \in Seq(QueuedWrites),
           writeQueue # <<>> /\ Head(writeQueue) = currentTransaction =>
               writeQueue' # <<>> /\ Head(writeQueue') = currentTransaction
    PROVE  GcQueueInv'
<1>1. UNCHANGED <<busy, currentTransaction, lookupCounter>>  BY DEF currentVars
<1>2. HostQueues'  BY DEF GcQueueInv, HostQueues, TwoQueues
<1>3. QueuedCurrent => QueuedCurrent'  BY <1>1 DEF QueuedCurrent, TwoQueues
<1>4. WorkIsQueued'  BY <1>1, <1>3 DEF GcQueueInv, WorkIsQueued, GcTransactions
<1>5. QED  BY <1>1, <1>2, <1>4 DEF GcQueueInv

LEMMA HostAddsWork ==
    ASSUME GcQueueInv, NEW a \in Addr, HostAdds(a)
    PROVE  GcQueueInv'
<1>1. /\ HostRead(a) \/ HostWrite(a)
      /\ UNCHANGED <<read_iterator_counter, currentVars, gcQueue>>
      BY DEF HostAdds, HostRead, HostWrite, HostUnchanged, gcVars, collectVars
<1>2. CASE HostRead(a)
      BY <1>1, <1>2, TransactionTypes, ReadAddedWork DEF HostRead
<1>3. CASE ~TwoQueues /\ AddToReadQueue(Write(a))
      BY <1>1, <1>3, TransactionTypes, ReadAddedWork
<1>4. CASE SCHEDULE /\ AddScheduledWrite(a)
  <2>1. UNCHANGED <<readQueue, read_pointer>>  BY <1>4 DEF AddScheduledWrite
  <2>2. QED  BY <1>1, <1>4, <2>1, ScheduledWriteKeepsHead, WriteAddedWork
             DEF GcQueueInv, HostQueues, TwoQueues
<1>5. CASE PERFECT_SCHEDULE /\ AddPerfectWrite(a)
  <2>1. UNCHANGED <<readQueue, read_pointer>>  BY <1>5 DEF AddPerfectWrite
  <2>2. /\ writeQueue' \in Seq(QueuedWrites) /\ writeQueue' # <<>>
        /\ writeQueue # <<>> => Head(writeQueue') = Head(writeQueue)
        BY <1>5, TransactionTypes, AppendProperties, HeadTailAppend
           DEF AddPerfectWrite, GcQueueInv, HostQueues
  <2>3. QED  BY <1>1, <1>5, <2>1, <2>2, WriteAddedWork DEF TwoQueues
<1>6. QED  BY <1>1, <1>2, <1>3, <1>4, <1>5 DEF HostWrite

(* What is left of the queues when a transaction leaves.                   *)
LEMMA ReadLeavesQueues ==
    ASSUME HostQueues, QueuedCurrent, currentTransaction.type = "DATA_READ", ReadLeaves
    PROVE  HostQueues'
<1>1. /\ read_iterator_counter' = 0 /\ UNCHANGED writeQueue
      /\ read_pointer' = IF TwoQueues THEN 1 ELSE read_pointer
      BY DEF ReadLeaves
<1>2. CASE TwoQueues
  <2>1. read_pointer \in 1 .. Len(readQueue) /\ Len(readQueue) \in Nat
        BY <1>2, LenProperties DEF QueuedCurrent, HostQueues
  <2>2. readQueue' = RemoveAt(readQueue, read_pointer)  BY <1>2 DEF ReadLeaves
  <2>3. /\ readQueue' \in Seq(Transactions)
        /\ Len(readQueue') = Len(readQueue) - 1
        /\ \A j \in 1 .. Len(readQueue) - 1 :
              readQueue'[j] = IF j < read_pointer THEN readQueue[j] ELSE readQueue[j + 1]
        BY <2>1, <2>2, RemoveAtProperties DEF HostQueues
  <2>4. \A i \in 1 .. Len(readQueue') : readQueue'[i].type = "DATA_READ"
        BY <1>2, <2>1, <2>3 DEF HostQueues
  <2>5. readQueue' = <<>> \/ 1 <= Len(readQueue')  BY <2>3, EmptySeq
  <2>6. QED  BY <1>1, <1>2, <2>3, <2>4, <2>5 DEF HostQueues, TwoQueues
<1>3. CASE ~TwoQueues
  <2>1. readQueue # <<>>  BY <1>3 DEF QueuedCurrent
  <2>2. readQueue' \in Seq(Transactions)
        BY <1>3, <2>1, HeadTailProperties DEF ReadLeaves, HostQueues
  <2>3. QED  BY <1>1, <1>3, <2>2 DEF HostQueues, TwoQueues
<1>4. QED  BY <1>2, <1>3

LEMMA TryNextReadQueues ==
    ASSUME HostQueues, TryNextRead
    PROVE  HostQueues'
<1> DEFINE allTried == read_iterator_counter + 1 >= Len(readQueue)
<1>1. /\ UNCHANGED <<readQueue, writeQueue>>
      /\ read_pointer' = IF allTried \/ read_pointer = Len(readQueue) THEN 1
                         ELSE read_pointer + 1
      /\ read_iterator_counter' = IF allTried THEN 0 ELSE read_iterator_counter + 1
      BY DEF TryNextRead
<1>2. Len(readQueue) \in Nat /\ (readQueue # <<>> => Len(readQueue) # 0)
      BY LenProperties, EmptySeq DEF HostQueues
<1>3. /\ read_pointer' \in Nat \ {0} /\ read_iterator_counter' \in Nat
      /\ TwoQueues => readQueue = <<>> \/ read_pointer' <= Len(readQueue)
      BY <1>1, <1>2 DEF HostQueues
<1>4. QED  BY <1>1, <1>3 DEF HostQueues, TwoQueues

LEMMA PopWriteQueues ==
    ASSUME HostQueues, PopWrite, UNCHANGED <<read_pointer, read_iterator_counter>>
    PROVE  HostQueues'
<1>1. CASE TwoQueues
  <2>1. UNCHANGED readQueue  BY <1>1 DEF PopWrite
  <2>2. writeQueue' \in Seq(QueuedWrites)
    <3>1. CASE writeQueue = <<>>  BY <1>1, <3>1 DEF PopWrite, HostQueues
    <3>2. CASE writeQueue # <<>>
          BY <1>1, <3>2, HeadTailProperties DEF PopWrite, HostQueues
    <3>3. QED  BY <3>1, <3>2
  <2>3. QED  BY <1>1, <2>1, <2>2 DEF HostQueues, TwoQueues
<1>2. CASE ~TwoQueues
  <2>1. UNCHANGED writeQueue  BY <1>2 DEF PopWrite
  <2>2. readQueue' \in Seq(Transactions)
    <3>1. CASE readQueue = <<>>  BY <1>2, <3>1 DEF PopWrite, HostQueues
    <3>2. CASE readQueue # <<>>
          BY <1>2, <3>2, HeadTailProperties DEF PopWrite, HostQueues
    <3>3. QED  BY <3>1, <3>2
  <2>3. QED  BY <1>2, <2>1, <2>2 DEF HostQueues, TwoQueues
<1>3. QED  BY <1>1, <1>2

(* What the steps of the FTL need to know of the collector's state.        *)
Tables ==
    /\ writePointer \in Pointers
    /\ addressMap \in [Addr -> Pages \cup {NoPage}]
    /\ used \in SUBSET Pages /\ dirty \in SUBSET Pages
    /\ deadlock_counter \in Nat
    /\ {dirty_page_count, used_page_count} \subseteq 0 .. CounterRange - 1

Collector ==
    /\ gc_pending_erase \in Seq(PendingErases)
    /\ ctrlQueue \in [Dies -> Seq(GcPackets)]
    /\ gcReading \subseteq GcReadPackets /\ IsFiniteSet(gcReading)
    /\ gc_status \in BOOLEAN /\ panic_mode \in BOOLEAN /\ (panic_mode => gc_status)
    /\ erases \in Nat /\ erase_pointer \in Blocks

LEMMA PanicProperties ==
    ASSUME Tables, Panic
    PROVE  /\ CollectionAdds(NumPlanes) /\ CollectionStarts(TRUE) /\ ~Collecting
           /\ Start(Head(gcQueue'))
           /\ UNCHANGED <<queueVars, erase_pointer>>
           /\ UNCHANGED <<mapVars, ctrlQueue, countVars, gcReading>>
<1>1. runPanicGC  BY DEF Panic
<1>2. CollectionAdds(NumPlanes)  BY <1>1, RunPanicProperties DEF Tables
<1>3. QED  BY <1>1, <1>2 DEF Panic, TooFull, runPanicGC

LEMMA PanicWork ==
    ASSUME GcQueueInv, Tables, Panic
    PROVE  GcQueueInv'
<1>1. /\ CollectionAdds(NumPlanes) /\ Start(Head(gcQueue')) /\ UNCHANGED queueVars
      BY PanicProperties
<1>2. PICK w \in Seq(Collectable) : gcQueue' = gcQueue \o w /\ w # <<>>
      BY <1>1 DEF CollectionAdds
<1>3. w \in Seq(GcTransactions)  BY CollectableType, SeqMonotonic
<1>4. gcQueue' \in Seq(GcTransactions) /\ gcQueue' # <<>>
      BY <1>2, <1>3, ConcatProperties, ConcatEqualIffEmpty DEF GcQueueInv
<1>5. QED  BY <1>1, <1>4, StartGcWork

LEMMA HostScheduledWork ==
    ASSUME GcQueueInv, UNCHANGED <<queueVars, gcQueue>>, ~busy,
           scheduleCurrentTransaction \/ TakeFront \/ NothingToSchedule
    PROVE  GcQueueInv'
<1>1. UNCHANGED <<readQueue, writeQueue, read_pointer, read_iterator_counter>>
      BY DEF queueVars
<1>2. CASE UNCHANGED currentVars  BY <1>2, SameWork DEF currentVars, GcQueueInv
<1>3. CASE writeQueue # <<>> /\ TwoQueues /\ Start(Head(writeQueue))
  <2>1. Head(writeQueue) \in QueuedWrites
        BY <1>3, HeadTailProperties DEF GcQueueInv, HostQueues
  <2>2. Head(writeQueue) \in Transactions /\ Head(writeQueue).type = "DATA_WRITE"
        BY <2>1 DEF QueuedWrites, Transactions
  <2>3. QueuedCurrent'
        BY <1>1, <1>3, <2>2 DEF QueuedCurrent, TwoQueues, Start
  <2>4. QED  BY <1>3, <2>2, <2>3, StartHostWork
<1>4. CASE readQueue # <<>> /\ TwoQueues /\ Start(readQueue[read_pointer])
  <2>1. Len(readQueue) \in Nat \ {0} /\ DOMAIN readQueue = 1 .. Len(readQueue)
        BY <1>4, EmptySeq, LenProperties DEF GcQueueInv, HostQueues
  <2>2. read_pointer \in 1 .. Len(readQueue)
        BY <1>4, <2>1 DEF GcQueueInv, HostQueues
  <2>3. readQueue[read_pointer] \in Transactions /\ readQueue[read_pointer].type = "DATA_READ"
        BY <1>4, <2>2, ElementOfSeq DEF GcQueueInv, HostQueues
  <2>4. QueuedCurrent'
        BY <1>1, <1>4, <2>1, <2>2, <2>3 DEF QueuedCurrent, TwoQueues, Start
  <2>5. QED  BY <1>4, <2>3, <2>4, StartHostWork
<1>5. CASE readQueue # <<>> /\ ~TwoQueues /\ Start(Head(readQueue))
  <2>1. Head(readQueue) \in Transactions
        BY <1>5, HeadTailProperties DEF GcQueueInv, HostQueues
  <2>2. QueuedCurrent'  BY <1>1, <1>5, <2>1 DEF QueuedCurrent, TwoQueues, Start
  <2>3. QED  BY <1>5, <2>1, <2>2, StartHostWork
<1>6. QED
      BY <1>2, <1>3, <1>4, <1>5
      DEF scheduleCurrentTransaction, TakeFront, ScheduleWrite, NothingToSchedule,
          ScheduleFromEmptyQueue, ScheduleRead, ScheduleIdleWrite

(* A collection starts only when nothing of the host's was taken.          *)
LEMMA TakeHostCases ==
    ASSUME TakeHost
    PROVE  \/ /\ UNCHANGED <<collectVars, write_queues_full>> /\ CollectionMayEnd
           \/ runGC /\ UNCHANGED currentVars
<1>1. \/ UNCHANGED <<collectVars, write_queues_full>> /\ CollectionMayEnd
      \/ runGC /\ lookupCounter' # LOOKUP_CYCLES
      BY DEF TakeHost
<1>2. ASSUME lookupCounter' # LOOKUP_CYCLES  PROVE UNCHANGED currentVars
      BY <1>2
      DEF TakeHost, scheduleCurrentTransaction, TakeFront, ScheduleWrite, NothingToSchedule,
          ScheduleFromEmptyQueue, ScheduleRead, ScheduleIdleWrite, Start
<1>3. QED  BY <1>1, <1>2

LEMMA TakeWork ==
    ASSUME GcQueueInv, Tables, Collector, Take
    PROVE  GcQueueInv'
<1>1. UNCHANGED queueVars /\ ~busy  BY DEF Take
<1>2. CASE TakeGc
  <2>1. UNCHANGED gcQueue /\ gcQueue # <<>> /\ Start(Head(gcQueue))
        BY <1>2 DEF TakeGc, collectVars
  <2>2. Start(Head(gcQueue')) /\ gcQueue' # <<>> /\ gcQueue' \in Seq(GcTransactions)
        BY <2>1 DEF GcQueueInv
  <2>3. QED  BY <1>1, <2>2, StartGcWork
<1>3. CASE TakeHost /\ UNCHANGED collectVars
  <2>1. UNCHANGED gcQueue  BY <1>3 DEF collectVars
  <2>2. scheduleCurrentTransaction \/ TakeFront \/ NothingToSchedule
        BY <1>3 DEF TakeHost
  <2>3. QED  BY <1>1, <2>1, <2>2, HostScheduledWork
<1>4. CASE runGC /\ UNCHANGED currentVars
  <2>1. CollectionAdds(1)  BY <1>4, RunGcProperties DEF Tables, Collector
  <2>2. PICK w \in Seq(Collectable) : gcQueue' = gcQueue \o w
        BY <2>1 DEF CollectionAdds
  <2>3. w \in Seq(GcTransactions)  BY CollectableType, SeqMonotonic
  <2>4. QED  BY <1>1, <1>4, <2>2, <2>3, GcWorkGrows
<1>5. QED  BY <1>2, <1>3, <1>4, TakeHostCases DEF Take

LEMMA HostReadsWork ==
    ASSUME GcQueueInv, HostReads
    PROVE  GcQueueInv'
<1> DEFINE a == currentTransaction.address
<1>1. UNCHANGED gcQueue  BY DEF HostReads, collectVars
<1>2. CASE Lookup
  <2>1. UNCHANGED <<queueVars, busy, currentTransaction>> /\ lookupCounter' \in Nat
        BY <1>2 DEF Lookup, GcQueueInv
  <2>2. QED  BY <1>1, <2>1, SameWork
<1>3. CASE handle_read
  <2>1. busy /\ currentTransaction.type = "DATA_READ"
        BY <1>3 DEF handle_read, Dispatching
  <2>2. HostQueues /\ QueuedCurrent
    <3>1. currentTransaction \notin GcTransactions  BY <2>1, KindsDiffer
    <3>2. QED  BY <2>1, <3>1 DEF GcQueueInv, WorkIsQueued, GcTransactions
  <2>3. CASE ReadLeaves
    <3>1. HostQueues'  BY <2>1, <2>2, <2>3, ReadLeavesQueues
    <3>2. busy' = FALSE /\ UNCHANGED <<currentTransaction, lookupCounter>>
          BY <2>3 DEF ReadLeaves
    <3>3. QED  BY <1>1, <3>1, <3>2, IdleWork DEF GcQueueInv
  <2>4. CASE TryNextRead
    <3>1. HostQueues'  BY <2>2, <2>4, TryNextReadQueues
    <3>2. busy' = FALSE /\ UNCHANGED <<currentTransaction, lookupCounter>>
          BY <2>4 DEF TryNextRead
    <3>3. QED  BY <1>1, <3>1, <3>2, IdleWork DEF GcQueueInv
  <2>5. CASE UNCHANGED <<queueVars, currentVars>>
        BY <1>1, <2>5, SameWork DEF currentVars, GcQueueInv
  <2>6. QED
        BY <1>3, <2>3, <2>4, <2>5
        DEF handle_read, FoundInWriteQueue, AccessWriteQueue, ReadMapped, ReadUnmapped,
            DiskRead, DiskReadNoPage, SendRead, ReadWaits
<1>4. QED  BY <1>2, <1>3 DEF HostReads

LEMMA GcReadsWork ==
    ASSUME GcQueueInv, GcReads
    PROVE  GcQueueInv'
<1> DEFINE a == currentTransaction.address
           d == DieOf(addressMap[a])
<1>1. busy /\ currentTransaction.type = "GC_DATA_READ"
      BY DEF GcReads, Dispatching
<1>2. CASE gcQueue' = Tail(gcQueue) /\ read_iterator_counter' = 0 /\ Idle
           /\ UNCHANGED <<readQueue, writeQueue, read_pointer>>
  <2>1. HostQueues'  BY <1>2 DEF GcQueueInv, HostQueues, TwoQueues
  <2>2. currentTransaction \in GcTransactions
    <3>1. \A t \in Transactions \cup EmptyTransactions : t.type # "GC_DATA_READ"
          BY DEF Transactions, EmptyTransactions
    <3>2. QED  BY <1>1, <3>1 DEF GcQueueInv
  <2>3. gcQueue # <<>>  BY <1>1, <2>2 DEF GcQueueInv, WorkIsQueued, GcTransactions
  <2>4. gcQueue' \in Seq(GcTransactions)  BY <1>2, <2>3, HeadTailProperties DEF GcQueueInv
  <2>5. QED  BY <1>2, <2>1, <2>4, IdleWork DEF GcQueueInv, Idle
<1>3. CASE TryNextRead /\ UNCHANGED gcQueue
  <2>1. HostQueues'  BY <1>3, TryNextReadQueues DEF GcQueueInv
  <2>2. busy' = FALSE /\ UNCHANGED <<currentTransaction, lookupCounter>>
        BY <1>3 DEF TryNextRead
  <2>3. QED  BY <1>3, <2>1, <2>2, IdleWork DEF GcQueueInv
<1>4. CASE ReadWaits /\ UNCHANGED gcQueue
      BY <1>4, SameWork DEF ReadWaits, currentVars, GcQueueInv
<1>5. QED  BY <1>2, <1>3, <1>4 DEF GcReads

LEMMA WritesWork ==
    ASSUME GcQueueInv, Writes
    PROVE  GcQueueInv'
<1> DEFINE a == currentTransaction.address
           p == FindFree(used, writePointer)
<1>1. UNCHANGED gcQueue  BY DEF Writes, collectVars
<1>2. CASE GcWriteSent(a, p)
  <2>1. PopWrite /\ Idle /\ UNCHANGED <<read_pointer, read_iterator_counter>>
        BY <1>2 DEF GcWriteSent, GcWriteSuccess
  <2>2. HostQueues'  BY <2>1, PopWriteQueues DEF GcQueueInv
  <2>3. QED  BY <1>1, <2>1, <2>2, IdleWork DEF GcQueueInv, Idle
<1>3. CASE GcWriteBlocked(a, p)
  <2>1. UNCHANGED <<queueVars, currentTransaction, lookupCounter>> /\ busy' = ~SCHEDULE
        BY <1>3 DEF GcWriteBlocked
  <2>2. busy  BY DEF Writes, Dispatching
  <2>3. busy' = busy \/ busy' = FALSE
        BY <2>1, <2>2, OptionAssumption DEF GcQueueInv
  <2>4. QED  BY <1>1, <2>1, <2>3, SameWork DEF GcQueueInv
<1>4. CASE GcWriteNoPage
      BY <1>1, <1>4, SameWork DEF GcWriteNoPage, currentVars, GcQueueInv
<1>5. QED  BY <1>2, <1>3, <1>4 DEF Writes

(* An erase that is being worked on belongs to a collection that is not    *)
(* over: popFront never takes a read of the host's for it.                 *)
ErasesOwned == busy /\ currentTransaction \in Erasures => Collecting

LEMMA ErasesWork ==
    ASSUME GcQueueInv, ErasesOwned, Erases
    PROVE  GcQueueInv'
<1>1. busy /\ currentTransaction.type = "BLOCK_ERASE"
      BY DEF Erases, Dispatching
<1>2. UNCHANGED <<writeQueue, read_pointer, read_iterator_counter>>  BY DEF Erases
<1>3. currentTransaction \in Erasures /\ currentTransaction \in GcTransactions
  <2>1. currentTransaction \in GcTransactions
    <3>1. \A t \in Transactions \cup EmptyTransactions : t.type # "BLOCK_ERASE"
          BY DEF Transactions, EmptyTransactions
    <3>2. QED  BY <1>1, <3>1 DEF GcQueueInv
  <2>2. QED  BY <1>1, <2>1 DEF GcTransactions, Erasures
<1>4. gcQueue # <<>>  BY <1>1, <1>3 DEF GcQueueInv, WorkIsQueued, GcTransactions
<1>5. CASE PopErase /\ Idle
  <2>1. gcQueue' = Tail(gcQueue) /\ UNCHANGED readQueue
        BY <1>1, <1>3, <1>5 DEF PopErase, ErasesOwned
  <2>2. HostQueues'  BY <1>2, <2>1 DEF GcQueueInv, HostQueues, TwoQueues
  <2>3. gcQueue' \in Seq(GcTransactions)  BY <1>4, <2>1, HeadTailProperties DEF GcQueueInv
  <2>4. QED  BY <1>5, <2>2, <2>3, IdleWork DEF GcQueueInv, Idle
<1>6. CASE UNCHANGED <<readQueue, currentVars, gcQueue>>
  <2>1. UNCHANGED queueVars  BY <1>2, <1>6 DEF queueVars
  <2>2. QED  BY <1>6, <2>1, SameWork DEF currentVars, GcQueueInv
<1>7. QED  BY <1>5, <1>6 DEF Erases

(* The end of a read: what is queued for it.                               *)
LEMMA CompletedProperties ==
    ASSUME gc_pending_erase \in Seq(PendingErases), NEW a, Completed(a) # {}
    PROVE  /\ Least(Completed(a)) \in 1 .. Len(gc_pending_erase)
           /\ gc_pending_erase[Least(Completed(a))] \in PendingErases
           /\ gc_pending_erase[Least(Completed(a))].pending_reads = {a}
<1>1. DOMAIN gc_pending_erase = 1 .. Len(gc_pending_erase) /\ Len(gc_pending_erase) \in Nat
      BY LenProperties
<1>2. Completed(a) \in SUBSET Nat  BY <1>1 DEF Completed
<1>3. Least(Completed(a)) \in Completed(a)  BY <1>2, LeastIn
<1>4. QED  BY <1>1, <1>3, ElementOfSeq DEF Completed

LEMMA ReadFollowersProperties ==
    ASSUME gc_pending_erase \in Seq(PendingErases), NEW a \in Addr
    PROVE  /\ ReadFollowers(a) \in Seq({t \in GcTransactions : t.type # "GC_DATA_READ"})
           /\ CountIn(ReadFollowers(a), Erasures) = OneIf(Completed(a) # {})
<1> DEFINE Followers == {t \in GcTransactions : t.type # "GC_DATA_READ"}
           w == GcWrite(a)
           b == BlockErase(gc_pending_erase[Least(Completed(a))].erase_block)
<1>1. w \in Followers /\ w \notin Erasures
      BY DEF GcWrite, GcTransactions, Erasures
<1>2. CASE Completed(a) = {}
  <2> HIDE DEF w, b
  <2>1. ReadFollowers(a) = <<w>>  BY <1>2 DEF ReadFollowers, w
  <2>2. CountIn(<<w>>, Erasures) = 0  BY <1>1, CountOne DEF OneIf
  <2>3. <<w>> \in Seq(Followers)  BY <1>1, SingletonSeq
  <2>4. QED  BY <1>2, <2>1, <2>2, <2>3 DEF OneIf
<1>3. CASE Completed(a) # {}
  <2>1. b \in Followers /\ b \in Erasures
    <3>1. gc_pending_erase[Least(Completed(a))].erase_block \in Blocks
          BY <1>3, CompletedProperties DEF PendingErases
    <3>2. QED  BY <3>1 DEF BlockErase, GcTransactions, Erasures
  <2> HIDE DEF w, b, Followers
  <2>2. ReadFollowers(a) = <<b, w>>  BY <1>3 DEF ReadFollowers, b, w
  <2>3. <<b>> \in Seq(Followers) /\ <<b, w>> = Append(<<b>>, w) /\ <<b, w>> \in Seq(Followers)
        BY <1>1, <2>1
  <2>4. CountIn(<<b, w>>, Erasures) = CountIn(<<b>>, Erasures) + OneIf(w \in Erasures)
        BY <1>1, <2>3, CountAppend
  <2>5. CountIn(<<b>>, Erasures) = 1  BY <2>1, CountOne DEF OneIf
  <2>6. OneIf(w \in Erasures) = 0 /\ OneIf(Completed(a) # {}) = 1  BY <1>1, <1>3 DEF OneIf
  <2>7. QED  BY <2>2, <2>3, <2>4, <2>5, <2>6 DEF Followers
<1>4. QED  BY <1>2, <1>3

LEMMA ReadDoneWork ==
    ASSUME GcQueueInv, Collector, NEW r \in gcReading, GCReadDone(r)
    PROVE  GcQueueInv'
<1>1. r.address \in Addr  BY DEF Collector, GcReadPackets
<1>2. ReadFollowers(r.address) \in Seq({t \in GcTransactions : t.type # "GC_DATA_READ"})
      BY <1>1, ReadFollowersProperties DEF Collector
<1>3. ReadFollowers(r.address) \in Seq(GcTransactions)  BY <1>2, SeqMonotonic
<1>4. QED  BY <1>3, GcWorkGrows DEF GCReadDone

LEMMA RestartWork ==
    ASSUME RestartGc
    PROVE  GcQueueInv'
<1>1. HostQueues'
  <2>1. readQueue' = <<>> /\ writeQueue' = <<>> /\ read_pointer' = 1 /\ read_iterator_counter' = 0
        BY DEF RestartGc, NewProcess
  <2>2. QED  BY <2>1, EmptySeq DEF HostQueues, TwoQueues
<1>2. QED  BY <1>1, IdleWork, EmptySeq DEF RestartGc, NewProcess

(* The steps of the specification, one by one.                             *)
NvStep ==
    \/ HostExits \/ NothingDirty
    \/ \E a \in Addr : HostAdds(a)
    \/ Panic \/ Take
    \/ Normal /\ (HostReads \/ GcReads \/ Writes \/ Erases) /\ CollectionMayEnd
       /\ UNCHANGED gcReading
    \/ \E d \in Dies : Leaves(d)
    \/ \E r \in gcReading : GCReadDone(r)
    \/ UNCHANGED allVars

LEMMA NvSteps ==
    ASSUME [GcNvNext]_<<allVars, nvVars>>
    PROVE  \/ NvStep /\ UNCHANGED nvVars
           \/ GcSaveNVState
           \/ RestartGc
BY DEF GcNvNext, GcNext, GcUpdate, GcPop, Works, NvStep

LEMMA GcQueueNext ==
    GcQueueInv /\ ErasesOwned /\ Tables /\ Collector /\ [GcNvNext]_<<allVars, nvVars>>
      => GcQueueInv'
<1> SUFFICES ASSUME GcQueueInv, ErasesOwned, Tables, Collector, [GcNvNext]_<<allVars, nvVars>>
             PROVE  GcQueueInv'
    OBVIOUS
<1>1. CASE HostExits \/ NothingDirty
      BY <1>1, SameWork
         DEF HostExits, NothingDirty, currentVars, gcVars, collectVars, GcQueueInv
<1>2. CASE \E a \in Addr : HostAdds(a)  BY <1>2, HostAddsWork
<1>3. CASE Panic  BY <1>3, PanicWork
<1>4. CASE Take  BY <1>4, TakeWork
<1>5. CASE HostReads \/ GcReads \/ Writes \/ Erases
      BY <1>5, HostReadsWork, GcReadsWork, WritesWork, ErasesWork
<1>6. CASE \E d \in Dies : Leaves(d)
      BY <1>6, SameWork DEF Leaves, currentVars, collectVars, GcQueueInv
<1>7. CASE \E r \in gcReading : GCReadDone(r)  BY <1>7, ReadDoneWork
<1>8. CASE UNCHANGED allVars
      BY <1>8, SameWork DEF allVars, vars, currentVars, gcVars, collectVars, GcQueueInv
<1>9. CASE RestartGc  BY <1>9, RestartWork
<1>10. CASE GcSaveNVState  BY <1>8, <1>10 DEF GcSaveNVState
<1>11. CASE NvStep
       BY <1>1, <1>2, <1>3, <1>4, <1>5, <1>6, <1>7, <1>8, <1>11 DEF NvStep
<1>12. QED  BY <1>9, <1>10, <1>11, NvSteps

-----------------------------------------------------------------------------
(* What a step does to the tables and their counters.                      *)
PageTaken(a, p) ==
    /\ p \in Pages \ used /\ used' = used \cup {p}
    /\ addressMap' = [addressMap EXCEPT ![a] = p]
    /\ used_page_count' = Plus(used_page_count, 1)

TableStep ==
    \/ UNCHANGED <<used, addressMap, dirty, dirty_page_count, used_page_count>>
    \/ \E a \in Addr, p \in Pages :
          ~Mapped(a) /\ PageTaken(a, p) /\ UNCHANGED <<dirty, dirty_page_count>>
    \/ \E a \in Addr :
          /\ dirty_page_count # MaxDirtyCount /\ MarkOld(a)
          /\ \/ UNCHANGED <<used, addressMap, used_page_count>>
             \/ \E p \in Pages : PageTaken(a, p)
    \/ \E b \in Blocks : Clear(b) /\ UNCHANGED addressMap

PointerStep == writePointer' \in Pointers /\ deadlock_counter' \in Nat

LEMMA CountRange ==
    /\ CounterRange \in Nat \ {0} /\ NumPages < CounterRange
    /\ MaxDirtyCount \in Nat /\ MaxDirtyCount < CounterRange
BY CollectAssumption, NumPagesType

LEMMA SameCount ==
    ASSUME NEW n \in 0 .. CounterRange - 1
    PROVE  Plus(n, 0) = n
<1>1. n + 0 = n  OBVIOUS
<1>2. n % CounterRange = n  BY CountRange, RemainderOfSum
<1>3. QED  BY <1>1, <1>2 DEF Plus

(* A transaction at work is of the host or of the collector.               *)
LEMMA WorkAddress ==
    ASSUME GcQueueInv,
           currentTransaction.type \in {"DATA_READ", "DATA_WRITE", "GC_DATA_READ", "GC_DATA_WRITE"}
    PROVE  currentTransaction.address \in Addr
BY DEF GcQueueInv, Transactions, EmptyTransactions, GcTransactions

LEMMA HostReadsTables ==
    ASSUME GcQueueInv, Tables, HostReads
    PROVE  TableStep /\ PointerStep
<1> DEFINE a == currentTransaction.address
<1>1. /\ used_page_count' = Plus(used_page_count, IF used' = used THEN 0 ELSE 1)
      /\ UNCHANGED <<dirty, dirty_page_count>>
      BY DEF HostReads
<1>2. CASE UNCHANGED <<writePointer, used, addressMap>> /\ deadlock_counter' \in Nat
  <2>1. used_page_count' = used_page_count  BY <1>1, <1>2, SameCount DEF Tables
  <2>2. TableStep  BY <1>1, <1>2, <2>1 DEF TableStep
  <2>3. QED  BY <1>2, <2>2 DEF PointerStep, Tables
<1>3. CASE handle_read /\ DiskRead(a)
  <2> DEFINE p == FindFree(used, writePointer)
  <2>1. a \in Addr
    <3>1. currentTransaction.type = "DATA_READ"  BY <1>3 DEF handle_read, Dispatching
    <3>2. QED  BY <3>1, WorkAddress
  <2>2. p \in Pages \ used
    <3>1. p # NoPage  BY <1>3 DEF DiskRead
    <3>2. QED  BY <3>1, FindFreeSound DEF Tables
  <2>3. /\ used' = used \cup {p} /\ addressMap' = [addressMap EXCEPT ![a] = p]
        /\ writePointer' = Advance(writePointer) /\ deadlock_counter' = 0
        /\ ~Mapped(a)
        BY <1>3 DEF DiskRead
  <2> HIDE DEF p, a
  <2>4. used' # used  BY <2>2, <2>3
  <2>5. used_page_count' = Plus(used_page_count, 1)  BY <1>1, <2>4
  <2>6. PageTaken(a, p)  BY <2>2, <2>3, <2>5 DEF PageTaken
  <2>7. TableStep  BY <1>1, <2>1, <2>2, <2>3, <2>6 DEF TableStep
  <2>8. QED  BY <2>3, <2>7, AdvanceType DEF PointerStep, Tables
<1>4. CASE Lookup  BY <1>2, <1>4 DEF Lookup, mapVars, Tables
<1>5. CASE handle_read /\ ~DiskRead(a)
  <2>1. UNCHANGED <<writePointer, used, addressMap>>
        /\ (deadlock_counter' = deadlock_counter \/ deadlock_counter' = deadlock_counter + 1)
        BY <1>5 DEF handle_read, FoundInWriteQueue, AccessWriteQueue, ReadMapped, ReadUnmapped,
                    DiskReadNoPage, mapVars
  <2>2. QED  BY <1>2, <2>1 DEF Tables
<1>6. QED  BY <1>3, <1>4, <1>5 DEF HostReads

LEMMA WritesTables ==
    ASSUME GcQueueInv, Tables, Writes
    PROVE  TableStep /\ PointerStep
<1> DEFINE a == currentTransaction.address
           p == FindFree(used, writePointer)
<1>1. dirty_page_count # MaxDirtyCount /\ MarkOld(a)  BY DEF Writes
<1>2. a \in Addr
  <2>1. currentTransaction.type \in {"DATA_WRITE", "GC_DATA_WRITE"}
        BY DEF Writes, Dispatching
  <2>2. QED  BY <2>1, WorkAddress
<1>3. CASE p # NoPage /\ GcWriteSent(a, p)
  <2>1. p \in Pages \ used  BY <1>3, FindFreeSound DEF Tables
  <2>2. PageTaken(a, p) /\ writePointer' = Advance(writePointer) /\ deadlock_counter' = 0
        BY <1>3, <2>1 DEF GcWriteSent, GcWriteSuccess, PageTaken
  <2>3. TableStep
    <3> HIDE DEF a, p
    <3>1. QED  BY <1>1, <1>2, <2>1, <2>2 DEF TableStep
  <2>4. QED  BY <2>2, <2>3, AdvanceType DEF PointerStep, Tables
<1>4. CASE GcWriteBlocked(a, p) \/ GcWriteNoPage
  <2>1. UNCHANGED <<used, addressMap, used_page_count, writePointer>>
        /\ deadlock_counter' \in Nat
        BY <1>4, OptionAssumption DEF GcWriteBlocked, GcWriteNoPage
  <2>2. TableStep
    <3> HIDE DEF a
    <3>1. QED  BY <1>1, <1>2, <2>1 DEF TableStep
  <2>3. QED  BY <2>1, <2>2 DEF PointerStep, Tables
<1>5. QED  BY <1>3, <1>4 DEF Writes

LEMMA ErasesTables ==
    ASSUME GcQueueInv, Tables, Erases
    PROVE  TableStep /\ PointerStep
<1> DEFINE b == currentTransaction.address
<1>1. UNCHANGED <<writePointer, addressMap, deadlock_counter>>  BY DEF Erases
<1>2. PointerStep  BY <1>1 DEF PointerStep, Tables
<1>3. b \in Blocks
  <2>1. currentTransaction.type = "BLOCK_ERASE"  BY DEF Erases, Dispatching
  <2>2. QED  BY <2>1 DEF GcQueueInv, Transactions, EmptyTransactions, GcTransactions
<1>4. CASE Clear(b)
  <2> HIDE DEF b
  <2>1. QED  BY <1>1, <1>2, <1>3, <1>4 DEF TableStep
<1>5. CASE UNCHANGED <<used, countVars>>
      BY <1>1, <1>2, <1>5 DEF TableStep, countVars
<1>6. QED  BY <1>4, <1>5 DEF Erases

LEMMA TableSteps ==
    ASSUME GcQueueInv, Tables, NvStep
    PROVE  TableStep /\ PointerStep
<1>1. CASE UNCHANGED <<mapVars, countVars>>
      BY <1>1 DEF TableStep, PointerStep, Tables, mapVars, countVars
<1>2. CASE HostExits \/ NothingDirty \/ UNCHANGED allVars
      BY <1>1, <1>2 DEF HostExits, NothingDirty, gcVars, allVars, vars
<1>3. CASE \E a \in Addr : HostAdds(a)
      BY <1>1, <1>3 DEF HostAdds, HostRead, HostWrite, HostUnchanged, gcVars
<1>4. CASE Panic \/ Take  BY <1>1, <1>4 DEF Panic, Take
<1>5. CASE HostReads  BY <1>5, HostReadsTables
<1>6. CASE GcReads  BY <1>1, <1>6 DEF GcReads
<1>7. CASE Writes  BY <1>7, WritesTables
<1>8. CASE Erases  BY <1>8, ErasesTables
<1>9. CASE (\E d \in Dies : Leaves(d)) \/ (\E r \in gcReading : GCReadDone(r))
      BY <1>1, <1>9 DEF Leaves, GCReadDone
<1>10. QED  BY <1>2, <1>3, <1>4, <1>5, <1>6, <1>7, <1>8, <1>9 DEF NvStep

LEMMA PlusType ==
    ASSUME NEW m \in Int, NEW n \in Int
    PROVE  Plus(m, n) \in 0 .. CounterRange - 1
<1>1. m + n \in Int  OBVIOUS
<1>2. QED  BY <1>1, CountRange, IntRemainderType DEF Plus

(* Within its range a counter is added to exactly.                         *)
LEMMA PlusExact ==
    ASSUME NEW m \in Int, NEW n \in Int, m + n \in 0 .. CounterRange - 1
    PROVE  Plus(m, n) = m + n
BY CountRange, RemainderOfSum DEF Plus

CountsInv == CountsSound /\ dirty_page_count <= MaxDirtyCount

TableInv ==
    /\ Tables
    /\ restarts \in Nat
    /\ saveFile # NoSave => saveFile \in SavedTables
    /\ ReverseLookupFinds
    /\ saveFile # NoSave =>
          \A p \in saveFile.used \ saveFile.dirty : \E a \in Addr : saveFile.addressMap[a] = p
    /\ restarts = 0 => CountsInv

LEMMA TablesInit == GcNvInit => TableInv
<1> SUFFICES ASSUME GcNvInit PROVE TableInv  OBVIOUS
<1>1. /\ writePointer = [channel |-> 0, die |-> 0, plane |-> 0]
      /\ used = {} /\ addressMap = [a \in Addr |-> NoPage] /\ deadlock_counter = 0
      /\ dirty = {} /\ dirty_page_count = 0 /\ used_page_count = 0
      /\ saveFile = NoSave /\ restarts = 0
      BY DEF GcNvInit, GcInit, Init
<1>2. writePointer \in Pointers
      BY <1>1, GeometryAssumption DEF Pointers, Packages, Planes
<1>3. Tables  BY <1>1, <1>2, CountRange DEF Tables
<1>4. ReverseLookupFinds  BY <1>1 DEF ReverseLookupFinds
<1>5. CountsSound  BY <1>1, FS_EmptySet DEF CountsSound
<1>6. QED  BY <1>1, <1>3, <1>4, <1>5, CountRange DEF TableInv, CountsInv

LEMMA TablesType ==
    ASSUME Tables, TableStep, PointerStep
    PROVE  Tables'
<1>1. used_page_count \in Int /\ dirty_page_count \in Int  BY DEF Tables
<1>2. ASSUME NEW a \in Addr, NEW p \in Pages, PageTaken(a, p)
      PROVE  /\ used' \in SUBSET Pages /\ addressMap' \in [Addr -> Pages \cup {NoPage}]
             /\ used_page_count' \in 0 .. CounterRange - 1
  <2>1. Plus(used_page_count, 1) \in 0 .. CounterRange - 1  BY <1>1, PlusType
  <2>2. QED  BY <1>2, <2>1 DEF PageTaken, Tables
<1>3. ASSUME NEW a \in Addr, MarkOld(a)
      PROVE  dirty' \in SUBSET Pages /\ dirty_page_count' \in 0 .. CounterRange - 1
  <2>1. dirty' \in SUBSET Pages  BY <1>3 DEF MarkOld, Mapped, Tables
  <2>2. \A n \in {0, 1} : Plus(dirty_page_count, n) \in 0 .. CounterRange - 1
    <3>1. {0, 1} \subseteq Int  OBVIOUS
    <3>2. QED  BY <1>1, <3>1, PlusType
  <2>3. dirty_page_count' \in 0 .. CounterRange - 1  BY <1>3, <2>2 DEF MarkOld
  <2>4. QED  BY <2>1, <2>3
<1>4. ASSUME NEW b \in Blocks, Clear(b)
      PROVE  /\ used' \in SUBSET Pages /\ dirty' \in SUBSET Pages
             /\ dirty_page_count' \in 0 .. CounterRange - 1
             /\ used_page_count' \in 0 .. CounterRange - 1
  <2> DEFINE pages == {p \in Pages : BlockOf(p) = b}
  <2>1. Cardinality(dirty \cap pages) \in 0 .. NumPages
        /\ Cardinality(used \cap pages) \in 0 .. NumPages
        BY PagesFinite DEF Tables
  <2> HIDE DEF pages
  <2>2. /\ dirty' = dirty \ pages /\ used' = used \ pages
        /\ dirty_page_count' = Plus(dirty_page_count, -Cardinality(dirty \cap pages))
        /\ used_page_count' = Plus(used_page_count, -Cardinality(used \cap pages))
        BY <1>4 DEF Clear, pages
  <2>3. -Cardinality(dirty \cap pages) \in Int /\ -Cardinality(used \cap pages) \in Int
        BY <2>1, NumPagesType
  <2>4. dirty_page_count' \in 0 .. CounterRange - 1 /\ used_page_count' \in 0 .. CounterRange - 1
        BY <1>1, <2>2, <2>3, PlusType
  <2>5. QED  BY <2>2, <2>4 DEF Tables
<1>5. QED  BY <1>2, <1>3, <1>4 DEF Tables, TableStep, PointerStep

(* Live pages keep their owners: the owner of another page is another      *)
(* address, which the step leaves alone.                                   *)
LEMMA OwnersStay ==
    ASSUME Tables, ReverseLookupFinds, TableStep
    PROVE  ReverseLookupFinds'
<1> SUFFICES ASSUME NEW q \in used' \ dirty'
             PROVE  \E c \in Addr : addressMap'[c] = q
    BY DEF ReverseLookupFinds
<1>1. ASSUME NEW a \in Addr, NEW p \in Pages, PageTaken(a, p), dirty \subseteq dirty',
             Mapped(a) => addressMap[a] \in dirty'
      PROVE  \E c \in Addr : addressMap'[c] = q
  <2>1. CASE q = p  BY <1>1, <2>1 DEF PageTaken, Tables
  <2>2. CASE q # p
    <3>1. q \in used \ dirty  BY <1>1, <2>2 DEF PageTaken
    <3>2. PICK c \in Addr : addressMap[c] = q  BY <3>1 DEF ReverseLookupFinds
    <3>3. c # a
      <4>1. q \in Pages  BY <3>1 DEF Tables
      <4>2. CASE Mapped(a)  BY <1>1, <3>2, <4>2
      <4>3. CASE ~Mapped(a)  BY <3>2, <4>1, <4>3, NoPageIsNoPage DEF Mapped
      <4>4. QED  BY <4>2, <4>3
    <3>4. addressMap'[c] = q  BY <1>1, <3>2, <3>3 DEF PageTaken, Tables
    <3>5. QED  BY <3>4
  <2>3. QED  BY <2>1, <2>2
<1>2. ASSUME q \in used \ dirty, UNCHANGED addressMap
      PROVE  \E c \in Addr : addressMap'[c] = q
      BY <1>2 DEF ReverseLookupFinds
<1>3. CASE UNCHANGED <<used, addressMap, dirty, dirty_page_count, used_page_count>>
      BY <1>2, <1>3
<1>4. CASE \E a \in Addr, p \in Pages :
             ~Mapped(a) /\ PageTaken(a, p) /\ UNCHANGED <<dirty, dirty_page_count>>
      BY <1>1, <1>4
<1>5. ASSUME NEW a \in Addr, MarkOld(a),
             \/ UNCHANGED <<used, addressMap, used_page_count>>
             \/ \E p \in Pages : PageTaken(a, p)
      PROVE  \E c \in Addr : addressMap'[c] = q
  <2>1. dirty \subseteq dirty' /\ (Mapped(a) => addressMap[a] \in dirty')
        BY <1>5 DEF MarkOld
  <2>2. QED  BY <1>1, <1>2, <1>5, <2>1
<1>6. ASSUME NEW b \in Blocks, Clear(b), UNCHANGED addressMap
      PROVE  \E c \in Addr : addressMap'[c] = q
  <2>1. q \in used \ dirty  BY <1>6 DEF Clear
  <2>2. QED  BY <1>2, <1>6, <2>1
<1>7. QED  BY <1>3, <1>4, <1>5, <1>6 DEF TableStep

(* The counters follow the tables.                                         *)
LEMMA PageCounts ==
    ASSUME NEW ps \in SUBSET Pages
    PROVE  /\ Cardinality(ps) \in 0 .. NumPages
           /\ \A p \in Pages \ ps : Cardinality(ps \cup {p}) = Cardinality(ps) + 1
           /\ \A p \in Pages : Cardinality(ps \cup {p}) <= Cardinality(ps) + 1
           /\ \A qs \in SUBSET Pages :
                 Cardinality(ps \ qs) + Cardinality(ps \cap qs) = Cardinality(ps)
<1>1. IsFiniteSet(ps) /\ Cardinality(ps) \in 0 .. NumPages  BY PagesFinite
<1>2. \A p \in Pages \ ps : Cardinality(ps \cup {p}) = Cardinality(ps) + 1
      BY <1>1, FS_AddElement
<1>3. ASSUME NEW p \in Pages  PROVE Cardinality(ps \cup {p}) <= Cardinality(ps) + 1
  <2>1. CASE p \in ps
    <3>1. ps \cup {p} = ps  BY <2>1
    <3>2. Cardinality(ps \cup {p}) = Cardinality(ps)  BY <3>1
    <3>3. Cardinality(ps) <= Cardinality(ps) + 1  BY <1>1, NumPagesType
    <3>4. QED  BY <3>2, <3>3
  <2>2. CASE p \notin ps
    <3>1. Cardinality(ps \cup {p}) = Cardinality(ps) + 1  BY <1>2, <2>2
    <3>2. QED  BY <1>1, <3>1, NumPagesType
  <2>3. QED  BY <2>1, <2>2
<1>4. ASSUME NEW qs \in SUBSET Pages
      PROVE  Cardinality(ps \ qs) + Cardinality(ps \cap qs) = Cardinality(ps)
  <2>1. IsFiniteSet(ps \ qs) /\ IsFiniteSet(ps \cap qs)  BY PagesFinite
  <2>2. ps = (ps \ qs) \cup (ps \cap qs) /\ (ps \ qs) \cap (ps \cap qs) = {}  OBVIOUS
  <2>3. QED  BY <2>1, <2>2, DisjointUnion
<1>5. QED  BY <1>1, <1>2, <1>3, <1>4

LEMMA CountsStay ==
    ASSUME Tables, CountsInv, TableStep
    PROVE  CountsInv'
<1>1. /\ used_page_count = Cardinality(used) /\ Cardinality(used) \in 0 .. NumPages
      /\ Cardinality(dirty) <= dirty_page_count /\ Cardinality(dirty) \in 0 .. NumPages
      /\ dirty_page_count \in Nat /\ dirty_page_count <= MaxDirtyCount
      BY PageCounts DEF Tables, CountsInv, CountsSound
<1>2. ASSUME NEW a \in Addr, NEW p \in Pages, PageTaken(a, p)
      PROVE  used_page_count' = Cardinality(used')
  <2>1. /\ p \in Pages \ used /\ used' = used \cup {p} /\ used' \in SUBSET Pages
        /\ used_page_count' = Plus(used_page_count, 1)
        BY <1>2 DEF PageTaken, Tables
  <2>2. Cardinality(used') = Cardinality(used) + 1  BY <2>1, PageCounts DEF Tables
  <2>3. Cardinality(used') \in 0 .. NumPages  BY <2>1, PagesFinite
  <2>4. used_page_count + 1 \in 0 .. CounterRange - 1
        BY <1>1, <2>2, <2>3, CountRange, NumPagesType
  <2>5. used_page_count' = used_page_count + 1  BY <1>1, <2>1, <2>4, PlusExact
  <2>6. QED  BY <1>1, <2>2, <2>5
<1>3. ASSUME NEW a \in Addr, dirty_page_count # MaxDirtyCount, MarkOld(a)
      PROVE  Cardinality(dirty') <= dirty_page_count' /\ dirty_page_count' <= MaxDirtyCount
  <2>1. CASE ~Mapped(a)
    <3>1. dirty' = dirty /\ dirty_page_count' = Plus(dirty_page_count, 0)
          BY <1>3, <2>1 DEF MarkOld
    <3>2. dirty_page_count' = dirty_page_count  BY <3>1, SameCount DEF Tables
    <3>3. QED  BY <1>1, <3>1, <3>2
  <2>2. CASE Mapped(a)
    <3>1. addressMap[a] \in Pages  BY <2>2 DEF Tables, Mapped
    <3>2. /\ dirty' = dirty \cup {addressMap[a]}
          /\ dirty_page_count' = Plus(dirty_page_count, 1)
          BY <1>3, <2>2 DEF MarkOld
    <3>3. dirty_page_count' = dirty_page_count + 1
          BY <1>1, <1>3, <3>2, CountRange, PlusExact
    <3>4. Cardinality(dirty') <= Cardinality(dirty) + 1  BY <3>1, <3>2, PageCounts DEF Tables
    <3>5. Cardinality(dirty') \in Nat
      <4>1. dirty' \in SUBSET Pages  BY <3>1, <3>2 DEF Tables
      <4>2. QED  BY <4>1, PagesFinite, NumPagesType
    <3>6. QED  BY <1>1, <1>3, <3>3, <3>4, <3>5, CountRange
  <2>3. QED  BY <2>1, <2>2
<1>4. ASSUME NEW b \in Blocks, Clear(b)
      PROVE  CountsInv'
  <2> DEFINE pages == {p \in Pages : BlockOf(p) = b}
             u == Cardinality(used \cap pages)
             d == Cardinality(dirty \cap pages)
  <2>1. /\ dirty' = dirty \ pages /\ used' = used \ pages
        /\ dirty_page_count' = Plus(dirty_page_count, -d)
        /\ used_page_count' = Plus(used_page_count, -u)
        BY <1>4 DEF Clear
  <2>2. /\ Cardinality(used \ pages) + u = Cardinality(used)
        /\ Cardinality(dirty \ pages) + d = Cardinality(dirty)
        BY PageCounts DEF Tables
  <2>3. /\ u \in 0 .. NumPages /\ d \in 0 .. NumPages
        /\ Cardinality(used \ pages) \in 0 .. NumPages
        /\ Cardinality(dirty \ pages) \in 0 .. NumPages
        BY PagesFinite DEF Tables
  <2> HIDE DEF pages, u, d
  <2>4. /\ used_page_count + (-u) = Cardinality(used \ pages)
        /\ dirty_page_count + (-d) >= Cardinality(dirty \ pages)
        /\ dirty_page_count + (-d) <= MaxDirtyCount
        /\ used_page_count + (-u) \in 0 .. CounterRange - 1
        /\ dirty_page_count + (-d) \in 0 .. CounterRange - 1
        /\ -u \in Int /\ -d \in Int
        BY <1>1, <2>2, <2>3, NumPagesType, CountRange
  <2>5. /\ used_page_count' = used_page_count + (-u)
        /\ dirty_page_count' = dirty_page_count + (-d)
        BY <1>1, <2>1, <2>4, PlusExact
  <2>6. QED  BY <2>1, <2>4, <2>5 DEF CountsInv, CountsSound
<1>5. QED  BY <1>1, <1>2, <1>3, <1>4 DEF TableStep, CountsInv, CountsSound

LEMMA TablesNext ==
    GcQueueInv /\ TableInv /\ [GcNvNext]_<<allVars, nvVars>> => TableInv'
<1> SUFFICES ASSUME GcQueueInv, TableInv, [GcNvNext]_<<allVars, nvVars>>
             PROVE  TableInv'
    OBVIOUS
<1>1. CASE NvStep /\ UNCHANGED nvVars
  <2>1. UNCHANGED <<saveFile, restarts>>  BY <1>1 DEF nvVars
  <2>2. TableStep /\ PointerStep  BY <1>1, TableSteps DEF TableInv
  <2>3. Tables' /\ ReverseLookupFinds'  BY <2>2, TablesType, OwnersStay DEF TableInv
  <2>4. restarts' = 0 => CountsInv'  BY <2>1, <2>2, CountsStay DEF TableInv
  <2>5. QED  BY <2>1, <2>3, <2>4 DEF TableInv
<1>2. CASE GcSaveNVState
  <2>1. UNCHANGED <<writePointer, addressMap, used, dirty, deadlock_counter,
                    dirty_page_count, used_page_count, restarts>>
        BY <1>2 DEF GcSaveNVState, allVars, vars, mapVars, gcVars, countVars
  <2>2. saveFile' = [addressMap |-> addressMap, dirty |-> dirty, used |-> used]
        BY <1>2 DEF GcSaveNVState
  <2>3. saveFile' \in SavedTables  BY <2>2 DEF SavedTables, TableInv, Tables
  <2>4. Tables'  BY <2>1 DEF TableInv, Tables
  <2>5. ReverseLookupFinds'  BY <2>1 DEF TableInv, ReverseLookupFinds
  <2>6. restarts' = 0 => CountsInv'  BY <2>1 DEF TableInv, CountsInv, CountsSound
  <2>7. \A p \in saveFile'.used \ saveFile'.dirty : \E a \in Addr : saveFile'.addressMap[a] = p
        BY <2>2 DEF TableInv, ReverseLookupFinds
  <2>8. QED  BY <2>1, <2>3, <2>4, <2>5, <2>6, <2>7 DEF TableInv
<1>3. CASE RestartGc
  <2>1. /\ saveFile # NoSave /\ addressMap' = saveFile.addressMap
        /\ dirty' = saveFile.dirty /\ dirty_page_count' = 0 /\ used' = saveFile.used
        /\ used_page_count' = Cardinality(saveFile.used \ saveFile.dirty)
        /\ restarts' = restarts + 1 /\ saveFile' = NoSave
        /\ writePointer' = [channel |-> 0, die |-> 0, plane |-> 0] /\ deadlock_counter' = 0
        BY <1>3 DEF RestartGc, GcLoadNVState, NewProcess
  <2>2. saveFile \in SavedTables  BY <2>1 DEF TableInv
  <2>3. writePointer' \in Pointers
        BY <2>1, GeometryAssumption DEF Pointers, Packages, Planes
  <2>4. used_page_count' \in 0 .. CounterRange - 1
    <3>1. saveFile.used \ saveFile.dirty \in SUBSET Pages  BY <2>2 DEF SavedTables
    <3>2. used_page_count' \in 0 .. NumPages  BY <2>1, <3>1, PagesFinite
    <3>3. QED  BY <3>2, CountRange, NumPagesType
  <2>5. Tables'
    <3>1. /\ addressMap' \in [Addr -> Pages \cup {NoPage}]
          /\ used' \in SUBSET Pages /\ dirty' \in SUBSET Pages
          BY <2>1, <2>2 DEF SavedTables
    <3>2. dirty_page_count' \in 0 .. CounterRange - 1 /\ deadlock_counter' \in Nat
          BY <2>1, CountRange
    <3>3. QED  BY <2>3, <2>4, <3>1, <3>2 DEF Tables
  <2>6. ReverseLookupFinds'  BY <2>1 DEF TableInv, ReverseLookupFinds
  <2>7. restarts' \in Nat /\ restarts' # 0  BY <2>1 DEF TableInv
  <2>8. saveFile' = NoSave  BY <2>1
  <2>9. QED  BY <2>5, <2>6, <2>7, <2>8 DEF TableInv
<1>4. QED  BY <1>1, <1>2, <1>3, NvSteps

(* A page that is mapped stays mapped while the process lives.             *)
LEMMA MappedStays ==
    ASSUME Tables, TableStep, NEW a \in Addr, Mapped(a)
    PROVE  Mapped(a)'
<1>1. ASSUME NEW b \in Addr, NEW p \in Pages, PageTaken(b, p)
      PROVE  addressMap'[a] # NoPage
      BY <1>1, NoPageIsNoPage DEF PageTaken, Tables, Mapped
<1>2. addressMap'[a] # NoPage  BY <1>1 DEF TableStep, Mapped
<1>3. QED  BY <1>2 DEF Mapped, NoPage, NumPages, NumBlocks

-----------------------------------------------------------------------------
(* What a step does to a collection: nothing but perhaps end it, start a   *)
(* new one, send one of its transactions to the controller, or finish one. *)
OtherPackets == [type : {"READ", "DATA", "WRITE", "GC_WRITE"}, address : Addr, page : Pages]

WorkOf(pkt) == IF pkt.type = "ERASE" THEN BlockErase(pkt.address) ELSE GcRead(pkt.address)

PacketsSent(d, q) == ctrlQueue' = [ctrlQueue EXCEPT ![d] = @ \o q]

CollectorWaits ==
    /\ UNCHANGED <<gcQueue, gc_pending_erase, gcReading, erase_pointer>>
    /\ UNCHANGED statusVars \/ CollectionMayEnd
    /\ UNCHANGED ctrlQueue \/ \E d \in Dies, q \in Seq(OtherPackets) : PacketsSent(d, q)

CollectorStarts ==
    \E panic \in BOOLEAN :
       /\ ~Collecting
       /\ CollectionAdds(IF panic THEN NumPlanes ELSE 1) /\ CollectionStarts(panic)
       /\ erase_pointer' \in Blocks
       /\ UNCHANGED <<ctrlQueue, gcReading>>

CollectorSends ==
    \E d \in Dies, pkt \in GcReadPackets \cup ErasePackets :
       /\ gcQueue # <<>> /\ Head(gcQueue) = WorkOf(pkt)
       /\ gcQueue' = Tail(gcQueue) /\ PacketsSent(d, <<pkt>>)
       /\ UNCHANGED <<gc_pending_erase, gcReading, erase_pointer>>
       /\ CollectionMayEnd

CollectorStep ==
    \/ CollectorWaits \/ CollectorStarts \/ CollectorSends
    \/ \E d \in Dies : Leaves(d)
    \/ \E r \in gcReading : GCReadDone(r)

(* Whatever the FTL reads for a collection is mapped.                      *)
ReadsMapped ==
    \A i \in 1 .. Len(gcQueue) :
        gcQueue[i].type = "GC_DATA_READ" => Mapped(gcQueue[i].address)

LEMMA MapDies ==
    ASSUME Tables, NEW a \in Addr, Mapped(a)
    PROVE  addressMap[a] \in Pages /\ DieOf(addressMap[a]) \in Dies
BY DieOfType DEF Tables, Mapped

LEMMA AppendedPacket ==
    ASSUME Collector, NEW d \in Dies, NEW pkt \in GcPackets
    PROVE  Append(ctrlQueue[d], pkt) = ctrlQueue[d] \o <<pkt>>
<1>1. ctrlQueue[d] \in Seq(GcPackets)  BY DEF Collector
<1>2. QED  BY <1>1, AppendIsConcat

LEMMA SentOneByOne ==
    ASSUME Collector, NEW d \in Dies, NEW pkt \in GcPackets,
           ctrlQueue' = [ctrlQueue EXCEPT ![d] = Append(@, pkt)]
    PROVE  PacketsSent(d, <<pkt>>)
BY AppendedPacket DEF PacketsSent

LEMMA HostReadsCollector ==
    ASSUME GcQueueInv, Tables, Collector, HostReads, CollectionMayEnd, UNCHANGED gcReading
    PROVE  CollectorWaits
<1> DEFINE a == currentTransaction.address
<1>1. UNCHANGED <<gcQueue, gc_pending_erase, erase_pointer>>
      BY DEF HostReads, collectVars
<1>2. ASSUME NEW p \in Pages, SendRead(a, p), handle_read
      PROVE  UNCHANGED ctrlQueue \/ \E d \in Dies, q \in Seq(OtherPackets) : PacketsSent(d, q)
  <2> DEFINE d == DieOf(p)
             pkt == Packet("READ", a, p)
  <2>1. UNCHANGED ctrlQueue \/ ctrlQueue' = [ctrlQueue EXCEPT ![d] = Append(@, pkt)]
        BY <1>2 DEF SendRead
  <2>2. a \in Addr /\ d \in Dies
    <3>1. currentTransaction.type = "DATA_READ"  BY <1>2 DEF handle_read, Dispatching
    <3>2. QED  BY <3>1, WorkAddress, DieOfType
  <2>3. pkt \in OtherPackets /\ pkt \in GcPackets
        BY <2>2 DEF Packet, OtherPackets, GcPackets
  <2> HIDE DEF d, pkt
  <2>4. <<pkt>> \in Seq(OtherPackets)  BY <2>3, SingletonSeq
  <2>5. QED  BY <2>1, <2>2, <2>3, <2>4, SentOneByOne
<1>3. UNCHANGED ctrlQueue \/ \E d \in Dies, q \in Seq(OtherPackets) : PacketsSent(d, q)
  <2>1. CASE handle_read /\ ReadMapped(a)
    <3>1. currentTransaction.type = "DATA_READ"  BY <2>1 DEF handle_read, Dispatching
    <3>2. addressMap[a] \in Pages
      <4>1. a \in Addr /\ Mapped(a)  BY <2>1, <3>1, WorkAddress DEF ReadMapped
      <4>2. QED  BY <4>1, MapDies
    <3>3. SendRead(a, addressMap[a])  BY <2>1 DEF ReadMapped
    <3>4. QED  BY <1>2, <2>1, <3>2, <3>3
  <2>2. CASE handle_read /\ DiskRead(a)
    <3>1. SendRead(a, FindFree(used, writePointer)) /\ FindFree(used, writePointer) # NoPage
          BY <2>2 DEF DiskRead
    <3>2. FindFree(used, writePointer) \in Pages  BY <3>1, FindFreeSound DEF Tables
    <3>3. QED  BY <1>2, <2>2, <3>1, <3>2
  <2>3. CASE Lookup \/ (handle_read /\ ~ReadMapped(a) /\ ~DiskRead(a))
        BY <2>3 DEF Lookup, handle_read, FoundInWriteQueue, AccessWriteQueue, ReadUnmapped,
                    DiskReadNoPage
  <2>4. QED  BY <2>1, <2>2, <2>3 DEF HostReads
<1>4. QED  BY <1>1, <1>3 DEF CollectorWaits

LEMMA WritesCollector ==
    ASSUME GcQueueInv, Tables, Writes, CollectionMayEnd, UNCHANGED gcReading
    PROVE  CollectorWaits
<1> DEFINE a == currentTransaction.address
           p == FindFree(used, writePointer)
<1>1. UNCHANGED <<gcQueue, gc_pending_erase, erase_pointer>>
      BY DEF Writes, collectVars
<1>2. CASE p # NoPage /\ GcWriteSent(a, p) /\ ~PERFECT_SCHEDULE
  <2>1. a \in Addr
    <3>1. currentTransaction.type \in {"DATA_WRITE", "GC_DATA_WRITE"}
          BY DEF Writes, Dispatching
    <3>2. QED  BY <3>1, WorkAddress
  <2>2. p \in Pages  BY <1>2, FindFreeSound DEF Tables
  <2>3. DieOf(p) \in Dies  BY <2>2, DieOfType
  <2> DEFINE data == Packet("DATA", a, p)
             write == Packet(WriteType, a, p)
  <2>4. data \in OtherPackets /\ write \in OtherPackets
        BY <2>1, <2>2 DEF Packet, OtherPackets, WriteType
  <2>5. PacketsSent(DieOf(p), <<data, write>>)  BY <1>2 DEF GcWriteSent, PacketsSent
  <2> HIDE DEF data, write, p
  <2>6. <<data, write>> \in Seq(OtherPackets)  BY <2>4
  <2>7. QED  BY <1>1, <2>3, <2>5, <2>6 DEF CollectorWaits
<1>3. CASE GcWriteBlocked(a, p) \/ GcWriteNoPage
      BY <1>1, <1>3 DEF GcWriteBlocked, GcWriteNoPage, CollectorWaits
<1>4. CASE GcWriteSent(a, p) /\ PERFECT_SCHEDULE
      BY <1>1, <1>4 DEF GcWriteSent, CollectorWaits
<1>5. QED  BY <1>2, <1>3, <1>4 DEF Writes

LEMMA GcReadsCollector ==
    ASSUME GcQueueInv, Tables, Collector, ReadsMapped, GcReads, CollectionMayEnd,
           UNCHANGED gcReading
    PROVE  CollectorWaits \/ CollectorSends
<1> DEFINE a == currentTransaction.address
           d == DieOf(addressMap[a])
           pkt == Packet("GC_READ", a, addressMap[a])
<1>1. busy /\ currentTransaction.type = "GC_DATA_READ"
      BY DEF GcReads, Dispatching
<1>2. currentTransaction = GcRead(a) /\ a \in Addr /\ currentTransaction \in GcTransactions
  <2>1. currentTransaction \in [type : {"GC_DATA_READ", "GC_DATA_WRITE"}, address : Addr]
        BY <1>1 DEF GcQueueInv, GcTransactions, Transactions, EmptyTransactions
  <2>2. QED  BY <1>1, <2>1 DEF GcRead, GcTransactions
<1>3. gcQueue # <<>> /\ Head(gcQueue) = GcRead(a)
      BY <1>1, <1>2 DEF GcQueueInv, WorkIsQueued, GcTransactions
<1>4. Mapped(a)
  <2>1. 1 \in 1 .. Len(gcQueue) /\ gcQueue[1] = GcRead(a)
        BY <1>3, EmptySeq, SplitHead DEF GcQueueInv
  <2>2. QED  BY <2>1 DEF ReadsMapped, GcRead
<1>5. d \in Dies /\ pkt \in GcReadPackets /\ pkt \in GcPackets /\ WorkOf(pkt) = GcRead(a)
      BY <1>2, <1>4, MapDies DEF Packet, GcReadPackets, GcPackets, WorkOf
<1>6. UNCHANGED <<gc_pending_erase, erase_pointer>>  BY DEF GcReads
<1>7. CASE ctrlQueue' = [ctrlQueue EXCEPT ![d] = Append(@, pkt)] /\ gcQueue' = Tail(gcQueue)
  <2> HIDE DEF d, pkt, a
  <2>1. PacketsSent(d, <<pkt>>)  BY <1>5, <1>7, SentOneByOne
  <2>2. QED  BY <1>3, <1>5, <1>6, <1>7, <2>1 DEF CollectorSends
<1>8. CASE UNCHANGED <<ctrlQueue, gcQueue>>  BY <1>6, <1>8 DEF CollectorWaits
<1>9. QED  BY <1>7, <1>8 DEF GcReads

LEMMA ErasesCollector ==
    ASSUME GcQueueInv, ErasesOwned, Tables, Collector, Erases, CollectionMayEnd,
           UNCHANGED gcReading
    PROVE  CollectorWaits \/ CollectorSends
<1> DEFINE b == currentTransaction.address
           p == b * PAGES_PER_BLOCK
           d == DieOf(p)
           pkt == Packet("ERASE", b, p)
<1>1. busy /\ currentTransaction.type = "BLOCK_ERASE"
      BY DEF Erases, Dispatching
<1>2. currentTransaction = BlockErase(b) /\ b \in Blocks
      /\ currentTransaction \in GcTransactions /\ currentTransaction \in Erasures
  <2>1. currentTransaction \in [type : {"BLOCK_ERASE"}, address : Blocks]
        BY <1>1 DEF GcQueueInv, GcTransactions, Transactions, EmptyTransactions
  <2>2. QED  BY <1>1, <2>1 DEF BlockErase, GcTransactions, Erasures
<1>3. gcQueue # <<>> /\ Head(gcQueue) = BlockErase(b)
      BY <1>1, <1>2 DEF GcQueueInv, WorkIsQueued, GcTransactions
<1>4. p \in Pages
  <2>1. ASSUME NEW m \in Nat, NEW n \in Nat, NEW k \in Nat \ {0}, m + 1 <= n
        PROVE  m * k \in 0 .. n * k - 1
        BY <2>1
  <2>2. b \in Nat /\ NumBlocks \in Nat /\ b + 1 <= NumBlocks
        BY <1>2, BlocksFacts DEF Blocks
  <2>3. QED  BY <2>1, <2>2, GeometryAssumption DEF Pages, NumPages
<1>5. d \in Dies /\ pkt \in ErasePackets /\ pkt \in GcPackets /\ WorkOf(pkt) = BlockErase(b)
      BY <1>2, <1>4, DieOfType DEF Packet, ErasePackets, GcPackets, WorkOf
<1>6. UNCHANGED <<gc_pending_erase, erase_pointer>>  BY DEF Erases
<1>7. CASE ctrlQueue' = [ctrlQueue EXCEPT ![d] = Append(@, pkt)] /\ PopErase
  <2> HIDE DEF d, pkt, b, p
  <2>1. PacketsSent(d, <<pkt>>)  BY <1>5, <1>7, SentOneByOne
  <2>2. gcQueue' = Tail(gcQueue)  BY <1>1, <1>2, <1>7 DEF PopErase, ErasesOwned
  <2>3. QED  BY <1>3, <1>5, <1>6, <2>1, <2>2 DEF CollectorSends
<1>8. CASE UNCHANGED <<ctrlQueue, gcQueue>>  BY <1>6, <1>8 DEF CollectorWaits
<1>9. QED  BY <1>7, <1>8 DEF Erases

LEMMA TakeCollector ==
    ASSUME Tables, Collector, Take
    PROVE  CollectorWaits \/ CollectorStarts
<1>1. UNCHANGED <<ctrlQueue, gcReading>>  BY DEF Take
<1>2. CASE UNCHANGED collectVars /\ CollectionMayEnd
      BY <1>1, <1>2 DEF CollectorWaits, collectVars
<1>3. CASE runGC /\ ~Collecting
  <2>1. CollectionAdds(1) /\ erase_pointer' \in Blocks
        BY <1>3, RunGcProperties DEF Tables, Collector
  <2>2. CollectionStarts(FALSE)  BY <1>3 DEF runGC
  <2>3. QED  BY <1>1, <1>3, <2>1, <2>2 DEF CollectorStarts
<1>4. QED  BY <1>2, <1>3, TakeHostCases DEF Take, TakeGc, TakeHost

LEMMA CollectorSteps ==
    ASSUME GcQueueInv, ErasesOwned, Tables, Collector, ReadsMapped, NvStep
    PROVE  CollectorStep
<1>1. CASE UNCHANGED <<gcVars, ctrlQueue>>
      BY <1>1 DEF gcVars, collectVars, CollectorStep, CollectorWaits
<1>2. CASE HostExits \/ NothingDirty \/ UNCHANGED allVars
      BY <1>1, <1>2 DEF HostExits, NothingDirty, allVars, vars
<1>3. CASE \E a \in Addr : HostAdds(a)
      BY <1>1, <1>3 DEF HostAdds, HostRead, HostWrite, HostUnchanged
<1>4. CASE Panic
  <2>1. /\ CollectionAdds(NumPlanes) /\ CollectionStarts(TRUE) /\ ~Collecting
        /\ UNCHANGED erase_pointer /\ UNCHANGED <<ctrlQueue, gcReading>>
        BY <1>4, PanicProperties
  <2>2. erase_pointer' \in Blocks  BY <2>1 DEF Collector
  <2>3. QED  BY <2>1, <2>2 DEF CollectorStep, CollectorStarts
<1>5. CASE Take  BY <1>5, TakeCollector DEF CollectorStep
<1>6. CASE (HostReads \/ GcReads \/ Writes \/ Erases) /\ CollectionMayEnd
           /\ UNCHANGED gcReading
      BY <1>6, HostReadsCollector, GcReadsCollector, WritesCollector, ErasesCollector
         DEF CollectorStep
<1>7. CASE (\E d \in Dies : Leaves(d)) \/ (\E r \in gcReading : GCReadDone(r))
      BY <1>7 DEF CollectorStep
<1>8. QED  BY <1>2, <1>3, <1>4, <1>5, <1>6, <1>7 DEF NvStep

-----------------------------------------------------------------------------
(* Packets on their way, by what is counted.                               *)
LEMMA PacketsExchanged ==
    ASSUME NEW d \in Dies, NEW X, NEW old \in [Dies -> Seq(GcPackets)],
           NEW new \in [Dies -> Seq(GcPackets)], \A e \in Dies \ {d} : new[e] = old[e]
    PROVE  CountAmong(new, Dies, X) + CountIn(old[d], X)
              = CountAmong(old, Dies, X) + CountIn(new[d], X)
<1>1. CountsDifferAtOne(GcPackets, Dies, X)  BY DiesFinite, CountAmongStep
<1>2. QED  BY <1>1 DEF CountsDifferAtOne

LEMMA PacketsCounted ==
    ASSUME Collector, NEW X
    PROVE  CountAmong(ctrlQueue, Dies, X) \in Nat
BY DiesFinite, CountAmongType DEF Collector

LEMMA SentProperties ==
    ASSUME Collector, NEW d \in Dies, NEW q \in Seq(GcPackets), PacketsSent(d, q)
    PROVE  /\ ctrlQueue' \in [Dies -> Seq(GcPackets)]
           /\ \A X : CountAmong(ctrlQueue', Dies, X)
                       = CountAmong(ctrlQueue, Dies, X) + CountIn(q, X)
<1> DEFINE new == ctrlQueue'
<1>1. /\ ctrlQueue \in [Dies -> Seq(GcPackets)] /\ ctrlQueue[d] \in Seq(GcPackets)
      /\ new = [ctrlQueue EXCEPT ![d] = ctrlQueue[d] \o q]
      BY DEF Collector, PacketsSent
<1>2. ctrlQueue[d] \o q \in Seq(GcPackets)  BY <1>1, ConcatProperties
<1>3. /\ new \in [Dies -> Seq(GcPackets)] /\ new[d] = ctrlQueue[d] \o q
      /\ \A e \in Dies \ {d} : new[e] = ctrlQueue[e]
      BY <1>1, <1>2
<1> HIDE DEF new
<1>4. ASSUME NEW X
      PROVE  CountAmong(new, Dies, X) = CountAmong(ctrlQueue, Dies, X) + CountIn(q, X)
  <2>1. CountAmong(new, Dies, X) + CountIn(ctrlQueue[d], X)
           = CountAmong(ctrlQueue, Dies, X) + CountIn(new[d], X)
        BY <1>1, <1>3, PacketsExchanged
  <2>2. CountIn(new[d], X) = CountIn(ctrlQueue[d], X) + CountIn(q, X)
        BY <1>1, <1>3, CountConcat
  <2>3. /\ CountAmong(new, Dies, X) \in Nat /\ CountAmong(ctrlQueue, Dies, X) \in Nat
        /\ CountIn(ctrlQueue[d], X) \in Nat /\ CountIn(q, X) \in Nat
        BY <1>1, <1>3, DiesFinite, CountAmongType, CountType
  <2>4. ASSUME NEW m \in Nat, NEW n \in Nat, NEW i \in Nat, NEW k \in Nat,
               m + i = n + (i + k)
        PROVE  m = n + k
        BY <2>4
  <2>5. QED  BY <2>1, <2>2, <2>3, <2>4
<1>5. QED  BY <1>3, <1>4 DEF new

LEMMA LeftProperties ==
    ASSUME Collector, NEW d \in Dies, ctrlQueue[d] # <<>>,
           ctrlQueue' = [ctrlQueue EXCEPT ![d] = Tail(@)]
    PROVE  /\ Head(ctrlQueue[d]) \in GcPackets
           /\ ctrlQueue' \in [Dies -> Seq(GcPackets)]
           /\ \A X : CountAmong(ctrlQueue, Dies, X)
                       = CountAmong(ctrlQueue', Dies, X) + OneIf(Head(ctrlQueue[d]) \in X)
<1> DEFINE new == ctrlQueue'
<1>1. /\ ctrlQueue \in [Dies -> Seq(GcPackets)] /\ ctrlQueue[d] \in Seq(GcPackets)
      /\ new = [ctrlQueue EXCEPT ![d] = Tail(ctrlQueue[d])]
      BY DEF Collector
<1>2. Head(ctrlQueue[d]) \in GcPackets /\ Tail(ctrlQueue[d]) \in Seq(GcPackets)
      BY <1>1, HeadTailProperties
<1>3. /\ new \in [Dies -> Seq(GcPackets)] /\ new[d] = Tail(ctrlQueue[d])
      /\ \A e \in Dies \ {d} : new[e] = ctrlQueue[e]
      BY <1>1, <1>2
<1> HIDE DEF new
<1>4. ASSUME NEW X
      PROVE  CountAmong(ctrlQueue, Dies, X)
                = CountAmong(new, Dies, X) + OneIf(Head(ctrlQueue[d]) \in X)
  <2>1. CountAmong(new, Dies, X) + CountIn(ctrlQueue[d], X)
           = CountAmong(ctrlQueue, Dies, X) + CountIn(new[d], X)
        BY <1>1, <1>3, PacketsExchanged
  <2>2. CountIn(ctrlQueue[d], X) = OneIf(Head(ctrlQueue[d]) \in X) + CountIn(new[d], X)
        BY <1>1, <1>3, CountHeadTail
  <2>3. /\ CountAmong(new, Dies, X) \in Nat /\ CountAmong(ctrlQueue, Dies, X) \in Nat
        /\ CountIn(new[d], X) \in Nat /\ OneIf(Head(ctrlQueue[d]) \in X) \in Nat
        BY <1>1, <1>3, DiesFinite, CountAmongType, CountType DEF OneIf
  <2>4. QED  BY <2>1, <2>2, <2>3, OneLess
<1>5. QED  BY <1>2, <1>3, <1>4 DEF new

(* The pending erases from which a page is struck.                         *)
Struck(s, a) == [i \in 1 .. Len(s) |-> [s[i] EXCEPT !.pending_reads = @ \ {a}]]

LEMMA StruckProperties ==
    ASSUME NEW s \in Seq(PendingErases), NEW a,
           \A i \in 1 .. Len(s) : s[i].pending_reads # {a}
    PROVE  /\ Struck(s, a) \in Seq(PendingErases) /\ Len(Struck(s, a)) = Len(s)
           /\ CountIn(Struck(s, a), WaitingFor(a)) = 0
           /\ \A c : c # a => CountIn(Struck(s, a), WaitingFor(c)) = CountIn(s, WaitingFor(c))
<1> DEFINE r == Struck(s, a)
           n == Len(s)
<1>1. n \in Nat /\ \A i \in 1 .. n : s[i] \in PendingErases
      BY LenProperties, ElementOfSeq
<1>2. \A i \in 1 .. n : /\ [s[i] EXCEPT !.pending_reads = @ \ {a}] \in PendingErases
                        /\ [s[i] EXCEPT !.pending_reads = @ \ {a}].pending_reads
                               = s[i].pending_reads \ {a}
  <2> SUFFICES ASSUME NEW i \in 1 .. n
               PROVE  /\ [s[i] EXCEPT !.pending_reads = @ \ {a}] \in PendingErases
                      /\ [s[i] EXCEPT !.pending_reads = @ \ {a}].pending_reads
                             = s[i].pending_reads \ {a}
      OBVIOUS
  <2>1. PICK b \in Blocks, ps \in (SUBSET Addr) \ {{}} :
           s[i] = [erase_block |-> b, pending_reads |-> ps]
        BY <1>1 DEF PendingErases
  <2>2. ps \ {a} \in (SUBSET Addr) \ {{}}  BY <2>1
  <2>3. [s[i] EXCEPT !.pending_reads = @ \ {a}] = [erase_block |-> b, pending_reads |-> ps \ {a}]
    <3>1. ASSUME NEW e, e = [erase_block |-> b, pending_reads |-> ps], NEW qs
          PROVE  [e EXCEPT !.pending_reads = qs] = [erase_block |-> b, pending_reads |-> qs]
          BY <3>1
    <3>2. s[i].pending_reads = ps  BY <2>1
    <3>3. [s[i] EXCEPT !.pending_reads = ps \ {a}]
             = [erase_block |-> b, pending_reads |-> ps \ {a}]
          BY <2>1, <3>1
    <3>4. QED  BY <3>2, <3>3
  <2>4. QED  BY <2>1, <2>2, <2>3 DEF PendingErases
<1>3. \A i \in 1 .. n : r[i] \in PendingErases /\ r[i].pending_reads = s[i].pending_reads \ {a}
      BY <1>2 DEF Struck
<1>4. r \in Seq(PendingErases) /\ Len(r) = n
  <2>1. r \in [1 .. n -> PendingErases]  BY <1>2 DEF Struck
  <2> HIDE DEF r
  <2>2. QED  BY <1>1, <2>1
<1> HIDE DEF r
<1>5. CountIn(r, WaitingFor(a)) = 0
  <2>1. CountIn(r, WaitingFor(a)) \in Nat  BY <1>4, CountType
  <2>2. \A i \in 1 .. Len(r) : r[i] \notin WaitingFor(a)  BY <1>3, <1>4 DEF WaitingFor
  <2>3. ~(CountIn(r, WaitingFor(a)) > 0)  BY <1>4, <2>2, CountPositive
  <2>4. QED  BY <2>1, <2>3
<1>6. ASSUME NEW c, c # a  PROVE CountIn(r, WaitingFor(c)) = CountIn(s, WaitingFor(c))
  <2>1. \A i \in 1 .. Len(r) : r[i] \in WaitingFor(c) <=> s[i] \in WaitingFor(c)
        BY <1>1, <1>3, <1>4, <1>6 DEF WaitingFor
  <2>2. QED  BY <1>4, <2>1, CountSame
<1>7. QED  BY <1>4, <1>5, <1>6 DEF r

LEMMA StillPendingProperties ==
    ASSUME gc_pending_erase \in Seq(PendingErases), NEW a
    PROVE  /\ StillPending(a) \in Seq(PendingErases)
           /\ Len(gc_pending_erase) = Len(StillPending(a)) + OneIf(Completed(a) # {})
           /\ \A c : c # a => CountIn(StillPending(a), WaitingFor(c))
                                <= CountIn(gc_pending_erase, WaitingFor(c))
           /\ \/ CountIn(StillPending(a), WaitingFor(a)) = 0
              \/ CountIn(StillPending(a), WaitingFor(a)) + 1
                    <= CountIn(gc_pending_erase, WaitingFor(a))
<1> DEFINE s == gc_pending_erase
           n == Len(s)
<1>1. n \in Nat /\ DOMAIN s = 1 .. n  BY LenProperties
<1>2. CASE Completed(a) = {}
  <2>1. \A i \in 1 .. n : s[i].pending_reads # {a}  BY <1>1, <1>2 DEF Completed
  <2>2. StillPending(a) = Struck(s, a) \o SubSeq(s, n + 2, n)
    <3>1. n + 1 - 1 = n /\ n + 1 + 1 = n + 2  BY <1>1
    <3>2. StillPending(a) = [i \in 1 .. n + 1 - 1 |-> [s[i] EXCEPT !.pending_reads = @ \ {a}]]
                              \o SubSeq(s, n + 1 + 1, n)
          BY <1>2 DEF StillPending
    <3>3. QED  BY <3>1, <3>2 DEF Struck
  <2>3. SubSeq(s, n + 2, n) = <<>>
    <3>1. SubSeq(s, n + 2, n) \in Seq(PendingErases) /\ Len(SubSeq(s, n + 2, n)) = 0
          BY <1>1, SubSeqProperties
    <3>2. QED  BY <3>1, EmptySeq
  <2>4. /\ Struck(s, a) \in Seq(PendingErases) /\ Len(Struck(s, a)) = n
        /\ CountIn(Struck(s, a), WaitingFor(a)) = 0
        /\ \A c : c # a => CountIn(Struck(s, a), WaitingFor(c)) = CountIn(s, WaitingFor(c))
        BY <2>1, StruckProperties
  <2>5. StillPending(a) = Struck(s, a)  BY <2>2, <2>3, <2>4, ConcatEmptySeq
  <2>6. \A c : CountIn(s, WaitingFor(c)) \in Nat  BY CountType
  <2>7. OneIf(Completed(a) # {}) = 0  BY <1>2 DEF OneIf
  <2>8. QED  BY <1>1, <2>4, <2>5, <2>6, <2>7
<1>3. CASE Completed(a) # {}
  <2> DEFINE k == Least(Completed(a))
             p1 == SubSeq(s, 1, k - 1)
             p2 == SubSeq(s, k + 1, n)
  <2>1. k \in 1 .. n /\ s[k].pending_reads = {a} /\ s[k] \in PendingErases
        BY <1>3, CompletedProperties
  <2>2. \A i \in 1 .. k - 1 : s[i].pending_reads # {a}
    <3>1. Completed(a) \in SUBSET Nat  BY <1>1 DEF Completed
    <3>2. PICK m \in Completed(a) : \A j \in Completed(a) : m <= j
          BY <1>3, <3>1, LeastExists
    <3>3. \A j \in Completed(a) : k <= j  BY <3>2 DEF Least
    <3> HIDE DEF k
    <3>4. SUFFICES ASSUME NEW i \in 1 .. k - 1, s[i].pending_reads = {a}  PROVE FALSE
          OBVIOUS
    <3>5. i \in Completed(a)  BY <1>1, <2>1, <3>4 DEF Completed
    <3>6. QED  BY <2>1, <3>3, <3>4, <3>5
  <2>3. StillPending(a) = [i \in 1 .. k - 1 |-> [s[i] EXCEPT !.pending_reads = @ \ {a}]] \o p2
        BY <1>3 DEF StillPending
  <2> HIDE DEF k
  <2>4. p1 \in Seq(PendingErases) /\ p2 \in Seq(PendingErases) /\ s = p1 \o (<<s[k]>> \o p2)
        BY <2>1, SplitAt
  <2>5. Len(p1) = k - 1 /\ \A i \in 1 .. k - 1 : p1[i] = s[i]
        BY <1>1, <2>1, SubSeqProperties
  <2> HIDE DEF p1, p2
  <2>6. StillPending(a) = Struck(p1, a) \o p2
    <3>1. [i \in 1 .. k - 1 |-> [s[i] EXCEPT !.pending_reads = @ \ {a}]] = Struck(p1, a)
          BY <2>5 DEF Struck
    <3>2. QED  BY <2>3, <3>1
  <2>7. /\ Struck(p1, a) \in Seq(PendingErases) /\ Len(Struck(p1, a)) = Len(p1)
        /\ CountIn(Struck(p1, a), WaitingFor(a)) = 0
        /\ \A c : c # a => CountIn(Struck(p1, a), WaitingFor(c)) = CountIn(p1, WaitingFor(c))
    <3>1. \A i \in 1 .. Len(p1) : p1[i].pending_reads # {a}  BY <2>2, <2>5
    <3>2. p1 \in Seq(PendingErases)  BY <2>4
    <3>3. QED  BY <3>1, <3>2, StruckProperties
  <2>8. <<s[k]>> \in Seq(PendingErases)  BY <2>1, SingletonSeq
  <2>9. StillPending(a) \in Seq(PendingErases) /\ Len(StillPending(a)) = Len(p1) + Len(p2)
        BY <2>4, <2>6, <2>7, ConcatProperties
  <2>10. <<s[k]>> \o p2 \in Seq(PendingErases) /\ Len(<<s[k]>> \o p2) = 1 + Len(p2)
         BY <2>4, <2>8, ConcatProperties
  <2>11. Len(s) = Len(p1) + (1 + Len(p2))  BY <2>4, <2>10, ConcatProperties
  <2>12. Len(p1) \in Nat /\ Len(p2) \in Nat /\ OneIf(Completed(a) # {}) = 1
         BY <1>3, <2>4, LenProperties DEF OneIf
  <2>13. ASSUME NEW c
         PROVE  /\ CountIn(StillPending(a), WaitingFor(c))
                       = CountIn(Struck(p1, a), WaitingFor(c)) + CountIn(p2, WaitingFor(c))
                /\ CountIn(s, WaitingFor(c))
                       = CountIn(p1, WaitingFor(c))
                           + (OneIf(s[k] \in WaitingFor(c)) + CountIn(p2, WaitingFor(c)))
                /\ CountIn(p1, WaitingFor(c)) \in Nat /\ CountIn(p2, WaitingFor(c)) \in Nat
                /\ OneIf(s[k] \in WaitingFor(c)) \in Nat
    <3>1. CountIn(StillPending(a), WaitingFor(c))
             = CountIn(Struck(p1, a), WaitingFor(c)) + CountIn(p2, WaitingFor(c))
          BY <2>4, <2>6, <2>7, CountConcat
    <3>2. CountIn(<<s[k]>> \o p2, WaitingFor(c))
             = CountIn(<<s[k]>>, WaitingFor(c)) + CountIn(p2, WaitingFor(c))
          BY <2>4, <2>8, CountConcat
    <3>3. CountIn(<<s[k]>>, WaitingFor(c)) = OneIf(s[k] \in WaitingFor(c))  BY CountOne
    <3>4. CountIn(s, WaitingFor(c)) = CountIn(p1, WaitingFor(c))
             + CountIn(<<s[k]>> \o p2, WaitingFor(c))
      <4> DEFINE rest == <<s[k]>> \o p2
      <4>1. rest \in Seq(PendingErases) /\ p1 \in Seq(PendingErases) /\ s = p1 \o rest
            BY <2>4, <2>10
      <4> HIDE DEF rest
      <4>2. CountIn(p1 \o rest, WaitingFor(c))
               = CountIn(p1, WaitingFor(c)) + CountIn(rest, WaitingFor(c))
            BY <4>1, CountConcat
      <4>3. CountIn(s, WaitingFor(c)) = CountIn(p1 \o rest, WaitingFor(c))  BY <4>1
      <4>4. QED  BY <4>2, <4>3 DEF rest
    <3>5. CountIn(p1, WaitingFor(c)) \in Nat /\ CountIn(p2, WaitingFor(c)) \in Nat
          BY <2>4, CountType
    <3>6. OneIf(s[k] \in WaitingFor(c)) \in Nat  BY DEF OneIf
    <3>7. QED  BY <3>1, <3>2, <3>3, <3>4, <3>5, <3>6
  <2>14. ASSUME NEW c, c # a
         PROVE  CountIn(StillPending(a), WaitingFor(c)) <= CountIn(s, WaitingFor(c))
    <3>1. CountIn(Struck(p1, a), WaitingFor(c)) = CountIn(p1, WaitingFor(c))
          BY <2>7, <2>14
    <3>2. QED  BY <2>13, <3>1
  <2>15. CountIn(StillPending(a), WaitingFor(a)) + 1 <= CountIn(s, WaitingFor(a))
    <3>1. OneIf(s[k] \in WaitingFor(a)) = 1  BY <2>1 DEF WaitingFor, OneIf
    <3>2. QED  BY <2>7, <2>13, <3>1
  <2>16. Len(s) = Len(StillPending(a)) + OneIf(Completed(a) # {})
         BY <2>9, <2>11, <2>12
  <2>17. QED  BY <2>9, <2>14, <2>15, <2>16
<1>4. QED  BY <1>2, <1>3

-----------------------------------------------------------------------------
(* The inductive invariant of a collection.  The erases of a collection    *)
(* are queued, pending or with the controller; outside a collection there  *)
(* are none.  An erase waits for a page at most as often as the page is    *)
(* about to be read.                                                       *)
ToErase ==
    CountIn(gcQueue, Erasures) + Len(gc_pending_erase)
      + CountAmong(ctrlQueue, Dies, ErasePackets)

EraseInv ==
    /\ gc_status => erases + ToErase = Target
    /\ ~gc_status => ToErase = 0

ReadsOf(a) ==
    CountIn(gcQueue, {GcRead(a)}) + CountAmong(ctrlQueue, Dies, ReadPacketsOf(a))
      + Cardinality({r \in gcReading : r.address = a})

PendingInv == \A a : CountIn(gc_pending_erase, WaitingFor(a)) <= ReadsOf(a)

CollectionInv == Collector /\ EraseInv /\ PendingInv
CollectorInv == CollectionInv /\ ReadsMapped

LEMMA CountsNext ==
    /\ ToErase' = CountIn(gcQueue', Erasures) + Len(gc_pending_erase')
                     + CountAmong(ctrlQueue', Dies, ErasePackets)
    /\ \A a : /\ ReadsOf(a)' = CountIn(gcQueue', {GcRead(a)})
                                  + CountAmong(ctrlQueue', Dies, ReadPacketsOf(a))
                                  + Cardinality({r \in gcReading' : r.address = a})
             /\ CountIn(gc_pending_erase, WaitingFor(a))'
                   = CountIn(gc_pending_erase', WaitingFor(a))
    /\ Target' = IF panic_mode' THEN NumPlanes ELSE 1
BY DEF ToErase, ReadsOf, Target, Erasures, ErasePackets, ReadPacketsOf, WaitingFor,
       GcReadPackets, PendingErases, GcRead

LEMMA CountsType ==
    ASSUME gcQueue \in Seq(GcTransactions), Collector
    PROVE  /\ CountIn(gcQueue, Erasures) \in Nat /\ Len(gc_pending_erase) \in Nat
           /\ CountAmong(ctrlQueue, Dies, ErasePackets) \in Nat
           /\ ToErase \in Nat
           /\ \A a : /\ CountIn(gcQueue, {GcRead(a)}) \in Nat
                    /\ CountAmong(ctrlQueue, Dies, ReadPacketsOf(a)) \in Nat
                    /\ Cardinality({r \in gcReading : r.address = a}) \in Nat
                    /\ CountIn(gc_pending_erase, WaitingFor(a)) \in Nat
                    /\ ReadsOf(a) \in Nat
<1>1. /\ CountIn(gcQueue, Erasures) \in Nat /\ Len(gc_pending_erase) \in Nat
      /\ CountAmong(ctrlQueue, Dies, ErasePackets) \in Nat
      BY CountType, LenProperties, PacketsCounted DEF Collector
<1>2. ASSUME NEW a
      PROVE  /\ CountIn(gcQueue, {GcRead(a)}) \in Nat
             /\ CountAmong(ctrlQueue, Dies, ReadPacketsOf(a)) \in Nat
             /\ Cardinality({r \in gcReading : r.address = a}) \in Nat
             /\ CountIn(gc_pending_erase, WaitingFor(a)) \in Nat
  <2>1. IsFiniteSet({r \in gcReading : r.address = a})
        BY FS_Subset DEF Collector
  <2>2. QED  BY <2>1, CountType, PacketsCounted, FS_CardinalityType DEF Collector
<1>3. ToErase \in Nat  BY <1>1 DEF ToErase
<1>4. \A a : ReadsOf(a) \in Nat  BY <1>2 DEF ReadsOf
<1>5. QED  BY <1>1, <1>2, <1>3, <1>4

LEMMA CollectorInit == GcNvInit => CollectorInv
<1> SUFFICES ASSUME GcNvInit PROVE CollectorInv  OBVIOUS
<1>1. /\ gcQueue = <<>> /\ gc_pending_erase = <<>> /\ gc_status = FALSE /\ panic_mode = FALSE
      /\ erases = 0 /\ erase_pointer = 0 /\ gcReading = {}
      /\ ctrlQueue = [d \in Dies |-> <<>>]
      BY DEF GcNvInit, GcInit, Init
<1>2. Collector
  <2>1. gc_status \in BOOLEAN /\ panic_mode \in BOOLEAN /\ (panic_mode => gc_status)
        BY <1>1, Zenon
  <2>2. ctrlQueue \in [Dies -> Seq(GcPackets)] /\ gc_pending_erase \in Seq(PendingErases)
        BY <1>1, EmptySeq
  <2>3. IsFiniteSet(gcReading) /\ gcReading \subseteq GcReadPackets  BY <1>1, FS_EmptySet
  <2>4. QED  BY <1>1, <2>1, <2>2, <2>3, BlocksFacts DEF Collector
<1>3. \A X : CountAmong(ctrlQueue, Dies, X) = 0
  <2> SUFFICES ASSUME NEW X PROVE CountAmong(ctrlQueue, Dies, X) = 0  OBVIOUS
  <2>1. \A d \in Dies : Places(ctrlQueue[d], X) = {}
    <3>1. \A d \in Dies : ctrlQueue[d] = <<>>  BY <1>1
    <3>2. QED  BY <3>1, EmptySeq DEF Places
  <2>2. PlacesAmong(ctrlQueue, Dies, X) = {}  BY <2>1 DEF PlacesAmong
  <2>3. QED  BY <2>2, FS_EmptySet DEF CountAmong
<1>4. \A T : CountIn(gcQueue, T) = 0 /\ CountIn(gc_pending_erase, T) = 0
      BY <1>1, CountEmpty
<1>5. Len(gc_pending_erase) = 0 /\ Len(gcQueue) = 0  BY <1>1, EmptySeq
<1>6. EraseInv  BY <1>1, <1>3, <1>4, <1>5 DEF EraseInv, ToErase
<1>7. PendingInv
  <2>1. \A a : {r \in gcReading : r.address = a} = {}  BY <1>1
  <2>2. \A a : Cardinality({r \in gcReading : r.address = a}) = 0  BY <2>1, FS_EmptySet
  <2>3. QED  BY <1>3, <1>4, <2>2 DEF PendingInv, ReadsOf
<1>8. ReadsMapped  BY <1>5 DEF ReadsMapped
<1>9. QED  BY <1>2, <1>6, <1>7, <1>8 DEF CollectorInv, CollectionInv

(* An erase at work counts, so that the collection is not over.            *)
LEMMA ErasesAreOwned == GcQueueInv /\ Collector /\ EraseInv => ErasesOwned
<1> SUFFICES ASSUME GcQueueInv, Collector, EraseInv, busy, currentTransaction \in Erasures
             PROVE  Collecting
    BY DEF ErasesOwned
<1>1. gcQueue # <<>> /\ Head(gcQueue) = currentTransaction
  <2>1. currentTransaction \in GcTransactions  BY DEF Erasures, GcTransactions
  <2>2. QED  BY <2>1 DEF GcQueueInv, WorkIsQueued, GcTransactions
<1>2. CountIn(gcQueue, Erasures) > 0
  <2>1. 1 \in 1 .. Len(gcQueue) /\ gcQueue[1] \in Erasures
        BY <1>1, EmptySeq, SplitHead DEF GcQueueInv
  <2>2. QED  BY <2>1, CountPositive DEF GcQueueInv
<1>3. ToErase > 0  BY <1>2, CountsType DEF ToErase, GcQueueInv
<1>4. gc_status /\ erases + ToErase = Target  BY <1>3 DEF EraseInv
<1>5. Target \in Nat /\ erases \in Nat /\ ToErase \in Nat
      BY BlocksFacts, CountsType DEF Target, Collector, GcQueueInv
<1>6. erases # Target  BY <1>3, <1>4, <1>5
<1>7. QED  BY <1>4, <1>6 DEF Collecting

(* A collection that lost or won no erase goes on, or is just over.        *)
LEMMA CollectionGoesOn ==
    ASSUME gcQueue \in Seq(GcTransactions), Collector, EraseInv,
           UNCHANGED statusVars \/ CollectionMayEnd, ToErase' = ToErase
    PROVE  /\ EraseInv'
           /\ gc_status' \in BOOLEAN /\ panic_mode' \in BOOLEAN /\ (panic_mode' => gc_status')
           /\ erases' \in Nat
<1>1. /\ gc_status \in BOOLEAN /\ panic_mode \in BOOLEAN /\ (panic_mode => gc_status)
      /\ erases \in Nat
      BY DEF Collector
<1>2. CASE UNCHANGED statusVars
  <2>1. UNCHANGED <<gc_status, panic_mode, erases>>  BY <1>2 DEF statusVars
  <2>2. Target' = Target  BY <2>1, CountsNext DEF Target
  <2>3. EraseInv'  BY <2>1, <2>2 DEF EraseInv
  <2>4. QED  BY <1>1, <2>1, <2>3
<1>3. CASE CollectionMayEnd /\ Collecting
  <2>1. gc_status' = TRUE /\ panic_mode' = panic_mode /\ UNCHANGED erases /\ gc_status
    <3>1. gc_status' = Collecting /\ panic_mode' = (panic_mode /\ Collecting) /\ UNCHANGED erases
          BY <1>3 DEF CollectionMayEnd
    <3>2. gc_status' = TRUE /\ panic_mode' = panic_mode  BY <1>1, <1>3, <3>1, Zenon
    <3>3. QED  BY <1>3, <3>1, <3>2 DEF Collecting
  <2>2. Target' = Target  BY <2>1, CountsNext DEF Target
  <2>3. EraseInv'  BY <2>1, <2>2 DEF EraseInv
  <2>4. QED  BY <1>1, <2>1, <2>3
<1>4. CASE CollectionMayEnd /\ ~Collecting
  <2>1. gc_status' = FALSE /\ panic_mode' = FALSE /\ UNCHANGED erases
    <3>1. gc_status' = Collecting /\ panic_mode' = (panic_mode /\ Collecting) /\ UNCHANGED erases
          BY <1>4 DEF CollectionMayEnd
    <3>2. Collecting \in BOOLEAN /\ (panic_mode /\ Collecting) \in BOOLEAN
          BY DEF Collecting
    <3>3. Collecting = FALSE /\ (panic_mode /\ Collecting) = FALSE  BY <1>4, <3>2, Zenon
    <3>4. QED  BY <3>1, <3>3
  <2>2. ToErase = 0
    <3>1. Target \in Nat /\ ToErase \in Nat
          BY BlocksFacts, CountsType DEF Target
    <3>2. gc_status => erases = Target  BY <1>4 DEF Collecting
    <3>3. QED  BY <1>1, <3>1, <3>2 DEF EraseInv
  <2>3. EraseInv'  BY <2>1, <2>2 DEF EraseInv
  <2>4. QED  BY <1>1, <2>1, <2>3
<1>5. QED  BY <1>2, <1>3, <1>4

LEMMA OtherPacketsUncounted ==
    ASSUME NEW q \in Seq(OtherPackets)
    PROVE  /\ q \in Seq(GcPackets)
           /\ CountIn(q, ErasePackets) = 0 /\ \A a : CountIn(q, ReadPacketsOf(a)) = 0
<1>1. OtherPackets \subseteq GcPackets  BY DEF OtherPackets, GcPackets
<1>2. \A i \in 1 .. Len(q) : /\ q[i] \notin ErasePackets
                             /\ \A a : q[i] \notin ReadPacketsOf(a)
  <2>1. \A i \in 1 .. Len(q) : q[i] \in OtherPackets  BY ElementOfSeq
  <2>2. QED  BY <2>1 DEF OtherPackets, ErasePackets, ReadPacketsOf, GcReadPackets
<1>3. \A T : CountIn(q, T) \in Nat
             /\ (CountIn(q, T) > 0 <=> \E i \in 1 .. Len(q) : q[i] \in T)
      BY CountType, CountPositive
<1>4. CountIn(q, ErasePackets) = 0
  <2>1. ~(CountIn(q, ErasePackets) > 0) /\ CountIn(q, ErasePackets) \in Nat  BY <1>2, <1>3
  <2>2. QED  BY <2>1
<1>5. ASSUME NEW a  PROVE CountIn(q, ReadPacketsOf(a)) = 0
  <2>1. ~(CountIn(q, ReadPacketsOf(a)) > 0) /\ CountIn(q, ReadPacketsOf(a)) \in Nat
        BY <1>2, <1>3
  <2>2. QED  BY <2>1
<1>6. QED  BY <1>1, <1>4, <1>5, SeqMonotonic

LEMMA WaitsCollection ==
    ASSUME gcQueue \in Seq(GcTransactions), CollectionInv, CollectorWaits
    PROVE  CollectionInv'
<1>1. /\ UNCHANGED <<gcQueue, gc_pending_erase, gcReading, erase_pointer>>
      /\ UNCHANGED statusVars \/ CollectionMayEnd
      BY DEF CollectorWaits
<1>2. /\ ctrlQueue' \in [Dies -> Seq(GcPackets)]
      /\ CountAmong(ctrlQueue', Dies, ErasePackets) = CountAmong(ctrlQueue, Dies, ErasePackets)
      /\ \A a : CountAmong(ctrlQueue', Dies, ReadPacketsOf(a))
                   = CountAmong(ctrlQueue, Dies, ReadPacketsOf(a))
  <2>1. CASE UNCHANGED ctrlQueue  BY <2>1 DEF CollectionInv, Collector
  <2>2. ASSUME NEW d \in Dies, NEW q \in Seq(OtherPackets), PacketsSent(d, q)
        PROVE  /\ ctrlQueue' \in [Dies -> Seq(GcPackets)]
               /\ CountAmong(ctrlQueue', Dies, ErasePackets)
                      = CountAmong(ctrlQueue, Dies, ErasePackets)
               /\ \A a : CountAmong(ctrlQueue', Dies, ReadPacketsOf(a))
                            = CountAmong(ctrlQueue, Dies, ReadPacketsOf(a))
    <3>1. /\ ctrlQueue' \in [Dies -> Seq(GcPackets)]
          /\ \A X : CountAmong(ctrlQueue', Dies, X)
                       = CountAmong(ctrlQueue, Dies, X) + CountIn(q, X)
          BY <2>2, OtherPacketsUncounted, SentProperties DEF CollectionInv
    <3>2. /\ CountIn(q, ErasePackets) = 0 /\ \A a : CountIn(q, ReadPacketsOf(a)) = 0
          BY OtherPacketsUncounted
    <3>3. \A X : CountAmong(ctrlQueue, Dies, X) \in Nat  BY PacketsCounted DEF CollectionInv
    <3>4. QED  BY <3>1, <3>2, <3>3
  <2>3. QED  BY <2>1, <2>2 DEF CollectorWaits
<1>3. ToErase' = ToErase  BY <1>1, <1>2, CountsNext DEF ToErase
<1>4. /\ EraseInv' /\ erases' \in Nat
      /\ gc_status' \in BOOLEAN /\ panic_mode' \in BOOLEAN /\ (panic_mode' => gc_status')
      BY <1>1, <1>3, CollectionGoesOn DEF CollectionInv
<1>5. Collector'  BY <1>1, <1>2, <1>4 DEF CollectionInv, Collector
<1>6. PendingInv'
  <2> SUFFICES ASSUME NEW a
               PROVE  CountIn(gc_pending_erase', WaitingFor(a)) <= ReadsOf(a)'
      BY CountsNext DEF PendingInv
  <2>1. ReadsOf(a)' = ReadsOf(a)  BY <1>1, <1>2, CountsNext DEF ReadsOf
  <2>2. QED  BY <1>1, <2>1 DEF CollectionInv, PendingInv
<1>7. QED  BY <1>4, <1>5, <1>6 DEF CollectionInv

LEMMA StartsCollection ==
    ASSUME gcQueue \in Seq(GcTransactions), CollectionInv, CollectorStarts
    PROVE  CollectionInv'
<1>1. PICK panic \in BOOLEAN :
         /\ ~Collecting
         /\ CollectionAdds(IF panic THEN NumPlanes ELSE 1) /\ CollectionStarts(panic)
         /\ erase_pointer' \in Blocks
         /\ UNCHANGED <<ctrlQueue, gcReading>>
      BY DEF CollectorStarts
<1> DEFINE n == IF panic THEN NumPlanes ELSE 1
<1>2. n \in Nat  BY BlocksFacts
<1>3. PICK w \in Seq(Collectable), e \in Seq(PendingErases) :
         /\ gcQueue' = gcQueue \o w /\ gc_pending_erase' = e \o gc_pending_erase
         /\ CountIn(w, Erasures) + Len(e) = n
         /\ \A a : CountIn(e, WaitingFor(a)) <= CountIn(w, {GcRead(a)})
      BY <1>1 DEF CollectionAdds
<1>4. w \in Seq(GcTransactions)  BY CollectableType, SeqMonotonic
<1>5. \A T : /\ CountIn(gcQueue', T) = CountIn(gcQueue, T) + CountIn(w, T)
             /\ CountIn(gcQueue, T) \in Nat /\ CountIn(w, T) \in Nat
      BY <1>3, <1>4, CountConcat, CountType
<1>6. /\ gc_pending_erase' \in Seq(PendingErases)
      /\ Len(gc_pending_erase') = Len(e) + Len(gc_pending_erase)
      /\ Len(e) \in Nat /\ Len(gc_pending_erase) \in Nat
      /\ \A T : /\ CountIn(gc_pending_erase', T) = CountIn(e, T) + CountIn(gc_pending_erase, T)
                /\ CountIn(e, T) \in Nat /\ CountIn(gc_pending_erase, T) \in Nat
      BY <1>3, ConcatProperties, LenProperties, CountConcat, CountType
         DEF CollectionInv, Collector
<1>7. gc_status' = TRUE /\ panic_mode' = panic /\ erases' = 0
      BY <1>1 DEF CollectionStarts
<1>8. ToErase = 0
  <2>1. Target \in Nat /\ ToErase \in Nat
        BY BlocksFacts, CountsType DEF Target, CollectionInv
  <2>2. gc_status => erases = Target  BY <1>1 DEF Collecting
  <2>3. QED  BY <2>1, <2>2 DEF CollectionInv, EraseInv, Collector
<1>9. ToErase' = n
  <2> DEFINE i == CountIn(gcQueue, Erasures)
             j == Len(gc_pending_erase)
             k == CountAmong(ctrlQueue, Dies, ErasePackets)
             x == CountIn(w, Erasures)
             y == Len(e)
  <2>1. ToErase' = (i + x) + (y + j) + k
    <3>1. ToErase' = CountIn(gcQueue', Erasures) + Len(gc_pending_erase')
                       + CountAmong(ctrlQueue', Dies, ErasePackets)
          BY CountsNext
    <3>2. /\ CountIn(gcQueue', Erasures) = i + x /\ Len(gc_pending_erase') = y + j
          /\ ctrlQueue' = ctrlQueue
          BY <1>1, <1>5, <1>6
    <3>3. CountAmong(ctrlQueue', Dies, ErasePackets) = k  BY <3>2
    <3> HIDE DEF i, j, k, x, y
    <3>4. QED  BY <3>1, <3>2, <3>3
  <2>2. i \in Nat /\ j \in Nat /\ k \in Nat /\ x \in Nat /\ y \in Nat
        BY <1>5, <1>6, CountsType DEF CollectionInv
  <2>3. i + j + k = 0 /\ x + y = n  BY <1>3, <1>8 DEF ToErase
  <2> HIDE DEF i, j, k, x, y, n
  <2>4. QED  BY <2>1, <2>2, <2>3
<1>10. EraseInv'
  <2>1. Target' = n  BY <1>7, CountsNext
  <2> HIDE DEF n
  <2>2. erases' + ToErase' = Target'  BY <1>2, <1>7, <1>9, <2>1
  <2>3. QED  BY <1>7, <2>2 DEF EraseInv
<1>11. Collector'
  <2>1. gc_status' \in BOOLEAN /\ panic_mode' \in BOOLEAN /\ (panic_mode' => gc_status')
        BY <1>7, Zenon
  <2>2. QED  BY <1>1, <1>6, <1>7, <2>1 DEF CollectionInv, Collector
<1>12. PendingInv'
  <2> SUFFICES ASSUME NEW a
               PROVE  CountIn(gc_pending_erase', WaitingFor(a)) <= ReadsOf(a)'
      BY CountsNext DEF PendingInv
  <2> DEFINE i == CountIn(gcQueue, {GcRead(a)})
             k == CountAmong(ctrlQueue, Dies, ReadPacketsOf(a))
             l == Cardinality({r \in gcReading : r.address = a})
             x == CountIn(w, {GcRead(a)})
             y == CountIn(e, WaitingFor(a))
             z == CountIn(gc_pending_erase, WaitingFor(a))
  <2>1. ReadsOf(a)' = (i + x) + k + l
    <3>1. ReadsOf(a)' = CountIn(gcQueue', {GcRead(a)})
                          + CountAmong(ctrlQueue', Dies, ReadPacketsOf(a))
                          + Cardinality({r \in gcReading' : r.address = a})
          BY CountsNext
    <3>2. /\ CountIn(gcQueue', {GcRead(a)}) = i + x
          /\ ctrlQueue' = ctrlQueue /\ gcReading' = gcReading
          BY <1>1, <1>5
    <3>3. /\ CountAmong(ctrlQueue', Dies, ReadPacketsOf(a)) = k
          /\ Cardinality({r \in gcReading' : r.address = a}) = l
          BY <3>2
    <3> HIDE DEF i, k, l, x
    <3>4. QED  BY <3>1, <3>2, <3>3
  <2>2. CountIn(gc_pending_erase', WaitingFor(a)) = y + z /\ y <= x  BY <1>3, <1>6
  <2>3. /\ i \in Nat /\ k \in Nat /\ l \in Nat /\ x \in Nat /\ y \in Nat /\ z \in Nat
        BY <1>5, <1>6, CountsType DEF CollectionInv
  <2>4. z <= i + k + l  BY DEF CollectionInv, PendingInv, ReadsOf
  <2> HIDE DEF i, k, l, x, y, z
  <2>5. QED  BY <2>1, <2>2, <2>3, <2>4
<1>13. QED  BY <1>10, <1>11, <1>12 DEF CollectionInv

LEMMA WorkOfPacket ==
    ASSUME NEW pkt \in GcReadPackets \cup ErasePackets
    PROVE  /\ WorkOf(pkt) \in Erasures <=> pkt \in ErasePackets
           /\ \A a : WorkOf(pkt) \in {GcRead(a)} <=> pkt \in ReadPacketsOf(a)
<1>1. CASE pkt \in ErasePackets
  <2>1. pkt.type = "ERASE" /\ pkt.address \in Blocks  BY <1>1 DEF ErasePackets
  <2>2. WorkOf(pkt) = BlockErase(pkt.address)  BY <2>1 DEF WorkOf
  <2>3. WorkOf(pkt) \in Erasures  BY <2>1, <2>2 DEF BlockErase, Erasures
  <2>4. \A a : WorkOf(pkt) # GcRead(a)
    <3>1. WorkOf(pkt).type = "BLOCK_ERASE" /\ \A a : GcRead(a).type = "GC_DATA_READ"
          BY <2>2 DEF BlockErase, GcRead
    <3>2. QED  BY <3>1
  <2>5. \A a : pkt \notin ReadPacketsOf(a)  BY <2>1 DEF ReadPacketsOf, GcReadPackets
  <2>6. QED  BY <1>1, <2>3, <2>4, <2>5
<1>2. CASE pkt \in GcReadPackets
  <2>1. pkt.type = "GC_READ" /\ pkt.address \in Addr  BY <1>2 DEF GcReadPackets
  <2>2. WorkOf(pkt) = GcRead(pkt.address)  BY <2>1 DEF WorkOf
  <2>3. WorkOf(pkt) \notin Erasures /\ pkt \notin ErasePackets
        BY <2>1, <2>2 DEF GcRead, Erasures, ErasePackets
  <2>4. ASSUME NEW a  PROVE WorkOf(pkt) \in {GcRead(a)} <=> pkt \in ReadPacketsOf(a)
    <3>1. GcRead(a).address = a /\ GcRead(pkt.address).address = pkt.address
          BY DEF GcRead
    <3>2. GcRead(pkt.address) = GcRead(a) <=> pkt.address = a  BY <3>1
    <3>3. QED  BY <1>2, <2>2, <3>2 DEF ReadPacketsOf
  <2>5. QED  BY <2>3, <2>4
<1>3. QED  BY <1>1, <1>2

(* What was queued is with the controller now.                             *)
LEMMA SendsCollection ==
    ASSUME gcQueue \in Seq(GcTransactions), CollectionInv, CollectorSends
    PROVE  CollectionInv'
<1>1. PICK d \in Dies, pkt \in GcReadPackets \cup ErasePackets :
         /\ gcQueue # <<>> /\ Head(gcQueue) = WorkOf(pkt)
         /\ gcQueue' = Tail(gcQueue) /\ PacketsSent(d, <<pkt>>)
         /\ UNCHANGED <<gc_pending_erase, gcReading, erase_pointer>>
         /\ CollectionMayEnd
      BY DEF CollectorSends
<1>2. <<pkt>> \in Seq(GcPackets)
  <2>1. pkt \in GcPackets  BY DEF GcPackets
  <2>2. QED  BY <2>1, SingletonSeq
<1>3. /\ ctrlQueue' \in [Dies -> Seq(GcPackets)]
      /\ \A X : CountAmong(ctrlQueue', Dies, X)
                   = CountAmong(ctrlQueue, Dies, X) + CountIn(<<pkt>>, X)
      BY <1>1, <1>2, SentProperties DEF CollectionInv
<1>4. \A X : CountAmong(ctrlQueue', Dies, X)
                = CountAmong(ctrlQueue, Dies, X) + OneIf(pkt \in X)
      BY <1>3, CountOne
<1>5. \A T : /\ CountIn(gcQueue, T) = OneIf(WorkOf(pkt) \in T) + CountIn(gcQueue', T)
             /\ CountIn(gcQueue', T) \in Nat
  <2>1. Tail(gcQueue) \in Seq(GcTransactions)  BY <1>1, SplitHead
  <2>2. \A T : CountIn(Tail(gcQueue), T) \in Nat  BY <2>1, CountType
  <2>3. \A T : CountIn(gcQueue, T) = OneIf(Head(gcQueue) \in T) + CountIn(Tail(gcQueue), T)
        BY <1>1, CountHeadTail
  <2>4. QED  BY <1>1, <2>2, <2>3
<1>6. /\ OneIf(WorkOf(pkt) \in Erasures) = OneIf(pkt \in ErasePackets)
      /\ \A a : OneIf(WorkOf(pkt) \in {GcRead(a)}) = OneIf(pkt \in ReadPacketsOf(a))
      BY WorkOfPacket DEF OneIf
<1>7. ASSUME NEW q, NEW r, NEW c, NEW m, NEW n, NEW x, NEW one \in Nat, q = one + r, c = m + one,
             r \in Nat, m \in Nat, x \in Nat
      PROVE  r + x + c = q + x + m /\ r + c + x = q + m + x
      BY <1>7
<1>8. ToErase' = ToErase
  <2> DEFINE one == OneIf(pkt \in ErasePackets)
  <2>1. /\ CountIn(gcQueue, Erasures) = one + CountIn(gcQueue', Erasures)
        /\ CountAmong(ctrlQueue', Dies, ErasePackets)
              = CountAmong(ctrlQueue, Dies, ErasePackets) + one
        /\ CountIn(gcQueue', Erasures) \in Nat
        BY <1>4, <1>5, <1>6
  <2>2. /\ Len(gc_pending_erase) \in Nat /\ gc_pending_erase' = gc_pending_erase
        /\ CountAmong(ctrlQueue, Dies, ErasePackets) \in Nat
        BY <1>1, CountsType DEF CollectionInv
  <2>3. one \in Nat  BY DEF OneIf
  <2> HIDE DEF one
  <2>4. CountIn(gcQueue', Erasures) + Len(gc_pending_erase)
          + CountAmong(ctrlQueue', Dies, ErasePackets)
        = CountIn(gcQueue, Erasures) + Len(gc_pending_erase)
            + CountAmong(ctrlQueue, Dies, ErasePackets)
        BY <1>7, <2>1, <2>2, <2>3
  <2>5. QED  BY <2>2, <2>4, CountsNext DEF ToErase
<1>9. ASSUME NEW a  PROVE ReadsOf(a)' = ReadsOf(a)
  <2> DEFINE one == OneIf(pkt \in ReadPacketsOf(a))
             x == Cardinality({r \in gcReading : r.address = a})
  <2>1. /\ CountIn(gcQueue, {GcRead(a)}) = one + CountIn(gcQueue', {GcRead(a)})
        /\ CountAmong(ctrlQueue', Dies, ReadPacketsOf(a))
              = CountAmong(ctrlQueue, Dies, ReadPacketsOf(a)) + one
        /\ CountIn(gcQueue', {GcRead(a)}) \in Nat
        BY <1>4, <1>5, <1>6
  <2>2. /\ Cardinality({r \in gcReading' : r.address = a}) = x
        /\ CountAmong(ctrlQueue, Dies, ReadPacketsOf(a)) \in Nat /\ x \in Nat
        BY <1>1, CountsType DEF CollectionInv
  <2>3. one \in Nat  BY DEF OneIf
  <2> HIDE DEF one, x
  <2>4. CountIn(gcQueue', {GcRead(a)}) + CountAmong(ctrlQueue', Dies, ReadPacketsOf(a)) + x
          = CountIn(gcQueue, {GcRead(a)}) + CountAmong(ctrlQueue, Dies, ReadPacketsOf(a)) + x
        BY <1>7, <2>1, <2>2, <2>3
  <2>5. QED  BY <2>2, <2>4, CountsNext DEF ReadsOf, x
<1>10. /\ EraseInv' /\ erases' \in Nat
       /\ gc_status' \in BOOLEAN /\ panic_mode' \in BOOLEAN /\ (panic_mode' => gc_status')
       BY <1>1, <1>8, CollectionGoesOn DEF CollectionInv
<1>11. Collector'  BY <1>1, <1>3, <1>10 DEF CollectionInv, Collector
<1>12. PendingInv'
  <2> SUFFICES ASSUME NEW a
               PROVE  CountIn(gc_pending_erase', WaitingFor(a)) <= ReadsOf(a)'
      BY CountsNext DEF PendingInv
  <2>1. QED  BY <1>1, <1>9 DEF CollectionInv, PendingInv
<1>13. QED  BY <1>10, <1>11, <1>12 DEF CollectionInv

(* A packet leaves the controller: an erase has been done, a read is under *)
(* way in its plane, where no other is.                                    *)
LEMMA ReadingAdds ==
    ASSUME Collector, NEW pkt \in GcPackets, pkt.type # "DATA" => ~PlaneBusy(pkt.page),
           NEW now, now = IF pkt.type = "GC_READ" THEN gcReading \cup {pkt} ELSE gcReading
    PROVE  /\ now \subseteq GcReadPackets /\ IsFiniteSet(now)
           /\ \A a : Cardinality({r \in now : r.address = a})
                       = Cardinality({r \in gcReading : r.address = a})
                           + OneIf(pkt \in ReadPacketsOf(a))
<1>1. gcReading \subseteq GcReadPackets /\ IsFiniteSet(gcReading)  BY DEF Collector
<1>2. pkt \in GcReadPackets <=> pkt.type = "GC_READ"
      BY DEF GcPackets, GcReadPackets, ErasePackets
<1>3. ASSUME NEW a
      PROVE  Cardinality({r \in gcReading : r.address = a}) \in Nat
  <2>1. IsFiniteSet({r \in gcReading : r.address = a})  BY <1>1, FS_Subset
  <2>2. QED  BY <2>1, FS_CardinalityType
<1>4. CASE pkt.type = "GC_READ"
  <2>1. pkt \notin gcReading  BY <1>4 DEF PlaneBusy
  <2>2. now \subseteq GcReadPackets /\ IsFiniteSet(now)
        BY <1>1, <1>2, <1>4, FS_AddElement
  <2>3. ASSUME NEW a
        PROVE  Cardinality({r \in now : r.address = a})
                  = Cardinality({r \in gcReading : r.address = a})
                      + OneIf(pkt \in ReadPacketsOf(a))
    <3> DEFINE there == {r \in gcReading : r.address = a}
    <3>1. IsFiniteSet(there) /\ pkt \notin there  BY <1>1, <2>1, FS_Subset
    <3>2. CASE pkt.address = a
      <4>1. {r \in now : r.address = a} = there \cup {pkt}  BY <1>4, <3>2
      <4>2. Cardinality(there \cup {pkt}) = Cardinality(there) + 1
            BY <3>1, FS_AddElement
      <4>3. OneIf(pkt \in ReadPacketsOf(a)) = 1
            BY <1>2, <1>4, <3>2 DEF OneIf, ReadPacketsOf
      <4>4. QED  BY <4>1, <4>2, <4>3
    <3>3. CASE pkt.address # a
      <4>1. {r \in now : r.address = a} = there  BY <1>4, <3>3
      <4>2. OneIf(pkt \in ReadPacketsOf(a)) = 0  BY <3>3 DEF OneIf, ReadPacketsOf
      <4>3. Cardinality(there) \in Nat  BY <1>3
      <4>4. Cardinality(there) = Cardinality(there) + 0  BY <4>3
      <4>5. QED  BY <4>1, <4>2, <4>4
    <3>4. QED  BY <3>2, <3>3
  <2>4. QED  BY <2>2, <2>3
<1>5. CASE pkt.type # "GC_READ"
  <2>1. now = gcReading  BY <1>5
  <2>2. \A a : OneIf(pkt \in ReadPacketsOf(a)) = 0  BY <1>2, <1>5 DEF OneIf, ReadPacketsOf
  <2>3. QED  BY <1>1, <1>3, <2>1, <2>2
<1>6. QED  BY <1>4, <1>5

LEMMA LeavesCollection ==
    ASSUME gcQueue \in Seq(GcTransactions), CollectionInv, NEW d \in Dies, Leaves(d)
    PROVE  CollectionInv'
<1> DEFINE pkt == Head(ctrlQueue[d])
           one == OneIf(pkt \in ErasePackets)
<1>1. /\ ctrlQueue[d] # <<>> /\ ctrlQueue' = [ctrlQueue EXCEPT ![d] = Tail(@)]
      /\ pkt.type # "DATA" => ~PlaneBusy(pkt.page)
      /\ gcReading' = IF pkt.type = "GC_READ" THEN gcReading \cup {pkt} ELSE gcReading
      /\ erases' = IF pkt.type = "ERASE" THEN erases + 1 ELSE erases
      /\ UNCHANGED <<gcQueue, gc_pending_erase, erase_pointer, gc_status, panic_mode>>
      BY DEF Leaves, collectVars
<1>2. /\ pkt \in GcPackets /\ ctrlQueue' \in [Dies -> Seq(GcPackets)]
      /\ \A X : CountAmong(ctrlQueue, Dies, X)
                  = CountAmong(ctrlQueue', Dies, X) + OneIf(pkt \in X)
      BY <1>1, LeftProperties DEF CollectionInv
<1>3. /\ gcReading' \subseteq GcReadPackets /\ IsFiniteSet(gcReading')
      /\ \A a : Cardinality({r \in gcReading' : r.address = a})
                  = Cardinality({r \in gcReading : r.address = a})
                      + OneIf(pkt \in ReadPacketsOf(a))
      BY <1>1, <1>2, ReadingAdds DEF CollectionInv
<1>4. erases' = erases + one /\ one \in Nat
  <2>1. pkt \in ErasePackets <=> pkt.type = "ERASE"
        BY <1>2 DEF GcPackets, GcReadPackets, ErasePackets
  <2>2. QED  BY <1>1, <2>1 DEF OneIf, CollectionInv, Collector
<1>5. \A X : CountAmong(ctrlQueue', Dies, X) \in Nat
      BY <1>2, DiesFinite, CountAmongType
<1> HIDE DEF pkt
<1>6. ToErase = ToErase' + one /\ ToErase' \in Nat
  <2> DEFINE i == CountIn(gcQueue, Erasures)
             j == Len(gc_pending_erase)
             k == CountAmong(ctrlQueue', Dies, ErasePackets)
  <2>1. CountAmong(ctrlQueue, Dies, ErasePackets) = k + one  BY <1>2
  <2>2. i \in Nat /\ j \in Nat /\ k \in Nat  BY <1>5, CountsType DEF CollectionInv
  <2>3. /\ CountIn(gcQueue', Erasures) = i /\ Len(gc_pending_erase') = j  BY <1>1
  <2>4. ToErase' = i + j + k  BY <2>3, CountsNext
  <2>5. ToErase = i + j + (k + one)  BY <2>1 DEF ToErase
  <2> HIDE DEF i, j, k, one
  <2>6. QED  BY <1>4, <2>2, <2>4, <2>5
<1>7. EraseInv'
  <2>1. Target' = Target  BY <1>1, CountsNext DEF Target
  <2>2. erases \in Nat /\ ToErase \in Nat
        BY CountsType DEF CollectionInv, Collector
  <2> HIDE DEF one
  <2>3. erases' + ToErase' = erases + ToErase  BY <1>4, <1>6, <2>2
  <2>4. ASSUME NEW m, NEW n \in Nat, NEW o \in Nat, m = n + o  PROVE m = 0 => n = 0
        BY <2>4
  <2>5. ToErase = 0 => ToErase' = 0  BY <1>4, <1>6, <2>4
  <2>6. QED  BY <1>1, <2>1, <2>3, <2>5 DEF CollectionInv, EraseInv
<1>8. PendingInv'
  <2> SUFFICES ASSUME NEW a
               PROVE  CountIn(gc_pending_erase', WaitingFor(a)) <= ReadsOf(a)'
      BY CountsNext DEF PendingInv
  <2> DEFINE i == CountIn(gcQueue, {GcRead(a)})
             k == CountAmong(ctrlQueue', Dies, ReadPacketsOf(a))
             l == Cardinality({r \in gcReading : r.address = a})
             o == OneIf(pkt \in ReadPacketsOf(a))
  <2>1. /\ CountAmong(ctrlQueue, Dies, ReadPacketsOf(a)) = k + o
        /\ Cardinality({r \in gcReading' : r.address = a}) = l + o
        BY <1>2, <1>3
  <2>2. CountIn(gcQueue', {GcRead(a)}) = i  BY <1>1
  <2>3. ReadsOf(a)' = i + k + (l + o)  BY <2>1, <2>2, CountsNext
  <2>4. ReadsOf(a) = i + (k + o) + l  BY <2>1 DEF ReadsOf
  <2>5. i \in Nat /\ k \in Nat /\ l \in Nat /\ o \in Nat
        BY <1>5, CountsType DEF CollectionInv, OneIf
  <2> HIDE DEF i, k, l, o
  <2>6. ReadsOf(a)' = ReadsOf(a)  BY <2>3, <2>4, <2>5
  <2>7. QED  BY <1>1, <2>6 DEF CollectionInv, PendingInv
<1>9. Collector'
  <2>1. gc_status' \in BOOLEAN /\ panic_mode' \in BOOLEAN /\ (panic_mode' => gc_status')
        BY <1>1, Zenon DEF CollectionInv, Collector
  <2>2. erases' \in Nat
    <3>1. erases \in Nat  BY DEF CollectionInv, Collector
    <3> HIDE DEF one
    <3>2. QED  BY <1>4, <3>1
  <2>3. QED  BY <1>1, <1>2, <1>3, <2>1, <2>2 DEF CollectionInv, Collector
<1>10. QED  BY <1>7, <1>8, <1>9 DEF CollectionInv

(* A read is done: its page is struck off, or its erase is queued.         *)
LEMMA ReadingEnds ==
    ASSUME Collector, NEW r \in gcReading
    PROVE  /\ r.address \in Addr
           /\ gcReading \ {r} \subseteq GcReadPackets /\ IsFiniteSet(gcReading \ {r})
           /\ \A a : Cardinality({s \in gcReading : s.address = a})
                       = Cardinality({s \in gcReading \ {r} : s.address = a})
                           + OneIf(a = r.address)
           /\ \A a : Cardinality({s \in gcReading \ {r} : s.address = a}) \in Nat
<1>1. gcReading \subseteq GcReadPackets /\ IsFiniteSet(gcReading)  BY DEF Collector
<1>2. r.address \in Addr  BY <1>1 DEF GcReadPackets
<1>3. IsFiniteSet(gcReading \ {r})  BY <1>1, FS_Subset
<1>4. ASSUME NEW a
      PROVE  Cardinality({s \in gcReading \ {r} : s.address = a}) \in Nat
  <2>1. IsFiniteSet({s \in gcReading \ {r} : s.address = a})  BY <1>3, FS_Subset
  <2>2. QED  BY <2>1, FS_CardinalityType
<1>5. ASSUME NEW a
      PROVE  Cardinality({s \in gcReading : s.address = a})
                = Cardinality({s \in gcReading \ {r} : s.address = a}) + OneIf(a = r.address)
  <2> DEFINE there == {s \in gcReading \ {r} : s.address = a}
  <2>1. IsFiniteSet(there) /\ r \notin there  BY <1>3, FS_Subset
  <2>2. Cardinality(there) \in Nat  BY <1>4
  <2>3. CASE a = r.address
    <3>1. {s \in gcReading : s.address = a} = there \cup {r}  BY <2>3
    <3>2. Cardinality(there \cup {r}) = Cardinality(there) + 1  BY <2>1, FS_AddElement
    <3>3. QED  BY <2>3, <3>1, <3>2 DEF OneIf
  <2>4. CASE a # r.address
    <3>1. {s \in gcReading : s.address = a} = there  BY <2>4
    <3>2. Cardinality(there) = Cardinality(there) + 0  BY <2>2
    <3>3. QED  BY <2>4, <3>1, <3>2 DEF OneIf
  <2>5. QED  BY <2>3, <2>4
<1>6. QED  BY <1>1, <1>2, <1>3, <1>4, <1>5

LEMMA ReadDoneCollection ==
    ASSUME gcQueue \in Seq(GcTransactions), CollectionInv, NEW r \in gcReading, GCReadDone(r)
    PROVE  CollectionInv'
<1> DEFINE a == r.address
           f == ReadFollowers(a)
           o == OneIf(Completed(a) # {})
<1>1. /\ gc_pending_erase' = StillPending(a) /\ gcQueue' = gcQueue \o f
      /\ gcReading' = gcReading \ {r}
      /\ UNCHANGED <<ctrlQueue, gc_status, panic_mode, erases, erase_pointer>>
      BY DEF GCReadDone, statusVars
<1>2. Collector /\ gc_pending_erase \in Seq(PendingErases)  BY DEF CollectionInv, Collector
<1>3. /\ a \in Addr
      /\ gcReading' \subseteq GcReadPackets /\ IsFiniteSet(gcReading')
      /\ \A c : /\ Cardinality({s \in gcReading : s.address = c})
                     = Cardinality({s \in gcReading' : s.address = c}) + OneIf(c = a)
                /\ Cardinality({s \in gcReading' : s.address = c}) \in Nat
  <2> DEFINE left == gcReading \ {r}
  <2>1. /\ a \in Addr /\ left \subseteq GcReadPackets /\ IsFiniteSet(left)
        /\ \A c : Cardinality({s \in gcReading : s.address = c})
                    = Cardinality({s \in left : s.address = c}) + OneIf(c = a)
        /\ \A c : Cardinality({s \in left : s.address = c}) \in Nat
        BY <1>2, ReadingEnds
  <2>2. gcReading' = left  BY <1>1
  <2> HIDE DEF left
  <2>3. QED  BY <2>1, <2>2
<1>4. /\ f \in Seq({t \in GcTransactions : t.type # "GC_DATA_READ"})
      /\ CountIn(f, Erasures) = o
      BY <1>2, <1>3, ReadFollowersProperties
<1>5. f \in Seq(GcTransactions) /\ \A c : CountIn(f, {GcRead(c)}) = 0
  <2>1. f \in Seq(GcTransactions)  BY <1>4, SeqMonotonic
  <2>2. \A i \in 1 .. Len(f) : f[i].type # "GC_DATA_READ"  BY <1>4, ElementOfSeq
  <2>3. ASSUME NEW c  PROVE CountIn(f, {GcRead(c)}) = 0
    <3>1. \A i \in 1 .. Len(f) : f[i] \notin {GcRead(c)}  BY <2>2 DEF GcRead
    <3>2. /\ CountIn(f, {GcRead(c)}) \in Nat
          /\ CountIn(f, {GcRead(c)}) > 0 <=> \E i \in 1 .. Len(f) : f[i] \in {GcRead(c)}
          BY <2>1, CountType, CountPositive
    <3>3. QED  BY <3>1, <3>2
  <2>4. QED  BY <2>1, <2>3
<1>6. /\ StillPending(a) \in Seq(PendingErases)
      /\ Len(gc_pending_erase) = Len(StillPending(a)) + o
      /\ Len(StillPending(a)) \in Nat
  <2>1. /\ StillPending(a) \in Seq(PendingErases)
        /\ Len(gc_pending_erase) = Len(StillPending(a)) + o
        BY <1>2, StillPendingProperties
  <2>2. QED  BY <2>1, LenProperties
<1>7. \A T : CountIn(gcQueue', T) = CountIn(gcQueue, T) + CountIn(f, T)
      BY <1>1, <1>5, CountConcat
<1>8. o \in Nat  BY DEF OneIf
<1> HIDE DEF f, o
<1>9. ToErase' = ToErase
  <2> DEFINE i == CountIn(gcQueue, Erasures)
             j == Len(StillPending(a))
             k == CountAmong(ctrlQueue, Dies, ErasePackets)
  <2>1. /\ CountIn(gcQueue', Erasures) = i + o /\ Len(gc_pending_erase') = j
        /\ CountAmong(ctrlQueue', Dies, ErasePackets) = k
        BY <1>1, <1>4, <1>7
  <2>2. ToErase' = (i + o) + j + k  BY <2>1, CountsNext
  <2>3. ToErase = i + (j + o) + k  BY <1>6 DEF ToErase
  <2>4. i \in Nat /\ j \in Nat /\ k \in Nat  BY <1>2, <1>6, CountsType
  <2> HIDE DEF i, j, k
  <2>5. QED  BY <1>8, <2>2, <2>3, <2>4
<1>10. EraseInv'
  <2>1. Target' = Target  BY <1>1, CountsNext DEF Target
  <2>2. QED  BY <1>1, <1>9, <2>1 DEF CollectionInv, EraseInv
<1>11. ASSUME NEW c
       PROVE  /\ ReadsOf(c) = ReadsOf(c)' + OneIf(c = a)
              /\ ReadsOf(c)' \in Nat
  <2> DEFINE i == CountIn(gcQueue, {GcRead(c)})
             k == CountAmong(ctrlQueue, Dies, ReadPacketsOf(c))
             l == Cardinality({s \in gcReading' : s.address = c})
             e == OneIf(c = a)
  <2>1. i \in Nat /\ k \in Nat /\ l \in Nat /\ e \in Nat
        BY <1>2, <1>3, CountsType DEF OneIf
  <2>2. CountIn(gcQueue', {GcRead(c)}) = i
    <3>1. CountIn(gcQueue', {GcRead(c)}) = i + 0  BY <1>5, <1>7
    <3> HIDE DEF i
    <3>2. QED  BY <2>1, <3>1
  <2>3. CountAmong(ctrlQueue', Dies, ReadPacketsOf(c)) = k  BY <1>1
  <2>4. ReadsOf(c)' = i + k + l  BY <2>2, <2>3, CountsNext
  <2>5. ReadsOf(c) = i + k + (l + e)  BY <1>3 DEF ReadsOf
  <2> HIDE DEF i, k, l, e
  <2>6. ReadsOf(c) = ReadsOf(c)' + e /\ ReadsOf(c)' \in Nat  BY <2>1, <2>4, <2>5
  <2>7. QED  BY <2>6 DEF e
<1>12. PendingInv'
  <2> SUFFICES ASSUME NEW c
               PROVE  CountIn(gc_pending_erase', WaitingFor(c)) <= ReadsOf(c)'
      BY CountsNext DEF PendingInv
  <2> DEFINE x == CountIn(StillPending(a), WaitingFor(c))
             y == CountIn(gc_pending_erase, WaitingFor(c))
             m == ReadsOf(c)
  <2>1. x \in Nat /\ y \in Nat /\ y <= m /\ m \in Nat
        BY <1>2, <1>6, CountType, CountsType DEF CollectionInv, PendingInv
  <2>2. CountIn(gc_pending_erase', WaitingFor(c)) = x  BY <1>1
  <2>3. CASE c # a
    <3>1. x <= y  BY <1>2, <2>3, StillPendingProperties
    <3>2. m = ReadsOf(c)' + 0  BY <1>11, <2>3 DEF OneIf
    <3> HIDE DEF x, y, m
    <3>3. QED  BY <1>11, <2>1, <2>2, <3>1, <3>2
  <2>4. CASE c = a
    <3>1. x = 0 \/ x + 1 <= y  BY <1>2, <2>4, StillPendingProperties
    <3>2. m = ReadsOf(c)' + 1  BY <1>11, <2>4 DEF OneIf
    <3> HIDE DEF x, y, m
    <3>3. QED  BY <1>11, <2>1, <2>2, <3>1, <3>2
  <2>5. QED  BY <2>3, <2>4
<1>13. Collector'
  <2>1. gc_status' \in BOOLEAN /\ panic_mode' \in BOOLEAN /\ (panic_mode' => gc_status')
        BY <1>1, <1>2, Zenon DEF Collector
  <2>2. QED  BY <1>1, <1>2, <1>3, <1>6, <2>1 DEF Collector
<1>14. QED  BY <1>10, <1>12, <1>13 DEF CollectionInv

(* A new process has nothing queued, pending or under way.                 *)
LEMMA RestartCollection ==
    ASSUME RestartGc
    PROVE  CollectorInv'
<1>1. /\ gcQueue' = <<>> /\ gc_pending_erase' = <<>> /\ gc_status' = FALSE
      /\ panic_mode' = FALSE /\ erases' = 0 /\ erase_pointer' = 0 /\ gcReading' = {}
      /\ ctrlQueue' = [d \in Dies |-> <<>>]
      BY DEF RestartGc, NewProcess
<1>2. Collector'
  <2>1. gc_status' \in BOOLEAN /\ panic_mode' \in BOOLEAN /\ (panic_mode' => gc_status')
        BY <1>1, Zenon
  <2>2. ctrlQueue' \in [Dies -> Seq(GcPackets)] /\ gc_pending_erase' \in Seq(PendingErases)
        BY <1>1, EmptySeq
  <2>3. IsFiniteSet(gcReading') /\ gcReading' \subseteq GcReadPackets  BY <1>1, FS_EmptySet
  <2>4. QED  BY <1>1, <2>1, <2>2, <2>3, BlocksFacts DEF Collector
<1>3. \A X : CountAmong(ctrlQueue', Dies, X) = 0
  <2> SUFFICES ASSUME NEW X PROVE CountAmong(ctrlQueue', Dies, X) = 0  OBVIOUS
  <2>1. \A d \in Dies : Places(ctrlQueue'[d], X) = {}
    <3>1. \A d \in Dies : ctrlQueue'[d] = <<>>  BY <1>1
    <3>2. QED  BY <3>1, EmptySeq DEF Places
  <2>2. PlacesAmong(ctrlQueue', Dies, X) = {}  BY <2>1 DEF PlacesAmong
  <2>3. QED  BY <2>2, FS_EmptySet DEF CountAmong
<1>4. \A T : CountIn(gcQueue', T) = 0 /\ CountIn(gc_pending_erase', T) = 0
      BY <1>1, CountEmpty
<1>5. Len(gc_pending_erase') = 0 /\ Len(gcQueue') = 0  BY <1>1, EmptySeq
<1>6. EraseInv'
  <2>1. ToErase' = 0  BY <1>3, <1>4, <1>5, CountsNext
  <2>2. QED  BY <1>1, <2>1 DEF EraseInv
<1>7. PendingInv'
  <2>1. \A a : Cardinality({r \in gcReading' : r.address = a}) = 0
    <3>1. \A a : {r \in gcReading' : r.address = a} = {}  BY <1>1
    <3>2. QED  BY <3>1, FS_EmptySet
  <2>2. ASSUME NEW a  PROVE ReadsOf(a)' = 0
    <3>1. /\ CountIn(gcQueue', {GcRead(a)}) = 0
          /\ CountAmong(ctrlQueue', Dies, ReadPacketsOf(a)) = 0
          /\ Cardinality({r \in gcReading' : r.address = a}) = 0
          BY <1>3, <1>4, <2>1
    <3>2. ReadsOf(a)' = CountIn(gcQueue', {GcRead(a)})
                          + CountAmong(ctrlQueue', Dies, ReadPacketsOf(a))
                          + Cardinality({r \in gcReading' : r.address = a})
          BY CountsNext
    <3>3. QED  BY <3>1, <3>2
  <2>3. \A a : CountIn(gc_pending_erase', WaitingFor(a)) <= ReadsOf(a)'  BY <1>4, <2>2
  <2>4. QED  BY <2>3, CountsNext DEF PendingInv
<1>8. ReadsMapped'  BY <1>5 DEF ReadsMapped
<1>9. QED  BY <1>2, <1>6, <1>7, <1>8 DEF CollectorInv, CollectionInv

(* Only mapped pages are queued to be read, and a page that is mapped      *)
(* stays mapped: an erase takes the page, not the entry of the map.        *)
LEMMA ReadsMappedNext ==
    ASSUME GcQueueInv, Tables, Collector, ReadsMapped, TableStep, CollectorStep
    PROVE  ReadsMapped'
<1>1. gcQueue \in Seq(GcTransactions)  BY DEF GcQueueInv
<1>2. ASSUME NEW q \in Seq(GcTransactions),
             \A i \in 1 .. Len(q) : q[i].type = "GC_DATA_READ" => Mapped(q[i].address),
             gcQueue' = q
      PROVE  ReadsMapped'
  <2> SUFFICES ASSUME NEW i \in 1 .. Len(q), q[i].type = "GC_DATA_READ"
               PROVE  Mapped(q[i].address)'
      BY <1>2 DEF ReadsMapped, Mapped, NoPage, NumPages, NumBlocks
  <2>1. q[i] \in GcTransactions  BY ElementOfSeq
  <2>2. q[i].address \in Addr  BY <2>1 DEF GcTransactions
  <2>3. Mapped(q[i].address)  BY <1>2
  <2> DEFINE a == q[i].address
  <2> HIDE DEF a
  <2>4. a \in Addr /\ Mapped(a)  BY <2>2, <2>3 DEF a
  <2>5. Mapped(a)'  BY <2>4, MappedStays
  <2>6. QED  BY <2>5 DEF a
<1>3. CASE UNCHANGED gcQueue
      BY <1>1, <1>2, <1>3 DEF ReadsMapped
<1>4. CASE \E w \in Seq(GcTransactions) :
             /\ gcQueue' = gcQueue \o w
             /\ \A i \in 1 .. Len(w) :
                   w[i].type = "GC_DATA_READ" => Mapped(w[i].address)
  <2>1. PICK w \in Seq(GcTransactions) :
             /\ gcQueue' = gcQueue \o w
             /\ \A i \in 1 .. Len(w) :
                   w[i].type = "GC_DATA_READ" => Mapped(w[i].address)
        BY <1>4
  <2> DEFINE q == gcQueue \o w
  <2>2. /\ q \in Seq(GcTransactions) /\ Len(q) = Len(gcQueue) + Len(w)
        /\ Len(gcQueue) \in Nat /\ Len(w) \in Nat
        /\ \A i \in 1 .. Len(q) :
              q[i] = IF i <= Len(gcQueue) THEN gcQueue[i] ELSE w[i - Len(gcQueue)]
        BY <1>1, ConcatProperties, LenProperties
  <2>3. \A i \in 1 .. Len(q) : q[i].type = "GC_DATA_READ" => Mapped(q[i].address)
    <3> SUFFICES ASSUME NEW i \in 1 .. Len(q), q[i].type = "GC_DATA_READ"
                 PROVE  Mapped(q[i].address)
        OBVIOUS
    <3> HIDE DEF q
    <3>1. CASE i <= Len(gcQueue)
      <4>1. i \in 1 .. Len(gcQueue) /\ q[i] = gcQueue[i]  BY <2>2, <3>1
      <4>2. QED  BY <4>1 DEF ReadsMapped
    <3>2. CASE i > Len(gcQueue)
      <4>1. i - Len(gcQueue) \in 1 .. Len(w) /\ q[i] = w[i - Len(gcQueue)]
            BY <2>2, <3>2
      <4>2. QED  BY <2>1, <4>1
    <3>3. QED  BY <2>2, <3>1, <3>2
  <2> HIDE DEF q
  <2>4. gcQueue' = q  BY <2>1 DEF q
  <2>5. QED  BY <1>2, <2>2, <2>3, <2>4
<1>5. CASE CollectorWaits  BY <1>3, <1>5 DEF CollectorWaits
<1>6. CASE CollectorStarts
  <2>1. PICK w \in Seq(Collectable) : gcQueue' = gcQueue \o w
        BY <1>6 DEF CollectorStarts, CollectionAdds
  <2>2. w \in Seq(GcTransactions)  BY CollectableType, SeqMonotonic
  <2>3. ASSUME NEW i \in 1 .. Len(w), w[i].type = "GC_DATA_READ"
        PROVE  Mapped(w[i].address)
    <3>1. w[i] \in Collectable  BY ElementOfSeq
    <3>2. w[i] \notin Erasures  BY <2>3 DEF Erasures
    <3>3. PICK a \in Addr : Mapped(a) /\ w[i] = GcRead(a)
          BY <3>1, <3>2 DEF Collectable
    <3>4. w[i].address = a  BY <3>3 DEF GcRead
    <3>5. QED  BY <3>3, <3>4
  <2>4. QED  BY <1>4, <2>1, <2>2, <2>3
<1>7. CASE CollectorSends
  <2>1. gcQueue # <<>> /\ gcQueue' = Tail(gcQueue)  BY <1>7 DEF CollectorSends
  <2> DEFINE q == Tail(gcQueue)
  <2>2. /\ q \in Seq(GcTransactions) /\ Len(q) = Len(gcQueue) - 1
        /\ \A i \in 1 .. Len(q) : q[i] = gcQueue[i + 1]
        /\ Len(gcQueue) \in Nat /\ Len(q) \in Nat
        BY <1>1, <2>1, HeadTailProperties, LenProperties
  <2> HIDE DEF q
  <2>3. \A i \in 1 .. Len(q) : i + 1 \in 1 .. Len(gcQueue)  BY <2>2
  <2>4. \A i \in 1 .. Len(q) : q[i].type = "GC_DATA_READ" => Mapped(q[i].address)
        BY <2>2, <2>3 DEF ReadsMapped
  <2>5. gcQueue' = q  BY <2>1 DEF q
  <2>6. QED  BY <1>2, <2>2, <2>4, <2>5
<1>8. CASE \E d \in Dies : Leaves(d)
      BY <1>3, <1>8 DEF Leaves, collectVars
<1>9. CASE \E r \in gcReading : GCReadDone(r)
  <2>1. PICK r \in gcReading : GCReadDone(r)  BY <1>9
  <2>2. /\ gc_pending_erase \in Seq(PendingErases) /\ r.address \in Addr
        BY DEF Collector, GcReadPackets
  <2> DEFINE f == ReadFollowers(r.address)
  <2>3. f \in Seq({t \in GcTransactions : t.type # "GC_DATA_READ"})
        BY <2>2, ReadFollowersProperties
  <2>4. gcQueue' = gcQueue \o f  BY <2>1 DEF GCReadDone
  <2> HIDE DEF f
  <2>5. f \in Seq(GcTransactions)  BY <2>3, SeqMonotonic
  <2>6. \A i \in 1 .. Len(f) : f[i].type # "GC_DATA_READ"  BY <2>3, ElementOfSeq
  <2>7. QED  BY <1>4, <2>4, <2>5, <2>6
<1>10. QED  BY <1>5, <1>6, <1>7, <1>8, <1>9 DEF CollectorStep

LEMMA CollectorNext ==
    GcQueueInv /\ TableInv /\ CollectorInv /\ [GcNvNext]_<<allVars, nvVars>> => CollectorInv'
<1> SUFFICES ASSUME GcQueueInv, TableInv, CollectorInv, [GcNvNext]_<<allVars, nvVars>>
             PROVE  CollectorInv'
    OBVIOUS
<1>1. CASE NvStep
  <2>1. gcQueue \in Seq(GcTransactions) /\ CollectionInv /\ Collector /\ ReadsMapped
        BY DEF GcQueueInv, CollectorInv, CollectionInv
  <2>2. Tables /\ TableStep  BY <1>1, TableSteps DEF TableInv
  <2>3. CollectorStep
        BY <1>1, <2>1, <2>2, ErasesAreOwned, CollectorSteps DEF CollectionInv
  <2>4. ReadsMapped'  BY <2>1, <2>2, <2>3, ReadsMappedNext
  <2>5. CollectionInv'
        BY <2>1, <2>3, WaitsCollection, StartsCollection, SendsCollection,
           LeavesCollection, ReadDoneCollection DEF CollectorStep
  <2>6. QED  BY <2>4, <2>5 DEF CollectorInv
<1>2. CASE GcSaveNVState
  <2>1. UNCHANGED <<gcQueue, gc_pending_erase, ctrlQueue, gcReading, gc_status, panic_mode,
                    erases, erase_pointer, addressMap>>
        BY <1>2 DEF GcSaveNVState, allVars, vars, gcVars, collectVars, statusVars, mapVars
  <2>2. ToErase' = ToErase /\ Target' = Target /\ \A a : ReadsOf(a)' = ReadsOf(a)
        BY <2>1, CountsNext DEF ToErase, Target, ReadsOf
  <2>3. EraseInv'  BY <2>1, <2>2 DEF EraseInv, CollectorInv, CollectionInv
  <2>4. PendingInv'
        BY <2>1, <2>2, CountsNext DEF PendingInv, CollectorInv, CollectionInv
  <2>5. Collector'
    <3>1. gc_status' \in BOOLEAN /\ panic_mode' \in BOOLEAN /\ (panic_mode' => gc_status')
          BY <2>1, Zenon DEF CollectorInv, CollectionInv, Collector
    <3>2. QED  BY <2>1, <3>1 DEF CollectorInv, CollectionInv, Collector
  <2>6. ReadsMapped'
        BY <2>1 DEF CollectorInv, ReadsMapped, Mapped, NoPage, NumPages, NumBlocks
  <2>7. QED  BY <2>3, <2>4, <2>5, <2>6 DEF CollectorInv, CollectionInv
<1>3. CASE RestartGc  BY <1>3, RestartCollection
<1>4. QED  BY <1>1, <1>2, <1>3, NvSteps

-----------------------------------------------------------------------------
(* The inductive invariant of the collecting FTL, over the ends of its     *)
(* processes: what it works on is queued, the tables agree with each other *)
(* and with the saved ones, and erases and reads are accounted for.  Each  *)
(* part needs another: an erase is popped from the gcQueue only while the  *)
(* collection is not over, which the count of erases says; a read is sent  *)
(* only if its page is mapped, which the reverse lookup gave it.           *)
GcInv == GcQueueInv /\ TableInv /\ CollectorInv

LEMMA GcInvInit == GcNvInit => GcInv
BY GcQueueInit, TablesInit, CollectorInit DEF GcInv

LEMMA GcInvNext == GcInv /\ [GcNvNext]_<<allVars, nvVars>> => GcInv'
<1> SUFFICES ASSUME GcInv, [GcNvNext]_<<allVars, nvVars>> PROVE GcInv'  OBVIOUS
<1>1. GcQueueInv /\ TableInv /\ CollectorInv  BY DEF GcInv
<1>2. Tables /\ Collector /\ ErasesOwned
      BY <1>1, ErasesAreOwned DEF TableInv, CollectorInv, CollectionInv
<1>3. GcQueueInv'  BY <1>1, <1>2, GcQueueNext
<1>4. TableInv'  BY <1>1, TablesNext
<1>5. CollectorInv'  BY <1>1, CollectorNext
<1>6. QED  BY <1>3, <1>4, <1>5 DEF GcInv

LEMMA GcInvHolds == GcNvSpec => []GcInv
BY GcInvInit, GcInvNext, PTL DEF GcNvSpec

(* The type invariant of the collecting FTL, whatever it restarts from.    *)
THEOREM GcTypes == GcNvSpec => []GcTypeOK
<1>1. GcInv => GcTypeOK
  <2> SUFFICES ASSUME GcInv PROVE GcTypeOK  OBVIOUS
  <2>1. GcQueueInv /\ Tables /\ Collector
        BY DEF GcInv, TableInv, CollectorInv, CollectionInv
  <2>2. \A i \in DOMAIN gc_pending_erase :
           /\ gc_pending_erase[i].erase_block \in Blocks
           /\ gc_pending_erase[i].pending_reads \in (SUBSET Addr) \ {{}}
    <3>1. \A i \in DOMAIN gc_pending_erase : gc_pending_erase[i] \in PendingErases
          BY <2>1, LenProperties, ElementOfSeq DEF Collector
    <3>2. QED  BY <3>1 DEF PendingErases
  <2>3. gc_status \in BOOLEAN /\ panic_mode \in BOOLEAN /\ (panic_mode => gc_status)
        BY <2>1, Zenon DEF Collector
  <2>4. QED  BY <2>1, <2>2, <2>3 DEF GcQueueInv, Tables, Collector, GcTypeOK
<1>2. QED  BY <1>1, GcInvHolds, PTL

(* What the FTL works on is at the front of its queue, the collector's in  *)
(* the gcQueue, the host's in its own (GCFtl.cpp:113-125): the pop at the  *)
(* end of the work takes that transaction and no other.                    *)
THEOREM WorkStaysQueued == GcNvSpec => []WorkIsQueued
<1>1. GcInv => WorkIsQueued  BY DEF GcInv, GcQueueInv
<1>2. QED  BY <1>1, GcInvHolds, PTL

(* Whenever a collection could start, every live page belongs to some      *)
(* address, also after a restart: "assert(found)" (GCFtl.cpp:371) holds.   *)
THEOREM LookupFinds == GcNvSpec => []ReverseLookupFinds
<1>1. GcInv => ReverseLookupFinds  BY DEF GcInv, TableInv
<1>2. QED  BY <1>1, GcInvHolds, PTL

(* In the life of the first process the counter of used pages is exact and *)
(* the one of dirty pages never too small, so that neither goes below 0    *)
(* when a block is erased (GCFtl.cpp:168-177).                             *)
THEOREM CountsFollowTables == GcNvSpec => []CountsSoundAtFirst
<1>1. GcInv => CountsSoundAtFirst
      BY DEF GcInv, TableInv, CountsInv, CountsSoundAtFirst
<1>2. QED  BY <1>1, GcInvHolds, PTL

(* A read of the collector is of a page that is mapped: the exit "GC tried *)
(* to move data that wasn't there." (Ftl.cpp:601-605) is never taken.      *)
MovedDataIsThere ==
    Dispatching("GC_DATA_READ") => Mapped(currentTransaction.address)

THEOREM CollectorFindsData == GcNvSpec => []MovedDataIsThere
<1>1. GcInv => MovedDataIsThere
  <2> SUFFICES ASSUME GcInv, Dispatching("GC_DATA_READ")
               PROVE  Mapped(currentTransaction.address)
      BY DEF MovedDataIsThere
  <2>1. GcQueueInv /\ ReadsMapped  BY DEF GcInv, CollectorInv
  <2>2. busy /\ currentTransaction.type = "GC_DATA_READ"  BY DEF Dispatching
  <2>3. currentTransaction \in GcTransactions
        BY <2>1, <2>2 DEF GcQueueInv, GcTransactions, Transactions, EmptyTransactions
  <2>4. gcQueue # <<>> /\ Head(gcQueue) = currentTransaction
        BY <2>1, <2>2, <2>3 DEF GcQueueInv, WorkIsQueued, GcTransactions
  <2>5. 1 \in 1 .. Len(gcQueue) /\ gcQueue[1] = currentTransaction
        BY <2>1, <2>4, EmptySeq, SplitHead DEF GcQueueInv
  <2>6. QED  BY <2>1, <2>2, <2>5 DEF ReadsMapped
<1>2. QED  BY <1>1, GcInvHolds, PTL

-----------------------------------------------------------------------------
LEMMA ErasesToComeCounted ==
    ASSUME gcQueue \in Seq(GcTransactions), ctrlQueue \in [Dies -> Seq(GcPackets)]
    PROVE  ErasesToCome = ToErase
<1>1. {i \in DOMAIN gcQueue : gcQueue[i].type = "BLOCK_ERASE"} = Places(gcQueue, Erasures)
  <2>1. \A i \in DOMAIN gcQueue : gcQueue[i] \in GcTransactions
        BY LenProperties, ElementOfSeq
  <2>2. \A t \in GcTransactions : t.type = "BLOCK_ERASE" <=> t \in Erasures
        BY DEF GcTransactions, Erasures
  <2>3. QED  BY <2>1, <2>2 DEF Places
<1>2. ASSUME NEW d \in Dies
      PROVE  {i \in DOMAIN ctrlQueue[d] : ctrlQueue[d][i].type = "ERASE"}
                = Places(ctrlQueue[d], ErasePackets)
  <2>1. ctrlQueue[d] \in Seq(GcPackets)  OBVIOUS
  <2>2. \A i \in DOMAIN ctrlQueue[d] : ctrlQueue[d][i] \in GcPackets
        BY <2>1, LenProperties, ElementOfSeq
  <2>3. \A p \in GcPackets : p.type = "ERASE" <=> p \in ErasePackets
        BY DEF GcPackets, GcReadPackets, ErasePackets
  <2>4. QED  BY <2>2, <2>3 DEF Places
<1>3. UNION {{d} \X {i \in DOMAIN ctrlQueue[d] : ctrlQueue[d][i].type = "ERASE"} : d \in Dies}
        = PlacesAmong(ctrlQueue, Dies, ErasePackets)
  <2>1. \A d \in Dies : {d} \X {i \in DOMAIN ctrlQueue[d] : ctrlQueue[d][i].type = "ERASE"}
                          = {d} \X Places(ctrlQueue[d], ErasePackets)
        BY <1>2
  <2>2. {{d} \X {i \in DOMAIN ctrlQueue[d] : ctrlQueue[d][i].type = "ERASE"} : d \in Dies}
          = {{d} \X Places(ctrlQueue[d], ErasePackets) : d \in Dies}
        BY <2>1
  <2>3. QED  BY <2>2 DEF PlacesAmong
<1>4. QED  BY <1>1, <1>3 DEF ErasesToCome, ToErase, CountIn, CountAmong

(* The erases a collection has done and those on their way add up to the   *)
(* number that ends it: the counter neither stops short of it nor runs     *)
(* past it (GCFtl.cpp:106-111), whichever of them is queued, pending or    *)
(* with the controller.                                                    *)
THEOREM EraseCountIsMet == GcNvSpec => []EraseCountMeets
<1>1. GcInv => EraseCountMeets
  <2> SUFFICES ASSUME GcInv, gc_status  PROVE erases + ErasesToCome = Target
      BY DEF EraseCountMeets
  <2>1. erases + ToErase = Target
        BY DEF GcInv, CollectorInv, CollectionInv, EraseInv
  <2>2. ErasesToCome = ToErase
        BY ErasesToComeCounted
           DEF GcInv, GcQueueInv, CollectorInv, CollectionInv, Collector
  <2>3. QED  BY <2>1, <2>2
<1>2. QED  BY <1>1, GcInvHolds, PTL

LEMMA SomewhereAmong ==
    ASSUME NEW D, NEW q, NEW T, CountAmong(q, D, T) # 0
    PROVE  \E d \in D : \E i \in DOMAIN q[d] : q[d][i] \in T
<1>1. PlacesAmong(q, D, T) # {}  BY FS_EmptySet DEF CountAmong
<1>2. QED  BY <1>1 DEF PlacesAmong, Places

(* A pending erase waits only for reads that are on their way, although    *)
(* one block may be pending twice and GCReadDone stops at the first erase  *)
(* it completes (GCFtl.cpp:604-617): it never waits for a read that is     *)
(* over.                                                                   *)
THEOREM PendingReadsComing == GcNvSpec => []PendingReadsUnderWay
<1>1. GcInv => PendingReadsUnderWay
  <2> SUFFICES ASSUME GcInv, NEW i \in DOMAIN gc_pending_erase,
                      NEW a \in gc_pending_erase[i].pending_reads
               PROVE  ReadUnderWay(a)
      BY DEF PendingReadsUnderWay
  <2>1. GcQueueInv /\ Collector /\ PendingInv
        BY DEF GcInv, CollectorInv, CollectionInv
  <2>2. gc_pending_erase \in Seq(PendingErases) /\ gcQueue \in Seq(GcTransactions)
        BY <2>1 DEF GcQueueInv, Collector
  <2>3. i \in 1 .. Len(gc_pending_erase) /\ gc_pending_erase[i] \in WaitingFor(a)
        BY <2>2, LenProperties, ElementOfSeq DEF WaitingFor
  <2>4. CountIn(gc_pending_erase, WaitingFor(a)) > 0  BY <2>2, <2>3, CountPositive
  <2> DEFINE x == CountIn(gcQueue, {GcRead(a)})
             y == CountAmong(ctrlQueue, Dies, ReadPacketsOf(a))
             z == Cardinality({r \in gcReading : r.address = a})
             w == CountIn(gc_pending_erase, WaitingFor(a))
  <2>5. x # 0 \/ y # 0 \/ z # 0
    <3>1. x \in Nat /\ y \in Nat /\ z \in Nat /\ w \in Nat  BY <2>1, <2>2, CountsType
    <3>2. w <= x + y + z /\ w > 0  BY <2>1, <2>4 DEF PendingInv, ReadsOf
    <3> HIDE DEF w, x, y, z
    <3>3. QED  BY <3>1, <3>2
  <2>6. CASE x # 0
    <3>1. x > 0  BY <2>2, <2>6, CountType
    <3>2. \E k \in 1 .. Len(gcQueue) : gcQueue[k] \in {GcRead(a)}
          BY <2>2, <3>1, CountPositive
    <3>3. InGcQueue(GcRead(a))  BY <2>2, <3>2, LenProperties DEF InGcQueue
    <3>4. QED  BY <3>3 DEF ReadUnderWay
  <2>7. CASE y # 0
    <3>1. PICK d \in Dies : \E k \in DOMAIN ctrlQueue[d] : ctrlQueue[d][k] \in ReadPacketsOf(a)
          BY <2>7, SomewhereAmong
    <3>2. QED  BY <3>1 DEF ReadPacketsOf, GcReadPackets, ReadUnderWay
  <2>8. CASE z # 0
    <3>1. {r \in gcReading : r.address = a} # {}  BY <2>8, FS_EmptySet
    <3>2. QED  BY <3>1 DEF ReadUnderWay
  <2>9. QED  BY <2>5, <2>6, <2>7, <2>8
<1>2. QED  BY <1>1, GcInvHolds, PTL

-----------------------------------------------------------------------------
(* No erased page is lost by the first process.  A GC_DATA_WRITE is never  *)
(* popped (PopWrite takes a transaction of the host's for it), so that     *)
(* what is queued behind the first one is never reached: only the erases   *)
(* queued before it matter, and until then every page in use that is       *)
(* mapped is live, but the old page of a write that was refused.           *)
OwnersIn(map, b) == {a \in Addr : map[a] # NoPage /\ BlockOf(map[a]) = b}
Copies(q, a) == \E i \in 1 .. Len(q) : q[i] = GcWrite(a)
CopiesAny(q) == \E i \in 1 .. Len(q) : q[i].type = "GC_DATA_WRITE"
Reached(q, i) == \A j \in 1 .. i - 1 : q[j].type # "GC_DATA_WRITE"

PagesCopied(map, pages, q) ==
    \A a \in Addr : map[a] # NoPage /\ map[a] \notin pages => Copies(q, a)
ErasesCopied(map, q) ==
    \A i \in 1 .. Len(q) : q[i].type = "BLOCK_ERASE" /\ Reached(q, i) =>
        \A a \in OwnersIn(map, q[i].address) : Copies(q, a)
PendingCopied(map, e) ==
    \A i \in 1 .. Len(e) : OwnersIn(map, e[i].erase_block) \subseteq e[i].pending_reads
OneOwner(map) == \A a, c \in Addr : map[a] # NoPage /\ map[a] = map[c] => a = c

(* A write that was refused is tried again before anything else.           *)
HeldWrite(a) ==
    /\ ~Collecting /\ used_page_count < ForcePages
    /\ currentTransaction = Write(a)
    /\ \/ busy
       \/ SCHEDULE /\ MustWrite /\ writeQueue # <<>> /\ Head(writeQueue) = currentTransaction

HostWorks ==
    /\ busy /\ currentTransaction \notin GcTransactions => ~Collecting
    /\ FTL_WRITE_QUEUE_LENGTH # 0 => Len(writeQueue) <= FTL_WRITE_QUEUE_LENGTH
    /\ SCHEDULE /\ busy /\ currentTransaction.type = "DATA_WRITE" => MustWrite

NothingCopied ==
    /\ dirty \subseteq used /\ OneOwner(addressMap)
    /\ PendingCopied(addressMap, gc_pending_erase)
    /\ \A a \in Addr : Mapped(a) /\ addressMap[a] \in dirty => HeldWrite(a)

Copying ==
    /\ HostWorks
    /\ PagesCopied(addressMap, used, gcQueue)
    /\ ErasesCopied(addressMap, gcQueue)
    /\ ~CopiesAny(gcQueue) => NothingCopied

Forced == ForcePages >= VirtualPages /\ ~(SCHEDULE /\ IDLE_WRITE)

(* More is queued.                                                         *)
LEMMA AppendedCopies ==
    ASSUME NEW q \in Seq(GcTransactions), NEW w \in Seq(GcTransactions)
    PROVE  /\ \A a : Copies(q, a) \/ Copies(w, a) => Copies(q \o w, a)
           /\ CopiesAny(q) \/ CopiesAny(w) => CopiesAny(q \o w)
           /\ \A map :
                 /\ ErasesCopied(map, q)
                 /\ CopiesAny(q) \/
                       \A i \in 1 .. Len(w) : w[i].type = "BLOCK_ERASE" =>
                           \A a \in OwnersIn(map, w[i].address) : Copies(q \o w, a)
                 => ErasesCopied(map, q \o w)
<1> DEFINE r == q \o w
<1>1. /\ Len(q) \in Nat /\ Len(w) \in Nat /\ Len(r) = Len(q) + Len(w)
      /\ \A i \in 1 .. Len(q) : i \in 1 .. Len(r) /\ r[i] = q[i]
      /\ \A i \in 1 .. Len(w) : Len(q) + i \in 1 .. Len(r) /\ r[Len(q) + i] = w[i]
      /\ \A i \in 1 .. Len(r) : i > Len(q) => i - Len(q) \in 1 .. Len(w) /\ r[i] = w[i - Len(q)]
  <2>1. /\ Len(q) \in Nat /\ Len(w) \in Nat /\ Len(r) = Len(q) + Len(w)
        /\ \A i \in 1 .. Len(q) + Len(w) :
              r[i] = IF i <= Len(q) THEN q[i] ELSE w[i - Len(q)]
        BY ConcatProperties, LenProperties
  <2> HIDE DEF r
  <2>2. QED  BY <2>1
<1> HIDE DEF r
<1>2. \A a : Copies(q, a) \/ Copies(w, a) => Copies(r, a)  BY <1>1 DEF Copies
<1>3. CopiesAny(q) \/ CopiesAny(w) => CopiesAny(r)  BY <1>1 DEF CopiesAny
<1>4. ASSUME NEW map, ErasesCopied(map, q),
             CopiesAny(q) \/
                \A i \in 1 .. Len(w) : w[i].type = "BLOCK_ERASE" =>
                    \A a \in OwnersIn(map, w[i].address) : Copies(r, a)
      PROVE  ErasesCopied(map, r)
  <2> SUFFICES ASSUME NEW i \in 1 .. Len(r), r[i].type = "BLOCK_ERASE", Reached(r, i),
                      NEW a \in OwnersIn(map, r[i].address)
               PROVE  Copies(r, a)
      BY DEF ErasesCopied
  <2>1. CASE i <= Len(q)
    <3>1. i \in 1 .. Len(q) /\ r[i] = q[i]  BY <1>1, <2>1
    <3>2. \A j \in 1 .. i - 1 : j \in 1 .. Len(q) /\ r[j] = q[j]  BY <1>1, <3>1
    <3>3. Reached(q, i)  BY <3>2 DEF Reached
    <3>4. Copies(q, a)  BY <1>4, <3>1, <3>3 DEF ErasesCopied
    <3>5. QED  BY <1>2, <3>4
  <2>2. CASE i > Len(q)
    <3>1. i - Len(q) \in 1 .. Len(w) /\ r[i] = w[i - Len(q)]  BY <1>1, <2>2
    <3>2. ~CopiesAny(q)
      <4>1. \A j \in 1 .. Len(q) : j \in 1 .. i - 1 /\ r[j] = q[j]  BY <1>1, <2>2
      <4>2. QED  BY <4>1 DEF Reached, CopiesAny
    <3>3. QED  BY <1>4, <3>1, <3>2
  <2>3. QED  BY <1>1, <2>1, <2>2
<1>5. QED  BY <1>2, <1>3, <1>4 DEF r

(* The first leaves, and is no write.                                      *)
LEMMA LeftCopies ==
    ASSUME NEW q \in Seq(GcTransactions), q # <<>>, Head(q).type # "GC_DATA_WRITE"
    PROVE  /\ \A a : Copies(q, a) <=> Copies(Tail(q), a)
           /\ CopiesAny(q) <=> CopiesAny(Tail(q))
           /\ \A map : ErasesCopied(map, q) => ErasesCopied(map, Tail(q))
<1> DEFINE r == Tail(q)
<1>1. /\ Len(q) \in Nat \ {0} /\ Len(r) = Len(q) - 1 /\ Head(q) = q[1]
      /\ \A i \in 1 .. Len(r) : r[i] = q[i + 1]
      BY EmptySeq, LenProperties, HeadTailProperties
<1> HIDE DEF r
<1>2. /\ \A i \in 1 .. Len(r) : i + 1 \in 1 .. Len(q) /\ r[i] = q[i + 1]
      /\ \A i \in 1 .. Len(q) : i # 1 => i - 1 \in 1 .. Len(r) /\ r[i - 1] = q[i]
      /\ q[1].type # "GC_DATA_WRITE"
  <2>1. ASSUME NEW i \in 1 .. Len(q), i # 1
        PROVE  i - 1 \in 1 .. Len(r) /\ r[i - 1] = q[i]
    <3>1. i - 1 \in 1 .. Len(r) /\ i - 1 + 1 = i  BY <1>1, <2>1
    <3>2. QED  BY <1>1, <3>1
  <2>2. QED  BY <1>1, <2>1
<1>3. \A a : Copies(q, a) <=> Copies(r, a)
  <2>1. \A a : q[1] # GcWrite(a)  BY <1>2 DEF GcWrite
  <2>2. QED  BY <1>2, <2>1 DEF Copies
<1>4. CopiesAny(q) <=> CopiesAny(r)  BY <1>2 DEF CopiesAny
<1>5. ASSUME NEW map, ErasesCopied(map, q)  PROVE ErasesCopied(map, r)
  <2> SUFFICES ASSUME NEW i \in 1 .. Len(r), r[i].type = "BLOCK_ERASE", Reached(r, i),
                      NEW a \in OwnersIn(map, r[i].address)
               PROVE  Copies(r, a)
      BY DEF ErasesCopied
  <2>1. i + 1 \in 1 .. Len(q) /\ r[i] = q[i + 1]  BY <1>2
  <2>2. ASSUME NEW j \in 1 .. i + 1 - 1  PROVE q[j].type # "GC_DATA_WRITE"
    <3>1. CASE j = 1  BY <1>2, <3>1
    <3>2. CASE j # 1
      <4>1. j \in 1 .. Len(q) /\ j - 1 \in 1 .. i - 1  BY <1>1, <3>2
      <4>2. r[j - 1] = q[j]  BY <1>2, <3>2, <4>1
      <4>3. QED  BY <4>1, <4>2 DEF Reached
    <3>3. QED  BY <3>1, <3>2
  <2>3. Reached(q, i + 1)  BY <2>2 DEF Reached
  <2>4. Copies(q, a)  BY <1>5, <2>1, <2>3 DEF ErasesCopied
  <2>5. QED  BY <1>3, <2>4
<1>6. QED  BY <1>3, <1>4, <1>5 DEF r

-----------------------------------------------------------------------------
(* Outside a collection no erase is pending or queued, and none begins but *)
(* with the work of a new one.                                             *)
LEMMA NotCollecting ==
    ASSUME GcQueueInv, Collector, EraseInv, ~Collecting
    PROVE  /\ ToErase = 0 /\ gc_pending_erase = <<>>
           /\ \A i \in 1 .. Len(gcQueue) : gcQueue[i].type # "BLOCK_ERASE"
           /\ CountAmong(ctrlQueue, Dies, ErasePackets) = 0
<1> DEFINE i == CountIn(gcQueue, Erasures)
           j == Len(gc_pending_erase)
           k == CountAmong(ctrlQueue, Dies, ErasePackets)
<1>1. gcQueue \in Seq(GcTransactions)  BY DEF GcQueueInv
<1>2. i \in Nat /\ j \in Nat /\ k \in Nat /\ ToErase \in Nat  BY <1>1, CountsType
<1>3. ToErase = 0
  <2>1. Target \in Nat /\ erases \in Nat  BY BlocksFacts DEF Target, Collector
  <2>2. gc_status => erases = Target  BY DEF Collecting
  <2>3. QED  BY <1>2, <2>1, <2>2 DEF EraseInv, Collector
<1>4. i = 0 /\ j = 0 /\ k = 0
  <2>1. ToErase = i + j + k  BY DEF ToErase
  <2> HIDE DEF i, j, k
  <2>2. QED  BY <1>2, <1>3, <2>1
<1>5. gc_pending_erase = <<>>  BY <1>4, EmptySeq DEF Collector
<1>6. ASSUME NEW l \in 1 .. Len(gcQueue)  PROVE gcQueue[l].type # "BLOCK_ERASE"
  <2>1. gcQueue[l] \in GcTransactions  BY <1>1, ElementOfSeq
  <2>2. gcQueue[l] \notin Erasures  BY <1>1, <1>4, CountPositive
  <2>3. QED  BY <2>1, <2>2 DEF GcTransactions, Erasures
<1>7. QED  BY <1>3, <1>4, <1>5, <1>6

LEMMA StillNotCollecting ==
    ASSUME GcQueueInv, Collector, EraseInv, ~Collecting,
           UNCHANGED statusVars \/ CollectionMayEnd \/ \E d \in Dies : Leaves(d)
    PROVE  ~Collecting'
<1>1. CASE UNCHANGED statusVars
      BY <1>1 DEF statusVars, Collecting, Target, NumPlanes
<1>2. CASE CollectionMayEnd
  <2>1. ~gc_status'  BY <1>2 DEF CollectionMayEnd
  <2>2. QED  BY <2>1 DEF Collecting
<1>3. ASSUME NEW d \in Dies, Leaves(d)  PROVE ~Collecting'
  <2> DEFINE pkt == Head(ctrlQueue[d])
  <2>1. /\ ctrlQueue[d] # <<>> /\ ctrlQueue' = [ctrlQueue EXCEPT ![d] = Tail(@)]
        /\ erases' = IF pkt.type = "ERASE" THEN erases + 1 ELSE erases
        /\ UNCHANGED <<gc_status, panic_mode>>
        BY <1>3 DEF Leaves
  <2>2. /\ pkt \in GcPackets /\ ctrlQueue' \in [Dies -> Seq(GcPackets)]
        /\ CountAmong(ctrlQueue, Dies, ErasePackets)
             = CountAmong(ctrlQueue', Dies, ErasePackets) + OneIf(pkt \in ErasePackets)
        BY <2>1, LeftProperties
  <2>3. CountAmong(ctrlQueue', Dies, ErasePackets) \in Nat
        BY <2>2, DiesFinite, CountAmongType
  <2>4. CountAmong(ctrlQueue, Dies, ErasePackets) = 0  BY NotCollecting
  <2>5. pkt \notin ErasePackets  BY <2>2, <2>3, <2>4 DEF OneIf
  <2>6. pkt.type # "ERASE"
        BY <2>2, <2>5 DEF GcPackets, GcReadPackets, ErasePackets
  <2>7. UNCHANGED statusVars  BY <2>1, <2>6 DEF statusVars
  <2>8. QED  BY <2>7 DEF statusVars, Collecting, Target, NumPlanes
<1>4. QED  BY <1>1, <1>2, <1>3

(* A collection that starts while every mapped page is live: no erase is   *)
(* queued of a block that holds a page, and a pending one waits for all.   *)
AllLive ==
    /\ OneOwner(addressMap)
    /\ \A a \in Addr : Mapped(a) => addressMap[a] \in used \ dirty

SafeTransactions ==
    {t \in GcTransactions : t.type # "GC_DATA_WRITE" /\
        (t.type = "BLOCK_ERASE" => OwnersIn(addressMap, t.address) = {})}
SafePending ==
    {e \in PendingErases : OwnersIn(addressMap, e.erase_block) \subseteq e.pending_reads}

LEMMA SafeWork ==
    ASSUME Tables, AllLive, NEW b \in Blocks, NEW owner,
           \A p \in Live(b) : owner[p] \in Addr /\ addressMap[owner[p]] = p
    PROVE  Work(b, owner) \in Seq(SafeTransactions) /\ Pending(b, owner) \in Seq(SafePending)
<1> DEFINE w == Work(b, owner)
           e == Pending(b, owner)
<1>1. /\ w \in Seq(Collectable) /\ e \in Seq(PendingErases)
      /\ CountIn(w, Erasures) + Len(e) = 1
      BY WorkProperties DEF Tables
<1>2. ASSUME NEW a \in OwnersIn(addressMap, b)
      PROVE  a \in Addr /\ addressMap[a] \in Live(b)
      BY <1>2 DEF OwnersIn, AllLive, Mapped, Live
<1>3. w \in Seq(GcTransactions) /\ \A i \in 1 .. Len(w) : w[i] \in Collectable
  <2> HIDE DEF w
  <2>1. QED  BY <1>1, CollectableType, SeqMonotonic, ElementOfSeq
<1>4. CASE Live(b) = {}
  <2>1. InOrder(Live(b)) = <<>>
    <3>1. Live(b) \in SUBSET Pages  BY DEF Live, Tables
    <3>2. InOrder(Live(b)) \in Seq(Live(b)) /\ Len(InOrder(Live(b))) = 0
          BY <1>4, <3>1, InOrderProperties, FS_EmptySet
    <3>3. QED  BY <3>2, EmptySeq
  <2>2. w = <<BlockErase(b)>> /\ e = <<>>  BY <1>4, <2>1 DEF Work, Pending
  <2>3. OwnersIn(addressMap, b) = {}  BY <1>2, <1>4
  <2>4. BlockErase(b) \in SafeTransactions
        BY <2>3 DEF SafeTransactions, BlockErase, GcTransactions
  <2>5. QED  BY <2>2, <2>4, SingletonSeq, EmptySeq
<1>5. CASE Live(b) # {}
  <2> DEFINE r == [erase_block |-> b, pending_reads |-> {owner[p] : p \in Live(b)}]
  <2>1. e = <<r>>  BY <1>5 DEF Pending
  <2>2. r \in PendingErases
    <3>1. {owner[p] : p \in Live(b)} \in (SUBSET Addr) \ {{}}  BY <1>5
    <3>2. QED  BY <3>1 DEF PendingErases
  <2>3. ASSUME NEW a \in OwnersIn(addressMap, b)  PROVE a \in r.pending_reads
    <3> DEFINE p == addressMap[a]
    <3>1. a \in Addr /\ p \in Live(b)  BY <1>2
    <3>2. owner[p] \in Addr /\ addressMap[owner[p]] = p  BY <3>1
    <3>3. addressMap[a] # NoPage  BY DEF OwnersIn
    <3>4. owner[p] = a  BY <3>1, <3>2, <3>3 DEF AllLive, OneOwner
    <3> HIDE DEF p
    <3>5. QED  BY <3>1, <3>4
  <2>4. r \in SafePending
    <3>1. OwnersIn(addressMap, r.erase_block) \subseteq r.pending_reads  BY <2>3
    <3> HIDE DEF r
    <3>2. QED  BY <2>2, <3>1 DEF SafePending
  <2> HIDE DEF r
  <2>5. e \in Seq(SafePending) /\ Len(e) = 1  BY <2>1, <2>4, SingletonSeq
  <2> HIDE DEF w, e
  <2>6. CountIn(w, Erasures) \in Nat  BY <1>1, CountType
  <2>7. CountIn(w, Erasures) = 0  BY <1>1, <2>5, <2>6
  <2>8. ASSUME NEW i \in 1 .. Len(w)  PROVE w[i] \in SafeTransactions
    <3>1. w[i] \in Collectable /\ w[i] \notin Erasures  BY <1>1, <1>3, <2>7, CountPositive
    <3>2. PICK a \in Addr : w[i] = GcRead(a)  BY <3>1 DEF Collectable
    <3>3. GcRead(a) \in SafeTransactions
          BY DEF SafeTransactions, GcRead, GcTransactions
    <3>4. QED  BY <3>2, <3>3
  <2>9. w \in Seq(SafeTransactions)
    <3>1. Len(w) \in Nat /\ w \in [1 .. Len(w) -> GcTransactions]
          BY <1>3, LenProperties
    <3>2. w \in [1 .. Len(w) -> SafeTransactions]  BY <2>8, <3>1
    <3>3. QED  BY <3>1, <3>2
  <2>10. QED  BY <2>5, <2>9 DEF w, e
<1>6. QED  BY <1>4, <1>5

LEMMA SafeCollection ==
    ASSUME Tables, AllLive, NEW n \in Nat \ {0}, NEW blocks \in [1 .. n -> Blocks],
           addGC(blocks)
    PROVE  \E w \in Seq(SafeTransactions), e \in Seq(SafePending) :
              gcQueue' = gcQueue \o w /\ gc_pending_erase' = e \o gc_pending_erase
<1>0. DOMAIN blocks = 1 .. n  OBVIOUS
<1>1. PICK owner \in Owners(UNION {Live(blocks[i]) : i \in DOMAIN blocks}) :
         /\ gcQueue' = gcQueue \o FlattenSeq([i \in DOMAIN blocks |-> Work(blocks[i], owner)])
         /\ gc_pending_erase' =
               Reverse(FlattenSeq([i \in DOMAIN blocks |-> Pending(blocks[i], owner)]))
                   \o gc_pending_erase
      BY DEF addGC
<1> DEFINE ws == [i \in 1 .. n |-> Work(blocks[i], owner)]
           es == [i \in 1 .. n |-> Pending(blocks[i], owner)]
<1>2. ASSUME NEW i \in 1 .. n, NEW p \in Live(blocks[i])
      PROVE  owner[p] \in Addr /\ addressMap[owner[p]] = p
  <2>1. p \in UNION {Live(blocks[j]) : j \in DOMAIN blocks}  BY <1>0
  <2>2. QED  BY <1>1, <2>1 DEF Owners
<1>3. \A i \in 1 .. n : /\ Work(blocks[i], owner) \in Seq(SafeTransactions)
                        /\ Pending(blocks[i], owner) \in Seq(SafePending)
      BY <1>2, SafeWork
<1>4. ws \in Seq(Seq(SafeTransactions)) /\ es \in Seq(Seq(SafePending))
  <2>1. ws \in [1 .. n -> Seq(SafeTransactions)] /\ es \in [1 .. n -> Seq(SafePending)]
        BY <1>3
  <2> HIDE DEF ws, es
  <2>2. QED  BY <2>1
<1>5. /\ gcQueue' = gcQueue \o FlattenSeq(ws)
      /\ gc_pending_erase' = Reverse(FlattenSeq(es)) \o gc_pending_erase
      BY <1>0, <1>1
<1> HIDE DEF ws, es
<1>6. /\ FlattenSeq(ws) \in Seq(SafeTransactions) /\ FlattenSeq(es) \in Seq(SafePending)
      /\ Reverse(FlattenSeq(es)) \in Seq(SafePending)
      BY <1>4, FlattenType, ReverseProperties
<1>7. QED  BY <1>5, <1>6

(* The forced collection and the one of an idle FTL.                       *)
LEMMA SafeStart ==
    ASSUME Tables, AllLive, erase_pointer \in Blocks, runGC \/ runPanicGC
    PROVE  \E w \in Seq(SafeTransactions), e \in Seq(SafePending) :
              gcQueue' = gcQueue \o w /\ gc_pending_erase' = e \o gc_pending_erase
<1>1. CASE runGC
  <2> DEFINE b == Dirtiest(erase_pointer .. NumBlocks - 1)
  <2>1. erase_pointer .. NumBlocks - 1 \in SUBSET Blocks  BY BlocksFacts DEF Blocks
  <2>2. b \in Blocks  BY <2>1, DirtiestType DEF Tables
  <2>3. addGC(<<b>>)  BY <1>1 DEF runGC
  <2> HIDE DEF b
  <2>4. <<b>> \in [1 .. 1 -> Blocks] /\ 1 \in Nat \ {0}  BY <2>2
  <2>5. QED  BY <2>3, <2>4, SafeCollection
<1>2. CASE runPanicGC
  <2> DEFINE blocks == [i \in 1 .. NumPlanes |-> Dirtiest(PlaneBlocks(i - 1))]
  <2>1. \A i \in 1 .. NumPlanes : Dirtiest(PlaneBlocks(i - 1)) \in Blocks
        BY PlaneBlocksType, DirtiestType DEF Tables
  <2>2. blocks \in [1 .. NumPlanes -> Blocks]  BY <2>1
  <2>3. addGC(blocks)  BY <1>2 DEF runPanicGC
  <2> HIDE DEF blocks
  <2>4. QED  BY <2>2, <2>3, BlocksFacts, SafeCollection
<1>3. QED  BY <1>1, <1>2

(* A collection starts.                                                    *)
LEMMA CopyingStarts ==
    ASSUME Tables, GcQueueInv, Collector, EraseInv, ~Collecting, Copying, HostWorks',
           \A a : ~HeldWrite(a), runGC \/ runPanicGC,
           UNCHANGED <<used, dirty, addressMap>>
    PROVE  Copying'
<1>1. PICK w \in Seq(Collectable) : gcQueue' = gcQueue \o w
  <2>1. CASE runGC
    <3>1. CollectionAdds(1)  BY <2>1, RunGcProperties DEF Tables, Collector
    <3>2. QED  BY <3>1 DEF CollectionAdds
  <2>2. CASE runPanicGC
    <3>1. CollectionAdds(NumPlanes)  BY <2>2, RunPanicProperties DEF Tables
    <3>2. QED  BY <3>1 DEF CollectionAdds
  <2>3. QED  BY <2>1, <2>2
<1>2. w \in Seq(GcTransactions) /\ gcQueue \in Seq(GcTransactions)
      BY CollectableType, SeqMonotonic DEF GcQueueInv
<1>3. PagesCopied(addressMap', used', gcQueue')
      BY <1>1, <1>2, AppendedCopies DEF Copying, PagesCopied
<1>4. CASE CopiesAny(gcQueue)
  <2>1. ErasesCopied(addressMap', gcQueue') /\ CopiesAny(gcQueue')
        BY <1>1, <1>2, <1>4, AppendedCopies DEF Copying
  <2>2. QED  BY <1>3, <2>1 DEF Copying, PagesCopied, ErasesCopied, CopiesAny,
                NumPages, NumBlocks, NoPage, OwnersIn, Copies, GcWrite, Reached
<1>5. CASE ~CopiesAny(gcQueue)
  <2>1. NothingCopied  BY <1>5 DEF Copying
  <2>2. AllLive
    <3>1. ASSUME NEW a \in Addr, Mapped(a)  PROVE addressMap[a] \in used \ dirty
      <4>1. addressMap[a] \in used
        <5>1. ~Copies(gcQueue, a)  BY <1>5 DEF Copies, CopiesAny, GcWrite
        <5>2. QED  BY <3>1, <5>1 DEF Copying, PagesCopied, Mapped
      <4>2. addressMap[a] \notin dirty  BY <2>1, <3>1 DEF NothingCopied
      <4>3. QED  BY <4>1, <4>2
    <3>2. QED  BY <2>1, <3>1 DEF NothingCopied, AllLive
  <2>3. PICK v \in Seq(SafeTransactions), e \in Seq(SafePending) :
           gcQueue' = gcQueue \o v /\ gc_pending_erase' = e \o gc_pending_erase
        BY <2>2, SafeStart DEF Collector
  <2>4. gc_pending_erase = <<>>  BY NotCollecting
  <2>5. gc_pending_erase' = e  BY <2>3, <2>4
  <2>6. v \in Seq(GcTransactions) /\ \A i \in 1 .. Len(v) : v[i] \in SafeTransactions
        BY SeqMonotonic, ElementOfSeq DEF SafeTransactions
  <2>7. ErasesCopied(addressMap, gcQueue \o v)
    <3>1. \A i \in 1 .. Len(v) : v[i].type = "BLOCK_ERASE" =>
             \A a \in OwnersIn(addressMap, v[i].address) : Copies(gcQueue \o v, a)
          BY <2>6 DEF SafeTransactions
    <3>2. QED  BY <1>2, <2>6, <3>1, AppendedCopies DEF Copying
  <2>8. PendingCopied(addressMap, gc_pending_erase')
    <3>1. \A i \in 1 .. Len(e) : e[i] \in SafePending  BY ElementOfSeq
    <3>2. QED  BY <2>5, <3>1 DEF SafePending, PendingCopied
  <2>9. dirty' \subseteq used' /\ OneOwner(addressMap')
        BY <2>1 DEF NothingCopied
  <2>10. \A a \in Addr : ~(Mapped(a)' /\ addressMap'[a] \in dirty')
        BY <2>2 DEF AllLive, Mapped, NoPage, NumPages, NumBlocks
  <2>11. NothingCopied'
        BY <2>8, <2>9, <2>10 DEF NothingCopied, PendingCopied, OneOwner, OwnersIn,
              NoPage, NumPages, NumBlocks, Mapped
  <2>12. PagesCopied(addressMap, used, gcQueue)'
         BY <1>3 DEF PagesCopied, Copies, GcWrite, NoPage, NumPages, NumBlocks
  <2>13. ErasesCopied(addressMap, gcQueue)'
    <3>1. ErasesCopied(addressMap', gcQueue')  BY <2>3, <2>7
    <3>2. QED  BY <3>1 DEF ErasesCopied, OwnersIn, Reached, Copies, GcWrite, NoPage,
                           NumPages, NumBlocks
  <2>14. QED  BY <2>11, <2>12, <2>13 DEF Copying
<1>6. QED  BY <1>4, <1>5

-----------------------------------------------------------------------------
(* What the FTL works on for the host.                                     *)
LEMMA HostWorksOn ==
    ASSUME HostWorks, writeQueue \in Seq(QueuedWrites), writeQueue' \in Seq(QueuedWrites),
           busy' => busy /\ UNCHANGED currentTransaction,
           busy' /\ ~Collecting => ~Collecting',
           FTL_WRITE_QUEUE_LENGTH # 0 => Len(writeQueue') <= FTL_WRITE_QUEUE_LENGTH,
           busy' => Len(writeQueue') >= Len(writeQueue)
    PROVE  HostWorks'
<1>1. ASSUME busy', currentTransaction' \notin GcTransactions  PROVE ~Collecting'
      BY <1>1 DEF HostWorks
<1>2. ASSUME SCHEDULE, busy', currentTransaction'.type = "DATA_WRITE"  PROVE MustWrite'
  <2>1. MustWrite  BY <1>2 DEF HostWorks
  <2>2. Len(writeQueue) \in Nat /\ Len(writeQueue') \in Nat  BY LenProperties
  <2>3. QED  BY <1>2, <2>1, <2>2, OptionAssumption DEF MustWrite
<1>3. QED  BY <1>1, <1>2 DEF HostWorks, GcTransactions

LEMMA HostWorksStarts ==
    ASSUME HostWorks, UNCHANGED writeQueue, NEW t, Start(t),
           t \notin GcTransactions => ~Collecting',
           SCHEDULE /\ t.type = "DATA_WRITE" => MustWrite
    PROVE  HostWorks'
<1>1. busy' = TRUE /\ currentTransaction' = t  BY DEF Start
<1>2. ASSUME SCHEDULE, currentTransaction'.type = "DATA_WRITE"  PROVE MustWrite'
      BY <1>1, <1>2 DEF MustWrite
<1>3. QED  BY <1>1, <1>2 DEF HostWorks, GcTransactions

LEMMA PoppedWriteFits ==
    ASSUME HostWorks, writeQueue \in Seq(QueuedWrites), PopWrite
    PROVE  /\ writeQueue' \in Seq(QueuedWrites)
           /\ FTL_WRITE_QUEUE_LENGTH # 0 => Len(writeQueue') <= FTL_WRITE_QUEUE_LENGTH
<1>1. Len(writeQueue) \in Nat /\ FTL_WRITE_QUEUE_LENGTH \in Nat
      BY LenProperties, OptionAssumption
<1>2. CASE UNCHANGED writeQueue  BY <1>2 DEF HostWorks
<1>3. CASE writeQueue # <<>> /\ writeQueue' = Tail(writeQueue)
  <2>1. writeQueue' \in Seq(QueuedWrites) /\ Len(writeQueue') = Len(writeQueue) - 1
        BY <1>3, HeadTailProperties
  <2>2. QED  BY <1>1, <2>1 DEF HostWorks
<1>4. QED  BY <1>2, <1>3 DEF PopWrite

LEMMA HostAddsWorks ==
    ASSUME GcQueueInv, HostWorks, NEW a \in Addr, HostAdds(a)
    PROVE  HostWorks'
<1>1. UNCHANGED <<busy, currentTransaction, gc_status, panic_mode, erases>>
      BY DEF HostAdds, HostRead, HostWrite, HostUnchanged, currentVars, gcVars, statusVars
<1>2. ~Collecting => ~Collecting'  BY <1>1 DEF Collecting, Target, NumPlanes
<1>3. writeQueue \in Seq(QueuedWrites) /\ Len(writeQueue) \in Nat
      BY LenProperties DEF GcQueueInv, HostQueues
<1>4. CASE UNCHANGED writeQueue
  <2>1. Len(writeQueue') >= Len(writeQueue)  BY <1>3, <1>4
  <2>2. QED  BY <1>1, <1>2, <1>3, <1>4, <2>1, HostWorksOn DEF HostWorks
<1>5. CASE AddScheduledWrite(a) \/ AddPerfectWrite(a)
      BY <1>1, <1>2, <1>3, <1>5, AddedWriteFits, HostWorksOn DEF HostWorks, WriteQueueFits
<1>6. QED  BY <1>4, <1>5 DEF HostAdds, HostRead, HostWrite, AddToReadQueue

LEMMA HostTakenWorks ==
    ASSUME GcQueueInv, Collector, EraseInv, Forced, HostWorks, Take, TakeHost
    PROVE  HostWorks'
<1>1. /\ UNCHANGED <<readQueue, writeQueue, read_pointer>> /\ ~busy /\ ~Collecting
      /\ writeQueue \in Seq(QueuedWrites) /\ Len(writeQueue) \in Nat
      BY LenProperties DEF Take, TakeHost, queueVars, GcQueueInv, HostQueues
<1>2. CASE UNCHANGED currentVars
  <2>1. ~busy'  BY <1>1, <1>2 DEF currentVars
  <2>2. QED  BY <1>1, <2>1, HostWorksOn DEF HostWorks
<1>3. ASSUME NEW t, Start(t), SCHEDULE /\ t.type = "DATA_WRITE" => MustWrite
      PROVE  HostWorks'
  <2>1. CollectionMayEnd
    <3>1. busy' = TRUE  BY <1>3 DEF Start
    <3>2. ~ UNCHANGED currentVars  BY <1>1, <3>1 DEF currentVars
    <3>3. QED  BY <3>2, TakeHostCases
  <2>2. ~Collecting'  BY <1>1, <2>1, StillNotCollecting
  <2>3. QED  BY <1>1, <1>3, <2>2, HostWorksStarts
<1>4. CASE ScheduleRead /\ TwoQueues
  <2>1. ~MustWrite /\ readQueue # <<>> /\ Start(readQueue[read_pointer])
        BY <1>4 DEF ScheduleRead
  <2>2. Len(readQueue) \in Nat \ {0}
        BY <2>1, EmptySeq, LenProperties DEF GcQueueInv, HostQueues
  <2>3. read_pointer \in 1 .. Len(readQueue)
        BY <1>4, <2>1, <2>2 DEF GcQueueInv, HostQueues
  <2>4. readQueue[read_pointer].type = "DATA_READ"  BY <1>4, <2>3 DEF GcQueueInv, HostQueues
  <2>5. QED  BY <1>3, <2>1, <2>4
<1>5. CASE ScheduleWrite  BY <1>3, <1>5 DEF ScheduleWrite
<1>6. CASE ScheduleIdleWrite  BY <1>2, <1>3, <1>6 DEF ScheduleIdleWrite, Forced
<1>7. CASE TakeFront  BY <1>3, <1>7 DEF TakeFront, TwoQueues
<1>8. CASE ScheduleFromEmptyQueue \/ NothingToSchedule
      BY <1>2, <1>8 DEF ScheduleFromEmptyQueue, NothingToSchedule
<1>9. QED  BY <1>4, <1>5, <1>6, <1>7, <1>8 DEF TakeHost, scheduleCurrentTransaction

LEMMA HostWorksNext ==
    ASSUME GcQueueInv, ErasesOwned, Tables, Collector, EraseInv, Forced, HostWorks, NvStep
    PROVE  HostWorks'
<1>1. /\ writeQueue \in Seq(QueuedWrites) /\ Len(writeQueue) \in Nat
      /\ gcQueue \in Seq(GcTransactions)
      BY LenProperties DEF GcQueueInv, HostQueues
<1>2. ASSUME UNCHANGED writeQueue, busy' => busy /\ UNCHANGED currentTransaction,
             UNCHANGED statusVars \/ CollectionMayEnd \/ \E d \in Dies : Leaves(d)
      PROVE  HostWorks'
  <2>1. ~Collecting => ~Collecting'  BY <1>2, StillNotCollecting
  <2>2. Len(writeQueue') >= Len(writeQueue)  BY <1>1, <1>2
  <2>3. QED  BY <1>1, <1>2, <2>1, <2>2, HostWorksOn DEF HostWorks
<1>3. ASSUME gcQueue' \in Seq(GcTransactions), gcQueue' # <<>>, Start(Head(gcQueue')),
             UNCHANGED writeQueue
      PROVE  HostWorks'
  <2>1. Head(gcQueue') \in GcTransactions  BY <1>3, HeadTailProperties
  <2>2. Head(gcQueue').type # "DATA_WRITE"  BY <2>1, KindsDiffer
  <2>3. QED  BY <1>3, <2>1, <2>2, HostWorksStarts
<1>4. CASE HostExits \/ NothingDirty \/ UNCHANGED allVars
      BY <1>2, <1>4 DEF HostExits, NothingDirty, allVars, vars, gcVars, queueVars, currentVars
<1>5. CASE \E a \in Addr : HostAdds(a)  BY <1>5, HostAddsWorks
<1>6. CASE Panic
  <2>1. CollectionAdds(NumPlanes) /\ Start(Head(gcQueue')) /\ UNCHANGED writeQueue
        BY <1>6, PanicProperties DEF queueVars
  <2>2. PICK w \in Seq(Collectable) : gcQueue' = gcQueue \o w /\ w # <<>>
        BY <2>1 DEF CollectionAdds
  <2>3. w \in Seq(GcTransactions)  BY CollectableType, SeqMonotonic
  <2>4. gcQueue' \in Seq(GcTransactions) /\ gcQueue' # <<>>
        BY <1>1, <2>2, <2>3, ConcatProperties, ConcatEqualIffEmpty
  <2>5. QED  BY <1>3, <2>1, <2>4
<1>7. CASE Take
  <2>1. CASE TakeHost  BY <1>7, <2>1, HostTakenWorks
  <2>2. CASE TakeGc
    <3>1. gcQueue' = gcQueue /\ gcQueue # <<>> /\ Start(Head(gcQueue))
          BY <2>2 DEF TakeGc, collectVars
    <3>2. UNCHANGED writeQueue  BY <1>7 DEF Take, queueVars
    <3>3. QED  BY <1>1, <1>3, <3>1, <3>2
  <2>3. QED  BY <1>7, <2>1, <2>2 DEF Take
<1>8. CASE CollectionMayEnd /\ HostReads
  <2>1. UNCHANGED writeQueue /\ (busy' => busy /\ UNCHANGED currentTransaction)
    <3>1. busy  BY <1>8 DEF HostReads, Lookup, handle_read, Dispatching
    <3>2. UNCHANGED writeQueue /\ (busy' = FALSE \/ UNCHANGED currentTransaction)
          BY <1>8
             DEF HostReads, Lookup, handle_read, FoundInWriteQueue, AccessWriteQueue, ReadMapped,
                 ReadUnmapped, DiskRead, DiskReadNoPage, SendRead, ReadLeaves, TryNextRead,
                 ReadWaits, queueVars, currentVars
    <3>3. QED  BY <3>1, <3>2
  <2>2. QED  BY <1>2, <1>8, <2>1
<1>9. CASE CollectionMayEnd /\ GcReads
  <2>1. UNCHANGED writeQueue /\ (busy' => busy /\ UNCHANGED currentTransaction)
        BY <1>9 DEF GcReads, Dispatching, Idle, TryNextRead, ReadWaits, queueVars, currentVars
  <2>2. QED  BY <1>2, <1>9, <2>1
<1>10. CASE CollectionMayEnd /\ Writes
  <2> DEFINE a == currentTransaction.address
             p == FindFree(used, writePointer)
  <2>1. busy  BY <1>10 DEF Writes, Dispatching
  <2>2. CASE GcWriteSent(a, p)
    <3>1. PopWrite /\ ~busy'  BY <2>2 DEF GcWriteSent, GcWriteSuccess, Idle
    <3>2. QED  BY <1>1, <3>1, PoppedWriteFits, HostWorksOn
  <2>3. CASE GcWriteBlocked(a, p) \/ GcWriteNoPage
    <3>1. UNCHANGED <<writeQueue, currentTransaction>>
          BY <2>3 DEF GcWriteBlocked, GcWriteNoPage, queueVars, currentVars
    <3>2. QED  BY <1>2, <1>10, <2>1, <3>1
  <2>4. QED  BY <1>10, <2>2, <2>3 DEF Writes
<1>11. CASE CollectionMayEnd /\ Erases
  <2>1. UNCHANGED writeQueue /\ (busy' => busy /\ UNCHANGED currentTransaction)
        BY <1>11 DEF Erases, Dispatching, Idle, currentVars
  <2>2. QED  BY <1>2, <1>11, <2>1
<1>12. CASE \E d \in Dies : Leaves(d)
  <2>1. UNCHANGED <<writeQueue, busy, currentTransaction>>
        BY <1>12 DEF Leaves, queueVars, currentVars
  <2>2. QED  BY <1>2, <1>12, <2>1
<1>13. CASE \E r \in gcReading : GCReadDone(r)
  <2>1. UNCHANGED <<writeQueue, busy, currentTransaction>> /\ UNCHANGED statusVars
        BY <1>13 DEF GCReadDone, queueVars, currentVars
  <2>2. QED  BY <1>2, <2>1
<1>14. QED  BY <1>4, <1>5, <1>6, <1>7, <1>8, <1>9, <1>10, <1>11, <1>12, <1>13 DEF NvStep

-----------------------------------------------------------------------------
(* While nothing is copied, every mapped page is in use.                   *)
LEMMA NothingCopiedUsed ==
    ASSUME Copying, ~CopiesAny(gcQueue), NEW a \in Addr, Mapped(a)
    PROVE  addressMap[a] \in used
<1>1. ~Copies(gcQueue, a)  BY DEF Copies, CopiesAny, GcWrite
<1>2. QED  BY <1>1 DEF Copying, PagesCopied, Mapped

(* The parts of the invariant, in the next state.                          *)
LEMMA CopyingNext ==
    /\ HostWorks' /\ PagesCopied(addressMap', used', gcQueue')
         /\ ErasesCopied(addressMap', gcQueue')
         /\ (~CopiesAny(gcQueue') => NothingCopied') => Copying'
    /\ dirty' \subseteq used' /\ OneOwner(addressMap')
         /\ PendingCopied(addressMap', gc_pending_erase')
         /\ (\A a \in Addr : addressMap'[a] # NoPage /\ addressMap'[a] \in dirty' => HeldWrite(a)')
         => NothingCopied'
BY DEF Copying, NothingCopied, PagesCopied, ErasesCopied, CopiesAny, NumPages, NumBlocks, NoPage,
       OwnersIn, Copies, GcWrite, Reached, PendingCopied, OneOwner, Mapped

LEMMA CopyingWaits ==
    ASSUME Copying, HostWorks',
           UNCHANGED <<used, dirty, addressMap, gcQueue, gc_pending_erase>>,
           \A a : HeldWrite(a) => HeldWrite(a)'
    PROVE  Copying'
<1>1. ~CopiesAny(gcQueue') => NothingCopied'
  <2>1. ~CopiesAny(gcQueue) => NothingCopied  BY DEF Copying
  <2>2. QED  BY <2>1, CopyingNext DEF NothingCopied, Mapped
<1>2. QED  BY <1>1, CopyingNext DEF Copying

(* A page is taken, for the host outside a collection, or for the first    *)
(* GC_DATA_WRITE.                                                          *)
LEMMA CopyingTakes ==
    ASSUME Tables, GcQueueInv, Collector, EraseInv, Copying, HostWorks',
           NEW a \in Addr, NEW p \in Pages \ used,
           used' = used \cup {p}, addressMap' = [addressMap EXCEPT ![a] = p],
           dirty' = IF Mapped(a) THEN dirty \cup {addressMap[a]} ELSE dirty,
           UNCHANGED <<gcQueue, gc_pending_erase>>,
           ~Collecting \/ (gcQueue # <<>> /\ Head(gcQueue).type = "GC_DATA_WRITE"),
           \A c : HeldWrite(c) => c = a
    PROVE  Copying'
<1>1. /\ addressMap'[a] = p /\ \A c \in Addr \ {a} : addressMap'[c] = addressMap[c]
      /\ p # NoPage
      BY NoPageIsNoPage DEF Tables
<1>2. PagesCopied(addressMap', used', gcQueue')
  <2> SUFFICES ASSUME NEW c \in Addr, addressMap'[c] # NoPage, addressMap'[c] \notin used'
               PROVE  Copies(gcQueue, c)
      BY DEF PagesCopied
  <2>1. c # a /\ addressMap[c] # NoPage /\ addressMap[c] \notin used  BY <1>1
  <2>2. QED  BY <2>1 DEF Copying, PagesCopied
<1>3. ErasesCopied(addressMap', gcQueue')
  <2>1. CASE ~Collecting  BY <2>1, NotCollecting DEF ErasesCopied
  <2>2. CASE gcQueue # <<>> /\ Head(gcQueue).type = "GC_DATA_WRITE"
    <3>1. gcQueue[1].type = "GC_DATA_WRITE"  BY <2>2, SplitHead DEF GcQueueInv
    <3>2. ASSUME NEW i \in 1 .. Len(gcQueue), Reached(gcQueue, i)
          PROVE  gcQueue[i].type # "BLOCK_ERASE"
      <4>1. Len(gcQueue) \in Nat  BY LenProperties DEF GcQueueInv
      <4>2. i # 1 => 1 \in 1 .. i - 1  BY <4>1
      <4>3. i = 1  BY <3>1, <3>2, <4>2 DEF Reached
      <4>4. QED  BY <3>1, <4>3
    <3>3. QED  BY <3>2 DEF ErasesCopied
  <2>3. QED  BY <2>1, <2>2
<1>4. ASSUME ~CopiesAny(gcQueue)  PROVE NothingCopied'
  <2>1. NothingCopied /\ \A c \in Addr : addressMap[c] # NoPage => addressMap[c] \in used
        BY <1>4, NothingCopiedUsed DEF Copying, Mapped
  <2>2. ~Collecting
    <3>1. ASSUME gcQueue # <<>>  PROVE Head(gcQueue).type # "GC_DATA_WRITE"
      <4>1. 1 \in 1 .. Len(gcQueue) /\ Head(gcQueue) = gcQueue[1]
            BY <3>1, EmptySeq, LenProperties, SplitHead DEF GcQueueInv
      <4>2. QED  BY <1>4, <4>1 DEF CopiesAny
    <3>2. QED  BY <3>1
  <2>3. PendingCopied(addressMap', gc_pending_erase')
    <3>1. gc_pending_erase' = <<>>  BY <2>2, NotCollecting
    <3>2. Len(<<>>) = 0  BY EmptySeq
    <3>3. QED  BY <3>1, <3>2 DEF PendingCopied
  <2>4. dirty' \subseteq used'  BY <2>1 DEF NothingCopied, Mapped
  <2>5. OneOwner(addressMap')
    <3> SUFFICES ASSUME NEW c \in Addr, NEW e \in Addr,
                        addressMap'[c] # NoPage, addressMap'[c] = addressMap'[e]
                 PROVE  c = e
        BY DEF OneOwner
    <3>1. CASE c = a \/ e = a  BY <1>1, <2>1, <3>1
    <3>2. CASE c # a /\ e # a  BY <1>1, <2>1, <3>2 DEF NothingCopied, OneOwner
    <3>3. QED  BY <3>1, <3>2
  <2>6. ASSUME NEW c \in Addr, addressMap'[c] # NoPage, addressMap'[c] \in dirty'
        PROVE  FALSE
    <3>1. CASE c = a
      <4>1. p \notin dirty  BY <2>1 DEF NothingCopied
      <4>2. Mapped(a) => addressMap[a] # p  BY <2>1 DEF Mapped
      <4>3. QED  BY <1>1, <2>6, <3>1, <4>1, <4>2
    <3>2. CASE c # a
      <4>1. addressMap[c] # NoPage /\ addressMap[c] \in dirty'  BY <1>1, <2>6, <3>2
      <4>2. Mapped(a) => addressMap[c] # addressMap[a]
            BY <2>1, <3>2, <4>1 DEF NothingCopied, OneOwner, Mapped
      <4>3. addressMap[c] \in dirty  BY <4>1, <4>2
      <4>4. HeldWrite(c)  BY <2>1, <4>1, <4>3 DEF NothingCopied, Mapped
      <4>5. QED  BY <3>2, <4>4
    <3>3. QED  BY <3>1, <3>2
  <2>7. QED  BY <2>3, <2>4, <2>5, <2>6, CopyingNext
<1>5. QED  BY <1>2, <1>3, <1>4, CopyingNext

(* A write is refused, and has made its old page dirty.                    *)
LEMMA CopyingRefuses ==
    ASSUME Copying, HostWorks', NEW a \in Addr,
           dirty' = IF Mapped(a) THEN dirty \cup {addressMap[a]} ELSE dirty,
           UNCHANGED <<used, addressMap, gcQueue, gc_pending_erase>>,
           \A c : HeldWrite(c) => c = a,
           CopiesAny(gcQueue) \/ HeldWrite(a)'
    PROVE  Copying'
<1>1. ASSUME ~CopiesAny(gcQueue')  PROVE NothingCopied'
  <2>1. NothingCopied /\ HeldWrite(a)'  BY <1>1 DEF Copying
  <2>2. dirty' \subseteq used'
    <3>1. Mapped(a) => addressMap[a] \in used  BY <1>1, NothingCopiedUsed
    <3>2. QED  BY <2>1, <3>1 DEF NothingCopied
  <2>3. ASSUME NEW c \in Addr, addressMap'[c] # NoPage, addressMap'[c] \in dirty'
        PROVE  HeldWrite(c)'
    <3>1. CASE addressMap[c] \in dirty
      <4>1. HeldWrite(c)  BY <2>1, <2>3, <3>1 DEF NothingCopied, Mapped
      <4>2. c = a  BY <4>1
      <4>3. QED  BY <2>1, <4>2
    <3>2. CASE addressMap[c] \notin dirty
      <4>1. Mapped(a) /\ addressMap[c] = addressMap[a]  BY <2>3, <3>2
      <4>2. c = a  BY <2>1, <4>1 DEF NothingCopied, OneOwner, Mapped
      <4>3. QED  BY <2>1, <4>2
    <3>3. QED  BY <3>1, <3>2
  <2>4. QED  BY <2>1, <2>2, <2>3, CopyingNext DEF NothingCopied
<1>2. QED  BY <1>1, CopyingNext DEF Copying

(* The first of the gcQueue is sent: a read leaves the tables alone, an    *)
(* erase takes the pages of its block out of use.                          *)
LEMMA CopyingSends ==
    ASSUME GcQueueInv, Copying, HostWorks', UNCHANGED <<addressMap, gc_pending_erase>>,
           gcQueue # <<>>, gcQueue' = Tail(gcQueue), Head(gcQueue).type # "GC_DATA_WRITE",
           \A a : ~HeldWrite(a),
           \/ UNCHANGED <<used, dirty>>
           \/ \E b \in Blocks : Head(gcQueue) = BlockErase(b) /\ Clear(b)
    PROVE  Copying'
<1>1. /\ gcQueue \in Seq(GcTransactions)
      /\ 1 \in 1 .. Len(gcQueue) /\ Head(gcQueue) = gcQueue[1]
      BY EmptySeq, LenProperties, SplitHead DEF GcQueueInv
<1>2. /\ \A a : Copies(gcQueue, a) <=> Copies(gcQueue', a)
      /\ CopiesAny(gcQueue) <=> CopiesAny(gcQueue')
      /\ ErasesCopied(addressMap, gcQueue')
      BY <1>1, LeftCopies DEF Copying
<1>3. PagesCopied(addressMap', used', gcQueue')
  <2> SUFFICES ASSUME NEW a \in Addr, addressMap[a] # NoPage, addressMap[a] \notin used'
               PROVE  Copies(gcQueue, a)
      BY <1>2 DEF PagesCopied
  <2>1. CASE addressMap[a] \notin used  BY <2>1 DEF Copying, PagesCopied
  <2>2. ASSUME NEW b \in Blocks, Head(gcQueue) = BlockErase(b), Clear(b),
               addressMap[a] \in used
        PROVE  Copies(gcQueue, a)
    <3>1. BlockOf(addressMap[a]) = b  BY <2>2 DEF Clear
    <3>2. gcQueue[1].type = "BLOCK_ERASE" /\ gcQueue[1].address = b
          BY <1>1, <2>2 DEF BlockErase
    <3>3. a \in OwnersIn(addressMap, gcQueue[1].address)  BY <3>1, <3>2 DEF OwnersIn
    <3>4. Reached(gcQueue, 1)  BY DEF Reached
    <3>5. QED  BY <1>1, <3>2, <3>3, <3>4 DEF Copying, ErasesCopied
  <2>3. QED  BY <2>1, <2>2
<1>4. ASSUME ~CopiesAny(gcQueue')  PROVE NothingCopied'
  <2>1. NothingCopied  BY <1>2, <1>4 DEF Copying
  <2>2. dirty' \subseteq used' /\ dirty' \subseteq dirty  BY <2>1 DEF NothingCopied, Clear
  <2>3. \A a \in Addr : ~(addressMap[a] # NoPage /\ addressMap[a] \in dirty')
        BY <2>1, <2>2 DEF NothingCopied, Mapped
  <2>4. QED  BY <2>1, <2>2, <2>3, CopyingNext DEF NothingCopied
<1>5. QED  BY <1>2, <1>3, <1>4, CopyingNext

(* A read is done: its page is to be written, after the erase it was the   *)
(* last for.                                                               *)
LEMMA CopyingReadDone ==
    ASSUME GcQueueInv, Collector, Copying, HostWorks', NEW r \in gcReading, GCReadDone(r)
    PROVE  Copying'
<1> DEFINE a == r.address
           w == ReadFollowers(a)
           b == gc_pending_erase[Least(Completed(a))].erase_block
<1>1. UNCHANGED <<addressMap, used>> /\ gcQueue' = gcQueue \o w
      BY DEF GCReadDone, mapVars
<1>2. w \in Seq(GcTransactions) /\ gcQueue \in Seq(GcTransactions) /\ a \in Addr
  <2>1. a \in Addr  BY DEF Collector, GcReadPackets
  <2>2. w \in Seq({t \in GcTransactions : t.type # "GC_DATA_READ"})
        BY <2>1, ReadFollowersProperties DEF Collector
  <2> HIDE DEF w, a
  <2>3. QED  BY <2>1, <2>2, SeqMonotonic DEF GcQueueInv
<1>3. Copies(w, a) /\ CopiesAny(w)
      /\ \A i \in 1 .. Len(w) : w[i].type = "BLOCK_ERASE" =>
             Completed(a) # {} /\ w[i].address = b
  <2>1. CASE Completed(a) = {}
    <3>1. w = <<GcWrite(a)>>  BY <2>1 DEF ReadFollowers
    <3>2. Len(w) = 1 /\ w[1] = GcWrite(a)  BY <3>1
    <3> HIDE DEF w
    <3>3. QED  BY <3>2 DEF Copies, CopiesAny, GcWrite
  <2>2. CASE Completed(a) # {}
    <3>1. w = <<BlockErase(b), GcWrite(a)>>  BY <2>2 DEF ReadFollowers
    <3>2. Len(w) = 2 /\ w[1] = BlockErase(b) /\ w[2] = GcWrite(a)  BY <3>1
    <3> HIDE DEF w, b
    <3>3. 2 \in 1 .. Len(w)  BY <3>2
    <3>4. Copies(w, a) /\ CopiesAny(w)  BY <3>2, <3>3 DEF Copies, CopiesAny, GcWrite
    <3>5. ASSUME NEW i \in 1 .. Len(w), w[i].type = "BLOCK_ERASE"  PROVE w[i].address = b
      <4>1. i = 1 \/ i = 2  BY <3>2
      <4>2. w[2].type # "BLOCK_ERASE"  BY <3>2 DEF GcWrite
      <4>3. i = 1  BY <3>5, <4>1, <4>2
      <4>4. QED  BY <3>2, <4>3 DEF BlockErase
    <3>6. QED  BY <2>2, <3>4, <3>5
  <2>3. QED  BY <2>1, <2>2
<1>4. ASSUME ~CopiesAny(gcQueue), Completed(a) # {}, NEW c \in OwnersIn(addressMap, b)
      PROVE  c = a
  <2> DEFINE e == gc_pending_erase[Least(Completed(a))]
  <2>1. Least(Completed(a)) \in 1 .. Len(gc_pending_erase) /\ e.pending_reads = {a}
        BY <1>4, CompletedProperties DEF Collector
  <2>2. OwnersIn(addressMap, e.erase_block) \subseteq e.pending_reads
        BY <1>4, <2>1 DEF Copying, NothingCopied, PendingCopied
  <2>3. QED  BY <1>4, <2>1, <2>2
<1> HIDE DEF w, b
<1>5. \A c : Copies(gcQueue, c) \/ Copies(w, c) => Copies(gcQueue', c)
      BY <1>1, <1>2, AppendedCopies
<1>6. CopiesAny(gcQueue')  BY <1>1, <1>2, <1>3, AppendedCopies
<1>7. PagesCopied(addressMap', used', gcQueue')  BY <1>1, <1>5 DEF Copying, PagesCopied
<1>8. ErasesCopied(addressMap', gcQueue')
  <2>1. CopiesAny(gcQueue) \/
           \A i \in 1 .. Len(w) : w[i].type = "BLOCK_ERASE" =>
               \A c \in OwnersIn(addressMap, w[i].address) : Copies(gcQueue \o w, c)
    <3> SUFFICES ASSUME ~CopiesAny(gcQueue), NEW i \in 1 .. Len(w),
                        w[i].type = "BLOCK_ERASE", NEW c \in OwnersIn(addressMap, w[i].address)
                 PROVE  Copies(gcQueue \o w, c)
        OBVIOUS
    <3>1. c = a  BY <1>3, <1>4
    <3>2. QED  BY <1>1, <1>3, <1>5, <3>1
  <2>2. ErasesCopied(addressMap, gcQueue)  BY DEF Copying
  <2>3. ErasesCopied(addressMap, gcQueue \o w)  BY <1>2, <2>1, <2>2, AppendedCopies
  <2>4. QED  BY <1>1, <2>3
<1>9. QED  BY <1>6, <1>7, <1>8, CopyingNext

LEMMA WorkHeld ==
    ASSUME busy, NEW c, HeldWrite(c)
    PROVE  currentTransaction.type = "DATA_WRITE" /\ c = currentTransaction.address
           /\ ~Collecting
BY DEF HeldWrite, Write

LEMMA HeldStays ==
    ASSUME UNCHANGED <<writeQueue, busy, currentTransaction, used_page_count>>,
           ~Collecting => ~Collecting'
    PROVE  \A c : HeldWrite(c) => HeldWrite(c)'
BY DEF HeldWrite, MustWrite, Write

LEMMA HostAddsCopying ==
    ASSUME GcQueueInv, Copying, HostWorks', NEW a \in Addr, HostAdds(a)
    PROVE  Copying'
<1>1. UNCHANGED <<busy, currentTransaction, gc_status, panic_mode, erases, gcQueue,
                  gc_pending_erase, used_page_count, used, dirty, addressMap>>
      BY DEF HostAdds, HostRead, HostWrite, HostUnchanged, currentVars, gcVars, statusVars,
             countVars, collectVars, mapVars
<1>2. ~Collecting => ~Collecting'  BY <1>1 DEF Collecting, Target, NumPlanes
<1>3. writeQueue \in Seq(QueuedWrites) /\ HostWorks
      BY DEF GcQueueInv, HostQueues, Copying
<1>4. \A c : HeldWrite(c) => HeldWrite(c)'
  <2>1. CASE UNCHANGED writeQueue  BY <1>1, <1>2, <2>1, HeldStays
  <2>2. CASE SCHEDULE /\ AddScheduledWrite(a)
    <3>1. /\ writeQueue' \in Seq(QueuedWrites) /\ Len(writeQueue') >= Len(writeQueue)
          /\ Len(writeQueue') \in Nat /\ Len(writeQueue) \in Nat
          BY <1>3, <2>2, AddedWriteFits, LenProperties DEF HostWorks, WriteQueueFits
    <3>2. writeQueue # <<>> /\ Head(writeQueue) = currentTransaction =>
             writeQueue' # <<>> /\ Head(writeQueue') = currentTransaction
          BY <1>3, <2>2, ScheduledWriteKeepsHead
    <3>3. MustWrite => MustWrite'  BY <3>1, OptionAssumption DEF MustWrite
    <3>4. QED  BY <1>1, <1>2, <3>2, <3>3 DEF HeldWrite, Write
  <2>3. CASE ~SCHEDULE  BY <1>1, <1>2, <2>3 DEF HeldWrite, Write
  <2>4. QED  BY <2>1, <2>2, <2>3 DEF HostAdds, HostRead, HostWrite, AddToReadQueue
<1>5. QED  BY <1>1, <1>4, CopyingWaits

LEMMA TakeCopying ==
    ASSUME GcQueueInv, Tables, Collector, EraseInv, Copying, HostWorks', Take
    PROVE  Copying'
<1>1. /\ UNCHANGED <<writeQueue, used_page_count, used, dirty, addressMap>> /\ ~busy
      BY DEF Take, queueVars, countVars, mapVars
<1>2. CASE TakeGc
  <2>1. UNCHANGED <<gcQueue, gc_pending_erase>> /\ \A c : ~HeldWrite(c)
        BY <1>2 DEF TakeGc, collectVars, HeldWrite
  <2>2. QED  BY <1>1, <2>1, CopyingWaits
<1>3. ASSUME TakeHost, NEW c, HeldWrite(c)
      PROVE  /\ busy' = TRUE /\ currentTransaction' = currentTransaction
             /\ SCHEDULE /\ MustWrite
  <2>1. /\ SCHEDULE /\ MustWrite /\ writeQueue # <<>>
        /\ Head(writeQueue) = currentTransaction
        BY <1>1, <1>3 DEF HeldWrite
  <2>2. Start(Head(writeQueue))
        BY <1>3, <2>1
           DEF TakeHost, scheduleCurrentTransaction, TakeFront, ScheduleWrite, NothingToSchedule,
               ScheduleFromEmptyQueue, ScheduleRead, ScheduleIdleWrite, TwoQueues
  <2>3. QED  BY <2>1, <2>2 DEF Start
<1>4. CASE TakeHost /\ runGC /\ UNCHANGED currentVars
  <2>1. \A c : ~HeldWrite(c)  BY <1>1, <1>3, <1>4 DEF currentVars
  <2>2. ~Collecting  BY <1>4 DEF TakeHost
  <2>3. QED  BY <1>1, <1>4, <2>1, <2>2, CopyingStarts
<1>5. CASE TakeHost /\ UNCHANGED collectVars /\ CollectionMayEnd
  <2>1. UNCHANGED <<gcQueue, gc_pending_erase>>  BY <1>5 DEF collectVars
  <2>2. ~Collecting /\ ~Collecting'  BY <1>5, StillNotCollecting DEF TakeHost
  <2>3. \A c : HeldWrite(c) => HeldWrite(c)'  BY <1>1, <1>3, <1>5, <2>2 DEF HeldWrite, Write
  <2>4. QED  BY <1>1, <2>1, <2>3, CopyingWaits
<1>6. QED  BY <1>2, <1>4, <1>5, TakeHostCases DEF Take

LEMMA HostReadsCopying ==
    ASSUME GcQueueInv, Tables, Collector, EraseInv, Copying, HostWorks', HostReads,
           CollectionMayEnd
    PROVE  Copying'
<1> DEFINE a == currentTransaction.address
           p == FindFree(used, writePointer)
<1>1. /\ UNCHANGED <<dirty, gcQueue, gc_pending_erase>> /\ busy
      /\ used_page_count' = Plus(used_page_count, IF used' = used THEN 0 ELSE 1)
      BY DEF HostReads, collectVars, Lookup, handle_read, Dispatching
<1>2. CASE Lookup
  <2>1. UNCHANGED <<used, addressMap, writeQueue, busy, currentTransaction>>
        BY <1>2 DEF Lookup, mapVars, queueVars
  <2>2. used_page_count' = used_page_count  BY <1>1, <2>1, SameCount DEF Tables
  <2>3. ~Collecting => ~Collecting'  BY StillNotCollecting
  <2>4. \A c : HeldWrite(c) => HeldWrite(c)'  BY <2>1, <2>2, <2>3, HeldStays
  <2>5. QED  BY <1>1, <2>1, <2>4, CopyingWaits
<1>3. CASE handle_read
  <2>1. currentTransaction.type = "DATA_READ"  BY <1>3 DEF handle_read, Dispatching
  <2>2. \A c : ~HeldWrite(c)  BY <1>1, <2>1, WorkHeld
  <2>3. CASE DiskRead(a)
    <3>1. /\ ~Mapped(a) /\ p # NoPage /\ used' = used \cup {p}
          /\ addressMap' = [addressMap EXCEPT ![a] = p]
          BY <2>3 DEF DiskRead
    <3>2. p \in Pages \ used  BY <3>1, FindFreeSound DEF Tables
    <3>3. a \in Addr  BY <2>1, WorkAddress
    <3>4. ~Collecting
      <4>1. currentTransaction \notin GcTransactions  BY <2>1, KindsDiffer
      <4>2. QED  BY <1>1, <4>1 DEF Copying, HostWorks
    <3> HIDE DEF a, p
    <3>5. QED  BY <1>1, <2>2, <3>1, <3>2, <3>3, <3>4, CopyingTakes
  <2>4. CASE ~DiskRead(a)
    <3>1. UNCHANGED <<used, addressMap>>
          BY <1>3, <2>4 DEF handle_read, FoundInWriteQueue, AccessWriteQueue, ReadMapped,
                            ReadUnmapped, DiskReadNoPage, mapVars
    <3>2. QED  BY <1>1, <2>2, <3>1, CopyingWaits
  <2>5. QED  BY <2>3, <2>4
<1>4. QED  BY <1>2, <1>3 DEF HostReads

LEMMA WritesCopying ==
    ASSUME GcQueueInv, Tables, Collector, EraseInv, Forced, Copying, HostWorks', Normal,
           Writes, CollectionMayEnd
    PROVE  Copying'
<1> DEFINE a == currentTransaction.address
           p == FindFree(used, writePointer)
<1>1. /\ UNCHANGED <<gcQueue, gc_pending_erase>> /\ busy
      /\ dirty' = IF Mapped(a) THEN dirty \cup {addressMap[a]} ELSE dirty
      /\ currentTransaction.type \in {"DATA_WRITE", "GC_DATA_WRITE"}
      BY DEF Writes, collectVars, Dispatching, MarkOld
<1>2. a \in Addr  BY <1>1, WorkAddress
<1>3. \A c : HeldWrite(c) => c = a  BY <1>1, WorkHeld
<1>4. CASE currentTransaction.type = "DATA_WRITE"
  <2>1. currentTransaction = Write(a) /\ currentTransaction \notin GcTransactions
    <3>1. currentTransaction \notin GcTransactions  BY <1>4, KindsDiffer
    <3>2. currentTransaction \in Transactions
          BY <1>4, <3>1 DEF GcQueueInv, EmptyTransactions
    <3>3. QED  BY <1>4, <3>1, <3>2 DEF Transactions, Write
  <2>2. ~Collecting /\ QueuedCurrent
        BY <1>1, <2>1 DEF Copying, HostWorks, GcQueueInv, WorkIsQueued, GcTransactions
  <2>3. ~Collecting'  BY <2>2, StillNotCollecting
  <2>4. used_page_count < ForcePages
    <3>1. /\ used_page_count \in Int /\ ForcePages \in Nat /\ VirtualPages \in Nat
          /\ ForcePages >= VirtualPages
          BY CollectAssumption DEF Tables, Forced
    <3>2. used_page_count >= ForcePages => used_page_count < VirtualPages
          BY <2>2 DEF Normal, TooFull
    <3>3. QED  BY <3>1, <3>2
  <2>5. CASE GcWriteSent(a, p) /\ p # NoPage
    <3>1. /\ used' = used \cup {p} /\ addressMap' = [addressMap EXCEPT ![a] = p]
          BY <2>5 DEF GcWriteSent, GcWriteSuccess
    <3>2. p \in Pages \ used  BY <2>5, FindFreeSound DEF Tables
    <3> HIDE DEF a, p
    <3>3. QED  BY <1>1, <1>2, <1>3, <2>2, <3>1, <3>2, CopyingTakes
  <2>6. CASE GcWriteBlocked(a, p) \/ GcWriteNoPage
    <3>1. UNCHANGED <<used, addressMap, used_page_count, writeQueue, currentTransaction>>
          /\ (busy' = ~SCHEDULE \/ UNCHANGED busy)
          BY <2>6 DEF GcWriteBlocked, GcWriteNoPage, queueVars, currentVars
    <3>2. SCHEDULE => MustWrite /\ writeQueue # <<>> /\ Head(writeQueue) = currentTransaction
          BY <1>1, <1>4, <2>2 DEF Copying, HostWorks, QueuedCurrent, TwoQueues
    <3>3. PICK c \in Addr : c = a  BY <1>2
    <3>4. HeldWrite(c)'
      <4>1. busy' \/ SCHEDULE  BY <1>1, <3>1
      <4>2. SCHEDULE => MustWrite'  BY <3>1, <3>2 DEF MustWrite
      <4>3. currentTransaction' = Write(c)  BY <2>1, <3>1, <3>3
      <4>4. used_page_count' < ForcePages  BY <2>4, <3>1
      <4>5. busy' \/ (SCHEDULE /\ MustWrite' /\ writeQueue' # <<>>
                        /\ Head(writeQueue') = currentTransaction')
        <5> HIDE DEF a
        <5>1. QED  BY <3>1, <3>2, <4>1, <4>2
      <4>6. QED  BY <2>3, <4>3, <4>4, <4>5 DEF HeldWrite, Write
    <3>5. UNCHANGED <<used, addressMap>>  BY <3>1
    <3> HIDE DEF a, p
    <3>6. QED  BY <1>1, <1>3, <3>3, <3>4, <3>5, CopyingRefuses
  <2>7. QED  BY <2>5, <2>6 DEF Writes
<1>5. CASE currentTransaction.type = "GC_DATA_WRITE"
  <2>1. currentTransaction \in GcTransactions
    <3>1. \A t \in Transactions \cup EmptyTransactions : t.type # "GC_DATA_WRITE"
          BY DEF Transactions, EmptyTransactions
    <3>2. QED  BY <1>5, <3>1 DEF GcQueueInv
  <2>2. gcQueue # <<>> /\ Head(gcQueue) = currentTransaction
        BY <1>1, <2>1 DEF GcQueueInv, WorkIsQueued, GcTransactions
  <2>3. CopiesAny(gcQueue)
    <3>1. 1 \in 1 .. Len(gcQueue) /\ Head(gcQueue) = gcQueue[1]
          BY <2>2, EmptySeq, LenProperties, SplitHead DEF GcQueueInv
    <3>2. QED  BY <1>5, <2>2, <3>1 DEF CopiesAny
  <2>4. CASE GcWriteSent(a, p) /\ p # NoPage
    <3>1. /\ used' = used \cup {p} /\ addressMap' = [addressMap EXCEPT ![a] = p]
          BY <2>4 DEF GcWriteSent, GcWriteSuccess
    <3>2. p \in Pages \ used  BY <2>4, FindFreeSound DEF Tables
    <3>3. gcQueue # <<>> /\ Head(gcQueue).type = "GC_DATA_WRITE"  BY <1>5, <2>2
    <3> HIDE DEF a, p
    <3>4. QED  BY <1>1, <1>2, <1>3, <3>1, <3>2, <3>3, CopyingTakes
  <2>5. CASE GcWriteBlocked(a, p) \/ GcWriteNoPage
    <3>1. UNCHANGED <<used, addressMap>>
          BY <2>5 DEF GcWriteBlocked, GcWriteNoPage
    <3> HIDE DEF a, p
    <3>2. QED  BY <1>1, <1>2, <1>3, <2>3, <3>1, CopyingRefuses
  <2>6. QED  BY <2>4, <2>5 DEF Writes
<1>6. QED  BY <1>1, <1>4, <1>5

LEMMA GcReadsCopying ==
    ASSUME GcQueueInv, Copying, HostWorks', GcReads
    PROVE  Copying'
<1>1. /\ UNCHANGED <<used, dirty, addressMap, gc_pending_erase>> /\ busy
      /\ currentTransaction.type = "GC_DATA_READ"
      /\ gcQueue' = Tail(gcQueue) \/ UNCHANGED gcQueue
      BY DEF GcReads, Dispatching, mapVars, countVars
<1>2. \A c : ~HeldWrite(c)  BY <1>1, WorkHeld
<1>3. currentTransaction \in GcTransactions
  <2>1. \A t \in Transactions \cup EmptyTransactions : t.type # "GC_DATA_READ"
        BY DEF Transactions, EmptyTransactions
  <2>2. QED  BY <1>1, <2>1 DEF GcQueueInv
<1>4. gcQueue # <<>> /\ Head(gcQueue) = currentTransaction
      BY <1>1, <1>3 DEF GcQueueInv, WorkIsQueued, GcTransactions
<1>5. CASE UNCHANGED gcQueue  BY <1>1, <1>2, <1>5, CopyingWaits
<1>6. CASE gcQueue' = Tail(gcQueue)  BY <1>1, <1>2, <1>4, <1>6, CopyingSends
<1>7. QED  BY <1>1, <1>5, <1>6

LEMMA ErasesCopying ==
    ASSUME GcQueueInv, ErasesOwned, Copying, HostWorks', Erases
    PROVE  Copying'
<1> DEFINE b == currentTransaction.address
<1>1. /\ UNCHANGED <<addressMap, gc_pending_erase>> /\ busy
      /\ currentTransaction.type = "BLOCK_ERASE"
      BY DEF Erases, Dispatching
<1>2. \A c : ~HeldWrite(c)  BY <1>1, WorkHeld
<1>3. /\ currentTransaction \in GcTransactions /\ currentTransaction \in Erasures
      /\ currentTransaction = BlockErase(b) /\ b \in Blocks
  <2>1. \A t \in Transactions \cup EmptyTransactions : t.type # "BLOCK_ERASE"
        BY DEF Transactions, EmptyTransactions
  <2>2. currentTransaction \in GcTransactions  BY <1>1, <2>1 DEF GcQueueInv
  <2>3. currentTransaction \in [type : {"BLOCK_ERASE"}, address : Blocks]
        BY <1>1, <2>2 DEF GcTransactions
  <2>4. QED  BY <2>2, <2>3 DEF Erasures, BlockErase
<1>4. gcQueue # <<>> /\ Head(gcQueue) = currentTransaction
      BY <1>1, <1>3 DEF GcQueueInv, WorkIsQueued, GcTransactions
<1>5. Collecting  BY <1>1, <1>3 DEF ErasesOwned
<1>6. CASE Clear(b) /\ PopErase
  <2>1. gcQueue' = Tail(gcQueue)  BY <1>5, <1>6 DEF PopErase
  <2>2. Head(gcQueue).type # "GC_DATA_WRITE"  BY <1>1, <1>4
  <2> HIDE DEF b
  <2>3. QED  BY <1>1, <1>2, <1>3, <1>4, <1>6, <2>1, <2>2, CopyingSends
<1>7. CASE UNCHANGED <<used, gcQueue, countVars>>
  <2>1. UNCHANGED dirty  BY <1>7 DEF countVars
  <2>2. QED  BY <1>1, <1>2, <1>7, <2>1, CopyingWaits
<1>8. QED  BY <1>6, <1>7 DEF Erases

-----------------------------------------------------------------------------
LEMMA CopyingStep ==
    ASSUME GcQueueInv, ErasesOwned, Tables, Collector, EraseInv, Forced, Copying, NvStep
    PROVE  Copying'
<1>1. HostWorks'  BY HostWorksNext DEF Copying
<1>2. CASE HostExits \/ NothingDirty \/ UNCHANGED allVars
  <2>1. /\ UNCHANGED <<writeQueue, busy, currentTransaction, used_page_count>>
        /\ UNCHANGED <<used, dirty, addressMap, gcQueue, gc_pending_erase>>
        /\ UNCHANGED statusVars
        BY <1>2 DEF HostExits, NothingDirty, allVars, vars, gcVars, queueVars, currentVars,
                    countVars, collectVars, mapVars
  <2>2. ~Collecting => ~Collecting'  BY <2>1, StillNotCollecting
  <2>3. QED  BY <1>1, <2>1, <2>2, HeldStays, CopyingWaits
<1>3. CASE \E a \in Addr : HostAdds(a)  BY <1>1, <1>3, HostAddsCopying
<1>4. CASE Panic
  <2>1. ~Collecting /\ used_page_count >= ForcePages /\ runPanicGC
        /\ UNCHANGED <<used, dirty, addressMap>>
        BY <1>4 DEF Panic, TooFull, mapVars, countVars
  <2>2. used_page_count \in Int /\ ForcePages \in Int
        BY CollectAssumption DEF Tables
  <2>3. \A a : ~HeldWrite(a)  BY <2>1, <2>2 DEF HeldWrite
  <2>4. QED  BY <1>1, <2>1, <2>3, CopyingStarts
<1>5. CASE Take  BY <1>1, <1>5, TakeCopying
<1>6. CASE HostReads /\ CollectionMayEnd  BY <1>1, <1>6, HostReadsCopying
<1>7. CASE GcReads  BY <1>1, <1>7, GcReadsCopying
<1>8. CASE Writes /\ Normal /\ CollectionMayEnd  BY <1>1, <1>8, WritesCopying
<1>9. CASE Erases  BY <1>1, <1>9, ErasesCopying
<1>10. CASE \E d \in Dies : Leaves(d)
  <2>1. /\ UNCHANGED <<writeQueue, busy, currentTransaction, used_page_count>>
        /\ UNCHANGED <<used, dirty, addressMap, gcQueue, gc_pending_erase>>
        BY <1>10 DEF Leaves, queueVars, currentVars, countVars, collectVars, mapVars
  <2>2. ~Collecting => ~Collecting'  BY <1>10, StillNotCollecting
  <2>3. QED  BY <1>1, <2>1, <2>2, HeldStays, CopyingWaits
<1>11. CASE \E r \in gcReading : GCReadDone(r)  BY <1>1, <1>11, CopyingReadDone
<1>12. QED
       BY <1>2, <1>3, <1>4, <1>5, <1>6, <1>7, <1>8, <1>9, <1>10, <1>11 DEF NvStep

(* Of the first process only, and where a refused write is tried again     *)
(* before a collection.                                                    *)
CopyInv == restarts = 0 /\ Forced => Copying

LEMMA CopyInvInit == GcNvInit => CopyInv
<1> SUFFICES ASSUME GcNvInit PROVE Copying  BY DEF CopyInv
<1>1. /\ writeQueue = <<>> /\ busy = FALSE /\ used = {} /\ dirty = {}
      /\ addressMap = [a \in Addr |-> NoPage] /\ gcQueue = <<>> /\ gc_pending_erase = <<>>
      BY DEF GcNvInit, GcInit, Init
<1>2. HostWorks  BY <1>1, EmptySeq, OptionAssumption DEF HostWorks
<1>3. \A a \in Addr : addressMap[a] = NoPage  BY <1>1
<1>4. PagesCopied(addressMap, used, gcQueue)  BY <1>3 DEF PagesCopied
<1>5. ErasesCopied(addressMap, gcQueue) /\ PendingCopied(addressMap, gc_pending_erase)
      BY <1>1, EmptySeq DEF ErasesCopied, PendingCopied
<1>6. NothingCopied  BY <1>1, <1>3, <1>5 DEF NothingCopied, OneOwner, Mapped
<1>7. QED  BY <1>2, <1>4, <1>5, <1>6 DEF Copying

LEMMA CopyInvNext == GcInv /\ CopyInv /\ [GcNvNext]_<<allVars, nvVars>> => CopyInv'
<1> SUFFICES ASSUME GcInv, CopyInv, [GcNvNext]_<<allVars, nvVars>>, restarts' = 0, Forced
             PROVE  Copying'
    BY DEF CopyInv, Forced
<1>1. /\ GcQueueInv /\ TableInv /\ CollectorInv /\ Tables /\ Collector /\ EraseInv
      /\ ErasesOwned
      BY ErasesAreOwned DEF GcInv, TableInv, CollectorInv, CollectionInv
<1>2. CASE NvStep /\ UNCHANGED nvVars
  <2>1. Copying  BY <1>2 DEF nvVars, CopyInv
  <2>2. QED  BY <1>1, <1>2, <2>1, CopyingStep
<1>3. CASE GcSaveNVState
  <2>1. Copying /\ NvStep  BY <1>3 DEF GcSaveNVState, CopyInv, NvStep
  <2>2. QED  BY <1>1, <2>1, CopyingStep
<1>4. CASE RestartGc
  <2>1. restarts' = restarts + 1 /\ restarts \in Nat  BY <1>1, <1>4 DEF RestartGc, TableInv
  <2>2. QED  BY <2>1
<1>5. QED  BY <1>2, <1>3, <1>4, NvSteps

(* No erased page is lost (GCFtl.cpp:279, 350): in the life of the first   *)
(* process, if neither the thresholds nor idle writes let a collection     *)
(* start between a refused write and its retry, an address that points     *)
(* into an erased block has its GC_DATA_WRITE in the gcQueue.              *)
THEOREM ErasedPagesAreCopied == GcNvSpec => []ErasedPagesCopiedAtFirst
<1>1. GcInv /\ CopyInv => ErasedPagesCopiedAtFirst
  <2> SUFFICES ASSUME GcInv, CopyInv, restarts = 0, Forced,
                      NEW a \in Addr, Mapped(a), addressMap[a] \notin used
               PROVE  InGcQueue(GcWrite(a))
      BY DEF ErasedPagesCopiedAtFirst, ErasedPagesCopied, Forced
  <2>1. Copies(gcQueue, a)  BY DEF CopyInv, Copying, PagesCopied, Mapped
  <2>2. DOMAIN gcQueue = 1 .. Len(gcQueue)  BY LenProperties DEF GcInv, GcQueueInv
  <2>3. QED  BY <2>1, <2>2 DEF Copies, InGcQueue
<1>2. GcNvSpec => []CopyInv  BY CopyInvInit, CopyInvNext, GcInvHolds, PTL DEF GcNvSpec
<1>3. QED  BY <1>1, <1>2, GcInvHolds, PTL
=============================================================================
