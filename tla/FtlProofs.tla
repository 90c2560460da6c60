----------------------------- MODULE FtlProofs -----------------------------
(***************************************************************************)
(* Proofs about Ftl, for every geometry, every set of addresses, every     *)
(* queue length and every combination of the scheduling options, and about *)
(* FtlRestart, for every number of saves and restarts.                     *)
(*                                                                         *)
(* The inductive invariant comes in three parts that are proved one after  *)
(* the other: QueueInv (the queues, the read pointer and the current       *)
(* transaction), FlagInv (the controller queues and the flags that wait    *)
(* for them) and MapInv (the used pages and the address map).              *)
(***************************************************************************)
EXTENDS FtlRestart, CountingFacts

QueuedWrites == [type : {"DATA_WRITE"}, address : Addr]

-----------------------------------------------------------------------------
(* The device arithmetic, for every geometry.                              *)

LEMMA LeastIn ==
    ASSUME NEW S \in SUBSET Nat, S # {}
    PROVE  Least(S) \in S
BY LeastExists DEF Least

LEMMA NumPagesType == NumPages \in Nat \ {0}
<1>1. NUM_PACKAGES * DIES_PER_PACKAGE \in Nat \ {0}
      BY ProductType, GeometryAssumption
<1>2. NUM_PACKAGES * DIES_PER_PACKAGE * PLANES_PER_DIE \in Nat \ {0}
      BY <1>1, ProductType, GeometryAssumption
<1>3. NumBlocks \in Nat \ {0}
      BY <1>2, ProductType, GeometryAssumption DEF NumBlocks
<1>4. QED  BY <1>3, ProductType, GeometryAssumption DEF NumPages

LEMMA NoPageIsNoPage == NoPage \notin Pages /\ Pages \subseteq Nat
BY NumPagesType DEF NoPage, Pages

(* Ftl::translate never names a package or a die that does not exist.      *)
LEMMA DieOfType ==
    ASSUME NEW p \in Pages
    PROVE  DieOf(p) \in Dies
<1>1. p \in Nat  BY NoPageIsNoPage
<1>2. BlockOf(p) \in Nat
      BY <1>1, QuotientType, GeometryAssumption DEF BlockOf
<1>3. PlaneNumber(p) \in Nat
      BY <1>2, QuotientType, GeometryAssumption DEF PlaneNumber
<1>4. DieNumber(p) \in Nat
      BY <1>3, QuotientType, GeometryAssumption DEF DieNumber
<1>5. translate(p).die \in 0 .. DIES_PER_PACKAGE - 1
      BY <1>4, RemainderType, GeometryAssumption DEF translate
<1>6. translate(p).package \in Packages
  <2>1. DieNumber(p) \div DIES_PER_PACKAGE \in Nat
        BY <1>4, QuotientType, GeometryAssumption
  <2>2. (DieNumber(p) \div DIES_PER_PACKAGE) % NUM_PACKAGES
            \in 0 .. NUM_PACKAGES - 1
        BY <2>1, RemainderType, GeometryAssumption
  <2>3. QED  BY <2>2 DEF translate, Packages
<1>7. QED  BY <1>5, <1>6 DEF DieOf, Dies

(* The write pointer stays on the device.                                  *)
LEMMA AdvanceType ==
    ASSUME NEW ptr \in Pointers
    PROVE  Advance(ptr) \in Pointers
<1> DEFINE c == (ptr.channel + 1) % NUM_PACKAGES
           d == (ptr.die + 1) % DIES_PER_PACKAGE
           pl == (ptr.plane + 1) % PLANES_PER_DIE
<1>1. /\ ptr.channel + 1 \in Nat /\ ptr.die + 1 \in Nat /\ ptr.plane + 1 \in Nat
      /\ ptr.die \in 0 .. DIES_PER_PACKAGE - 1 /\ ptr.plane \in Planes
      BY GeometryAssumption DEF Pointers, Packages, Planes
<1>2. c \in Packages
  <2>1. (ptr.channel + 1) % NUM_PACKAGES \in 0 .. NUM_PACKAGES - 1
    <3> DEFINE m == ptr.channel + 1
    <3>1. m \in Nat  BY <1>1
    <3> HIDE DEF m
    <3>2. m % NUM_PACKAGES \in 0 .. NUM_PACKAGES - 1
          BY <3>1, RemainderType, GeometryAssumption
    <3>3. QED  BY <3>2 DEF m
  <2>2. QED  BY <2>1 DEF Packages
<1>3. d \in 0 .. DIES_PER_PACKAGE - 1
  <2> DEFINE m == ptr.die + 1
  <2>1. m \in Nat  BY <1>1
  <2> HIDE DEF m
  <2>2. m % DIES_PER_PACKAGE \in 0 .. DIES_PER_PACKAGE - 1
        BY <2>1, RemainderType, GeometryAssumption
  <2>3. QED  BY <2>2 DEF m
<1>4. pl \in Planes
  <2> DEFINE m == ptr.plane + 1
  <2>1. m \in Nat  BY <1>1
  <2> HIDE DEF m
  <2>2. m % PLANES_PER_DIE \in 0 .. PLANES_PER_DIE - 1
        BY <2>1, RemainderType, GeometryAssumption
  <2>3. QED  BY <2>2 DEF m, Planes
<1> HIDE DEF c, d, pl
<1>5. Advance(ptr) =
        [channel |-> c,
         die |-> IF c = 0 THEN d ELSE ptr.die,
         plane |-> IF c = 0 /\ (IF c = 0 THEN d ELSE ptr.die) = 0 THEN pl
                   ELSE ptr.plane]
      BY DEF Advance, c, d, pl
<1>6. QED  BY <1>1, <1>2, <1>3, <1>4, <1>5 DEF Pointers

(* The search of handle_write and handle_disk_read only ever returns a     *)
(* page of the device that is not marked used.                             *)
THEOREM FindFreeSound ==
    ASSUME NEW taken \in SUBSET Pages, NEW ptr
    PROVE  FindFree(taken, ptr) \in (Pages \ taken) \cup {NoPage}
<1> DEFINE ahead == FreeIn(taken, StartBlock(ptr), NumBlocks)
           below == FreeIn(taken, 0, SecondScanEnd(ptr))
<1>1. /\ ahead \subseteq Pages \ taken /\ ahead \in SUBSET Nat
      /\ below \subseteq Pages \ taken /\ below \in SUBSET Nat
      BY NoPageIsNoPage DEF FreeIn
<1>2. /\ ahead # {} => Least(ahead) \in ahead
      /\ below # {} => Least(below) \in below
      BY <1>1, LeastIn
<1> HIDE DEF ahead, below
<1>3. FindFree(taken, ptr) =
         IF ahead # {} THEN Least(ahead)
         ELSE IF below # {} THEN Least(below) ELSE NoPage
      BY DEF FindFree, ahead, below
<1>4. QED  BY <1>1, <1>2, <1>3
-----------------------------------------------------------------------------
(* The queues, the read pointer and the current transaction.               *)

QueueInv ==
    /\ readQueue \in Seq(Transactions)
    /\ writeQueue \in Seq(QueuedWrites)
    /\ read_pointer \in Nat \ {0} /\ read_iterator_counter \in Nat
    /\ busy \in BOOLEAN
    /\ currentTransaction \in Transactions \cup EmptyTransactions
    /\ lookupCounter \in Nat
    /\ TwoQueues => \A i \in 1 .. Len(readQueue) : readQueue[i].type = "DATA_READ"
    /\ ~TwoQueues => writeQueue = <<>>
    /\ ~SCHEDULE => read_iterator_counter = 0
    /\ RetriesInStep
    /\ CurrentIsQueued

LEMMA TransactionTypes ==
    ASSUME NEW a \in Addr
    PROVE  /\ Read(a) \in Transactions /\ Read(a).type = "DATA_READ"
           /\ Write(a) \in QueuedWrites /\ Write(a) \in Transactions
           /\ Read(a).address = a /\ Write(a).address = a
BY DEF Read, Write, Transactions, QueuedWrites

LEMMA QueueInit == Init => QueueInv
<1> SUFFICES ASSUME Init PROVE QueueInv  OBVIOUS
<1>1. /\ <<>> \in Seq(Transactions) /\ <<>> \in Seq(QueuedWrites)
      /\ Len(readQueue) = 0
      BY EmptySeq DEF Init
<1>2. currentTransaction \in Transactions \cup EmptyTransactions  BY DEF Init
<1>3. RetriesInStep /\ CurrentIsQueued
      BY DEF Init, RetriesInStep, CurrentIsQueued
<1>4. busy \in BOOLEAN /\ readQueue \in Seq(Transactions)
      /\ writeQueue \in Seq(QueuedWrites)
      BY <1>1, Zenon DEF Init
<1>5. /\ read_pointer \in Nat \ {0} /\ read_iterator_counter = 0
      /\ read_iterator_counter \in Nat /\ lookupCounter \in Nat
      BY DEF Init
<1>6. writeQueue = <<>>  BY DEF Init
<1>7. \A i \in 1 .. Len(readQueue) : readQueue[i].type = "DATA_READ"  BY <1>1
<1>8. QED  BY <1>2, <1>3, <1>4, <1>5, <1>6, <1>7, Zenon DEF QueueInv

(* A transaction appended to the read queue moves nothing that is there.   *)
LEMMA AddToReadQueueInv ==
    ASSUME QueueInv, NEW t \in Transactions, TwoQueues => t.type = "DATA_READ",
           AddToReadQueue(t), UNCHANGED <<read_iterator_counter, currentVars>>
    PROVE  QueueInv'
<1>1. /\ readQueue' \in Seq(Transactions) /\ Len(readQueue') = Len(readQueue) + 1
      /\ \A i \in 1 .. Len(readQueue) : readQueue'[i] = readQueue[i]
      /\ readQueue'[Len(readQueue) + 1] = t
      /\ readQueue' # <<>> /\ Len(readQueue) \in Nat
      BY AppendProperties, LenProperties DEF AddToReadQueue, QueueInv
<1>2. /\ DOMAIN readQueue = 1 .. Len(readQueue)
      /\ DOMAIN readQueue' = 1 .. Len(readQueue) + 1
      BY <1>1, LenProperties DEF QueueInv
<1>3. read_pointer' = read_pointer
  <2>1. CASE readQueue = <<>>
    <3>1. Len(readQueue) = 0  BY <2>1
    <3>2. read_pointer = 1  BY <3>1 DEF QueueInv, RetriesInStep
    <3>3. QED  BY <3>2 DEF AddToReadQueue
  <2>2. CASE readQueue # <<>>  BY <2>2 DEF AddToReadQueue
  <2>3. QED  BY <2>1, <2>2
<1>4. UNCHANGED <<writeQueue, read_iterator_counter, busy, currentTransaction,
                  lookupCounter>>
      BY DEF AddToReadQueue, currentVars
<1>5. RetriesInStep'  BY <1>1, <1>3, <1>4 DEF QueueInv, RetriesInStep
<1>6. CurrentIsQueued'
  <2> SUFFICES ASSUME busy' PROVE QueuedCurrent'  BY DEF CurrentIsQueued
  <2>1. QueuedCurrent  BY <1>4 DEF QueueInv, CurrentIsQueued
  <2>2. CASE ~TwoQueues
    <3>1. readQueue # <<>> /\ Head(readQueue) = currentTransaction
          BY <2>1, <2>2 DEF QueuedCurrent
    <3>2. Head(readQueue') = Head(readQueue)
          BY <3>1, HeadTailAppend DEF QueueInv, AddToReadQueue
    <3>3. QED  BY <1>1, <1>4, <2>2, <3>1, <3>2 DEF QueuedCurrent, TwoQueues
  <2>3. CASE TwoQueues
        BY <1>1, <1>2, <1>3, <1>4, <2>1, <2>3 DEF QueuedCurrent, TwoQueues
  <2>4. QED  BY <2>2, <2>3
<1>7. TwoQueues => \A i \in 1 .. Len(readQueue') : readQueue'[i].type = "DATA_READ"
      BY <1>1 DEF QueueInv
<1>8. QED  BY <1>1, <1>3, <1>4, <1>5, <1>6, <1>7 DEF QueueInv, TwoQueues

(* Replacing a queued write leaves the one being worked on at the front.   *)
LEMMA ReplaceableProperties ==
    ASSUME writeQueue \in Seq(QueuedWrites), NEW a \in Addr, Replaceable(a) # {}
    PROVE  /\ Least(Replaceable(a)) \in 1 .. Len(writeQueue)
           /\ currentTransaction.address # a
           /\ writeQueue[Least(Replaceable(a))].address = a
<1>1. DOMAIN writeQueue = 1 .. Len(writeQueue) /\ Len(writeQueue) \in Nat
      BY LenProperties
<1>2. Replaceable(a) \in SUBSET Nat  BY <1>1 DEF Replaceable
<1>3. Least(Replaceable(a)) \in Replaceable(a)  BY <1>2, LeastIn
<1>4. QED  BY <1>1, <1>3 DEF Replaceable

LEMMA ScheduledWriteKeepsHead ==
    ASSUME writeQueue \in Seq(QueuedWrites), NEW a \in Addr, AddScheduledWrite(a)
    PROVE  /\ writeQueue' \in Seq(QueuedWrites)
           /\ writeQueue # <<>> /\ Head(writeQueue) = currentTransaction =>
                 writeQueue' # <<>> /\ Head(writeQueue') = currentTransaction
<1> DEFINE r == Least(Replaceable(a))
           kept == IF Replaceable(a) = {} THEN writeQueue
                   ELSE RemoveAt(writeQueue, r)
<1>1. writeQueue' = kept \/ writeQueue' = Append(kept, Write(a))
      BY DEF AddScheduledWrite
<1>2. /\ kept \in Seq(QueuedWrites)
      /\ writeQueue # <<>> /\ Head(writeQueue) = currentTransaction =>
            kept # <<>> /\ Head(kept) = currentTransaction
  <2>1. CASE Replaceable(a) = {}  BY <2>1
  <2>2. CASE Replaceable(a) # {}
    <3> HIDE DEF r
    <3>1. /\ r \in 1 .. Len(writeQueue) /\ currentTransaction.address # a
          /\ writeQueue[r].address = a
          BY <2>2, ReplaceableProperties DEF r
    <3>2. /\ kept \in Seq(QueuedWrites) /\ Len(kept) = Len(writeQueue) - 1
          /\ \A j \in 1 .. Len(writeQueue) - 1 :
                kept[j] = IF j < r THEN writeQueue[j] ELSE writeQueue[j + 1]
          BY <2>2, <3>1, RemoveAtProperties DEF r
    <3> HIDE DEF kept
    <3>3. ASSUME writeQueue # <<>>, Head(writeQueue) = currentTransaction
          PROVE  kept # <<>> /\ Head(kept) = currentTransaction
      <4>1. writeQueue[1] = currentTransaction  BY <3>3
      <4>2. Len(writeQueue) \in Nat  BY LenProperties
      <4>3. r # 1  BY <3>1, <4>1
      <4>4. 1 \in 1 .. Len(writeQueue) - 1 /\ 1 < r  BY <3>1, <4>2, <4>3
      <4>5. kept[1] = currentTransaction  BY <3>2, <4>1, <4>4
      <4>6. Len(kept) # 0  BY <3>2, <4>2, <4>4
      <4>7. kept # <<>>  BY <4>6
      <4>8. QED  BY <4>5, <4>7, <3>2
    <3>4. QED  BY <3>2, <3>3
  <2>3. QED  BY <2>1, <2>2
<1> HIDE DEF kept
<1>3. /\ writeQueue' \in Seq(QueuedWrites)
      /\ writeQueue # <<>> /\ Head(writeQueue) = currentTransaction =>
            writeQueue' # <<>> /\ Head(writeQueue') = currentTransaction
  <2>1. CASE writeQueue' = kept  BY <1>2, <2>1
  <2>2. CASE writeQueue' = Append(kept, Write(a))
    <3>1. /\ Append(kept, Write(a)) \in Seq(QueuedWrites)
          /\ Append(kept, Write(a)) # <<>>
          BY <1>2, TransactionTypes, AppendProperties
    <3>2. kept # <<>> => Head(Append(kept, Write(a))) = Head(kept)
          BY <1>2, HeadTailAppend
    <3>3. QED  BY <1>2, <2>2, <3>1, <3>2
  <2>3. QED  BY <1>1, <2>1, <2>2
<1>4. QED  BY <1>3

LEMMA AddScheduledWriteInv ==
    ASSUME QueueInv, NEW a \in Addr, SCHEDULE, AddScheduledWrite(a),
           UNCHANGED <<read_iterator_counter, currentVars>>
    PROVE  QueueInv'
<1>1. UNCHANGED <<readQueue, read_pointer, read_iterator_counter, busy,
                  currentTransaction, lookupCounter>>
      BY DEF AddScheduledWrite, currentVars
<1>2. /\ writeQueue' \in Seq(QueuedWrites)
      /\ writeQueue # <<>> /\ Head(writeQueue) = currentTransaction =>
            writeQueue' # <<>> /\ Head(writeQueue') = currentTransaction
      BY ScheduledWriteKeepsHead DEF QueueInv
<1>3. CurrentIsQueued'
      BY <1>1, <1>2 DEF QueueInv, CurrentIsQueued, QueuedCurrent, TwoQueues
<1>4. RetriesInStep'  BY <1>1 DEF QueueInv, RetriesInStep
<1>5. QED  BY <1>1, <1>2, <1>3, <1>4 DEF QueueInv, TwoQueues

LEMMA AddPerfectWriteInv ==
    ASSUME QueueInv, NEW a \in Addr, PERFECT_SCHEDULE, AddPerfectWrite(a),
           UNCHANGED <<read_iterator_counter, currentVars>>
    PROVE  QueueInv'
<1>1. UNCHANGED <<readQueue, read_pointer, read_iterator_counter, busy,
                  currentTransaction, lookupCounter>>
      BY DEF AddPerfectWrite, currentVars
<1>2. /\ writeQueue' \in Seq(QueuedWrites) /\ writeQueue' # <<>>
      /\ writeQueue # <<>> => Head(writeQueue') = Head(writeQueue)
      BY TransactionTypes, AppendProperties, HeadTailAppend
         DEF AddPerfectWrite, QueueInv
<1>3. CurrentIsQueued'
      BY <1>1, <1>2 DEF QueueInv, CurrentIsQueued, QueuedCurrent, TwoQueues
<1>4. RetriesInStep'  BY <1>1 DEF QueueInv, RetriesInStep
<1>5. QED  BY <1>1, <1>2, <1>3, <1>4 DEF QueueInv, TwoQueues

LEMMA HostQueueInv ==
    ASSUME QueueInv, NEW a \in Addr, HostRead(a) \/ HostWrite(a)
    PROVE  QueueInv'
<1>1. UNCHANGED <<read_iterator_counter, currentVars>>
      BY DEF HostRead, HostWrite, HostUnchanged
<1>2. CASE HostRead(a)
      BY <1>1, <1>2, TransactionTypes, AddToReadQueueInv DEF HostRead
<1>3. CASE SCHEDULE /\ AddScheduledWrite(a)  BY <1>1, <1>3, AddScheduledWriteInv
<1>4. CASE PERFECT_SCHEDULE /\ AddPerfectWrite(a)
      BY <1>1, <1>4, AddPerfectWriteInv
<1>5. CASE ~TwoQueues /\ AddToReadQueue(Write(a))
      BY <1>1, <1>5, TransactionTypes, AddToReadQueueInv
<1>6. QED  BY <1>2, <1>3, <1>4, <1>5 DEF HostWrite

(* Scheduling copies a queued transaction into currentTransaction.         *)
LEMMA ScheduleQueueInv ==
    ASSUME QueueInv, Schedule
    PROVE  QueueInv'
<1>1. UNCHANGED <<readQueue, writeQueue, read_pointer, read_iterator_counter>>
      BY DEF Schedule, queueVars
<1>2. RetriesInStep'  BY <1>1 DEF QueueInv, RetriesInStep
<1>3. LOOKUP_CYCLES \in Nat  BY OptionAssumption
<1> DEFINE Started(t) == busy' = TRUE /\ currentTransaction' = t
                         /\ lookupCounter' = LOOKUP_CYCLES
<1>4. CASE UNCHANGED currentVars
  <2>1. UNCHANGED <<busy, currentTransaction, lookupCounter>>
        BY <1>4 DEF currentVars
  <2>2. CurrentIsQueued'
        BY <1>1, <2>1 DEF QueueInv, CurrentIsQueued, QueuedCurrent
  <2>3. QED  BY <1>1, <1>2, <2>1, <2>2 DEF QueueInv
<1>5. CASE writeQueue # <<>> /\ TwoQueues /\ Started(Head(writeQueue))
  <2>1. /\ Head(writeQueue) \in Transactions
        /\ Head(writeQueue).type = "DATA_WRITE"
    <3>1. Head(writeQueue) \in QueuedWrites
          BY <1>5, HeadTailProperties DEF QueueInv
    <3>2. QED  BY <3>1 DEF QueuedWrites, Transactions
  <2>2. QueuedCurrent'
        BY <1>1, <1>5, <2>1 DEF QueuedCurrent, TwoQueues
  <2>3. QED  BY <1>1, <1>2, <1>3, <1>5, <2>1, <2>2
             DEF QueueInv, CurrentIsQueued
<1>6. CASE readQueue # <<>> /\ TwoQueues /\ Started(readQueue[read_pointer])
  <2>1. /\ Len(readQueue) \in Nat \ {0}
        /\ DOMAIN readQueue = 1 .. Len(readQueue)
        BY <1>6, EmptySeq, LenProperties DEF QueueInv
  <2>2. read_pointer \in 1 .. Len(readQueue)
        BY <2>1 DEF QueueInv, RetriesInStep
  <2>3. /\ readQueue[read_pointer] \in Transactions
        /\ readQueue[read_pointer].type = "DATA_READ"
        BY <1>6, <2>2, ElementOfSeq DEF QueueInv
  <2>4. QueuedCurrent'
        BY <1>1, <1>6, <2>1, <2>2, <2>3 DEF QueuedCurrent, TwoQueues
  <2>5. QED  BY <1>1, <1>2, <1>3, <1>6, <2>3, <2>4
             DEF QueueInv, CurrentIsQueued
<1>7. CASE readQueue # <<>> /\ ~TwoQueues /\ Started(Head(readQueue))
  <2>1. Head(readQueue) \in Transactions
        BY <1>7, HeadTailProperties DEF QueueInv
  <2>2. QueuedCurrent'
        BY <1>1, <1>7, <2>1 DEF QueuedCurrent, TwoQueues
  <2>3. QED  BY <1>1, <1>2, <1>3, <1>7, <2>1, <2>2
             DEF QueueInv, CurrentIsQueued
<1>8. QED
      BY <1>4, <1>5, <1>6, <1>7
      DEF Schedule, scheduleCurrentTransaction, TakeFront, ScheduleWrite,
          ScheduleFromEmptyQueue, ScheduleRead, ScheduleIdleWrite, Start

LEMMA LookupQueueInv ==
    ASSUME QueueInv, Lookup
    PROVE  QueueInv'
<1>1. /\ UNCHANGED <<readQueue, writeQueue, read_pointer, read_iterator_counter,
                     busy, currentTransaction>>
      /\ lookupCounter' \in Nat
      BY DEF Lookup, queueVars, QueueInv
<1>2. RetriesInStep' /\ CurrentIsQueued'
      BY <1>1 DEF QueueInv, RetriesInStep, CurrentIsQueued, QueuedCurrent
<1>3. QED  BY <1>1, <1>2 DEF QueueInv

(* popFront erases the transaction that was being worked on; the FTL is    *)
(* idle afterwards, so nothing has to be at any front.                     *)
LEMMA ReadLeavesInv ==
    ASSUME QueueInv, busy, currentTransaction.type = "DATA_READ", ReadLeaves
    PROVE  QueueInv'
<1>1. /\ busy' = FALSE /\ read_iterator_counter' = 0
      /\ UNCHANGED <<writeQueue, currentTransaction, lookupCounter>>
      BY DEF ReadLeaves
<1>2. QueuedCurrent  BY DEF QueueInv, CurrentIsQueued
<1>3. /\ readQueue' \in Seq(Transactions) /\ read_pointer' = 1
      /\ TwoQueues => \A i \in 1 .. Len(readQueue') :
                          readQueue'[i].type = "DATA_READ"
  <2>1. CASE TwoQueues
    <3>1. read_pointer \in 1 .. Len(readQueue) /\ Len(readQueue) \in Nat
          BY <1>2, <2>1, LenProperties DEF QueuedCurrent, QueueInv
    <3>2. readQueue' = RemoveAt(readQueue, read_pointer)
          BY <2>1 DEF ReadLeaves
    <3>3. /\ readQueue' \in Seq(Transactions)
          /\ Len(readQueue') = Len(readQueue) - 1
          /\ \A j \in 1 .. Len(readQueue) - 1 :
                readQueue'[j] = IF j < read_pointer THEN readQueue[j]
                                ELSE readQueue[j + 1]
          BY <3>1, <3>2, RemoveAtProperties DEF QueueInv
    <3>4. \A i \in 1 .. Len(readQueue') : readQueue'[i].type = "DATA_READ"
          BY <2>1, <3>1, <3>3 DEF QueueInv
    <3>5. QED  BY <2>1, <3>3, <3>4 DEF ReadLeaves
  <2>2. CASE ~TwoQueues
    <3>1. readQueue # <<>>  BY <1>2, <2>2 DEF QueuedCurrent
    <3>2. readQueue' \in Seq(Transactions)
          BY <2>2, <3>1, HeadTailProperties DEF ReadLeaves, QueueInv
    <3>3. read_pointer = 1
          BY <2>2 DEF QueueInv, RetriesInStep, TwoQueues
    <3>4. QED  BY <2>2, <3>2, <3>3 DEF ReadLeaves
  <2>3. QED  BY <2>1, <2>2
<1>4. RetriesInStep' /\ CurrentIsQueued'
      BY <1>1, <1>3 DEF RetriesInStep, CurrentIsQueued
<1>5. ~TwoQueues => writeQueue' = <<>>  BY <1>1 DEF QueueInv
<1>6. read_pointer' \in Nat \ {0} /\ read_iterator_counter' \in Nat
      BY <1>1, <1>3
<1>7. busy' \in BOOLEAN  BY <1>1, Zenon
<1>8. QED  BY <1>1, <1>3, <1>4, <1>5, <1>6, <1>7 DEF QueueInv

LEMMA WriteLeavesInv ==
    ASSUME QueueInv, busy, currentTransaction.type = "DATA_WRITE", WriteLeaves
    PROVE  QueueInv'
<1>1. /\ busy' = FALSE
      /\ UNCHANGED <<read_pointer, read_iterator_counter, currentTransaction,
                     lookupCounter>>
      BY DEF WriteLeaves
<1>2. QueuedCurrent  BY DEF QueueInv, CurrentIsQueued
<1>3. CurrentIsQueued'  BY <1>1 DEF CurrentIsQueued
<1>4. CASE TwoQueues
  <2>1. writeQueue # <<>>  BY <1>2, <1>4 DEF QueuedCurrent
  <2>2. writeQueue' \in Seq(QueuedWrites) /\ UNCHANGED readQueue
        BY <1>4, <2>1, HeadTailProperties DEF WriteLeaves, QueueInv
  <2>3. RetriesInStep'  BY <1>1, <2>2 DEF QueueInv, RetriesInStep
  <2>4. QED  BY <1>1, <1>3, <1>4, <2>2, <2>3 DEF QueueInv, TwoQueues
<1>5. CASE ~TwoQueues
  <2>1. readQueue # <<>>  BY <1>2, <1>5 DEF QueuedCurrent
  <2>2. readQueue' \in Seq(Transactions) /\ UNCHANGED writeQueue
        BY <1>5, <2>1, HeadTailProperties DEF WriteLeaves, QueueInv
  <2>3. read_iterator_counter = 0  BY <1>5 DEF QueueInv, TwoQueues
  <2>4. RetriesInStep'  BY <1>1, <2>3 DEF QueueInv, RetriesInStep
  <2>5. QED  BY <1>1, <1>3, <1>5, <2>2, <2>4 DEF QueueInv, TwoQueues
<1>6. QED  BY <1>4, <1>5

(* A refused read hands over to its successor and never off the end.       *)
LEMMA TryNextReadInv ==
    ASSUME QueueInv, SCHEDULE, TryNextRead
    PROVE  QueueInv'
<1> DEFINE allTried == read_iterator_counter + 1 >= Len(readQueue)
<1>1. /\ busy' = FALSE
      /\ UNCHANGED <<readQueue, writeQueue, currentTransaction, lookupCounter>>
      /\ read_pointer' = IF allTried \/ read_pointer = Len(readQueue) THEN 1
                         ELSE read_pointer + 1
      /\ read_iterator_counter' = IF allTried THEN 0
                                  ELSE read_iterator_counter + 1
      BY DEF TryNextRead
<1>2. Len(readQueue) \in Nat  BY LenProperties DEF QueueInv
<1>3. /\ read_pointer' \in Nat \ {0} /\ read_iterator_counter' \in Nat
      /\ RetriesInStep'
      BY <1>1, <1>2 DEF QueueInv, RetriesInStep
<1>4. CurrentIsQueued'  BY <1>1 DEF CurrentIsQueued
<1>5. QED  BY <1>1, <1>3, <1>4 DEF QueueInv, TwoQueues

LEMMA SameQueues ==
    ASSUME QueueInv, UNCHANGED queueVars,
           UNCHANGED <<currentTransaction, lookupCounter>>,
           busy' = busy \/ busy' = FALSE
    PROVE  QueueInv'
<1>1. UNCHANGED <<readQueue, writeQueue, read_pointer, read_iterator_counter>>
      BY DEF queueVars
<1>2. RetriesInStep'  BY <1>1 DEF QueueInv, RetriesInStep
<1>3. CurrentIsQueued'
      BY <1>1 DEF QueueInv, CurrentIsQueued, QueuedCurrent
<1>4. busy' \in BOOLEAN  BY DEF QueueInv
<1>5. QED  BY <1>1, <1>2, <1>3, <1>4 DEF QueueInv

LEMMA SendReadQueueInv ==
    ASSUME QueueInv, Dispatching("DATA_READ"), NEW a, NEW p, SendRead(a, p)
    PROVE  QueueInv'
<1>1. CASE ReadLeaves  BY <1>1, ReadLeavesInv DEF Dispatching
<1>2. CASE SCHEDULE /\ TryNextRead  BY <1>2, TryNextReadInv
<1>3. CASE ReadWaits  BY <1>3, SameQueues DEF ReadWaits, currentVars
<1>4. QED  BY <1>1, <1>2, <1>3 DEF SendRead

LEMMA ReadQueueInv ==
    ASSUME QueueInv, handle_read
    PROVE  QueueInv'
<1> DEFINE a == currentTransaction.address
<1>0. Dispatching("DATA_READ")  BY DEF handle_read
<1>1. CASE FoundInWriteQueue(a)
      BY <1>1, SameQueues DEF FoundInWriteQueue, currentVars
<1>2. CASE AccessWriteQueue(a)
  <2>1. CASE ReadLeaves  BY <1>0, <2>1, ReadLeavesInv DEF Dispatching
  <2>2. CASE UNCHANGED <<queueVars, currentVars>>
        BY <2>2, SameQueues DEF currentVars
  <2>3. QED  BY <1>2, <2>1, <2>2 DEF AccessWriteQueue
<1>3. CASE ReadMapped(a)  BY <1>0, <1>3, SendReadQueueInv DEF ReadMapped
<1>4. CASE ReadUnmapped(a)
      BY <1>0, <1>4, ReadLeavesInv DEF ReadUnmapped, Dispatching
<1>5. CASE DiskRead(a)  BY <1>0, <1>5, SendReadQueueInv DEF DiskRead
<1>6. CASE DiskReadNoPage(a)
      BY <1>6, SameQueues DEF DiskReadNoPage, currentVars
<1>7. QED  BY <1>1, <1>2, <1>3, <1>4, <1>5, <1>6 DEF handle_read

LEMMA WriteQueueInv ==
    ASSUME QueueInv, handle_write
    PROVE  QueueInv'
<1> DEFINE a == currentTransaction.address
           p == FindFree(UsedWithout(a), writePointer)
<1>0. busy /\ currentTransaction.type = "DATA_WRITE"
      BY DEF handle_write, Dispatching
<1>1. CASE WriteLeaves  BY <1>0, <1>1, WriteLeavesInv
<1>2. CASE WriteBlocked(a, p)
  <2>1. /\ UNCHANGED queueVars /\ busy' = ~SCHEDULE
        /\ UNCHANGED <<currentTransaction, lookupCounter>>
        BY <1>2 DEF WriteBlocked
  <2>2. busy' = busy \/ busy' = FALSE
        BY <1>0, <2>1, OptionAssumption DEF QueueInv
  <2>3. QED  BY <2>1, <2>2, SameQueues, Zenon
<1>3. CASE WriteNoPage(a)  BY <1>3, SameQueues DEF WriteNoPage, currentVars
<1>4. WriteLeaves \/ WriteBlocked(a, p) \/ WriteNoPage(a)
      BY DEF handle_write, WriteFaked, WriteSent, write_success
<1>5. QED  BY <1>1, <1>2, <1>3, <1>4

LEMMA QueueNext == QueueInv /\ [Next]_vars => QueueInv'
<1> SUFFICES ASSUME QueueInv, [Next]_vars PROVE QueueInv'  OBVIOUS
<1>1. CASE \E a \in Addr : HostRead(a) \/ HostWrite(a)  BY <1>1, HostQueueInv
<1>2. CASE Schedule  BY <1>2, ScheduleQueueInv
<1>3. CASE Lookup  BY <1>3, LookupQueueInv
<1>4. CASE handle_read  BY <1>4, ReadQueueInv
<1>5. CASE handle_write  BY <1>5, WriteQueueInv
<1>6. CASE \E d \in Dies : CtrlPop(d)
      BY <1>6, SameQueues DEF CtrlPop, currentVars
<1>7. CASE UNCHANGED vars  BY <1>7, SameQueues DEF vars, currentVars
<1>8. QED
      BY <1>1, <1>2, <1>3, <1>4, <1>5, <1>6, <1>7 DEF Next, Update, Pop

(* popFront always erases the transaction that was being worked on.        *)
THEOREM CurrentQueued == Spec => []CurrentIsQueued
<1>1. QueueInv => CurrentIsQueued  BY DEF QueueInv
<1>2. QED  BY <1>1, QueueInit, QueueNext, PTL DEF Spec

(* The retry bookkeeping of scheduled reads is always consistent.          *)
THEOREM RetriesCorrect == Spec => []RetriesInStep
<1>1. QueueInv => RetriesInStep  BY DEF QueueInv
<1>2. QED  BY <1>1, QueueInit, QueueNext, PTL DEF Spec

-----------------------------------------------------------------------------
(* The write pointer, the used pages and the address map.                  *)

MapType ==
    /\ writePointer \in Pointers
    /\ used \in SUBSET Pages
    /\ addressMap \in [Addr -> Pages \cup {NoPage}]
    /\ deadlock_counter \in Nat

LEMMA MapTypeInit == Init => MapType
<1>1. 0 \in Packages /\ 0 \in 0 .. DIES_PER_PACKAGE - 1 /\ 0 \in Planes
      BY GeometryAssumption DEF Packages, Planes
<1>2. [channel |-> 0, die |-> 0, plane |-> 0] \in Pointers
      BY <1>1 DEF Pointers
<1>3. QED  BY <1>2 DEF Init, MapType

LEMMA AddressType ==
    QueueInv => currentTransaction.address \in Addr
BY DEF QueueInv, Transactions, EmptyTransactions

LEMMA UsedWithoutType ==
    ASSUME MapType, NEW a
    PROVE  UsedWithout(a) \in SUBSET Pages /\ UsedWithout(a) \subseteq used
BY DEF UsedWithout, MapType

LEMMA WriteSuccessType ==
    ASSUME MapType, NEW a \in Addr, NEW p \in Pages, write_success(a, p)
    PROVE  MapType'
<1>1. Advance(writePointer) \in Pointers  BY AdvanceType DEF MapType
<1>2. UsedWithout(a) \cup {p} \in SUBSET Pages  BY UsedWithoutType
<1>3. QED  BY <1>1, <1>2 DEF write_success, MapType

LEMMA DiskReadType ==
    ASSUME MapType, NEW a \in Addr, DiskRead(a)
    PROVE  MapType'
<1> DEFINE p == FindFree(used, writePointer)
<1>1. p \in Pages
  <2>1. p \in (Pages \ used) \cup {NoPage} /\ p # NoPage
        BY FindFreeSound DEF MapType, DiskRead
  <2>2. QED  BY <2>1
<1>2. Advance(writePointer) \in Pointers  BY AdvanceType DEF MapType
<1>3. /\ used' = used \cup {p} /\ deadlock_counter' = 0
      /\ addressMap' = [addressMap EXCEPT ![a] = p]
      /\ writePointer' = Advance(writePointer)
      BY DEF DiskRead
<1> HIDE DEF p
<1>4. QED  BY <1>1, <1>2, <1>3 DEF MapType

(* What a write that is tried does to the map: it gets its page, or gives  *)
(* the old one up and stays the current transaction.                       *)
LEMMA WriteSteps ==
    ASSUME QueueInv, MapType, handle_write
    PROVE  LET a == currentTransaction.address
               p == FindFree(UsedWithout(a), writePointer)
           IN  /\ busy /\ currentTransaction = Write(a) /\ a \in Addr
               /\ \/ p \in Pages \ UsedWithout(a) /\ write_success(a, p)
                  \/ /\ busy' \/ (SCHEDULE /\ ~PERFECT_SCHEDULE)
                     /\ UNCHANGED <<currentTransaction, writeQueue>>
                     /\ used' = UsedWithout(a)
                     /\ deadlock_counter' \in {0, DEADLOCK_TIME}
                     /\ UNCHANGED <<writePointer, addressMap>>
<1> DEFINE a == currentTransaction.address
           p == FindFree(UsedWithout(a), writePointer)
<1>1. busy /\ currentTransaction.type = "DATA_WRITE"
      BY DEF handle_write, Dispatching
<1>2. a \in Addr  BY AddressType
<1>3. currentTransaction = Write(a)
      BY <1>1 DEF QueueInv, Transactions, EmptyTransactions, Write
<1>4. p \in (Pages \ UsedWithout(a)) \cup {NoPage}
      BY UsedWithoutType, FindFreeSound
<1>5. CASE p # NoPage /\ (WriteFaked(a, p) \/ WriteSent(a, p))
      BY <1>1, <1>2, <1>3, <1>4, <1>5 DEF WriteFaked, WriteSent
<1>6. CASE WriteBlocked(a, p)
  <2>1. busy' \/ (SCHEDULE /\ ~PERFECT_SCHEDULE)
        BY <1>6, OptionAssumption DEF WriteBlocked
  <2>2. QED  BY <1>1, <1>2, <1>3, <1>6, <2>1 DEF WriteBlocked, queueVars
<1>7. CASE WriteNoPage(a)
  <2>1. busy' /\ UNCHANGED <<currentTransaction, writeQueue>>
        BY <1>1, <1>7 DEF WriteNoPage, currentVars, queueVars
  <2>2. QED  BY <1>1, <1>2, <1>3, <1>7, <2>1 DEF WriteNoPage
<1>8. QED  BY <1>5, <1>6, <1>7 DEF handle_write

(* What a step can do to the map.                                          *)
LEMMA MapSteps ==
    ASSUME QueueInv, MapType, [Next]_vars
    PROVE  LET a == currentTransaction.address
           IN  \/ handle_write
               \/ UNCHANGED mapVars
               \/ /\ currentTransaction.type = "DATA_READ"
                  /\ a \in Addr /\ ~Mapped(a) /\ DiskRead(a)
               \/ /\ deadlock_counter' = deadlock_counter + 1
                  /\ UNCHANGED <<writePointer, used, addressMap>>
<1> DEFINE a == currentTransaction.address
<1>0. a \in Addr  BY AddressType
<1>1. CASE \E x \in Addr : HostRead(x) \/ HostWrite(x)
      BY <1>1 DEF HostRead, HostWrite, HostUnchanged
<1>2. CASE Schedule  BY <1>2 DEF Schedule
<1>3. CASE Lookup  BY <1>3 DEF Lookup
<1>4. CASE handle_read
  <2>1. currentTransaction.type = "DATA_READ"
        BY <1>4 DEF handle_read, Dispatching
  <2>2. CASE FoundInWriteQueue(a)  BY <2>2 DEF FoundInWriteQueue
  <2>3. CASE AccessWriteQueue(a)  BY <2>3 DEF AccessWriteQueue
  <2>4. CASE ReadMapped(a)  BY <2>4 DEF ReadMapped
  <2>5. CASE ReadUnmapped(a)  BY <2>5 DEF ReadUnmapped
  <2>6. CASE DiskRead(a)  BY <1>0, <2>1, <2>6 DEF DiskRead
  <2>7. CASE DiskReadNoPage(a)  BY <2>7 DEF DiskReadNoPage
  <2>8. QED  BY <1>4, <2>2, <2>3, <2>4, <2>5, <2>6, <2>7 DEF handle_read
<1>5. CASE \E d \in Dies : CtrlPop(d)  BY <1>5 DEF CtrlPop
<1>6. CASE UNCHANGED vars  BY <1>6 DEF vars
<1>7. QED
      BY <1>1, <1>2, <1>3, <1>4, <1>5, <1>6 DEF Next, Update, Pop

LEMMA MapTypeNext == QueueInv /\ MapType /\ [Next]_vars => MapType'
<1> SUFFICES ASSUME QueueInv, MapType, [Next]_vars PROVE MapType'  OBVIOUS
<1> DEFINE a == currentTransaction.address
           p == FindFree(UsedWithout(a), writePointer)
<1>1. CASE handle_write
  <2>1. CASE a \in Addr /\ p \in Pages \ UsedWithout(a) /\ write_success(a, p)
        BY <2>1, WriteSuccessType
  <2>2. CASE /\ used' = UsedWithout(a)
             /\ deadlock_counter' \in {0, DEADLOCK_TIME}
             /\ UNCHANGED <<writePointer, addressMap>>
        BY <2>2, UsedWithoutType, OptionAssumption DEF MapType
  <2>3. QED  BY <1>1, <2>1, <2>2, WriteSteps
<1>2. CASE UNCHANGED mapVars  BY <1>2 DEF mapVars, MapType
<1>3. CASE a \in Addr /\ DiskRead(a)  BY <1>3, DiskReadType
<1>4. CASE /\ deadlock_counter' = deadlock_counter + 1
           /\ UNCHANGED <<writePointer, used, addressMap>>
      BY <1>4 DEF MapType
<1>5. QED  BY <1>1, <1>2, <1>3, <1>4, MapSteps

-----------------------------------------------------------------------------
(* A refused write has given its page up, so nobody else may look for a    *)
(* page before it is tried again.  Without scheduling it stays the current *)
(* transaction.  With it the FTL is idle and chooses anew; as long as      *)
(* writes only leave when the write queue is at its limit, the queue still *)
(* is, and the refused write is still at its front.                        *)

RefusalsKept == PERFECT_SCHEDULE \/ ~(SCHEDULE /\ IDLE_WRITE)

WriteDue ==
    /\ SCHEDULE /\ ~PERFECT_SCHEDULE /\ ~IDLE_WRITE
    /\ MustWrite /\ writeQueue # <<>> /\ Head(writeQueue) = currentTransaction
OnlyWrites(a) == currentTransaction = Write(a) /\ (busy \/ WriteDue)

OwnPageUsed ==
    \A a \in Addr : Mapped(a) /\ addressMap[a] \notin used => OnlyWrites(a)

WritesWereDue ==
    SCHEDULE /\ ~IDLE_WRITE /\ busy /\ currentTransaction.type = "DATA_WRITE" =>
        MustWrite
WriteQueueFits ==
    FTL_WRITE_QUEUE_LENGTH # 0 => Len(writeQueue) <= FTL_WRITE_QUEUE_LENGTH

DueInv == WritesWereDue /\ WriteQueueFits
MapInv == MapInjective /\ OwnPageUsed /\ DueInv

LEMMA MapInvInit == Init => MapInv
<1> SUFFICES ASSUME Init PROVE MapInv  OBVIOUS
<1>1. MapInjective /\ OwnPageUsed
      BY DEF Init, MapInjective, OwnPageUsed, Mapped
<1>2. Len(writeQueue) = 0 /\ ~busy  BY DEF Init
<1>3. DueInv  BY <1>2, OptionAssumption DEF DueInv, WritesWereDue, WriteQueueFits
<1>4. QED  BY <1>1, <1>3 DEF MapInv

(* A write that is added finds room, or takes the place of another.        *)
LEMMA AddedWriteFits ==
    ASSUME WriteQueueFits, writeQueue \in Seq(QueuedWrites), NEW a \in Addr,
           AddScheduledWrite(a) \/ AddPerfectWrite(a)
    PROVE  /\ writeQueue' \in Seq(QueuedWrites)
           /\ FTL_WRITE_QUEUE_LENGTH # 0 => Len(writeQueue') <= FTL_WRITE_QUEUE_LENGTH
           /\ Len(writeQueue') >= Len(writeQueue)
<1>1. /\ Len(writeQueue) \in Nat /\ FTL_WRITE_QUEUE_LENGTH \in Nat
      /\ FTL_WRITE_QUEUE_LENGTH # 0 => Len(writeQueue) <= FTL_WRITE_QUEUE_LENGTH
      BY LenProperties, OptionAssumption DEF WriteQueueFits
<1>2. ASSUME NEW q \in Seq(QueuedWrites), HasRoom(q, FTL_WRITE_QUEUE_LENGTH),
             writeQueue' = Append(q, Write(a)), Len(q) + 1 >= Len(writeQueue)
      PROVE  /\ writeQueue' \in Seq(QueuedWrites)
             /\ FTL_WRITE_QUEUE_LENGTH # 0 => Len(writeQueue') <= FTL_WRITE_QUEUE_LENGTH
             /\ Len(writeQueue') >= Len(writeQueue)
  <2>1. writeQueue' \in Seq(QueuedWrites) /\ Len(writeQueue') = Len(q) + 1 /\ Len(q) \in Nat
        BY <1>2, TransactionTypes, AppendProperties, LenProperties
  <2>2. QED  BY <1>1, <1>2, <2>1 DEF HasRoom
<1>3. CASE AddPerfectWrite(a)  BY <1>1, <1>2, <1>3 DEF AddPerfectWrite
<1>4. CASE AddScheduledWrite(a) /\ Replaceable(a) = {}
  <2>1. HasRoom(writeQueue, FTL_WRITE_QUEUE_LENGTH) /\ writeQueue' = Append(writeQueue, Write(a))
        BY <1>4 DEF AddScheduledWrite
  <2>2. QED  BY <1>1, <1>2, <2>1
<1>5. CASE AddScheduledWrite(a) /\ Replaceable(a) # {}
  <2> DEFINE r == Least(Replaceable(a))
             kept == RemoveAt(writeQueue, r)
  <2>1. writeQueue' = IF HasRoom(kept, FTL_WRITE_QUEUE_LENGTH) THEN Append(kept, Write(a))
                      ELSE kept
        BY <1>5 DEF AddScheduledWrite
  <2>2. r \in 1 .. Len(writeQueue)  BY <1>5, ReplaceableProperties
  <2> HIDE DEF r
  <2>3. kept \in Seq(QueuedWrites) /\ Len(kept) = Len(writeQueue) - 1
        BY <2>2, RemoveAtProperties
  <2> HIDE DEF kept
  <2>4. HasRoom(kept, FTL_WRITE_QUEUE_LENGTH)  BY <1>1, <2>3 DEF HasRoom
  <2>5. QED  BY <1>1, <1>2, <2>1, <2>3, <2>4
<1>6. QED  BY <1>3, <1>4, <1>5

(* The write queue only gets shorter when the write being worked on leaves.*)
LEMMA WriteQueueSteps ==
    ASSUME QueueInv, WriteQueueFits, [Next]_vars
    PROVE  /\ WriteQueueFits'
           /\ (handle_write /\ ~busy') \/ Len(writeQueue') >= Len(writeQueue)
           /\ Len(writeQueue) \in Nat /\ Len(writeQueue') \in Nat
<1>1. /\ Len(writeQueue) \in Nat /\ Len(writeQueue') \in Nat
      /\ writeQueue \in Seq(QueuedWrites)
      BY QueueNext, LenProperties DEF QueueInv
<1>2. CASE UNCHANGED writeQueue
  <2>1. Len(writeQueue') = Len(writeQueue)  BY <1>2
  <2>2. QED  BY <1>1, <1>2, <2>1 DEF WriteQueueFits
<1>3. CASE \E a \in Addr : AddScheduledWrite(a) \/ AddPerfectWrite(a)
      BY <1>1, <1>3, AddedWriteFits DEF WriteQueueFits
<1>4. CASE handle_write /\ WriteLeaves /\ TwoQueues
  <2>1. writeQueue # <<>> /\ writeQueue' = Tail(writeQueue) /\ ~busy'
        BY <1>4 DEF WriteLeaves, handle_write, Dispatching, QueueInv,
                    CurrentIsQueued, QueuedCurrent
  <2>2. Len(writeQueue') = Len(writeQueue) - 1  BY <1>1, <2>1, HeadTailProperties
  <2>3. QED  BY <1>1, <1>4, <2>1, <2>2, OptionAssumption DEF WriteQueueFits
<1>5. ASSUME handle_read  PROVE UNCHANGED writeQueue
      BY <1>5 DEF handle_read, FoundInWriteQueue, AccessWriteQueue, ReadMapped,
                  ReadUnmapped, DiskRead, DiskReadNoPage, SendRead, ReadLeaves,
                  TryNextRead, ReadWaits, queueVars
<1>6. CASE handle_write /\ ~(WriteLeaves /\ TwoQueues)
  <2>1. UNCHANGED writeQueue
        BY <1>6 DEF handle_write, WriteFaked, WriteSent, WriteBlocked, WriteNoPage,
                    write_success, WriteLeaves, queueVars
  <2>2. QED  BY <1>2, <2>1
<1>7. ASSUME NEW a \in Addr, HostRead(a) \/ HostWrite(a)
      PROVE  \/ UNCHANGED writeQueue
             \/ AddScheduledWrite(a) \/ AddPerfectWrite(a)
      BY <1>7 DEF HostRead, HostWrite, AddToReadQueue
<1>8. QED
      BY <1>2, <1>3, <1>4, <1>5, <1>6, <1>7
      DEF Next, Update, Pop, Schedule, Lookup, CtrlPop, queueVars, vars

(* Without IDLE_WRITE a scheduled FTL takes a write because it must.       *)
LEMMA ScheduleTakes ==
    ASSUME QueueInv, Schedule, SCHEDULE, ~IDLE_WRITE
    PROVE  \/ ~busy' /\ UNCHANGED currentTransaction /\ ~(MustWrite /\ writeQueue # <<>>)
           \/ MustWrite /\ writeQueue # <<>> /\ busy' /\ currentTransaction' = Head(writeQueue)
           \/ ~MustWrite /\ busy' /\ currentTransaction'.type = "DATA_READ"
<1>1. ~busy /\ scheduleCurrentTransaction
      BY DEF Schedule, TakeFront, TwoQueues
<1>2. CASE ScheduleWrite  BY <1>2 DEF ScheduleWrite, Start
<1>3. CASE ScheduleFromEmptyQueue  BY <1>1, <1>3 DEF ScheduleFromEmptyQueue, currentVars
<1>4. CASE ScheduleRead
  <2>1. ~MustWrite /\ busy' /\ currentTransaction' = readQueue[read_pointer]
        BY <1>4 DEF ScheduleRead, Start
  <2>2. Len(readQueue) \in Nat \ {0}
        BY <1>4, EmptySeq, LenProperties DEF ScheduleRead, QueueInv
  <2>3. read_pointer \in 1 .. Len(readQueue)
        BY <2>2 DEF QueueInv, RetriesInStep
  <2>4. QED  BY <2>1, <2>3 DEF QueueInv, TwoQueues
<1>5. QED
      BY <1>1, <1>2, <1>3, <1>4 DEF scheduleCurrentTransaction, ScheduleIdleWrite

(* The current transaction changes when the next one is scheduled.         *)
LEMMA StaysCurrent ==
    ASSUME [Next]_vars, ~Schedule
    PROVE  /\ UNCHANGED currentTransaction /\ (busy' => busy)
           /\ busy /\ ~busy' => handle_read \/ handle_write
<1>1. CASE \E a \in Addr : HostRead(a) \/ HostWrite(a)
      BY <1>1 DEF HostRead, HostWrite, HostUnchanged, currentVars
<1>2. CASE Lookup  BY <1>2 DEF Lookup
<1>3. CASE handle_read
      BY <1>3 DEF handle_read, Dispatching, FoundInWriteQueue, AccessWriteQueue, ReadMapped,
                  ReadUnmapped, DiskRead, DiskReadNoPage, SendRead, ReadLeaves,
                  TryNextRead, ReadWaits, currentVars
<1>4. CASE handle_write
      BY <1>4 DEF handle_write, Dispatching, WriteFaked, WriteSent, WriteBlocked, WriteNoPage,
                  write_success, WriteLeaves, currentVars
<1>5. CASE \E d \in Dies : CtrlPop(d)  BY <1>5 DEF CtrlPop, currentVars
<1>6. CASE UNCHANGED vars  BY <1>6 DEF vars, currentVars
<1>7. QED  BY <1>1, <1>2, <1>3, <1>4, <1>5, <1>6 DEF Next, Update, Pop

(* The host leaves the front of the write queue alone when it is the       *)
(* current transaction.                                                    *)
LEMMA FrontStays ==
    ASSUME QueueInv, [Next]_vars, ~busy, SCHEDULE,
           writeQueue # <<>>, Head(writeQueue) = currentTransaction
    PROVE  writeQueue' # <<>> /\ Head(writeQueue') = currentTransaction
<1>1. CASE UNCHANGED writeQueue  BY <1>1
<1>2. CASE \E a \in Addr : AddScheduledWrite(a)
      BY <1>2, ScheduledWriteKeepsHead DEF QueueInv
<1>3. ASSUME NEW a \in Addr, HostRead(a) \/ HostWrite(a)
      PROVE  UNCHANGED writeQueue \/ AddScheduledWrite(a)
      BY <1>3 DEF HostRead, HostWrite, AddToReadQueue
<1>4. ~handle_read /\ ~handle_write  BY DEF handle_read, handle_write, Dispatching
<1>5. QED
      BY <1>1, <1>2, <1>3, <1>4
      DEF Next, Update, Pop, Schedule, Lookup, CtrlPop, queueVars, vars

LEMMA DueInvNext ==
    ASSUME QueueInv, DueInv, [Next]_vars
    PROVE  DueInv'
<1>1. /\ WriteQueueFits'
      /\ (handle_write /\ ~busy') \/ Len(writeQueue') >= Len(writeQueue)
      /\ Len(writeQueue) \in Nat /\ Len(writeQueue') \in Nat
      BY WriteQueueSteps DEF DueInv
<1>2. ASSUME SCHEDULE, ~IDLE_WRITE, busy', currentTransaction'.type = "DATA_WRITE"
      PROVE  MustWrite
  <2>1. CASE Schedule  BY <1>2, <2>1, ScheduleTakes
  <2>2. CASE ~Schedule
    <3>1. busy /\ UNCHANGED currentTransaction
          BY <1>2, <2>2, StaysCurrent
    <3>2. QED  BY <1>2, <3>1 DEF DueInv, WritesWereDue
  <2>3. QED  BY <2>1, <2>2
<1>3. ASSUME SCHEDULE, ~IDLE_WRITE, busy', currentTransaction'.type = "DATA_WRITE"
      PROVE  MustWrite'
  <2>1. MustWrite /\ Len(writeQueue') >= Len(writeQueue)  BY <1>1, <1>2, <1>3
  <2>2. QED  BY <1>1, <2>1, OptionAssumption DEF MustWrite
<1>4. QED  BY <1>1, <1>3 DEF DueInv, WritesWereDue

(* Until the write is tried, the one that is due stays the one that is.    *)
LEMMA WriteStaysDue ==
    ASSUME QueueInv, DueInv, [Next]_vars, ~handle_write, NEW b \in Addr, OnlyWrites(b)
    PROVE  OnlyWrites(b)'
<1>1. /\ Len(writeQueue') >= Len(writeQueue)
      /\ Len(writeQueue) \in Nat /\ Len(writeQueue') \in Nat
      BY WriteQueueSteps DEF DueInv
<1>2. currentTransaction.type = "DATA_WRITE"  BY DEF OnlyWrites, Write
<1>3. CASE busy
  <2>1. busy' /\ UNCHANGED currentTransaction
        BY <1>2, <1>3, StaysCurrent DEF Schedule, handle_read, Dispatching
  <2>2. QED  BY <2>1 DEF OnlyWrites, Write
<1>4. CASE ~busy /\ WriteDue
  <2>1. CASE Schedule
    <3>1. busy' /\ currentTransaction' = currentTransaction
          BY <1>4, <2>1, ScheduleTakes DEF WriteDue
    <3>2. QED  BY <3>1 DEF OnlyWrites, Write
  <2>2. CASE ~Schedule
    <3>1. UNCHANGED currentTransaction /\ ~busy'
          BY <1>4, <2>2, StaysCurrent
    <3>2. writeQueue' # <<>> /\ Head(writeQueue') = currentTransaction
          BY <1>4, FrontStays DEF WriteDue
    <3>3. MustWrite'  BY <1>1, <1>4, OptionAssumption DEF WriteDue, MustWrite
    <3>4. QED  BY <1>4, <3>1, <3>2, <3>3 DEF OnlyWrites, WriteDue, Write
  <2>3. QED  BY <2>1, <2>2
<1>5. QED  BY <1>3, <1>4 DEF OnlyWrites

(* A step that leaves the map alone and does not take the current write    *)
(* away keeps MapInv.                                                      *)
LEMMA SameMap ==
    ASSUME MapInv, UNCHANGED <<used, addressMap>>, DueInv',
           \A b \in Addr : OnlyWrites(b) => OnlyWrites(b)'
    PROVE  MapInv'
<1>1. MapInjective'  BY DEF MapInv, MapInjective, Mapped
<1>2. OwnPageUsed'  BY DEF MapInv, OwnPageUsed, Mapped
<1>3. QED  BY <1>1, <1>2 DEF MapInv

LEMMA WriteSuccessMap ==
    ASSUME QueueInv, MapType, MapInv, NEW a \in Addr,
           currentTransaction = Write(a), DueInv',
           NEW p \in Pages \ UsedWithout(a), write_success(a, p)
    PROVE  MapInv'
<1>1. /\ addressMap' = [addressMap EXCEPT ![a] = p]
      /\ used' = UsedWithout(a) \cup {p}
      BY DEF write_success
<1>2. addressMap'[a] = p /\ \A b \in Addr \ {a} : addressMap'[b] = addressMap[b]
      BY <1>1 DEF MapType
<1>3. ASSUME NEW b \in Addr \ {a}, Mapped(b)
      PROVE  addressMap[b] \in UsedWithout(a)
  <2>1. currentTransaction # Write(b)  BY DEF Write
  <2>2. addressMap[b] \in used  BY <1>3, <2>1 DEF MapInv, OwnPageUsed, OnlyWrites
  <2>3. Mapped(a) => addressMap[b] # addressMap[a]
        BY <1>3 DEF MapInv, MapInjective
  <2>4. QED  BY <2>2, <2>3 DEF UsedWithout
<1>4. MapInjective'
  <2> SUFFICES ASSUME NEW b \in Addr, NEW c \in Addr, Mapped(b)',
                      addressMap'[b] = addressMap'[c]
               PROVE  b = c
      BY DEF MapInjective
  <2>1. addressMap'[b] # NoPage /\ addressMap'[c] # NoPage  BY DEF Mapped
  <2>2. CASE b = a /\ c # a
    <3>1. Mapped(c)  BY <1>2, <2>1, <2>2 DEF Mapped
    <3>2. QED  BY <1>2, <1>3, <2>2, <3>1
  <2>3. CASE b # a /\ c = a
    <3>1. Mapped(b)  BY <1>2, <2>1, <2>3 DEF Mapped
    <3>2. QED  BY <1>2, <1>3, <2>3, <3>1
  <2>4. CASE b # a /\ c # a
    <3>1. Mapped(b) /\ addressMap[b] = addressMap[c]
          BY <1>2, <2>1, <2>4 DEF Mapped
    <3>2. QED  BY <3>1 DEF MapInv, MapInjective
  <2>5. QED  BY <2>2, <2>3, <2>4
<1>5. OwnPageUsed'
  <2> SUFFICES ASSUME NEW b \in Addr, Mapped(b)' PROVE addressMap'[b] \in used'
      BY DEF OwnPageUsed
  <2>1. CASE b = a  BY <1>1, <1>2, <2>1
  <2>2. CASE b # a
    <3>1. Mapped(b)  BY <1>2, <2>2 DEF Mapped
    <3>2. QED  BY <1>1, <1>2, <1>3, <2>2, <3>1
  <2>3. QED  BY <2>1, <2>2
<1>6. QED  BY <1>4, <1>5 DEF MapInv

LEMMA DiskReadMap ==
    ASSUME QueueInv, MapType, MapInv, NEW a \in Addr, ~Mapped(a),
           currentTransaction.type = "DATA_READ", DiskRead(a), DueInv'
    PROVE  MapInv'
<1> DEFINE p == FindFree(used, writePointer)
<1>1. /\ addressMap' = [addressMap EXCEPT ![a] = p]
      /\ used' = used \cup {p} /\ p # NoPage
      BY DEF DiskRead
<1>2. p \in Pages \ used  BY <1>1, FindFreeSound DEF MapType
<1> HIDE DEF p
<1>3. addressMap'[a] = p /\ \A b \in Addr \ {a} : addressMap'[b] = addressMap[b]
      BY <1>1 DEF MapType
<1>4. \A b \in Addr : Mapped(b) => addressMap[b] \in used
      BY DEF MapInv, OwnPageUsed, OnlyWrites, Write
<1>5. MapInjective'
  <2> SUFFICES ASSUME NEW b \in Addr, NEW c \in Addr, Mapped(b)',
                      addressMap'[b] = addressMap'[c]
               PROVE  b = c
      BY DEF MapInjective
  <2>1. addressMap'[b] # NoPage /\ addressMap'[c] # NoPage  BY DEF Mapped
  <2>2. \A x \in Addr \ {a} : addressMap'[x] # NoPage =>
            Mapped(x) /\ addressMap'[x] # p
        BY <1>2, <1>3, <1>4 DEF Mapped
  <2>3. CASE b = a \/ c = a  BY <1>3, <2>1, <2>2, <2>3
  <2>4. CASE b # a /\ c # a
        BY <1>3, <2>1, <2>2, <2>4 DEF MapInv, MapInjective
  <2>5. QED  BY <2>3, <2>4
<1>6. OwnPageUsed'
  <2> SUFFICES ASSUME NEW b \in Addr, Mapped(b)' PROVE addressMap'[b] \in used'
      BY DEF OwnPageUsed
  <2>1. QED  BY <1>1, <1>3, <1>4 DEF Mapped
<1>7. QED  BY <1>5, <1>6 DEF MapInv

LEMMA WriteRefusedMap ==
    ASSUME RefusalsKept, QueueInv, MapType, MapInv, NEW a \in Addr,
           currentTransaction = Write(a), busy, DueInv',
           busy' \/ (SCHEDULE /\ ~PERFECT_SCHEDULE),
           UNCHANGED <<currentTransaction, writeQueue, addressMap>>,
           used' = UsedWithout(a)
    PROVE  MapInv'
<1>1. MapInjective'  BY DEF MapInv, MapInjective, Mapped
<1>2. OnlyWrites(a)'
  <2>1. CASE busy'  BY <2>1 DEF OnlyWrites, Write
  <2>2. CASE SCHEDULE /\ ~PERFECT_SCHEDULE
    <3>1. ~IDLE_WRITE  BY <2>2, OptionAssumption DEF RefusalsKept
    <3>2. currentTransaction.type = "DATA_WRITE"  BY DEF Write
    <3>3. writeQueue # <<>> /\ Head(writeQueue) = currentTransaction
          BY <2>2, <3>2 DEF QueueInv, CurrentIsQueued, QueuedCurrent, TwoQueues
    <3>4. MustWrite
          BY <2>2, <3>1, <3>2 DEF MapInv, DueInv, WritesWereDue
    <3>5. QED  BY <2>2, <3>1, <3>3, <3>4 DEF OnlyWrites, WriteDue, MustWrite, Write
  <2>3. QED  BY <2>1, <2>2
<1>3. OwnPageUsed'
  <2> SUFFICES ASSUME NEW b \in Addr, Mapped(b)', b # a
               PROVE  addressMap'[b] \in used'
      BY <1>2 DEF OwnPageUsed
  <2>1. Mapped(b) /\ currentTransaction # Write(b)  BY DEF Mapped, Write
  <2>2. addressMap[b] \in used  BY <2>1 DEF MapInv, OwnPageUsed, OnlyWrites
  <2>3. Mapped(a) => addressMap[b] # addressMap[a]
        BY <2>1 DEF MapInv, MapInjective
  <2>4. QED  BY <2>2, <2>3 DEF UsedWithout
<1>4. QED  BY <1>1, <1>3 DEF MapInv

LEMMA MapInvNext ==
    ASSUME RefusalsKept
    PROVE  QueueInv /\ MapType /\ MapInv /\ [Next]_vars => MapInv'
<1> SUFFICES ASSUME QueueInv, MapType, MapInv, [Next]_vars PROVE MapInv'
    OBVIOUS
<1> DEFINE a == currentTransaction.address
           p == FindFree(UsedWithout(a), writePointer)
<1>1. DueInv /\ DueInv'  BY DueInvNext DEF MapInv
<1>2. CASE handle_write
  <2>1. busy /\ currentTransaction = Write(a) /\ a \in Addr
        BY <1>2, WriteSteps
  <2>2. CASE p \in Pages \ UsedWithout(a) /\ write_success(a, p)
        BY <1>1, <2>1, <2>2, WriteSuccessMap
  <2>3. CASE /\ busy' \/ (SCHEDULE /\ ~PERFECT_SCHEDULE)
             /\ UNCHANGED <<currentTransaction, writeQueue>>
             /\ used' = UsedWithout(a) /\ UNCHANGED addressMap
        BY <1>1, <2>1, <2>3, WriteRefusedMap
  <2>4. QED  BY <1>2, <2>2, <2>3, WriteSteps
<1>3. CASE ~handle_write
  <2>1. \A b \in Addr : OnlyWrites(b) => OnlyWrites(b)'
        BY <1>1, <1>3, WriteStaysDue
  <2>2. CASE UNCHANGED <<used, addressMap>>  BY <1>1, <2>1, <2>2, SameMap
  <2>3. CASE /\ currentTransaction.type = "DATA_READ"
             /\ a \in Addr /\ ~Mapped(a) /\ DiskRead(a)
        BY <1>1, <2>3, DiskReadMap
  <2>4. QED  BY <1>3, <2>2, <2>3, MapSteps DEF mapVars
<1>4. QED  BY <1>2, <1>3

(* No two host addresses ever share a page, unless writes that can be      *)
(* refused are scheduled while the FTL is idle ...                         *)
THEOREM MapStaysInjective == RefusalsKept => (Spec => []MapInjective)
<1> SUFFICES ASSUME RefusalsKept PROVE Spec => []MapInjective  OBVIOUS
<1>1. MapInv => MapInjective  BY DEF MapInv
<1>2. QueueInv /\ MapType /\ MapInv /\ [Next]_vars => MapInv'
      BY MapInvNext
<1>3. QED  BY <1>1, <1>2, QueueInit, QueueNext, MapTypeInit, MapTypeNext,
              MapInvInit, PTL DEF Spec

LEMMA OwnPagesMeanUsed == MapInv /\ QueueInv => MappedPagesUsed
<1>1. ASSUME MapInv, QueueInv, NEW a \in Addr, OnlyWrites(a)
      PROVE  currentTransaction = Write(a) /\ QueuedCurrent
  <2>1. CASE busy
        BY <1>1, <2>1 DEF OnlyWrites, QueueInv, CurrentIsQueued
  <2>2. CASE WriteDue
        BY <1>1, <2>2 DEF OnlyWrites, WriteDue, QueuedCurrent, TwoQueues, Write
  <2>3. QED  BY <1>1, <2>1, <2>2 DEF OnlyWrites
<1>2. QED  BY <1>1 DEF MapInv, OwnPageUsed, MappedPagesUsed

(* ... and the page of a mapped address is marked used unless that very    *)
(* address is the next one to be written.                                  *)
THEOREM MappedPagesStayUsed == RefusalsKept => (Spec => []MappedPagesUsed)
<1> SUFFICES ASSUME RefusalsKept PROVE Spec => []MappedPagesUsed  OBVIOUS
<1>1. QueueInv /\ MapType /\ MapInv /\ [Next]_vars => MapInv'
      BY MapInvNext
<1>2. QED  BY <1>1, OwnPagesMeanUsed, QueueInit, QueueNext, MapTypeInit,
              MapTypeNext, MapInvInit, PTL DEF Spec

-----------------------------------------------------------------------------
(* The controller queues and the flags that wait for them.                 *)

FlagInv ==
    /\ read_queues_full \in BOOLEAN /\ write_queues_full \in BOOLEAN
    /\ ctrlQueue \in [Dies -> Seq(Packets)]
    /\ NoLostWakeup

LEMMA FlagInit == Init => FlagInv
<1> SUFFICES ASSUME Init PROVE FlagInv  OBVIOUS
<1>1. ctrlQueue \in [Dies -> Seq(Packets)]  BY EmptySeq DEF Init
<1>2. NoLostWakeup  BY DEF Init, NoLostWakeup
<1>3. QED  BY <1>1, <1>2 DEF Init, FlagInv

LEMMA PacketType ==
    ASSUME NEW a \in Addr, NEW p \in Pages,
           NEW k \in {"READ", "DATA", "WRITE"}
    PROVE  Packet(k, a, p) \in Packets
BY DEF Packet, Packets

(* A packet is only refused by a queue that holds something: this is where *)
(* a queue length of one would break the argument.                         *)
LEMMA RefusedNotEmpty ==
    ASSUME FlagInv, NEW d \in Dies, ~checkQueueWrite(d) \/ ~Accepts(d)
    PROVE  ctrlQueue[d] # <<>>
<1> SUFFICES ASSUME ctrlQueue[d] = <<>> PROVE FALSE  OBVIOUS
<1>1. Len(ctrlQueue[d]) = 0  OBVIOUS
<1>2. QED
      BY <1>1, OptionAssumption, CtrlQueueAssumption DEF checkQueueWrite, Accepts

LEMMA SameFlags ==
    ASSUME FlagInv, UNCHANGED <<fullVars, ctrlQueue>>
    PROVE  FlagInv'
BY DEF FlagInv, fullVars, NoLostWakeup

(* Packets are added and the flags stay as they are.                       *)
LEMMA PushFlags ==
    ASSUME FlagInv, NEW d \in Dies, NEW q \in Seq(Packets), q # <<>>,
           ctrlQueue' = [ctrlQueue EXCEPT ![d] = q], UNCHANGED fullVars
    PROVE  FlagInv'
<1>1. /\ ctrlQueue' \in [Dies -> Seq(Packets)]
      /\ ctrlQueue'[d] # <<>>
      BY DEF FlagInv
<1>2. NoLostWakeup'  BY <1>1 DEF FlagInv, NoLostWakeup, fullVars
<1>3. QED  BY <1>1, <1>2 DEF FlagInv, fullVars

(* A flag is raised next to a queue with something in it.                  *)
LEMMA RaiseFlags ==
    ASSUME FlagInv, NEW d \in Dies, ctrlQueue[d] # <<>>, UNCHANGED ctrlQueue,
           read_queues_full' \in BOOLEAN, write_queues_full' \in BOOLEAN
    PROVE  FlagInv'
BY DEF FlagInv, NoLostWakeup

LEMMA SendReadFlags ==
    ASSUME FlagInv, NEW a \in Addr, NEW p \in Pages, SendRead(a, p)
    PROVE  FlagInv'
<1> DEFINE d == DieOf(p)
           q == Append(ctrlQueue[d], Packet("READ", a, p))
<1>1. d \in Dies  BY DieOfType
<1> HIDE DEF d
<1>2. CASE ctrlQueue' = [ctrlQueue EXCEPT ![d] = q] /\ ReadLeaves
  <2>1. q \in Seq(Packets) /\ q # <<>>
        BY <1>1, PacketType, AppendProperties DEF FlagInv
  <2> HIDE DEF q
  <2>2. QED  BY <1>1, <1>2, <2>1, PushFlags DEF ReadLeaves
<1>3. CASE /\ ~Accepts(d) /\ UNCHANGED ctrlQueue
           /\ IF SCHEDULE THEN TryNextRead ELSE ReadWaits
  <2>1. ctrlQueue[d] # <<>>  BY <1>1, <1>3, RefusedNotEmpty
  <2>2. CASE TryNextRead
    <3>1. /\ read_queues_full' \in BOOLEAN /\ write_queues_full' \in BOOLEAN
          BY <2>2 DEF TryNextRead, FlagInv
    <3>2. QED  BY <1>1, <1>3, <2>1, <3>1, RaiseFlags
  <2>3. CASE ReadWaits
    <3>1. /\ read_queues_full' \in BOOLEAN /\ write_queues_full' \in BOOLEAN
          BY <2>3 DEF ReadWaits, FlagInv
    <3>2. QED  BY <1>1, <1>3, <2>1, <3>1, RaiseFlags
  <2>4. QED  BY <1>3, <2>2, <2>3
<1>4. QED  BY <1>2, <1>3 DEF SendRead, d

LEMMA ReadFlags ==
    ASSUME QueueInv, MapType, FlagInv, handle_read
    PROVE  FlagInv'
<1> DEFINE a == currentTransaction.address
           p == FindFree(used, writePointer)
<1>0. a \in Addr  BY AddressType
<1>1. CASE FoundInWriteQueue(a)  BY <1>1, SameFlags DEF FoundInWriteQueue
<1>2. CASE AccessWriteQueue(a)
      BY <1>2, SameFlags DEF AccessWriteQueue, ReadLeaves
<1>3. CASE ReadMapped(a)
  <2>1. addressMap[a] \in Pages
        BY <1>0, <1>3 DEF ReadMapped, Mapped, MapType
  <2>2. QED  BY <1>0, <1>3, <2>1, SendReadFlags DEF ReadMapped
<1>4. CASE ReadUnmapped(a)
      BY <1>4, SameFlags DEF ReadUnmapped, ReadLeaves
<1>5. CASE DiskRead(a)
  <2>1. p \in Pages  BY <1>5, FindFreeSound DEF DiskRead, MapType
  <2>2. QED  BY <1>0, <1>5, <2>1, SendReadFlags DEF DiskRead
<1>6. CASE DiskReadNoPage(a)  BY <1>6, SameFlags DEF DiskReadNoPage
<1>7. QED  BY <1>1, <1>2, <1>3, <1>4, <1>5, <1>6 DEF handle_read

LEMMA WriteFlags ==
    ASSUME QueueInv, MapType, FlagInv, handle_write
    PROVE  FlagInv'
<1> DEFINE a == currentTransaction.address
           p == FindFree(UsedWithout(a), writePointer)
           d == DieOf(p)
<1>0. a \in Addr  BY AddressType
<1>1. p # NoPage => p \in Pages /\ d \in Dies
      BY UsedWithoutType, FindFreeSound, DieOfType
<1>2. CASE WriteFaked(a, p)
      BY <1>2, SameFlags DEF WriteFaked, write_success, WriteLeaves
<1>3. CASE p # NoPage /\ WriteSent(a, p)
  <2> DEFINE pair == <<Packet("DATA", a, p), Packet("WRITE", a, p)>>
             q == ctrlQueue[d] \o pair
  <2>1. pair \in Seq(Packets) /\ Len(pair) = 2
    <3>1. Packet("DATA", a, p) \in Packets /\ Packet("WRITE", a, p) \in Packets
          BY <1>0, <1>1, <1>3, PacketType
    <3>2. QED  BY <3>1
  <2>2. ctrlQueue[d] \in Seq(Packets)  BY <1>1, <1>3 DEF FlagInv
  <2> HIDE DEF pair
  <2>3. q \in Seq(Packets) /\ Len(q) = Len(ctrlQueue[d]) + 2
    <3> DEFINE c == ctrlQueue[d]
    <3>1. c \in Seq(Packets)  BY <2>2
    <3> HIDE DEF c
    <3>2. c \o pair \in Seq(Packets) /\ Len(c \o pair) = Len(c) + Len(pair)
          BY <2>1, <3>1, ConcatProperties
    <3>3. Len(c \o pair) = Len(c) + 2  BY <2>1, <3>2
    <3>4. QED  BY <3>2, <3>3 DEF c
  <2>4. Len(ctrlQueue[d]) \in Nat  BY <2>2, LenProperties
  <2>5. q # <<>>
    <3> HIDE DEF q
    <3>1. QED  BY <2>3, <2>4, EmptySeq
  <2>6. ctrlQueue' = [ctrlQueue EXCEPT ![d] = q] /\ UNCHANGED fullVars
        BY <1>3 DEF WriteSent, write_success, WriteLeaves, pair
  <2> HIDE DEF q, d
  <2>7. QED  BY <1>1, <1>3, <2>3, <2>5, <2>6, PushFlags
<1>4. CASE p # NoPage /\ WriteBlocked(a, p)
  <2>1. ctrlQueue[d] # <<>>
        BY <1>1, <1>4, RefusedNotEmpty DEF WriteBlocked
  <2>2. /\ read_queues_full' \in BOOLEAN /\ write_queues_full' \in BOOLEAN
        /\ UNCHANGED ctrlQueue
        BY <1>4 DEF WriteBlocked, FlagInv
  <2> HIDE DEF d
  <2>3. QED  BY <1>1, <1>4, <2>1, <2>2, RaiseFlags
<1>5. CASE WriteNoPage(a)  BY <1>5, SameFlags DEF WriteNoPage
<1>6. QED  BY <1>2, <1>3, <1>4, <1>5 DEF handle_write

LEMMA PopFlags ==
    ASSUME FlagInv, NEW d \in Dies, CtrlPop(d)
    PROVE  FlagInv'
<1>1. /\ read_queues_full' = FALSE /\ write_queues_full' = FALSE
      /\ ctrlQueue' = [ctrlQueue EXCEPT ![d] = Tail(@)]
      /\ ctrlQueue[d] # <<>>
      BY DEF CtrlPop, queuesNotFull
<1>2. Tail(ctrlQueue[d]) \in Seq(Packets)
      BY <1>1, HeadTailProperties DEF FlagInv
<1>3. ctrlQueue' \in [Dies -> Seq(Packets)]  BY <1>1, <1>2 DEF FlagInv
<1>4. NoLostWakeup'  BY <1>1 DEF NoLostWakeup
<1>5. QED  BY <1>1, <1>3, <1>4 DEF FlagInv

LEMMA FlagNext == QueueInv /\ MapType /\ FlagInv /\ [Next]_vars => FlagInv'
<1> SUFFICES ASSUME QueueInv, MapType, FlagInv, [Next]_vars PROVE FlagInv'
    OBVIOUS
<1>1. CASE \E a \in Addr : HostRead(a) \/ HostWrite(a)
      BY <1>1, SameFlags DEF HostRead, HostWrite, HostUnchanged
<1>2. CASE Schedule  BY <1>2, SameFlags DEF Schedule
<1>3. CASE Lookup  BY <1>3, SameFlags DEF Lookup
<1>4. CASE handle_read  BY <1>4, ReadFlags
<1>5. CASE handle_write  BY <1>5, WriteFlags
<1>6. CASE \E d \in Dies : CtrlPop(d)  BY <1>6, PopFlags
<1>7. CASE UNCHANGED vars  BY <1>7, SameFlags DEF vars
<1>8. QED
      BY <1>1, <1>2, <1>3, <1>4, <1>5, <1>6, <1>7 DEF Next, Update, Pop

(* Whenever the FTL waits for queuesNotFull, some controller queue holds a *)
(* packet whose pop will call it.                                          *)
THEOREM NoWakeupIsLost == Spec => []NoLostWakeup
<1>1. FlagInv => NoLostWakeup  BY DEF FlagInv
<1>2. QED  BY <1>1, QueueInit, QueueNext, MapTypeInit, MapTypeNext, FlagInit,
              FlagNext, PTL DEF Spec

-----------------------------------------------------------------------------
(* The timers, and with them the type invariant.                           *)

TimerInv ==
    /\ {queue_access_counter, write_wait_count, reading_write} \subseteq Nat
    /\ halted \in {"no", "full", "empty_front"}

LEMMA TimerInit == Init => TimerInv
BY OptionAssumption DEF Init, TimerInv, End

LEMMA ReadTimers ==
    ASSUME TimerInv, handle_read
    PROVE  TimerInv'
<1> DEFINE a == currentTransaction.address
<1>1. write_wait_count' \in Nat /\ reading_write' \in Nat
      BY DEF handle_read, search, End, TimerInv
<1>2. queue_access_counter' \in Nat /\ halted' \in {halted, "full"}
  <2>1. CASE FoundInWriteQueue(a)  BY <2>1, OptionAssumption DEF FoundInWriteQueue
  <2>2. CASE AccessWriteQueue(a)  BY <2>2 DEF AccessWriteQueue, TimerInv
  <2>3. CASE UNCHANGED queue_access_counter /\ halted' \in {halted, "full"}
        BY <2>3 DEF TimerInv
  <2>4. QED
        BY <2>1, <2>2, <2>3 DEF handle_read, ReadMapped, ReadUnmapped, DiskRead, DiskReadNoPage
<1>3. QED  BY <1>1, <1>2 DEF TimerInv

LEMMA TimerNext == TimerInv /\ [Next]_vars => TimerInv'
<1> SUFFICES ASSUME TimerInv, [Next]_vars PROVE TimerInv'
    OBVIOUS
<1>1. CASE UNCHANGED timerVars /\ halted' \in {halted, "full"}
      BY <1>1 DEF TimerInv, timerVars
<1>2. CASE \E a \in Addr : HostRead(a) \/ HostWrite(a)
      BY <1>1, <1>2 DEF HostRead, HostWrite, HostUnchanged
<1>3. CASE Schedule
  <2>1. UNCHANGED <<queue_access_counter, reading_write>>  BY <1>3 DEF Schedule
  <2>2. /\ write_wait_count' \in Nat
        /\ halted' \in {"no", "full", "empty_front"}
    <3>1. CASE ScheduleIdleWrite
      <4>1. write_wait_count' \in {write_wait_count, DELAY_WRITE_CYCLES}
            \/ (write_wait_count # 0 /\ write_wait_count' = write_wait_count - 1)
            BY <3>1 DEF ScheduleIdleWrite
      <4>2. halted' = halted  BY <3>1 DEF ScheduleIdleWrite
      <4>3. QED  BY <4>1, <4>2, OptionAssumption DEF TimerInv
    <3>2. CASE ~ScheduleIdleWrite
          BY <1>3, <3>2 DEF Schedule, scheduleCurrentTransaction, ScheduleWrite,
             ScheduleFromEmptyQueue, ScheduleRead, TakeFront, TimerInv
    <3>3. QED  BY <3>1, <3>2
  <2>3. QED  BY <2>1, <2>2 DEF TimerInv
<1>4. CASE Lookup  BY <1>1, <1>4 DEF Lookup
<1>5. CASE handle_read  BY <1>5, ReadTimers
<1>6. CASE handle_write  BY <1>1, <1>6 DEF handle_write, WriteNoPage
<1>7. CASE \E d \in Dies : CtrlPop(d)  BY <1>1, <1>7 DEF CtrlPop
<1>8. CASE UNCHANGED vars  BY <1>1, <1>8 DEF vars
<1>9. QED
      BY <1>2, <1>3, <1>4, <1>5, <1>6, <1>7, <1>8 DEF Next, Update, Pop

(* Type correctness, for every geometry, queue length and option.          *)
THEOREM TypeCorrect == Spec => []TypeOK
<1>1. QueueInv /\ MapType /\ FlagInv /\ TimerInv => TypeOK
      BY DEF QueueInv, QueuedWrites, MapType, FlagInv, TimerInv, TypeOK
<1>2. QED  BY <1>1, QueueInit, QueueNext, MapTypeInit, MapTypeNext, FlagInit,
              FlagNext, TimerInit, TimerNext, PTL DEF Spec

-----------------------------------------------------------------------------
(* Every request is accounted for.  A transaction of a kind and an address *)
(* waits in the queues of the FTL or, as a command, in the controller; the *)
(* lemmas say what every action does to the two counts and to the answers  *)
(* that are owed.                                                          *)

Kinds == {"DATA_READ", "DATA_WRITE"}
Request(k, a) == [type |-> k, address |-> a]
Command(k) == IF k = "DATA_READ" THEN "READ" ELSE "WRITE"
CommandsFor(k, a) == {p \in Packets : p.type = Command(k) /\ p.address = a}

Queued(k, a) ==
    CountIn(readQueue, {Request(k, a)}) + CountIn(writeQueue, {Request(k, a)})
Commanded(k, a) == CountAmong(ctrlQueue, Dies, CommandsFor(k, a))

AccountInv ==
    /\ owed \in [Kinds -> [Addr -> Int]]
    /\ \A k \in Kinds, a \in Addr : owed[k][a] = Queued(k, a) + Commanded(k, a)

LEMMA DiesFinite == IsFiniteSet(Dies)
<1>1. IsFiniteSet(Packages) /\ IsFiniteSet(0 .. DIES_PER_PACKAGE - 1)
      BY GeometryAssumption, FS_Interval DEF Packages
<1>2. QED  BY <1>1, FS_Product DEF Dies

LEMMA QueuedType ==
    ASSUME readQueue \in Seq(Transactions), writeQueue \in Seq(QueuedWrites)
    PROVE  \A k, a : /\ CountIn(readQueue, {Request(k, a)}) \in Nat
                     /\ CountIn(writeQueue, {Request(k, a)}) \in Nat
                     /\ Queued(k, a) \in Nat
<1>1. \A T : CountIn(readQueue, T) \in Nat /\ CountIn(writeQueue, T) \in Nat
      BY CountType
<1>2. QED  BY <1>1 DEF Queued

LEMMA CommandedType ==
    ASSUME ctrlQueue \in [Dies -> Seq(Packets)]
    PROVE  \A k, a : Commanded(k, a) \in Nat
BY DiesFinite, CountAmongType DEF Commanded

(* The invariant is the property, given the types.                         *)
LEMMA AccountMeansAccounted ==
    ASSUME QueueInv, FlagInv, AccountInv
    PROVE  EveryRequestAccounted
<1>1. readQueue \in Seq(Transactions) /\ writeQueue \in Seq(QueuedWrites)
      /\ ctrlQueue \in [Dies -> Seq(Packets)]
      BY DEF QueueInv, FlagInv
<1>2. \A s, e : Occurrences(s, e) = CountIn(s, {e})
      BY DEF Occurrences, CountIn, Places
<1>3. ASSUME NEW k \in Kinds, NEW a \in Addr
      PROVE  InController(Command(k), a) = Commanded(k, a)
  <2> DEFINE On(d) == {i \in DOMAIN ctrlQueue[d] :
                ctrlQueue[d][i].type = Command(k) /\ ctrlQueue[d][i].address = a}
  <2>1. ASSUME NEW d \in Dies
        PROVE  On(d) = Places(ctrlQueue[d], CommandsFor(k, a))
    <3> DEFINE q == ctrlQueue[d]
    <3>1. q \in Seq(Packets)  BY <1>1
    <3> HIDE DEF q
    <3>2. \A i \in DOMAIN q : q[i] \in Packets  BY <3>1, LenProperties, ElementOfSeq
    <3>3. {i \in DOMAIN q : q[i].type = Command(k) /\ q[i].address = a}
             = Places(q, CommandsFor(k, a))
          BY <3>2 DEF Places, CommandsFor
    <3>4. QED  BY <3>3 DEF q
  <2>2. InController(Command(k), a) = Cardinality(UNION {{d} \X On(d) : d \in Dies})
        BY DEF InController
  <2> HIDE DEF On
  <2>3. {{d} \X On(d) : d \in Dies}
           = {{d} \X Places(ctrlQueue[d], CommandsFor(k, a)) : d \in Dies}
        BY <2>1
  <2>4. QED  BY <2>2, <2>3 DEF Commanded, CountAmong, PlacesAmong
<1>4. ASSUME NEW a \in Addr  PROVE CountIn(writeQueue, {Read(a)}) = 0
  <2>1. \A i \in 1 .. Len(writeQueue) : writeQueue[i] \in QueuedWrites
        BY <1>1, ElementOfSeq
  <2>2. Read(a) \notin QueuedWrites  BY DEF Read, QueuedWrites
  <2>3. ~(CountIn(writeQueue, {Read(a)}) > 0)  BY <1>1, <2>1, <2>2, CountPositive
  <2>4. CountIn(writeQueue, {Read(a)}) \in Nat  BY <1>1, CountType
  <2>5. QED  BY <2>3, <2>4
<1>5. ASSUME NEW a \in Addr
      PROVE  owed["DATA_READ"][a] = Occurrences(readQueue, Read(a)) + InController("READ", a)
  <2>1. "DATA_READ" \in Kinds /\ Command("DATA_READ") = "READ" /\ Request("DATA_READ", a) = Read(a)
        BY DEF Kinds, Command, Request, Read
  <2>2. owed["DATA_READ"][a] = Queued("DATA_READ", a) + Commanded("DATA_READ", a)
        BY <2>1 DEF AccountInv
  <2>3. Queued("DATA_READ", a) = CountIn(readQueue, {Read(a)})
    <3>1. CountIn(readQueue, {Read(a)}) \in Nat  BY <1>1, CountType
    <3>2. CountIn(writeQueue, {Read(a)}) = 0  BY <1>4
    <3>3. QED  BY <2>1, <3>1, <3>2 DEF Queued
  <2>4. QED  BY <1>2, <1>3, <2>1, <2>2, <2>3
<1>6. ASSUME NEW a \in Addr
      PROVE  owed["DATA_WRITE"][a] =
                Occurrences(readQueue, Write(a)) + Occurrences(writeQueue, Write(a))
                + InController("WRITE", a)
  <2>1. "DATA_WRITE" \in Kinds /\ Command("DATA_WRITE") = "WRITE"
        /\ Request("DATA_WRITE", a) = Write(a)
        BY DEF Kinds, Command, Request, Write
  <2>2. owed["DATA_WRITE"][a] = Queued("DATA_WRITE", a) + Commanded("DATA_WRITE", a)
        BY <2>1 DEF AccountInv
  <2>3. QED  BY <1>2, <1>3, <2>1, <2>2 DEF Queued
<1>7. QED  BY <1>5, <1>6 DEF EveryRequestAccounted

(* An answer that is owed from now on, and one that is given.              *)
LEMMA OwedStep ==
    ASSUME owed \in [Kinds -> [Addr -> Int]], NEW kind \in Kinds, NEW b \in Addr, NEW n \in Int,
           owed' = [owed EXCEPT ![kind][b] = @ + n]
    PROVE  /\ owed' \in [Kinds -> [Addr -> Int]]
           /\ \A k \in Kinds, a \in Addr :
                 owed'[k][a] = owed[k][a] + IF k = kind /\ a = b THEN n ELSE 0
<1>1. \A k \in Kinds, a \in Addr : owed[k][a] \in Int  OBVIOUS
<1>2. \A k \in Kinds, a \in Addr :
         owed'[k][a] = IF k = kind /\ a = b THEN owed[k][a] + n ELSE owed[k][a]
      OBVIOUS
<1>3. owed' \in [Kinds -> [Addr -> Int]]  BY <1>1
<1>4. QED  BY <1>1, <1>2, <1>3

LEMMA AnswerStep ==
    ASSUME owed \in [Kinds -> [Addr -> Int]], NEW kind \in Kinds, NEW b \in Addr,
           Answer(kind, b)
    PROVE  /\ owed' \in [Kinds -> [Addr -> Int]]
           /\ \A k \in Kinds, a \in Addr :
                 owed'[k][a] = owed[k][a] + IF k = kind /\ a = b THEN -1 ELSE 0
<1>1. \A k \in Kinds, a \in Addr : owed[k][a] \in Int  OBVIOUS
<1>2. \A k \in Kinds, a \in Addr :
         owed'[k][a] = IF k = kind /\ a = b THEN owed[k][a] - 1 ELSE owed[k][a]
      BY DEF Answer
<1>3. owed' \in [Kinds -> [Addr -> Int]]  BY <1>1 DEF Answer
<1>4. QED  BY <1>1, <1>2, <1>3

(* A transaction is queued.                                                *)
LEMMA RequestAdded ==
    ASSUME NEW S, NEW q \in Seq(S), NEW t \in S
    PROVE  \A k, a : CountIn(Append(q, t), {Request(k, a)}) =
                        CountIn(q, {Request(k, a)}) + OneIf(t = Request(k, a))
<1>1. ASSUME NEW k, NEW a
      PROVE  CountIn(Append(q, t), {Request(k, a)}) =
                CountIn(q, {Request(k, a)}) + OneIf(t = Request(k, a))
  <2>1. CountIn(Append(q, t), {Request(k, a)}) =
           CountIn(q, {Request(k, a)}) + OneIf(t \in {Request(k, a)})
        BY CountAppend
  <2>2. QED  BY <2>1 DEF OneIf
<1>2. QED  BY <1>1

LEMMA CountedWithoutOne ==
    ASSUME NEW S, NEW q \in Seq(S), NEW i \in 1 .. Len(q), NEW e
    PROVE  /\ CountIn(q, {e}) = CountIn(RemoveAt(q, i), {e}) + OneIf(q[i] = e)
           /\ CountIn(RemoveAt(q, i), {e}) \in Nat
<1>1. RemoveAt(q, i) \in Seq(S)  BY RemoveAtProperties
<1>2. CountIn(q, {e}) = CountIn(RemoveAt(q, i), {e}) + OneIf(q[i] \in {e})
      BY CountRemoveAt
<1>3. QED  BY <1>1, <1>2, CountType DEF OneIf

LEMMA CountedWithoutFirst ==
    ASSUME NEW S, NEW q \in Seq(S), q # <<>>, NEW e
    PROVE  /\ CountIn(q, {e}) = CountIn(Tail(q), {e}) + OneIf(Head(q) = e)
           /\ CountIn(Tail(q), {e}) \in Nat
<1>1. Tail(q) \in Seq(S)  BY HeadTailProperties
<1>2. CountIn(q, {e}) = OneIf(Head(q) \in {e}) + CountIn(Tail(q), {e})
      BY CountHeadTail
<1>3. CountIn(Tail(q), {e}) \in Nat  BY <1>1, CountType
<1>4. QED  BY <1>2, <1>3 DEF OneIf

(* The transaction the FTL works on leaves its queue.                      *)
LEMMA CurrentLeaves ==
    ASSUME QueueInv, busy,
           \/ currentTransaction.type = "DATA_READ" /\ ReadLeaves
           \/ currentTransaction.type = "DATA_WRITE" /\ WriteLeaves
    PROVE  \A k, a : /\ Queued(k, a) = Queued(k, a)' + OneIf(currentTransaction = Request(k, a))
                     /\ Queued(k, a) \in Nat /\ Queued(k, a)' \in Nat
<1>1. readQueue \in Seq(Transactions) /\ writeQueue \in Seq(QueuedWrites)
      BY DEF QueueInv
<1>2. QueuedCurrent  BY DEF QueueInv, CurrentIsQueued
<1>3. ASSUME NEW k, NEW a
      PROVE  /\ Queued(k, a) = Queued(k, a)' + OneIf(currentTransaction = Request(k, a))
             /\ Queued(k, a) \in Nat /\ Queued(k, a)' \in Nat
  <2> DEFINE T == {Request(k, a)}
             one == OneIf(currentTransaction = Request(k, a))
  <2>1. CountIn(readQueue, T) \in Nat /\ CountIn(writeQueue, T) \in Nat /\ one \in Nat
        BY <1>1, QueuedType DEF OneIf
  <2>2. \/ /\ CountIn(readQueue, T) = CountIn(readQueue', T) + one
           /\ CountIn(readQueue', T) \in Nat /\ writeQueue' = writeQueue
        \/ /\ CountIn(writeQueue, T) = CountIn(writeQueue', T) + one
           /\ CountIn(writeQueue', T) \in Nat /\ readQueue' = readQueue
    <3>1. CASE currentTransaction.type = "DATA_READ" /\ ReadLeaves /\ TwoQueues
      <4>1. /\ read_pointer \in 1 .. Len(readQueue)
            /\ readQueue[read_pointer] = currentTransaction
            BY <1>1, <1>2, <3>1, LenProperties DEF QueuedCurrent
      <4>2. readQueue' = RemoveAt(readQueue, read_pointer) /\ writeQueue' = writeQueue
            BY <3>1 DEF ReadLeaves
      <4> DEFINE i == read_pointer
      <4>3. i \in 1 .. Len(readQueue)  BY <4>1
      <4> HIDE DEF i
      <4>4. /\ CountIn(readQueue, {Request(k, a)}) = CountIn(RemoveAt(readQueue, i), {Request(k, a)})
                                                     + OneIf(readQueue[i] = Request(k, a))
            /\ CountIn(RemoveAt(readQueue, i), {Request(k, a)}) \in Nat
            BY <1>1, <4>3, CountedWithoutOne, Zenon
      <4>5. readQueue' = RemoveAt(readQueue, i) /\ readQueue[i] = currentTransaction
            BY <4>1, <4>2 DEF i
      <4>6. QED  BY <4>2, <4>4, <4>5
    <3>2. CASE currentTransaction.type = "DATA_WRITE" /\ WriteLeaves /\ TwoQueues
      <4>1. writeQueue # <<>> /\ Head(writeQueue) = currentTransaction
            BY <1>2, <3>2 DEF QueuedCurrent
      <4>2. writeQueue' = Tail(writeQueue) /\ readQueue' = readQueue
            BY <3>2 DEF WriteLeaves
      <4>3. /\ CountIn(writeQueue, {Request(k, a)})
                  = CountIn(Tail(writeQueue), {Request(k, a)})
                      + OneIf(Head(writeQueue) = Request(k, a))
            /\ CountIn(Tail(writeQueue), {Request(k, a)}) \in Nat
            BY <1>1, <4>1, CountedWithoutFirst, Zenon
      <4>4. QED  BY <4>1, <4>2, <4>3
    <3>3. CASE ~TwoQueues
      <4>1. readQueue # <<>> /\ Head(readQueue) = currentTransaction
            BY <1>2, <3>3 DEF QueuedCurrent
      <4>2. readQueue' = Tail(readQueue) /\ writeQueue' = writeQueue
            BY <3>3 DEF ReadLeaves, WriteLeaves
      <4>3. CountIn(readQueue, T) = CountIn(Tail(readQueue), T) + one
            /\ CountIn(Tail(readQueue), T) \in Nat
            BY <1>1, <4>1, CountedWithoutFirst
      <4>4. QED  BY <4>2, <4>3
    <3>4. QED  BY <3>1, <3>2, <3>3
  <2>3. Queued(k, a) = CountIn(readQueue, T) + CountIn(writeQueue, T)  BY DEF Queued
  <2>4. Queued(k, a)' = CountIn(readQueue', T) + CountIn(writeQueue', T)  BY DEF Queued, Request
  <2> HIDE DEF T, one
  <2>5. CountIn(readQueue, T) + CountIn(writeQueue, T)
           = CountIn(readQueue', T) + CountIn(writeQueue', T) + one
        /\ CountIn(readQueue', T) + CountIn(writeQueue', T) \in Nat
        /\ CountIn(readQueue, T) + CountIn(writeQueue, T) \in Nat
        BY <2>1, <2>2
  <2>6. QED  BY <2>3, <2>4, <2>5 DEF one
<1>4. QED  BY <1>3

LEMMA CommandsExchanged ==
    ASSUME NEW d \in Dies, NEW X, NEW old \in [Dies -> Seq(Packets)],
           NEW new \in [Dies -> Seq(Packets)], \A e \in Dies \ {d} : new[e] = old[e]
    PROVE  CountAmong(new, Dies, X) + CountIn(old[d], X)
              = CountAmong(old, Dies, X) + CountIn(new[d], X)
<1>1. IsFiniteSet(Dies)  BY DiesFinite
<1>2. CountsDifferAtOne(Packets, Dies, X)  BY <1>1, CountAmongStep
<1>3. QED  BY <1>2 DEF CountsDifferAtOne

(* The queue of one die is exchanged.                                      *)
LEMMA CommandedStep ==
    ASSUME FlagInv, NEW d \in Dies, NEW q \in Seq(Packets),
           ctrlQueue' = [ctrlQueue EXCEPT ![d] = q]
    PROVE  \A k, a : /\ Commanded(k, a)' + CountIn(ctrlQueue[d], CommandsFor(k, a))
                           = Commanded(k, a) + CountIn(q, CommandsFor(k, a))
                     /\ Commanded(k, a) \in Nat /\ Commanded(k, a)' \in Nat
<1>1. /\ ctrlQueue \in [Dies -> Seq(Packets)] /\ ctrlQueue' \in [Dies -> Seq(Packets)]
      /\ ctrlQueue'[d] = q /\ \A e \in Dies \ {d} : ctrlQueue'[e] = ctrlQueue[e]
      BY DEF FlagInv
<1>2. ASSUME NEW k, NEW a
      PROVE  /\ Commanded(k, a)' + CountIn(ctrlQueue[d], CommandsFor(k, a))
                   = Commanded(k, a) + CountIn(q, CommandsFor(k, a))
             /\ Commanded(k, a) \in Nat /\ Commanded(k, a)' \in Nat
  <2> DEFINE T == CommandsFor(k, a)
  <2>1. /\ Commanded(k, a) = CountAmong(ctrlQueue, Dies, T)
        /\ Commanded(k, a)' = CountAmong(ctrlQueue', Dies, T)
        BY DEF Commanded, CommandsFor, Command, Packets
  <2> HIDE DEF T
  <2>2. CountAmong(ctrlQueue', Dies, T) + CountIn(ctrlQueue[d], T)
           = CountAmong(ctrlQueue, Dies, T) + CountIn(ctrlQueue'[d], T)
        BY <1>1, CommandsExchanged
  <2>3. CountAmong(ctrlQueue, Dies, T) \in Nat /\ CountAmong(ctrlQueue', Dies, T) \in Nat
        BY <1>1, DiesFinite, CountAmongType
  <2>4. QED  BY <1>1, <2>1, <2>2, <2>3 DEF T
<1>3. QED  BY <1>2

LEMMA IsCommand ==
    ASSUME NEW type \in {"READ", "DATA", "WRITE"}, NEW b \in Addr, NEW p \in Pages
    PROVE  \A k \in Kinds, a \in Addr :
              Packet(type, b, p) \in CommandsFor(k, a) <=> type = Command(k) /\ a = b
BY DEF Packet, CommandsFor, Packets, Kinds, Command

(* The answer of a transaction that is sent is still owed; one that leaves *)
(* without being sent is answered at once.                                 *)
LEMMA SentAccount ==
    ASSUME QueueInv, FlagInv, AccountInv, busy, NEW d \in Dies, NEW q \in Seq(Packets),
           currentTransaction \in Transactions,
           \/ currentTransaction.type = "DATA_READ" /\ ReadLeaves
           \/ currentTransaction.type = "DATA_WRITE" /\ WriteLeaves,
           ctrlQueue' = [ctrlQueue EXCEPT ![d] = q], UNCHANGED owed,
           \A k \in Kinds, a \in Addr : CountIn(q, CommandsFor(k, a)) =
              CountIn(ctrlQueue[d], CommandsFor(k, a)) + OneIf(currentTransaction = Request(k, a))
    PROVE  AccountInv'
<1>1. ASSUME NEW k \in Kinds, NEW a \in Addr
      PROVE  owed'[k][a] = Queued(k, a)' + Commanded(k, a)'
  <2> DEFINE one == OneIf(currentTransaction = Request(k, a))
             here == CountIn(ctrlQueue[d], CommandsFor(k, a))
  <2>1. one \in Nat  BY DEF OneIf
  <2>2. owed[k][a] = Queued(k, a) + Commanded(k, a)  BY DEF AccountInv
  <2>3. /\ Queued(k, a) = Queued(k, a)' + one
        /\ Queued(k, a) \in Nat /\ Queued(k, a)' \in Nat
        BY CurrentLeaves
  <2>4. /\ Commanded(k, a)' + here = Commanded(k, a) + CountIn(q, CommandsFor(k, a))
        /\ Commanded(k, a) \in Nat /\ Commanded(k, a)' \in Nat
        BY CommandedStep
  <2>5. CountIn(q, CommandsFor(k, a)) = here + one  OBVIOUS
  <2>6. here \in Nat
    <3>1. ctrlQueue[d] \in Seq(Packets)  BY DEF FlagInv
    <3>2. QED  BY <3>1, CountType
  <2> HIDE DEF one, here
  <2>7. ASSUME NEW w \in Nat, NEW c \in Nat, NEW w1 \in Nat, NEW c1 \in Nat, w = w1 + one,
               c1 + here = c + (here + one)
        PROVE  w + c = w1 + c1
        BY <2>1, <2>6, <2>7
  <2>8. Queued(k, a) + Commanded(k, a) = Queued(k, a)' + Commanded(k, a)'
        BY <2>3, <2>4, <2>5, <2>7
  <2>9. QED  BY <2>2, <2>8
<1>2. QED  BY <1>1 DEF AccountInv

LEMMA AnsweredAccount ==
    ASSUME QueueInv, FlagInv, AccountInv, busy, currentTransaction \in Transactions,
           \/ currentTransaction.type = "DATA_READ" /\ ReadLeaves
           \/ currentTransaction.type = "DATA_WRITE" /\ WriteLeaves,
           UNCHANGED ctrlQueue, Answer(currentTransaction.type, currentTransaction.address)
    PROVE  AccountInv'
<1> DEFINE t == currentTransaction
<1>1. t.type \in Kinds /\ t.address \in Addr  BY DEF Transactions, Kinds
<1>2. \A k \in Kinds, a \in Addr : t = Request(k, a) <=> k = t.type /\ a = t.address
      BY DEF Transactions, Request, Kinds
<1>3. /\ owed' \in [Kinds -> [Addr -> Int]]
      /\ \A k \in Kinds, a \in Addr :
            owed'[k][a] = owed[k][a] + IF k = t.type /\ a = t.address THEN -1 ELSE 0
      BY <1>1, AnswerStep DEF AccountInv
<1>4. ASSUME NEW k \in Kinds, NEW a \in Addr
      PROVE  owed'[k][a] = Queued(k, a)' + Commanded(k, a)'
  <2>1. owed[k][a] = Queued(k, a) + Commanded(k, a)  BY DEF AccountInv
  <2>2. /\ Queued(k, a) = Queued(k, a)' + OneIf(t = Request(k, a))
        /\ Queued(k, a) \in Nat /\ Queued(k, a)' \in Nat
        BY CurrentLeaves
  <2>3. Commanded(k, a)' = Commanded(k, a)  BY DEF Commanded, CommandsFor, Command, Packets
  <2>4. Commanded(k, a) \in Nat  BY CommandedType DEF FlagInv
  <2> HIDE DEF t
  <2>5. CASE t = Request(k, a)
    <3>1. owed'[k][a] = owed[k][a] + (-1)  BY <1>2, <1>3, <2>5
    <3>2. Queued(k, a) = Queued(k, a)' + 1  BY <2>2, <2>5 DEF OneIf
    <3>3. QED  BY <2>1, <2>2, <2>3, <2>4, <3>1, <3>2
  <2>6. CASE t # Request(k, a)
    <3>1. owed'[k][a] = owed[k][a] + 0  BY <1>2, <1>3, <2>6
    <3>2. Queued(k, a) = Queued(k, a)' + 0  BY <2>2, <2>6 DEF OneIf
    <3>3. QED  BY <2>1, <2>2, <2>3, <2>4, <3>1, <3>2
  <2>7. QED  BY <2>5, <2>6
<1>5. QED  BY <1>3, <1>4 DEF AccountInv

LEMMA SameAccount ==
    ASSUME AccountInv, UNCHANGED <<readQueue, writeQueue, ctrlQueue, owed>>
    PROVE  AccountInv'
BY DEF AccountInv, Queued, Commanded

(* The host adds transactions; a scheduled FTL answers the write that the  *)
(* new one replaces.                                                       *)
QueuedMore(kind, b, n) ==
    \A k \in Kinds, a \in Addr :
       Queued(k, a)' = Queued(k, a) + IF k = kind /\ a = b THEN n ELSE 0

LEMMA HostAccount ==
    ASSUME QueueInv, FlagInv, AccountInv, NEW kind \in Kinds, NEW b \in Addr, NEW n \in Int,
           QueuedMore(kind, b, n), UNCHANGED ctrlQueue,
           owed' = [owed EXCEPT ![kind][b] = @ + n]
    PROVE  AccountInv'
<1>1. /\ owed' \in [Kinds -> [Addr -> Int]]
      /\ \A k \in Kinds, a \in Addr :
            owed'[k][a] = owed[k][a] + IF k = kind /\ a = b THEN n ELSE 0
      BY OwedStep DEF AccountInv
<1>2. ASSUME NEW k \in Kinds, NEW a \in Addr
      PROVE  owed'[k][a] = Queued(k, a)' + Commanded(k, a)'
  <2> DEFINE more == IF k = kind /\ a = b THEN n ELSE 0
  <2>1. more \in Int  OBVIOUS
  <2>2. owed'[k][a] = owed[k][a] + more /\ owed[k][a] = Queued(k, a) + Commanded(k, a)
        BY <1>1 DEF AccountInv
  <2>3. Queued(k, a)' = Queued(k, a) + more  BY DEF QueuedMore
  <2>4. Queued(k, a) \in Nat /\ Commanded(k, a) \in Nat
        BY QueuedType, CommandedType DEF QueueInv, FlagInv
  <2>5. Commanded(k, a)' = Commanded(k, a)  BY DEF Commanded, CommandsFor, Command, Packets
  <2> HIDE DEF more
  <2>6. QED  BY <2>1, <2>2, <2>3, <2>4, <2>5
<1>3. QED  BY <1>1, <1>2 DEF AccountInv

LEMMA ReadQueueGrows ==
    ASSUME QueueInv, NEW t \in Transactions, AddToReadQueue(t)
    PROVE  QueuedMore(t.type, t.address, 1)
<1> SUFFICES ASSUME NEW k \in Kinds, NEW a \in Addr
             PROVE  Queued(k, a)' = Queued(k, a)
                       + IF k = t.type /\ a = t.address THEN 1 ELSE 0
    BY DEF QueuedMore
<1>1. t = Request(k, a) <=> k = t.type /\ a = t.address
      BY DEF Transactions, Request, Kinds
<1>2. CountIn(readQueue', {Request(k, a)}) =
         CountIn(readQueue, {Request(k, a)}) + OneIf(t = Request(k, a))
      BY RequestAdded DEF AddToReadQueue, QueueInv
<1>3. CountIn(readQueue, {Request(k, a)}) \in Nat /\ CountIn(writeQueue, {Request(k, a)}) \in Nat
      BY QueuedType DEF QueueInv
<1>4. /\ Queued(k, a) = CountIn(readQueue, {Request(k, a)}) + CountIn(writeQueue, {Request(k, a)})
      /\ Queued(k, a)' = CountIn(readQueue', {Request(k, a)}) + CountIn(writeQueue, {Request(k, a)})
      BY DEF Queued, Request, AddToReadQueue
<1>5. QED  BY <1>1, <1>2, <1>3, <1>4 DEF OneIf

LEMMA WriteIsRequest ==
    ASSUME NEW b \in Addr, NEW k \in Kinds, NEW a \in Addr
    PROVE  Write(b) = Request(k, a) <=> k = "DATA_WRITE" /\ a = b
BY DEF Write, Request, Kinds

LEMMA PerfectQueueGrows ==
    ASSUME QueueInv, NEW b \in Addr, AddPerfectWrite(b)
    PROVE  QueuedMore("DATA_WRITE", b, 1)
<1> SUFFICES ASSUME NEW k \in Kinds, NEW a \in Addr
             PROVE  Queued(k, a)' = Queued(k, a)
                       + IF k = "DATA_WRITE" /\ a = b THEN 1 ELSE 0
    BY DEF QueuedMore
<1>1. Write(b) \in QueuedWrites  BY TransactionTypes
<1>2. CountIn(writeQueue', {Request(k, a)}) =
         CountIn(writeQueue, {Request(k, a)}) + OneIf(Write(b) = Request(k, a))
      BY <1>1, RequestAdded DEF AddPerfectWrite, QueueInv
<1>3. CountIn(readQueue, {Request(k, a)}) \in Nat /\ CountIn(writeQueue, {Request(k, a)}) \in Nat
      BY QueuedType DEF QueueInv
<1>4. /\ Queued(k, a) = CountIn(readQueue, {Request(k, a)}) + CountIn(writeQueue, {Request(k, a)})
      /\ Queued(k, a)' = CountIn(readQueue, {Request(k, a)}) + CountIn(writeQueue', {Request(k, a)})
      BY DEF Queued, Request, AddPerfectWrite
<1>5. QED  BY <1>2, <1>3, <1>4, WriteIsRequest DEF OneIf

LEMMA ScheduledQueueChanges ==
    ASSUME QueueInv, NEW b \in Addr, AddScheduledWrite(b)
    PROVE  \E n \in Int : /\ QueuedMore("DATA_WRITE", b, n)
                          /\ owed' = [owed EXCEPT !["DATA_WRITE"][b] = @ + n]
<1> DEFINE i == Least(Replaceable(b))
           kept == IF Replaceable(b) = {} THEN writeQueue ELSE RemoveAt(writeQueue, i)
           answered == IF Replaceable(b) = {} THEN 0 ELSE 1
           added == IF HasRoom(kept, FTL_WRITE_QUEUE_LENGTH) THEN 1 ELSE 0
<1>1. writeQueue \in Seq(QueuedWrites) /\ readQueue \in Seq(Transactions)  BY DEF QueueInv
<1>2. /\ kept \in Seq(QueuedWrites)
      /\ \A k \in Kinds, a \in Addr :
            CountIn(writeQueue, {Request(k, a)}) = CountIn(kept, {Request(k, a)})
               + IF k = "DATA_WRITE" /\ a = b THEN answered ELSE 0
  <2>1. CASE Replaceable(b) = {}
    <3>1. kept = writeQueue /\ answered = 0  BY <2>1
    <3>2. \A T : CountIn(writeQueue, T) \in Nat  BY <1>1, CountType
    <3>3. QED  BY <1>1, <3>1, <3>2
  <2>2. CASE Replaceable(b) # {}
    <3>1. i \in 1 .. Len(writeQueue) /\ writeQueue[i].address = b
          BY <1>1, <2>2, ReplaceableProperties
    <3>2. kept = RemoveAt(writeQueue, i) /\ answered = 1  BY <2>2
    <3> HIDE DEF i, kept, answered
    <3>3. kept \in Seq(QueuedWrites)  BY <1>1, <3>1, <3>2, RemoveAtProperties
    <3>4. writeQueue[i] = Write(b)
      <4>1. writeQueue[i] \in QueuedWrites  BY <1>1, <3>1, ElementOfSeq
      <4>2. QED  BY <3>1, <4>1 DEF QueuedWrites, Write
    <3>5. ASSUME NEW k \in Kinds, NEW a \in Addr
          PROVE  CountIn(writeQueue, {Request(k, a)}) = CountIn(kept, {Request(k, a)})
                    + IF k = "DATA_WRITE" /\ a = b THEN answered ELSE 0
      <4>1. /\ CountIn(writeQueue, {Request(k, a)}) =
                  CountIn(RemoveAt(writeQueue, i), {Request(k, a)})
                  + OneIf(writeQueue[i] = Request(k, a))
            /\ CountIn(RemoveAt(writeQueue, i), {Request(k, a)}) \in Nat
            BY <1>1, <3>1, CountedWithoutOne, Zenon
      <4>2. QED  BY <3>2, <3>4, <4>1, WriteIsRequest DEF OneIf
    <3>6. QED  BY <3>3, <3>5
  <2>3. QED  BY <2>1, <2>2
<1>3. /\ writeQueue' = IF HasRoom(kept, FTL_WRITE_QUEUE_LENGTH) THEN Append(kept, Write(b)) ELSE kept
      /\ readQueue' = readQueue
      /\ owed' = [owed EXCEPT !["DATA_WRITE"][b] = @ + added - answered]
      BY DEF AddScheduledWrite
<1>4. Write(b) \in QueuedWrites  BY TransactionTypes
<1>5. added \in {0, 1} /\ answered \in {0, 1}  OBVIOUS
<1> HIDE DEF kept, answered
<1>6. \A k \in Kinds, a \in Addr :
         CountIn(writeQueue', {Request(k, a)}) = CountIn(kept, {Request(k, a)})
            + IF k = "DATA_WRITE" /\ a = b THEN added ELSE 0
  <2> SUFFICES ASSUME NEW k \in Kinds, NEW a \in Addr
               PROVE  CountIn(writeQueue', {Request(k, a)}) = CountIn(kept, {Request(k, a)})
                         + IF k = "DATA_WRITE" /\ a = b THEN added ELSE 0
      OBVIOUS
  <2>1. CountIn(kept, {Request(k, a)}) \in Nat  BY <1>2, CountType
  <2>2. CASE HasRoom(kept, FTL_WRITE_QUEUE_LENGTH)
    <3>1. CountIn(Append(kept, Write(b)), {Request(k, a)}) =
             CountIn(kept, {Request(k, a)}) + OneIf(Write(b) = Request(k, a))
          BY <1>2, <1>4, RequestAdded
    <3>2. QED  BY <1>3, <2>1, <2>2, <3>1, WriteIsRequest DEF OneIf
  <2>3. CASE ~HasRoom(kept, FTL_WRITE_QUEUE_LENGTH)  BY <1>3, <2>1, <2>3
  <2>4. QED  BY <2>2, <2>3
<1> HIDE DEF added
<1>7. QueuedMore("DATA_WRITE", b, added - answered)
  <2> SUFFICES ASSUME NEW k \in Kinds, NEW a \in Addr
               PROVE  Queued(k, a)' = Queued(k, a)
                         + IF k = "DATA_WRITE" /\ a = b THEN added - answered ELSE 0
      BY DEF QueuedMore
  <2> DEFINE T == {Request(k, a)}
  <2>1. Queued(k, a) = CountIn(readQueue, T) + CountIn(writeQueue, T)  BY DEF Queued
  <2>2. Queued(k, a)' = CountIn(readQueue, T) + CountIn(writeQueue', T)
        BY <1>3 DEF Queued, Request
  <2>3. CountIn(readQueue, T) \in Nat /\ CountIn(kept, T) \in Nat  BY <1>1, <1>2, CountType
  <2>4. CountIn(writeQueue, T) = CountIn(kept, T)
           + IF k = "DATA_WRITE" /\ a = b THEN answered ELSE 0
        BY <1>2
  <2>5. CountIn(writeQueue', T) = CountIn(kept, T)
           + IF k = "DATA_WRITE" /\ a = b THEN added ELSE 0
        BY <1>6
  <2> HIDE DEF T
  <2>6. QED  BY <1>5, <2>1, <2>2, <2>3, <2>4, <2>5
<1>8. added - answered \in Int  BY <1>5
<1>9. owed' = [owed EXCEPT !["DATA_WRITE"][b] = @ + (added - answered)]
  <2>1. QED  BY <1>3, <1>5
<1>10. QED  BY <1>7, <1>8, <1>9

(* A command enters a queue of the controller.                             *)
LEMMA SendReadAccount ==
    ASSUME QueueInv, FlagInv, AccountInv, busy, currentTransaction.type = "DATA_READ",
           NEW p \in Pages, SendRead(currentTransaction.address, p), UNCHANGED owed
    PROVE  AccountInv'
<1> DEFINE t == currentTransaction
           c == Packet("READ", t.address, p)
           d == DieOf(p)
           q == Append(ctrlQueue[d], c)
<1>1. t \in Transactions /\ t.address \in Addr /\ t = Request("DATA_READ", t.address)
      BY DEF QueueInv, EmptyTransactions, Transactions, Request
<1>2. d \in Dies /\ c \in Packets  BY <1>1, DieOfType, PacketType
<1>3. ctrlQueue[d] \in Seq(Packets)  BY <1>2 DEF FlagInv
<1>4. CASE ctrlQueue' = [ctrlQueue EXCEPT ![d] = q] /\ ReadLeaves
  <2>1. \A k \in Kinds, a \in Addr : c \in CommandsFor(k, a) <=> t = Request(k, a)
    <3>1. \A k \in Kinds, a \in Addr : c \in CommandsFor(k, a) <=> "READ" = Command(k) /\ t.address = a
          BY <1>1, IsCommand
    <3>2. \A k \in Kinds : "READ" = Command(k) <=> k = "DATA_READ"  BY DEF Kinds, Command
    <3>3. \A k \in Kinds, a \in Addr : t = Request(k, a) <=> k = "DATA_READ" /\ t.address = a
          BY <1>1 DEF Request
    <3> HIDE DEF c, t
    <3>4. QED  BY <3>1, <3>2, <3>3
  <2> HIDE DEF c, t, d
  <2>2. \A T : CountIn(Append(ctrlQueue[d], c), T) = CountIn(ctrlQueue[d], T) + OneIf(c \in T)
        BY <1>2, <1>3, CountAppend
  <2>3. \A k \in Kinds, a \in Addr :
           CountIn(q, CommandsFor(k, a)) = CountIn(ctrlQueue[d], CommandsFor(k, a))
              + OneIf(t = Request(k, a))
        BY <2>1, <2>2 DEF OneIf
  <2>4. q \in Seq(Packets)  BY <1>2, <1>3, AppendProperties
  <2> HIDE DEF q
  <2>5. QED  BY <1>1, <1>2, <1>4, <2>3, <2>4, SentAccount DEF t
<1>5. CASE UNCHANGED ctrlQueue /\ (TryNextRead \/ ReadWaits)
      BY <1>5, SameAccount DEF TryNextRead, ReadWaits, queueVars
<1>6. QED  BY <1>4, <1>5 DEF SendRead

LEMMA WriteSentAccount ==
    ASSUME QueueInv, FlagInv, AccountInv, busy, currentTransaction.type = "DATA_WRITE",
           NEW p \in Pages, WriteSent(currentTransaction.address, p)
    PROVE  AccountInv'
<1> DEFINE t == currentTransaction
           b == Packet("DATA", t.address, p)
           c == Packet("WRITE", t.address, p)
           d == DieOf(p)
           q == ctrlQueue[d] \o <<b, c>>
<1>1. t \in Transactions /\ t.address \in Addr /\ t = Request("DATA_WRITE", t.address)
      BY DEF QueueInv, EmptyTransactions, Transactions, Request
<1>2. d \in Dies /\ b \in Packets /\ c \in Packets  BY <1>1, DieOfType, PacketType
<1>3. ctrlQueue[d] \in Seq(Packets)  BY <1>2 DEF FlagInv
<1>4. /\ ctrlQueue' = [ctrlQueue EXCEPT ![d] = q] /\ WriteLeaves /\ UNCHANGED owed
      BY DEF WriteSent, write_success
<1>5. \A k \in Kinds, a \in Addr :
         /\ b \notin CommandsFor(k, a)
         /\ c \in CommandsFor(k, a) <=> t = Request(k, a)
  <2>1. \A k \in Kinds, a \in Addr : b \in CommandsFor(k, a) <=> "DATA" = Command(k) /\ t.address = a
        BY <1>1, IsCommand
  <2>2. \A k \in Kinds, a \in Addr : c \in CommandsFor(k, a) <=> "WRITE" = Command(k) /\ t.address = a
        BY <1>1, IsCommand
  <2>3. \A k \in Kinds : /\ "WRITE" = Command(k) <=> k = "DATA_WRITE"
                         /\ "DATA" # Command(k)
        BY DEF Kinds, Command
  <2>4. \A k \in Kinds, a \in Addr : t = Request(k, a) <=> k = "DATA_WRITE" /\ t.address = a
        BY <1>1 DEF Request
  <2> HIDE DEF b, c, t
  <2>5. QED  BY <2>1, <2>2, <2>3, <2>4
<1>6. /\ q \in Seq(Packets)
      /\ \A T : CountIn(q, T) = CountIn(ctrlQueue[d], T) + OneIf(b \in T) + OneIf(c \in T)
  <2> DEFINE r == ctrlQueue[d]
  <2>1. r \in Seq(Packets) /\ b \in Packets /\ c \in Packets  BY <1>2, <1>3
  <2> HIDE DEF r, b, c
  <2>2. q = Append(Append(r, b), c)
    <3>1. r \o <<b, c>> = Append(Append(r, b), c)  BY <2>1
    <3>2. QED  BY <3>1 DEF r
  <2>3. Append(r, b) \in Seq(Packets)  BY <2>1, AppendProperties
  <2>4. Append(Append(r, b), c) \in Seq(Packets)  BY <2>1, <2>3, AppendProperties
  <2>5. \A T : /\ CountIn(Append(r, b), T) = CountIn(r, T) + OneIf(b \in T)
              /\ CountIn(Append(Append(r, b), c), T) = CountIn(Append(r, b), T) + OneIf(c \in T)
        BY <2>1, <2>3, CountAppend
  <2> HIDE DEF q
  <2>6. QED  BY <2>2, <2>4, <2>5 DEF r
<1> HIDE DEF b, c, t, d, q
<1>7. ASSUME NEW k \in Kinds, NEW a \in Addr
      PROVE  CountIn(q, CommandsFor(k, a)) = CountIn(ctrlQueue[d], CommandsFor(k, a))
                + OneIf(t = Request(k, a))
  <2> DEFINE T == CommandsFor(k, a)
  <2>1. CountIn(ctrlQueue[d], T) \in Nat  BY <1>3, CountType
  <2>2. OneIf(b \in T) = 0 /\ OneIf(c \in T) = OneIf(t = Request(k, a))
        BY <1>5 DEF OneIf
  <2>3. OneIf(t = Request(k, a)) \in Nat  BY DEF OneIf
  <2>4. QED  BY <1>6, <2>1, <2>2, <2>3
<1>8. QED  BY <1>1, <1>2, <1>4, <1>6, <1>7, SentAccount DEF t

LEMMA ReadAccount ==
    ASSUME QueueInv, MapType, FlagInv, AccountInv, handle_read
    PROVE  AccountInv'
<1> DEFINE a == currentTransaction.address
           p == FindFree(used, writePointer)
<1>1. busy /\ currentTransaction.type = "DATA_READ" /\ a \in Addr
      BY AddressType DEF handle_read, Dispatching
<1>2. currentTransaction \in Transactions
      BY <1>1 DEF QueueInv, EmptyTransactions
<1>3. CASE FoundInWriteQueue(a)
      BY <1>3, SameAccount DEF FoundInWriteQueue, queueVars
<1>4. CASE AccessWriteQueue(a)
  <2>1. CASE ReadLeaves /\ Answer("DATA_READ", a) /\ UNCHANGED ctrlQueue
        BY <1>1, <1>2, <2>1, AnsweredAccount
  <2>2. CASE UNCHANGED <<queueVars, owed>> /\ UNCHANGED ctrlQueue
        BY <2>2, SameAccount DEF queueVars
  <2>3. QED  BY <1>4, <2>1, <2>2 DEF AccessWriteQueue
<1>5. CASE ReadMapped(a)
  <2>1. addressMap[a] \in Pages
        BY <1>1, <1>5 DEF ReadMapped, Mapped, MapType
  <2>2. QED  BY <1>1, <1>5, <2>1, SendReadAccount DEF ReadMapped
<1>6. CASE ReadUnmapped(a)
      BY <1>1, <1>2, <1>6, AnsweredAccount DEF ReadUnmapped
<1>7. CASE DiskRead(a)
  <2>1. p \in Pages  BY <1>7, FindFreeSound DEF DiskRead, MapType
  <2>2. QED  BY <1>1, <1>7, <2>1, SendReadAccount DEF DiskRead
<1>8. CASE DiskReadNoPage(a)
      BY <1>8, SameAccount DEF DiskReadNoPage, queueVars
<1>9. QED  BY <1>3, <1>4, <1>5, <1>6, <1>7, <1>8 DEF handle_read

LEMMA WriteAccount ==
    ASSUME QueueInv, MapType, FlagInv, AccountInv, handle_write
    PROVE  AccountInv'
<1> DEFINE a == currentTransaction.address
           p == FindFree(UsedWithout(a), writePointer)
<1>1. busy /\ currentTransaction.type = "DATA_WRITE" /\ a \in Addr
      BY AddressType DEF handle_write, Dispatching
<1>2. currentTransaction \in Transactions
      BY <1>1 DEF QueueInv, EmptyTransactions
<1>3. p # NoPage => p \in Pages  BY UsedWithoutType, FindFreeSound
<1>4. CASE WriteFaked(a, p)
      BY <1>1, <1>2, <1>4, AnsweredAccount DEF WriteFaked, write_success
<1>5. CASE p # NoPage /\ WriteSent(a, p)  BY <1>1, <1>3, <1>5, WriteSentAccount
<1>6. CASE WriteBlocked(a, p)  BY <1>6, SameAccount DEF WriteBlocked, queueVars
<1>7. CASE WriteNoPage(a)  BY <1>7, SameAccount DEF WriteNoPage, queueVars
<1>8. QED  BY <1>4, <1>5, <1>6, <1>7 DEF handle_write

LEMMA OneLess ==
    ASSUME NEW one \in Nat, NEW m \in Nat, NEW n \in Nat, NEW r \in Nat,
           n + (one + r) = m + r
    PROVE  m = n + one
OBVIOUS

(* The controller finishes a command and answers its transaction.          *)
LEMMA PopAccount ==
    ASSUME QueueInv, FlagInv, AccountInv, NEW d \in Dies, CtrlPop(d)
    PROVE  AccountInv'
<1> DEFINE c == Head(ctrlQueue[d])
           q == Tail(ctrlQueue[d])
           answers(k, a) == k \in Kinds /\ c.type = Command(k) /\ c.address = a
<1>1. ctrlQueue[d] \in Seq(Packets) /\ ctrlQueue[d] # <<>>  BY DEF FlagInv, CtrlPop
<1>2. c \in Packets /\ q \in Seq(Packets)  BY <1>1, HeadTailProperties
<1>3. ctrlQueue' = [ctrlQueue EXCEPT ![d] = q] /\ UNCHANGED <<readQueue, writeQueue>>
      BY DEF CtrlPop, queueVars
<1>4. \A k \in Kinds, a \in Addr : c \in CommandsFor(k, a) <=> answers(k, a)
      BY <1>2 DEF CommandsFor
<1>5. /\ owed' \in [Kinds -> [Addr -> Int]]
      /\ \A k \in Kinds, a \in Addr :
            owed'[k][a] = owed[k][a] + IF answers(k, a) THEN -1 ELSE 0
  <2>1. c.address \in Addr /\ c.type \in {"READ", "DATA", "WRITE"}  BY <1>2 DEF Packets
  <2>2. /\ Command("DATA_READ") = "READ" /\ Command("DATA_WRITE") = "WRITE"
        /\ Kinds = {"DATA_READ", "DATA_WRITE"}
        BY DEF Kinds, Command
  <2>3. CASE c.type = "DATA" /\ UNCHANGED owed
    <3>1. \A k, a : ~answers(k, a)  BY <2>2, <2>3
    <3>2. \A k \in Kinds, a \in Addr : owed[k][a] \in Int  BY DEF AccountInv
    <3> HIDE DEF answers
    <3>3. QED  BY <2>3, <3>1, <3>2 DEF AccountInv
  <2>4. ASSUME NEW kind \in Kinds, c.type = Command(kind), Answer(kind, c.address)
        PROVE  /\ owed' \in [Kinds -> [Addr -> Int]]
               /\ \A k \in Kinds, a \in Addr :
                     owed'[k][a] = owed[k][a] + IF answers(k, a) THEN -1 ELSE 0
    <3>1. /\ owed' \in [Kinds -> [Addr -> Int]]
          /\ \A k \in Kinds, a \in Addr :
                owed'[k][a] = owed[k][a] + IF k = kind /\ a = c.address THEN -1 ELSE 0
          BY <2>1, <2>4, AnswerStep DEF AccountInv
    <3>2. \A k \in Kinds, a \in Addr : k = kind /\ a = c.address <=> answers(k, a)
          BY <2>2, <2>4
    <3> HIDE DEF answers, c
    <3>3. QED  BY <3>1, <3>2
  <2>5. CASE c.type = "READ" /\ Answer("DATA_READ", c.address)  BY <2>2, <2>4, <2>5
  <2>6. CASE c.type = "WRITE" /\ Answer("DATA_WRITE", c.address)  BY <2>2, <2>4, <2>6
  <2>7. QED  BY <2>3, <2>5, <2>6 DEF CtrlPop
<1>6. ASSUME NEW k \in Kinds, NEW a \in Addr
      PROVE  owed'[k][a] = Queued(k, a)' + Commanded(k, a)'
  <2> DEFINE T == CommandsFor(k, a)
             one == OneIf(c \in T)
  <2>1. one \in Nat  BY DEF OneIf
  <2>2. owed[k][a] = Queued(k, a) + Commanded(k, a) /\ owed[k][a] \in Int  BY DEF AccountInv
  <2>3. Queued(k, a)' = Queued(k, a)  BY <1>3 DEF Queued, Request
  <2>4. CountIn(ctrlQueue[d], T) = one + CountIn(q, T)  BY <1>1, CountHeadTail
  <2>5. CountIn(q, T) \in Nat  BY <1>2, CountType
  <2>6. /\ Commanded(k, a)' + CountIn(ctrlQueue[d], T) = Commanded(k, a) + CountIn(q, T)
        /\ Commanded(k, a) \in Nat /\ Commanded(k, a)' \in Nat
        BY <1>2, <1>3, CommandedStep
  <2>7. owed'[k][a] = owed[k][a] - one  BY <1>4, <1>5, <2>2 DEF OneIf
  <2> HIDE DEF one, T, q
  <2>9. Queued(k, a) \in Nat  BY QueuedType DEF QueueInv
  <2>10. Commanded(k, a)' + (one + CountIn(q, T)) = Commanded(k, a) + CountIn(q, T)
         BY <2>4, <2>6
  <2>11. Commanded(k, a) = Commanded(k, a)' + one
         BY <2>1, <2>5, <2>6, <2>10, OneLess
  <2>12. owed[k][a] - one = Queued(k, a) + Commanded(k, a)'
         BY <2>1, <2>2, <2>6, <2>9, <2>11
  <2>13. QED  BY <2>3, <2>7, <2>12
<1>7. QED  BY <1>5, <1>6 DEF AccountInv

LEMMA AccountInit == Init => AccountInv
<1> SUFFICES ASSUME Init PROVE AccountInv  OBVIOUS
<1>1. owed = [k \in Kinds |-> [a \in Addr |-> 0]]  BY DEF Init, Kinds
<1>2. owed \in [Kinds -> [Addr -> Int]]  BY <1>1
<1>3. ASSUME NEW k \in Kinds, NEW a \in Addr
      PROVE  owed[k][a] = Queued(k, a) + Commanded(k, a)
  <2> DEFINE T == CommandsFor(k, a)
  <2>1. owed[k][a] = 0  BY <1>1
  <2>2. Queued(k, a) = 0  BY CountEmpty DEF Init, Queued
  <2>3. \A d \in Dies : Places(ctrlQueue[d], T) = {}
        BY DEF Init, Places
  <2> HIDE DEF T
  <2>4. PlacesAmong(ctrlQueue, Dies, T) = {}  BY <2>3 DEF PlacesAmong
  <2>5. Commanded(k, a) = 0  BY <2>4, FS_EmptySet DEF Commanded, CountAmong, T
  <2>6. QED  BY <2>1, <2>2, <2>5
<1>4. QED  BY <1>2, <1>3 DEF AccountInv

LEMMA AccountNext ==
    QueueInv /\ MapType /\ FlagInv /\ AccountInv /\ [Next]_vars => AccountInv'
<1> SUFFICES ASSUME QueueInv, MapType, FlagInv, AccountInv, [Next]_vars PROVE AccountInv'
    OBVIOUS
<1>0. 1 \in Int  OBVIOUS
<1>1. ASSUME NEW b \in Addr, HostRead(b)  PROVE AccountInv'
  <2>1. /\ AddToReadQueue(Read(b)) /\ UNCHANGED ctrlQueue
        /\ Read(b) \in Transactions /\ Read(b).type \in Kinds
        /\ Read(b).address = b
        BY <1>1, TransactionTypes DEF HostRead, HostUnchanged, Kinds
  <2>2. QueuedMore(Read(b).type, b, 1)  BY <2>1, ReadQueueGrows
  <2>3. owed' = [owed EXCEPT ![Read(b).type][b] = @ + 1]
        BY <2>1 DEF AddToReadQueue
  <2>4. QED  BY <1>0, <2>1, <2>2, <2>3, HostAccount
<1>2. ASSUME NEW b \in Addr, HostWrite(b)  PROVE AccountInv'
  <2>1. UNCHANGED ctrlQueue /\ "DATA_WRITE" \in Kinds
        BY <1>2 DEF HostWrite, HostUnchanged, Kinds
  <2>2. CASE AddScheduledWrite(b)  BY <2>1, <2>2, ScheduledQueueChanges, HostAccount
  <2>3. CASE AddPerfectWrite(b)
    <3>1. owed' = [owed EXCEPT !["DATA_WRITE"][b] = @ + 1]  BY <2>3 DEF AddPerfectWrite
    <3>2. QED  BY <1>0, <2>1, <2>3, <3>1, PerfectQueueGrows, HostAccount
  <2>4. CASE AddToReadQueue(Write(b))
    <3>1. Write(b) \in Transactions /\ Write(b).type = "DATA_WRITE" /\ Write(b).address = b
          BY TransactionTypes DEF Write
    <3>2. QueuedMore("DATA_WRITE", b, 1)  BY <2>4, <3>1, ReadQueueGrows
    <3>3. owed' = [owed EXCEPT !["DATA_WRITE"][b] = @ + 1]
          BY <2>4, <3>1 DEF AddToReadQueue
    <3>4. QED  BY <1>0, <2>1, <3>2, <3>3, HostAccount
  <2>5. QED  BY <1>2, <2>2, <2>3, <2>4 DEF HostWrite
<1>3. CASE Schedule  BY <1>3, SameAccount DEF Schedule, queueVars
<1>4. CASE Lookup  BY <1>4, SameAccount DEF Lookup, queueVars
<1>5. CASE handle_read  BY <1>5, ReadAccount
<1>6. CASE handle_write  BY <1>6, WriteAccount
<1>7. CASE \E d \in Dies : CtrlPop(d)  BY <1>7, PopAccount
<1>8. CASE UNCHANGED vars  BY <1>8, SameAccount DEF vars, queueVars
<1>9. QED
      BY <1>1, <1>2, <1>3, <1>4, <1>5, <1>6, <1>7, <1>8 DEF Next, Update, Pop

(* Every accepted transaction is answered exactly once and none is lost:   *)
(* what the host still waits for is what waits in the queues of the FTL    *)
(* and of the controller, through replaced writes, reads served from the   *)
(* write queue, refused packets and retries (Ftl.cpp:186-262, 649-709,     *)
(* 860-981, 1029-1064).                                                    *)
THEOREM RequestsAccounted == Spec => []EveryRequestAccounted
<1>1. Init => QueueInv /\ MapType /\ FlagInv /\ AccountInv
      BY QueueInit, MapTypeInit, FlagInit, AccountInit
<1>2. QueueInv /\ MapType /\ FlagInv /\ AccountInv /\ [Next]_vars
         => (QueueInv /\ MapType /\ FlagInv /\ AccountInv)'
      BY QueueNext, MapTypeNext, FlagNext, AccountNext
<1>3. QueueInv /\ FlagInv /\ AccountInv => EveryRequestAccounted
      BY AccountMeansAccounted
<1>4. QED  BY <1>1, <1>2, <1>3, PTL DEF Spec

-----------------------------------------------------------------------------
(* Saving and restoring.  Only mapped pages are in use whatever was saved; *)
(* the rest holds as long as no file was written between a refused write   *)
(* and its retry.                                                          *)

ImageOf(map) == {map[a] : a \in {b \in Addr : map[b] # NoPage}}
InjectiveMap(map) ==
    \A a, b \in Addr : map[a] # NoPage /\ map[a] = map[b] => a = b

FileType ==
    saveFile # NoSave =>
        /\ saveFile.addressMap \in [Addr -> Pages \cup {NoPage}]
        /\ saveFile.used \subseteq ImageOf(saveFile.addressMap)
InjectiveFile == saveFile # NoSave => InjectiveMap(saveFile.addressMap)

FtlInv ==
    /\ QueueInv /\ MapType /\ DueInv
    /\ used \subseteq ImageOf(addressMap)

NvInv ==
    /\ FtlInv /\ FileType
    /\ intact => MapInv /\ InjectiveFile

LEMMA SameImage ==
    ImageOf(addressMap) = {addressMap[a] : a \in {b \in Addr : Mapped(b)}}
BY DEF ImageOf, Mapped

LEMMA MapInjectiveMap == MapInjective <=> InjectiveMap(addressMap)
BY DEF MapInjective, InjectiveMap, Mapped

LEMMA NvInitInv == NvInit => NvInv
<1> SUFFICES ASSUME NvInit PROVE NvInv  OBVIOUS
<1>1. Init /\ saveFile = NoSave  BY DEF NvInit
<1>2. QueueInv /\ MapType /\ MapInv  BY <1>1, QueueInit, MapTypeInit, MapInvInit
<1>3. used = {}  BY <1>1 DEF Init
<1>4. QED  BY <1>1, <1>2, <1>3 DEF NvInv, FtlInv, FileType, InjectiveFile, MapInv

-----------------------------------------------------------------------------
(* A step of the FTL.                                                      *)

(* The page of a write takes the place of the one that was given up among  *)
(* the mapped pages; the page of a disk read is new.                       *)
LEMMA NewPageImage ==
    ASSUME MapType, used \subseteq ImageOf(addressMap), NEW a \in Addr,
           NEW p \in Pages, addressMap' = [addressMap EXCEPT ![a] = p],
           \/ used' = UsedWithout(a) \cup {p}
           \/ ~Mapped(a) /\ used' = used \cup {p}
    PROVE  used' \subseteq ImageOf(addressMap')
<1>1. p # NoPage  BY NoPageIsNoPage
<1>2. addressMap'[a] = p /\ \A b \in Addr \ {a} : addressMap'[b] = addressMap[b]
      BY DEF MapType
<1>3. SUFFICES ASSUME NEW q \in used'  PROVE q \in ImageOf(addressMap')
      OBVIOUS
<1>4. CASE q = p  BY <1>1, <1>2, <1>4 DEF ImageOf
<1>5. CASE q # p
  <2>1. q \in used /\ (Mapped(a) => q # addressMap[a])
        BY <1>3, <1>5 DEF UsedWithout
  <2>2. PICK b \in Addr : addressMap[b] = q /\ q # NoPage
        BY <2>1 DEF ImageOf
  <2>3. b # a  BY <2>1, <2>2 DEF Mapped
  <2>4. QED  BY <1>2, <2>2, <2>3 DEF ImageOf
<1>6. QED  BY <1>4, <1>5

LEMMA FtlInvNext ==
    ASSUME FtlInv, [Next]_vars
    PROVE  FtlInv'
<1> DEFINE a == currentTransaction.address
           p == FindFree(UsedWithout(a), writePointer)
           q == FindFree(used, writePointer)
<1>1. QueueInv' /\ MapType' /\ DueInv'
      BY QueueNext, MapTypeNext, DueInvNext DEF FtlInv
<1>2. CASE UNCHANGED <<used, addressMap>>
  <2>1. used' \subseteq ImageOf(addressMap')  BY <1>2 DEF FtlInv
  <2>2. QED  BY <1>1, <2>1 DEF FtlInv, ImageOf
<1>3. CASE a \in Addr /\ ~Mapped(a) /\ DiskRead(a)
  <2>1. /\ used' = used \cup {q} /\ q # NoPage
        /\ addressMap' = [addressMap EXCEPT ![a] = q]
        BY <1>3 DEF DiskRead
  <2>2. q \in (Pages \ used) \cup {NoPage}  BY FindFreeSound DEF FtlInv, MapType
  <2>3. used' \subseteq ImageOf(addressMap')
    <3> HIDE DEF a, q
    <3>1. QED  BY <1>3, <2>1, <2>2, NewPageImage DEF FtlInv
  <2>4. QED  BY <1>1, <2>3 DEF FtlInv, ImageOf
<1>4. CASE handle_write
  <2>1. CASE a \in Addr /\ p \in Pages /\ write_success(a, p)
    <3>1. /\ used' = UsedWithout(a) \cup {p}
          /\ addressMap' = [addressMap EXCEPT ![a] = p]
          BY <2>1 DEF write_success
    <3>2. used' \subseteq ImageOf(addressMap')
      <4> HIDE DEF a, p
      <4>1. QED  BY <2>1, <3>1, NewPageImage DEF FtlInv
    <3>3. QED  BY <1>1, <3>2 DEF FtlInv, ImageOf
  <2>2. CASE used' = UsedWithout(a) /\ UNCHANGED addressMap
    <3>1. used' \subseteq ImageOf(addressMap')
          BY <2>2, UsedWithoutType DEF FtlInv
    <3>2. QED  BY <1>1, <3>1 DEF FtlInv, ImageOf
  <2>3. QED  BY <1>4, <2>1, <2>2, WriteSteps DEF FtlInv
<1>5. QED  BY <1>2, <1>3, <1>4, MapSteps DEF FtlInv, mapVars

LEMMA StepInv ==
    ASSUME RefusalsKept, NvInv, [Next]_vars, UNCHANGED <<saveFile, intact>>
    PROVE  NvInv'
<1>1. FtlInv'  BY FtlInvNext DEF NvInv
<1>2. intact => MapInv'  BY MapInvNext DEF NvInv, FtlInv
<1>3. FileType' /\ (InjectiveFile => InjectiveFile')
      BY DEF NvInv, FileType, InjectiveFile, InjectiveMap, ImageOf
<1>4. QED  BY <1>1, <1>2, <1>3 DEF NvInv

-----------------------------------------------------------------------------
(* A save and a restart.                                                   *)

LEMMA SaveInv ==
    ASSUME RefusalsKept, NvInv, saveNVState
    PROVE  NvInv'
<1>1. /\ UNCHANGED vars /\ UNCHANGED intact
      /\ saveFile' = [addressMap |-> addressMap, used |-> used]
      BY DEF saveNVState, planeVars
<1>2. FtlInv'  BY <1>1, FtlInvNext DEF NvInv
<1>3. FileType'
      BY <1>1 DEF NvInv, FtlInv, MapType, FileType, ImageOf
<1>4. intact => MapInv' /\ InjectiveFile'
  <2> SUFFICES ASSUME intact PROVE MapInv' /\ InjectiveFile'  OBVIOUS
  <2>1. MapInv'  BY <1>1, MapInvNext DEF NvInv, FtlInv
  <2>2. InjectiveMap(addressMap)  BY MapInjectiveMap DEF NvInv, MapInv
  <2>3. InjectiveFile'  BY <1>1, <2>2 DEF InjectiveFile, InjectiveMap
  <2>4. QED  BY <2>1, <2>3
<1>5. QED  BY <1>1, <1>2, <1>3, <1>4 DEF NvInv

LEMMA NewQueues == NewProcess => QueueInv'
<1> SUFFICES ASSUME NewProcess PROVE QueueInv'  OBVIOUS
<1>1. /\ <<>> \in Seq(Transactions) /\ <<>> \in Seq(QueuedWrites)
      /\ Len(readQueue') = 0
      BY EmptySeq DEF NewProcess
<1>2. (currentTransaction \in Transactions \cup EmptyTransactions)'  BY DEF NewProcess
<1>3. RetriesInStep' /\ CurrentIsQueued'
      BY DEF NewProcess, RetriesInStep, CurrentIsQueued
<1>4. /\ busy' \in BOOLEAN /\ readQueue' \in Seq(Transactions)
      /\ writeQueue' \in Seq(QueuedWrites) /\ writeQueue' = <<>>
      BY <1>1, Zenon DEF NewProcess
<1>5. /\ read_pointer' \in Nat \ {0} /\ read_iterator_counter' = 0
      /\ read_iterator_counter' \in Nat /\ lookupCounter' \in Nat
      BY DEF NewProcess
<1>6. \A i \in 1 .. Len(readQueue') : readQueue'[i].type = "DATA_READ"  BY <1>1
<1>7. QED  BY <1>2, <1>3, <1>4, <1>5, <1>6, Zenon DEF QueueInv

LEMMA RestartInv ==
    ASSUME NvInv, Restart
    PROVE  NvInv'
<1> DEFINE map == saveFile.addressMap
<1>1. /\ map \in [Addr -> Pages \cup {NoPage}]
      /\ saveFile.used \subseteq ImageOf(map)
      /\ intact => InjectiveMap(map)
      BY DEF Restart, loadNVState, NvInv, FileType, InjectiveFile
<1>2. /\ addressMap' = map /\ used' = saveFile.used /\ saveFile' = NoSave
      /\ intact' = (intact /\ FileIntact)
      BY DEF Restart, loadNVState
<1>3. QueueInv'  BY NewQueues DEF Restart
<1>4. MapType'
  <2>1. writePointer' = [channel |-> 0, die |-> 0, plane |-> 0] /\ deadlock_counter' = 0
        BY DEF Restart, NewProcess
  <2>2. 0 \in Packages /\ 0 \in 0 .. DIES_PER_PACKAGE - 1 /\ 0 \in Planes
        BY GeometryAssumption DEF Packages, Planes
  <2>3. writePointer' \in Pointers  BY <2>1, <2>2 DEF Pointers
  <2>4. used' \in SUBSET Pages  BY <1>1, <1>2 DEF ImageOf
  <2>5. QED  BY <1>1, <1>2, <2>1, <2>3, <2>4 DEF MapType
<1>5. DueInv'
  <2>1. ~busy' /\ Len(writeQueue') = 0  BY DEF Restart, NewProcess
  <2>2. QED  BY <2>1, OptionAssumption DEF DueInv, WritesWereDue, WriteQueueFits
<1>6. FtlInv'
  <2>1. used' \subseteq ImageOf(addressMap')  BY <1>1, <1>2
  <2>2. QED  BY <1>3, <1>4, <1>5, <2>1 DEF FtlInv, ImageOf
<1>7. ASSUME intact'  PROVE MapInv'
  <2>1. InjectiveMap(addressMap')  BY <1>1, <1>2, <1>7
  <2>2. MapInjective'  BY <2>1 DEF MapInjective, InjectiveMap, Mapped
  <2>3. OwnPageUsed'
        BY <1>2, <1>7 DEF FileIntact, OwnPageUsed, Mapped
  <2>4. QED  BY <1>5, <2>2, <2>3 DEF MapInv
<1>8. QED  BY <1>2, <1>6, <1>7 DEF NvInv, FileType, InjectiveFile

LEMMA NvCases ==
    ASSUME [NvNext]_<<vars, nvVars, planeVars>>
    PROVE  \/ saveNVState \/ Restart
           \/ UNCHANGED <<vars, nvVars, planeVars>>
           \/ Next /\ UNCHANGED <<saveFile, intact>>
              /\ \/ HostSteps
                 \/ Update /\ FastWrites
                 \/ \E d \in Dies : Pop(d) /\ PlaneWrites(d)
BY DEF NvNext, HostSteps, Next, nvVars

LEMMA NvInvNext ==
    ASSUME RefusalsKept
    PROVE  NvInv /\ [NvNext]_<<vars, nvVars, planeVars>> => NvInv'
<1> SUFFICES ASSUME NvInv, [NvNext]_<<vars, nvVars, planeVars>> PROVE NvInv'  OBVIOUS
<1>1. CASE Next /\ UNCHANGED <<saveFile, intact>>  BY <1>1, StepInv
<1>2. CASE saveNVState  BY <1>2, SaveInv
<1>3. CASE Restart  BY <1>3, RestartInv
<1>4. CASE UNCHANGED <<vars, nvVars, planeVars>>
      BY <1>4, StepInv DEF nvVars, planeVars
<1>5. QED  BY <1>1, <1>2, <1>3, <1>4, NvCases

(* Unless writes that can be refused are scheduled while the FTL is idle,  *)
(* no page is lost over any number of saves and restarts: one in use       *)
(* belongs to an address, and a mapped one stays in use.                   *)
THEOREM NoPageIsLost == RefusalsKept => (NvSpec => []UsedPagesAreMapped)
<1> SUFFICES ASSUME RefusalsKept PROVE NvSpec => []UsedPagesAreMapped  OBVIOUS
<1>1. NvInv => UsedPagesAreMapped
  <2>1. NvInv => (intact => MappedPagesUsed)
        BY OwnPagesMeanUsed DEF NvInv, FtlInv
  <2>2. QED  BY <2>1, SameImage DEF NvInv, FtlInv, UsedPagesAreMapped
<1>2. NvInv /\ [NvNext]_<<vars, nvVars, planeVars>> => NvInv'  BY NvInvNext
<1>3. QED  BY <1>1, <1>2, NvInitInv, PTL DEF NvSpec

-----------------------------------------------------------------------------
(* What the pages hold.  Without PERFECT_SCHEDULE, which sends no write,   *)
(* and without DISK_READ, whose FAST_WRITE overtakes the writes that wait, *)
(* the packets of a page leave one queue in the order they were sent.      *)

Holds(st, q, n, p, a) ==
    \/ \E i \in 1 .. n : /\ q[i].type = "WRITE" /\ q[i].page = p /\ q[i].address = a
                         /\ \A j \in i + 1 .. n : ~(q[j].type = "WRITE" /\ q[j].page = p)
    \/ st[p] = a /\ \A i \in 1 .. n : ~(q[i].type = "WRITE" /\ q[i].page = p)

LEMMA HoldsIsHolds ==
    ASSUME NEW q, NEW n, NEW p, NEW a
    PROVE  HoldsAfter(q, n, p, a) <=> Holds(stored, q, n, p, a)
BY DEF HoldsAfter, Holds

(* More packets that are no writes of the page change nothing.             *)
LEMMA HoldsLonger ==
    ASSUME NEW st, NEW q, NEW r, NEW n \in Nat, NEW m \in Nat, n <= m, NEW p, NEW a,
           \A i \in 1 .. n : r[i] = q[i],
           \A i \in n + 1 .. m : ~(r[i].type = "WRITE" /\ r[i].page = p),
           Holds(st, q, n, p, a)
    PROVE  Holds(st, r, m, p, a)
<1>1. CASE st[p] = a /\ \A i \in 1 .. n : ~(q[i].type = "WRITE" /\ q[i].page = p)
  <2>1. ASSUME NEW i \in 1 .. m  PROVE ~(r[i].type = "WRITE" /\ r[i].page = p)
    <3>1. i \in 1 .. n \/ i \in n + 1 .. m  OBVIOUS
    <3>2. QED  BY <1>1, <3>1
  <2>2. QED  BY <1>1, <2>1 DEF Holds
<1>2. ASSUME NEW i \in 1 .. n,
             q[i].type = "WRITE" /\ q[i].page = p /\ q[i].address = a,
             \A j \in i + 1 .. n : ~(q[j].type = "WRITE" /\ q[j].page = p)
      PROVE  Holds(st, r, m, p, a)
  <2>1. i \in 1 .. m /\ r[i] = q[i]  OBVIOUS
  <2>2. ASSUME NEW j \in i + 1 .. m  PROVE ~(r[j].type = "WRITE" /\ r[j].page = p)
    <3>1. CASE j \in n + 1 .. m  BY <3>1
    <3>2. CASE j \in i + 1 .. n
      <4>1. j \in 1 .. n  BY <3>2
      <4>2. r[j] = q[j]  BY <4>1
      <4>3. QED  BY <1>2, <3>2, <4>2
    <3>3. QED  BY <3>1, <3>2
  <2>3. QED  BY <1>2, <2>1, <2>2 DEF Holds
<1>3. QED  BY <1>1, <1>2 DEF Holds

(* The last packet is the write of the page.                               *)
LEMMA HoldsLast ==
    ASSUME NEW st, NEW q, NEW n \in Nat \ {0}, NEW p, NEW a,
           q[n].type = "WRITE" /\ q[n].page = p /\ q[n].address = a
    PROVE  Holds(st, q, n, p, a)
<1>1. n \in 1 .. n /\ \A j \in n + 1 .. n : FALSE  OBVIOUS
<1>2. QED  BY <1>1 DEF Holds

LEMMA HoldsElsewhere ==
    ASSUME NEW st, NEW su, NEW q, NEW n, NEW p, NEW a, su[p] = st[p],
           Holds(st, q, n, p, a)
    PROVE  Holds(su, q, n, p, a)
BY DEF Holds

(* The first packet leaves, and is made if it is a write.                  *)
LEMMA HoldsTail ==
    ASSUME NEW st \in [Pages -> Addr \cup {Nobody, Addr0}], NEW su,
           NEW q \in Seq(Packets), q # <<>>, NEW n \in 1 .. Len(q),
           NEW p \in Pages, NEW a,
           su = IF q[1].type = "WRITE" THEN [st EXCEPT ![q[1].page] = q[1].address] ELSE st,
           Holds(st, q, n, p, a)
    PROVE  Holds(su, Tail(q), n - 1, p, a)
<1> DEFINE r == Tail(q)
<1>1. Len(q) \in Nat /\ n \in Nat \ {0} /\ n <= Len(q)  BY LenProperties
<1>2. \A i \in 1 .. n - 1 : r[i] = q[i + 1]
  <2>1. Len(r) = Len(q) - 1 /\ \A i \in 1 .. Len(r) : r[i] = q[i + 1]
        BY HeadTailProperties
  <2> HIDE DEF r
  <2>2. QED  BY <1>1, <2>1
<1> HIDE DEF r
<1>3. CASE st[p] = a /\ \A i \in 1 .. n : ~(q[i].type = "WRITE" /\ q[i].page = p)
  <2>1. 1 \in 1 .. n  BY <1>1
  <2>2. su[p] = a  BY <1>3, <2>1
  <2>3. ASSUME NEW i \in 1 .. n - 1  PROVE ~(r[i].type = "WRITE" /\ r[i].page = p)
    <3>1. i + 1 \in 1 .. n  BY <1>1
    <3>2. QED  BY <1>2, <1>3, <3>1
  <2>4. QED  BY <2>2, <2>3 DEF Holds, r
<1>4. ASSUME NEW i \in 1 .. n,
             q[i].type = "WRITE" /\ q[i].page = p /\ q[i].address = a,
             \A j \in i + 1 .. n : ~(q[j].type = "WRITE" /\ q[j].page = p)
      PROVE  Holds(su, r, n - 1, p, a)
  <2>1. ASSUME NEW k \in 1 .. n - 1, i <= k
        PROVE  ~(r[k].type = "WRITE" /\ r[k].page = p)
    <3>1. k + 1 \in i + 1 .. n  BY <1>1, <2>1
    <3>2. QED  BY <1>2, <1>4, <3>1
  <2>2. CASE i = 1
    <3>1. su[p] = a  BY <1>4, <2>2
    <3>2. \A k \in 1 .. n - 1 : ~(r[k].type = "WRITE" /\ r[k].page = p)
          BY <2>1, <2>2
    <3>3. QED  BY <3>1, <3>2 DEF Holds
  <2>3. CASE i # 1
    <3>1. i - 1 \in 1 .. n - 1 /\ (i - 1) + 1 = i  BY <1>1, <2>3
    <3>2. r[i - 1] = q[i]  BY <1>2, <3>1
    <3>3. \A k \in (i - 1) + 1 .. n - 1 : ~(r[k].type = "WRITE" /\ r[k].page = p)
          BY <1>1, <2>1, <3>1
    <3>4. QED  BY <1>4, <3>1, <3>2, <3>3 DEF Holds
  <2>4. QED  BY <2>2, <2>3
<1>5. QED  BY <1>3, <1>4 DEF Holds, r

(* The same for all queues: every mapped page, and every READ that waits.  *)
MappedHold(st, queues, map) ==
    \A a \in Addr : map[a] # NoPage =>
        Holds(st, queues[DieOf(map[a])], Len(queues[DieOf(map[a])]), map[a], a)
ReadsHold(st, queues) ==
    \A d \in Dies : \A n \in 1 .. Len(queues[d]) :
        queues[d][n].type = "READ" =>
            Holds(st, queues[d], n - 1, queues[d][n].page, queues[d][n].address)
Home(queues) ==
    \A d \in Dies : \A n \in 1 .. Len(queues[d]) : DieOf(queues[d][n].page) = d
StoredType(st) == st \in [Pages -> Addr \cup {Nobody, Addr0}]

(* Packets are added behind those of a die.                                *)
Added(queues, new, d) ==
    /\ queues \in [Dies -> Seq(Packets)] /\ d \in Dies /\ new[d] \in Seq(Packets)
    /\ Len(new[d]) >= Len(queues[d])
    /\ \A i \in 1 .. Len(queues[d]) : new[d][i] = queues[d][i]
    /\ \A e \in Dies \ {d} : new[e] = queues[e]
Fresh(queues, new, d) == Len(queues[d]) + 1 .. Len(new[d])

LEMMA AddedType ==
    ASSUME NEW queues, NEW new, NEW d, Added(queues, new, d)
    PROVE  Len(queues[d]) \in Nat /\ Len(new[d]) \in Nat
BY LenProperties DEF Added

LEMMA AddedKeeps ==
    ASSUME NEW queues, NEW new, NEW d, Added(queues, new, d), NEW st,
           NEW p \in Pages, NEW a,
           \A i \in Fresh(queues, new, d) : ~(new[d][i].type = "WRITE" /\ new[d][i].page = p),
           Holds(st, queues[DieOf(p)], Len(queues[DieOf(p)]), p, a)
    PROVE  Holds(st, new[DieOf(p)], Len(new[DieOf(p)]), p, a)
<1>1. DieOf(p) \in Dies  BY DieOfType
<1>2. Len(queues[d]) \in Nat /\ Len(new[d]) \in Nat  BY AddedType
<1>3. CASE DieOf(p) = d
  <2> DEFINE q == queues[d]
             r == new[d]
             n == Len(queues[d])
             m == Len(new[d])
  <2>1. /\ n \in Nat /\ m \in Nat /\ n <= m /\ \A i \in 1 .. n : r[i] = q[i]
        /\ \A i \in n + 1 .. m : ~(r[i].type = "WRITE" /\ r[i].page = p)
        /\ Holds(st, q, n, p, a)
        BY <1>2, <1>3 DEF Added, Fresh
  <2> HIDE DEF q, r, n, m
  <2>2. Holds(st, r, m, p, a)  BY <2>1, HoldsLonger
  <2>3. QED  BY <1>3, <2>2 DEF r, m
<1>4. CASE DieOf(p) # d
  <2>1. new[DieOf(p)] = queues[DieOf(p)]  BY <1>1, <1>4 DEF Added
  <2>2. QED  BY <2>1
<1>5. QED  BY <1>3, <1>4

LEMMA AddedReads ==
    ASSUME NEW queues, NEW new, NEW d, Added(queues, new, d), NEW st,
           \A i \in Fresh(queues, new, d) : new[d][i].type = "READ" =>
               Holds(st, new[d], i - 1, new[d][i].page, new[d][i].address),
           ReadsHold(st, queues)
    PROVE  ReadsHold(st, new)
<1>1. Len(queues[d]) \in Nat /\ Len(new[d]) \in Nat  BY AddedType
<1>2. SUFFICES ASSUME NEW e \in Dies, NEW n \in 1 .. Len(new[e]), new[e][n].type = "READ"
               PROVE  Holds(st, new[e], n - 1, new[e][n].page, new[e][n].address)
      BY DEF ReadsHold
<1>3. CASE e # d
  <2>1. new[e] = queues[e]  BY <1>3 DEF Added
  <2>2. QED  BY <1>2, <2>1 DEF ReadsHold
<1>4. CASE e = d
  <2>1. CASE n \in Fresh(queues, new, d)  BY <1>2, <1>4, <2>1
  <2>2. CASE n \in 1 .. Len(queues[d])
    <3> DEFINE m == n - 1
               q == queues[d]
               r == new[d]
               p == new[d][n].page
               b == new[d][n].address
    <3>1. r[n] = q[n] /\ d \in Dies  BY <2>2 DEF Added
    <3>2. Holds(st, q, m, p, b)
          BY <1>2, <1>4, <2>2, <3>1 DEF ReadsHold
    <3>3. /\ m \in Nat /\ m <= m /\ \A i \in 1 .. m : r[i] = q[i]
          /\ \A i \in m + 1 .. m : ~(r[i].type = "WRITE" /\ r[i].page = p)
          BY <1>1, <2>2 DEF Added
    <3> HIDE DEF m, q, r, p, b
    <3>4. Holds(st, r, m, p, b)  BY <3>2, <3>3, HoldsLonger
    <3>5. QED  BY <1>4, <3>4 DEF m, r, p, b
  <2>3. QED  BY <1>1, <1>4, <2>1, <2>2 DEF Fresh
<1>5. QED  BY <1>3, <1>4

(* Every address whose page gets no new write.                             *)
LEMMA AddedMapped ==
    ASSUME NEW queues, NEW new, NEW d, Added(queues, new, d), NEW st,
           NEW map \in [Addr -> Pages \cup {NoPage}], NEW b \in Addr, map[b] # NoPage,
           \A i \in Fresh(queues, new, d) :
               ~(new[d][i].type = "WRITE" /\ new[d][i].page = map[b]),
           MappedHold(st, queues, map)
    PROVE  Holds(st, new[DieOf(map[b])], Len(new[DieOf(map[b])]), map[b], b)
<1> DEFINE p == map[b]
<1>1. /\ p \in Pages
      /\ \A i \in Fresh(queues, new, d) : ~(new[d][i].type = "WRITE" /\ new[d][i].page = p)
      /\ Holds(st, queues[DieOf(p)], Len(queues[DieOf(p)]), p, b)
      BY DEF MappedHold
<1> HIDE DEF p
<1>2. Holds(st, new[DieOf(p)], Len(new[DieOf(p)]), p, b)  BY <1>1, AddedKeeps
<1>3. QED  BY <1>2 DEF p

LEMMA AddedNoReads ==
    ASSUME NEW queues, NEW new, NEW d, Added(queues, new, d), NEW st,
           \A i \in Fresh(queues, new, d) : new[d][i].type # "READ",
           ReadsHold(st, queues)
    PROVE  ReadsHold(st, new)
<1>1. \A i \in Fresh(queues, new, d) : new[d][i].type = "READ" =>
               Holds(st, new[d], i - 1, new[d][i].page, new[d][i].address)
      OBVIOUS
<1>2. QED  BY <1>1, AddedReads, Zenon

LEMMA AddedHome ==
    ASSUME NEW queues, NEW new, NEW d, Added(queues, new, d),
           \A i \in Fresh(queues, new, d) : DieOf(new[d][i].page) = d,
           Home(queues)
    PROVE  Home(new)
<1>1. Len(queues[d]) \in Nat /\ Len(new[d]) \in Nat  BY AddedType
<1>2. SUFFICES ASSUME NEW e \in Dies, NEW n \in 1 .. Len(new[e])
               PROVE  DieOf(new[e][n].page) = e
      BY DEF Home
<1>3. CASE e # d
  <2>1. new[e] = queues[e]  BY <1>3 DEF Added
  <2>2. QED  BY <1>2, <2>1 DEF Home
<1>4. CASE e = d
  <2>1. CASE n \in Fresh(queues, new, d)  BY <1>4, <2>1
  <2>2. CASE n \in 1 .. Len(queues[d])
    <3>1. new[d][n] = queues[d][n] /\ d \in Dies  BY <2>2 DEF Added
    <3>2. QED  BY <1>4, <2>2, <3>1 DEF Home
  <2>3. QED  BY <1>1, <1>4, <2>1, <2>2 DEF Fresh
<1>5. QED  BY <1>3, <1>4

(* A READ of the page of an address is sent.                               *)
LEMMA ReadSent ==
    ASSUME NEW queues \in [Dies -> Seq(Packets)], NEW d \in Dies, NEW x \in Packets,
           NEW new, new[d] = Append(queues[d], x),
           \A e \in Dies \ {d} : new[e] = queues[e]
    PROVE  /\ Added(queues, new, d)
           /\ \A i \in Fresh(queues, new, d) :
                 i = Len(queues[d]) + 1 /\ new[d][i] = x
<1> DEFINE q == queues[d]
           r == Append(q, x)
<1>1. new[d] = r /\ \A e \in Dies \ {d} : new[e] = queues[e]  OBVIOUS
<1>2. /\ q \in Seq(Packets) /\ Len(q) \in Nat /\ r \in Seq(Packets)
      /\ Len(r) = Len(q) + 1 /\ r[Len(q) + 1] = x
      /\ \A i \in 1 .. Len(q) : r[i] = q[i]
      BY AppendProperties, LenProperties
<1>3. Len(r) >= Len(q)  BY <1>2
<1> HIDE DEF r
<1>4. Added(queues, new, d)  BY <1>1, <1>2, <1>3 DEF Added
<1> HIDE DEF q
<1>5. Fresh(queues, new, d) = Len(q) + 1 .. Len(q) + 1
      BY <1>1, <1>2 DEF Fresh, q
<1>6. \A i \in Fresh(queues, new, d) : i = Len(q) + 1 /\ new[d][i] = x
      BY <1>1, <1>2, <1>5
<1>7. QED  BY <1>4, <1>6 DEF q

LEMMA ReadSentHolds ==
    ASSUME NEW queues, NEW new, NEW d, Added(queues, new, d), NEW st,
           NEW map \in [Addr -> Pages \cup {NoPage}], NEW a \in Addr, map[a] \in Pages,
           d = DieOf(map[a]), NEW x,
           x.type = "READ" /\ x.page = map[a] /\ x.address = a,
           \A i \in Fresh(queues, new, d) : i = Len(queues[d]) + 1 /\ new[d][i] = x,
           MappedHold(st, queues, map), ReadsHold(st, queues), Home(queues)
    PROVE  MappedHold(st, new, map) /\ ReadsHold(st, new) /\ Home(new)
<1>1. Len(queues[d]) \in Nat /\ Len(new[d]) \in Nat  BY AddedType
<1>2. MappedHold(st, new, map)
  <2> SUFFICES ASSUME NEW b \in Addr, map[b] # NoPage
               PROVE  Holds(st, new[DieOf(map[b])], Len(new[DieOf(map[b])]), map[b], b)
      BY DEF MappedHold
  <2>1. \A i \in Fresh(queues, new, d) :
           ~(new[d][i].type = "WRITE" /\ new[d][i].page = map[b])
        OBVIOUS
  <2>2. QED  BY <2>1, AddedMapped
<1>3. ReadsHold(st, new)
  <2> DEFINE q == queues[d]
             r == new[d]
             n == Len(queues[d])
             p == map[a]
  <2>1. p # NoPage  BY NoPageIsNoPage
  <2>2. Holds(st, q, n, p, a)  BY <2>1 DEF MappedHold
  <2>3. /\ n \in Nat /\ n <= n /\ \A i \in 1 .. n : r[i] = q[i]
        /\ \A i \in n + 1 .. n : ~(r[i].type = "WRITE" /\ r[i].page = p)
        BY <1>1 DEF Added
  <2> HIDE DEF q, r, n, p
  <2>4. Holds(st, r, n, p, a)  BY <2>2, <2>3, HoldsLonger
  <2>5. ASSUME NEW i \in Fresh(queues, new, d)
        PROVE  Holds(st, new[d], i - 1, new[d][i].page, new[d][i].address)
    <3>1. i = n + 1 /\ new[d][i] = x  BY DEF n
    <3>2. i - 1 = n  BY <2>3, <3>1
    <3>3. QED  BY <2>4, <3>1, <3>2 DEF r, p
  <2>6. QED  BY <2>5, AddedReads
<1>4. Home(new)
  <2>1. \A i \in Fresh(queues, new, d) : DieOf(new[d][i].page) = d  OBVIOUS
  <2>2. QED  BY <2>1, AddedHome
<1>5. QED  BY <1>2, <1>3, <1>4

(* DATA and WRITE are sent to the page an address is given, which is of no *)
(* other address.                                                          *)
SentTo(p, a, x, y) ==
    /\ x.type = "DATA" /\ x.page = p
    /\ y.type = "WRITE" /\ y.page = p /\ y.address = a
Sent(queues, new, d, x, y) ==
    new[d] = queues[d] \o <<x, y>> /\ \A e \in Dies \ {d} : new[e] = queues[e]
Behind(queues, new, d, x, y) ==
    /\ Added(queues, new, d)
    /\ \A i \in Fresh(queues, new, d) : new[d][i] \in {x, y}
    /\ Len(new[d]) # 0 /\ new[d][Len(new[d])] = y
Gives(map, next, a, p) ==
    next[a] = p /\ \A b \in Addr \ {a} : next[b] = map[b]

LEMMA SentBehind ==
    ASSUME NEW queues \in [Dies -> Seq(Packets)], NEW d \in Dies,
           NEW x \in Packets, NEW y \in Packets, NEW new, Sent(queues, new, d, x, y)
    PROVE  Behind(queues, new, d, x, y)
<1> DEFINE q == queues[d]
           r == q \o <<x, y>>
<1>1. new[d] = r /\ \A e \in Dies \ {d} : new[e] = queues[e]  BY DEF Sent
<1>2. /\ q \in Seq(Packets) /\ Len(q) \in Nat /\ r \in Seq(Packets)
      /\ Len(r) = Len(q) + 2 /\ r[Len(q) + 1] = x /\ r[Len(q) + 2] = y
      /\ \A i \in 1 .. Len(q) : r[i] = q[i]
  <2>1. q \in Seq(Packets) /\ Len(q) \in Nat  BY LenProperties
  <2>2. <<x, y>> \in Seq(Packets) /\ Len(<<x, y>>) = 2  OBVIOUS
  <2>3. QED  BY <2>1, <2>2, ConcatProperties
<1>3. Len(r) >= Len(q) /\ Len(r) # 0 /\ r[Len(r)] = y  BY <1>2
<1> HIDE DEF r
<1>4. Added(queues, new, d)  BY <1>1, <1>2, <1>3 DEF Added
<1> HIDE DEF q
<1>5. Fresh(queues, new, d) = Len(q) + 1 .. Len(q) + 2
      BY <1>1, <1>2 DEF Fresh, q
<1>6. \A i \in Fresh(queues, new, d) : new[d][i] \in {x, y}
      BY <1>1, <1>2, <1>5
<1>7. QED  BY <1>1, <1>3, <1>4, <1>6 DEF Behind

LEMMA WriteSentHolds ==
    ASSUME NEW queues, NEW new, NEW d, NEW x, NEW y, Behind(queues, new, d, x, y),
           NEW p \in Pages, NEW a \in Addr, d = DieOf(p), SentTo(p, a, x, y),
           NEW map \in [Addr -> Pages \cup {NoPage}],
           NEW next \in [Addr -> Pages \cup {NoPage}], InjectiveMap(next),
           Gives(map, next, a, p),
           NEW st, MappedHold(st, queues, map), ReadsHold(st, queues)
    PROVE  MappedHold(st, new, next) /\ ReadsHold(st, new)
<1>0. Added(queues, new, d)  BY DEF Behind
<1>1. Len(queues[d]) \in Nat /\ Len(new[d]) \in Nat  BY <1>0, AddedType
<1>2. p # NoPage /\ next[a] = p /\ \A b \in Addr \ {a} : next[b] = map[b]
      BY NoPageIsNoPage DEF Gives
<1>3. /\ \A i \in Fresh(queues, new, d) :
            new[d][i].type # "READ" /\ new[d][i].page = p
      /\ Len(new[d]) # 0 /\ new[d][Len(new[d])] = y
      BY DEF Behind, SentTo
<1>4. MappedHold(st, new, next)
  <2> SUFFICES ASSUME NEW b \in Addr, next[b] # NoPage
               PROVE  Holds(st, new[DieOf(next[b])], Len(new[DieOf(next[b])]), next[b], b)
      BY DEF MappedHold
  <2>1. CASE b = a
    <3> DEFINE r == new[d]
    <3>1. /\ Len(r) \in Nat \ {0}
          /\ r[Len(r)].type = "WRITE" /\ r[Len(r)].page = p /\ r[Len(r)].address = a
          BY <1>1, <1>3 DEF SentTo
    <3> HIDE DEF r
    <3>2. Holds(st, r, Len(r), p, a)  BY <3>1, HoldsLast
    <3>3. QED  BY <1>2, <2>1, <3>2 DEF r
  <2>2. CASE b # a
    <3>1. next[b] = map[b] /\ map[b] # NoPage /\ map[b] # p
          BY <1>2, <2>2 DEF InjectiveMap
    <3>2. \A i \in Fresh(queues, new, d) :
             ~(new[d][i].type = "WRITE" /\ new[d][i].page = map[b])
          BY <1>3, <3>1
    <3>3. Holds(st, new[DieOf(map[b])], Len(new[DieOf(map[b])]), map[b], b)
          BY <1>0, <3>1, <3>2, AddedMapped
    <3>4. QED  BY <3>1, <3>3
  <2>3. QED  BY <2>1, <2>2
<1>5. ReadsHold(st, new)  BY <1>0, <1>3, AddedNoReads
<1>6. QED  BY <1>4, <1>5

LEMMA WriteSentHome ==
    ASSUME NEW queues, NEW new, NEW d, NEW x, NEW y, Behind(queues, new, d, x, y),
           NEW p, NEW a, d = DieOf(p), SentTo(p, a, x, y), Home(queues)
    PROVE  Home(new)
<1>1. \A i \in Fresh(queues, new, d) : DieOf(new[d][i].page) = d
      BY DEF Behind, SentTo
<1>2. Added(queues, new, d)  BY DEF Behind
<1>3. QED  BY <1>1, <1>2, AddedHome

(* The controller serves a packet, which is made if it is a write.         *)
Made(st, x) ==
    IF x.type = "WRITE" THEN [st EXCEPT ![x.page] = x.address] ELSE st

Popped(queues, new, d) ==
    new[d] = Tail(queues[d]) /\ \A e \in Dies \ {d} : new[e] = queues[e]

LEMMA PopHolds ==
    ASSUME NEW queues \in [Dies -> Seq(Packets)], NEW d \in Dies, queues[d] # <<>>,
           NEW new, Popped(queues, new, d),
           NEW st, StoredType(st), NEW su, su = Made(st, queues[d][1]),
           NEW map \in [Addr -> Pages \cup {NoPage}], Home(queues)
    PROVE  /\ StoredType(su) /\ Home(new)
           /\ MappedHold(st, queues, map) => MappedHold(su, new, map)
           /\ ReadsHold(st, queues) => ReadsHold(su, new)
<1> DEFINE q == queues[d]
           r == Tail(q)
           head == q[1]
<1>1. /\ q \in Seq(Packets) /\ Len(q) \in Nat \ {0} /\ Len(r) = Len(q) - 1
      /\ \A i \in 1 .. Len(r) : r[i] = q[i + 1]
      BY HeadTailProperties, LenProperties
<1>2. new[d] = r /\ \A e \in Dies \ {d} : new[e] = queues[e]  BY DEF Popped
<1>3. head \in Packets /\ DieOf(head.page) = d  BY <1>1 DEF Home
<1>4. head.page \in Pages /\ head.address \in Addr  BY <1>3 DEF Packets
<1>5. StoredType(su)  BY <1>4 DEF StoredType, Made
<1>6. \A p \in Pages : DieOf(p) # d => su[p] = st[p]  BY <1>3 DEF StoredType, Made
<1>7. \A n \in 1 .. Len(q), p \in Pages, a \in Addr :
         Holds(st, q, n, p, a) => Holds(su, r, n - 1, p, a)
  <2> SUFFICES ASSUME NEW n \in 1 .. Len(q), NEW p \in Pages, NEW a \in Addr,
                      Holds(st, q, n, p, a)
               PROVE  Holds(su, r, n - 1, p, a)
      OBVIOUS
  <2>1. q \in Seq(Packets) /\ q # <<>>  BY <1>1
  <2>2. /\ st \in [Pages -> Addr \cup {Nobody, Addr0}]
        /\ su = IF q[1].type = "WRITE" THEN [st EXCEPT ![q[1].page] = q[1].address]
                ELSE st
        BY DEF StoredType, Made
  <2> HIDE DEF q
  <2>3. QED  BY <2>1, <2>2, HoldsTail
<1> HIDE DEF q, r, head
<1>8. ASSUME NEW e \in Dies, NEW i \in 1 .. Len(new[e])
      PROVE  /\ new[e][i].page \in Pages /\ new[e][i].address \in Addr
             /\ DieOf(new[e][i].page) = e
             /\ ReadsHold(st, queues) /\ new[e][i].type = "READ" =>
                   Holds(su, new[e], i - 1, new[e][i].page, new[e][i].address)
  <2>1. CASE e = d
    <3>1. /\ i \in 1 .. Len(r) /\ i + 1 \in 1 .. Len(q) /\ i \in 1 .. Len(q)
          /\ (i + 1) - 1 = i
          BY <1>1, <1>2, <2>1
    <3>2. new[e][i] = q[i + 1] /\ q[i + 1] \in Packets
      <4>1. new[e] = r /\ r[i] = q[i + 1]  BY <1>1, <1>2, <2>1, <3>1
      <4>2. q[i + 1] \in Packets  BY <1>1, <3>1
      <4>3. QED  BY <4>1, <4>2
    <3>3. q[i + 1].page \in Pages /\ q[i + 1].address \in Addr
          BY <3>2 DEF Packets
    <3>4. DieOf(q[i + 1].page) = d  BY <3>1 DEF Home, q
    <3>5. ASSUME ReadsHold(st, queues), q[i + 1].type = "READ"
          PROVE  Holds(su, r, i - 1, q[i + 1].page, q[i + 1].address)
      <4>1. Holds(st, q, i, q[i + 1].page, q[i + 1].address)
            BY <3>1, <3>5 DEF ReadsHold, q
      <4>2. QED  BY <1>7, <3>1, <3>3, <4>1
    <3>6. QED  BY <1>2, <2>1, <3>2, <3>3, <3>4, <3>5
  <2>2. CASE e # d
    <3> DEFINE s == queues[e]
    <3>1. new[e] = s /\ s \in Seq(Packets) /\ i \in 1 .. Len(s)  BY <1>2, <2>2
    <3> HIDE DEF s
    <3>2. s[i] \in Packets  BY <3>1
    <3>3. s[i].page \in Pages /\ s[i].address \in Addr  BY <3>2 DEF Packets
    <3>4. DieOf(s[i].page) = e  BY <3>1 DEF Home, s
    <3>5. ASSUME ReadsHold(st, queues), s[i].type = "READ"
          PROVE  Holds(su, s, i - 1, s[i].page, s[i].address)
      <4>1. Holds(st, s, i - 1, s[i].page, s[i].address)
            BY <3>1, <3>5 DEF ReadsHold, s
      <4>2. su[s[i].page] = st[s[i].page]  BY <1>6, <2>2, <3>3, <3>4
      <4>3. QED  BY <4>1, <4>2, HoldsElsewhere
    <3>6. QED  BY <3>1, <3>3, <3>4, <3>5
  <2>3. QED  BY <2>1, <2>2
<1>9. Home(new)  BY <1>8 DEF Home
<1>10. ReadsHold(st, queues) => ReadsHold(su, new)  BY <1>8 DEF ReadsHold
<1>11. ASSUME MappedHold(st, queues, map)  PROVE MappedHold(su, new, map)
  <2> SUFFICES ASSUME NEW a \in Addr, map[a] # NoPage
               PROVE  Holds(su, new[DieOf(map[a])], Len(new[DieOf(map[a])]), map[a], a)
      BY DEF MappedHold
  <2> DEFINE p == map[a]
  <2>1. /\ p \in Pages /\ DieOf(p) \in Dies
        /\ Holds(st, queues[DieOf(p)], Len(queues[DieOf(p)]), p, a)
        BY <1>11, DieOfType DEF MappedHold
  <2> HIDE DEF p
  <2>2. CASE DieOf(p) = d
    <3>1. Holds(st, q, Len(q), p, a)  BY <2>1, <2>2 DEF q
    <3>2. Len(q) \in 1 .. Len(q)  BY <1>1
    <3>3. Holds(su, r, Len(q) - 1, p, a)  BY <1>7, <2>1, <3>1, <3>2
    <3>4. QED  BY <1>1, <1>2, <2>2, <3>3 DEF p
  <2>3. CASE DieOf(p) # d
    <3>1. su[p] = st[p] /\ new[DieOf(p)] = queues[DieOf(p)]
          BY <1>2, <1>6, <2>1, <2>3
    <3>2. Holds(su, queues[DieOf(p)], Len(queues[DieOf(p)]), p, a)
          BY <2>1, <3>1, HoldsElsewhere
    <3>3. QED  BY <3>1, <3>2 DEF p
  <2>4. QED  BY <2>2, <2>3
<1>12. QED  BY <1>5, <1>9, <1>10, <1>11

-----------------------------------------------------------------------------
(* The invariant of the data.  Packets are at home, and the pages have     *)
(* their types, whether or not the file was intact.                        *)

PlacesInv == StoredType(stored) /\ Home(ctrlQueue)
HoldInv ==
    MappedHold(stored, ctrlQueue, addressMap) /\ ReadsHold(stored, ctrlQueue)
DataInv == NvInv /\ FlagInv /\ PlacesInv /\ (intact => HoldInv)

LEMMA EmptyHolds ==
    ASSUME NEW queues, \A d \in Dies : queues[d] = <<>>, NEW st,
           NEW map \in [Addr -> Pages \cup {NoPage}],
           \A a \in Addr : map[a] # NoPage => st[map[a]] = a
    PROVE  MappedHold(st, queues, map) /\ ReadsHold(st, queues)
<1>1. Len(<<>>) = 0 /\ 1 .. 0 = {}  OBVIOUS
<1>2. ASSUME NEW a \in Addr, map[a] # NoPage
      PROVE  Holds(st, queues[DieOf(map[a])], Len(queues[DieOf(map[a])]), map[a], a)
  <2>1. DieOf(map[a]) \in Dies  BY <1>2, DieOfType
  <2>2. Len(queues[DieOf(map[a])]) = 0 /\ st[map[a]] = a  BY <1>2, <2>1
  <2>3. QED  BY <1>1, <2>2 DEF Holds
<1>3. ReadsHold(st, queues)  BY <1>1 DEF ReadsHold
<1>4. QED  BY <1>2, <1>3 DEF MappedHold

LEMMA EmptyHome ==
    ASSUME NEW queues, \A d \in Dies : queues[d] = <<>>
    PROVE  Home(queues)
BY DEF Home

LEMMA DataInit == NvInit => DataInv
<1> SUFFICES ASSUME NvInit PROVE DataInv  OBVIOUS
<1>1. Init /\ stored = [p \in Pages |-> Nobody]  BY DEF NvInit
<1>2. /\ \A d \in Dies : ctrlQueue[d] = <<>>
      /\ addressMap = [a \in Addr |-> NoPage]
      BY <1>1 DEF Init
<1>3. HoldInv
  <2>1. /\ addressMap \in [Addr -> Pages \cup {NoPage}]
        /\ \A a \in Addr : addressMap[a] # NoPage => stored[addressMap[a]] = a
        BY <1>2
  <2>2. MappedHold(stored, ctrlQueue, addressMap) /\ ReadsHold(stored, ctrlQueue)
        BY <1>2, <2>1, EmptyHolds
  <2>3. QED  BY <2>2 DEF HoldInv
<1>4. PlacesInv  BY <1>1, <1>2, EmptyHome DEF PlacesInv, StoredType
<1>5. QED  BY <1>1, <1>3, <1>4, NvInitInv, FlagInit DEF DataInv

(* Nothing is sent.                                                        *)
LEMMA SameHolds ==
    ASSUME PlacesInv, intact => HoldInv, UNCHANGED <<stored, ctrlQueue, addressMap, intact>>
    PROVE  PlacesInv' /\ (intact' => HoldInv')
BY DEF PlacesInv, HoldInv

LEMMA ReadHolds ==
    ASSUME ~DISK_READ, QueueInv, MapType, FlagInv, PlacesInv, intact => HoldInv,
           handle_read, UNCHANGED <<stored, intact>>
    PROVE  PlacesInv' /\ (intact' => HoldInv')
<1> DEFINE a == currentTransaction.address
           p == addressMap[a]
           d == DieOf(p)
           x == Packet("READ", a, p)
<1>1. a \in Addr  BY AddressType
<1>2. CASE FoundInWriteQueue(a)
      BY <1>2, SameHolds DEF FoundInWriteQueue, mapVars
<1>3. CASE AccessWriteQueue(a)
      BY <1>3, SameHolds DEF AccessWriteQueue, mapVars
<1>4. CASE ReadUnmapped(a)  BY <1>4, SameHolds DEF ReadUnmapped, mapVars
<1>5. CASE ReadMapped(a)
  <2>1. UNCHANGED addressMap /\ p \in Pages /\ SendRead(a, p)
        BY <1>1, <1>5 DEF ReadMapped, mapVars, MapType, Mapped
  <2>2. CASE UNCHANGED ctrlQueue  BY <2>1, <2>2, SameHolds
  <2>3. CASE ctrlQueue' = [ctrlQueue EXCEPT ![d] = Append(@, x)]
    <3>1. /\ x \in Packets /\ x.type = "READ" /\ x.page = p /\ x.address = a
          /\ d \in Dies /\ ctrlQueue \in [Dies -> Seq(Packets)]
          BY <1>1, <2>1, PacketType, DieOfType DEF Packet, FlagInv
    <3> HIDE DEF x, d
    <3>2. /\ Added(ctrlQueue, ctrlQueue', d)
          /\ \A i \in Fresh(ctrlQueue, ctrlQueue', d) :
                i = Len(ctrlQueue[d]) + 1 /\ ctrlQueue'[d][i] = x
      <4>1. /\ ctrlQueue'[d] = Append(ctrlQueue[d], x)
            /\ \A e \in Dies \ {d} : ctrlQueue'[e] = ctrlQueue[e]
            BY <2>3, <3>1
      <4>2. QED  BY <3>1, <4>1, ReadSent
    <3>3. addressMap \in [Addr -> Pages \cup {NoPage}]  BY DEF MapType
    <3>4. ASSUME intact  PROVE HoldInv'
      <4>1. MappedHold(stored, ctrlQueue, addressMap) /\ ReadsHold(stored, ctrlQueue)
            BY <3>4 DEF HoldInv
      <4>2. Home(ctrlQueue)  BY DEF PlacesInv
      <4>3. d = DieOf(addressMap[a])  BY DEF d
      <4>4. MappedHold(stored, ctrlQueue', addressMap) /\ ReadsHold(stored, ctrlQueue')
            BY <1>1, <2>1, <3>1, <3>2, <3>3, <4>1, <4>2, <4>3, ReadSentHolds
      <4>5. QED  BY <2>1, <4>4 DEF HoldInv
    <3>5. PlacesInv'
      <4>1. \A i \in Fresh(ctrlQueue, ctrlQueue', d) : DieOf(ctrlQueue'[d][i].page) = d
            BY <3>1, <3>2 DEF d
      <4>2. Home(ctrlQueue')  BY <3>2, <4>1, AddedHome DEF PlacesInv
      <4>3. QED  BY <4>2 DEF PlacesInv
    <3>6. QED  BY <3>4, <3>5
  <2>4. QED  BY <2>1, <2>2, <2>3 DEF SendRead
<1>6. QED
      BY <1>2, <1>3, <1>4, <1>5 DEF handle_read, DiskRead, DiskReadNoPage

LEMMA WriteHolds ==
    ASSUME ~PERFECT_SCHEDULE, QueueInv, MapType, FlagInv, PlacesInv, intact => HoldInv,
           handle_write, UNCHANGED <<stored, intact>>,
           intact => InjectiveMap(addressMap')
    PROVE  PlacesInv' /\ (intact' => HoldInv')
<1> DEFINE a == currentTransaction.address
           p == FindFree(UsedWithout(a), writePointer)
           d == DieOf(p)
           x == Packet("DATA", a, p)
           y == Packet("WRITE", a, p)
<1>1. a \in Addr /\ p \in Pages \cup {NoPage}
      BY AddressType, UsedWithoutType, FindFreeSound
<1>2. CASE WriteBlocked(a, p)  BY <1>2, SameHolds DEF WriteBlocked
<1>3. CASE WriteNoPage(a)  BY <1>3, SameHolds DEF WriteNoPage
<1>4. CASE p # NoPage /\ WriteSent(a, p)
  <2>1. /\ ctrlQueue' = [ctrlQueue EXCEPT ![d] = @ \o <<x, y>>]
        /\ addressMap' = [addressMap EXCEPT ![a] = p] /\ p \in Pages
        BY <1>1, <1>4 DEF WriteSent, write_success
  <2>2. /\ x \in Packets /\ y \in Packets /\ SentTo(p, a, x, y)
        /\ d \in Dies /\ ctrlQueue \in [Dies -> Seq(Packets)]
        BY <1>1, <2>1, PacketType, DieOfType DEF Packet, FlagInv, SentTo
  <2>3. d = DieOf(p)  OBVIOUS
  <2> HIDE DEF x, y, d, p
  <2>4. Behind(ctrlQueue, ctrlQueue', d, x, y)
    <3>1. Sent(ctrlQueue, ctrlQueue', d, x, y)  BY <2>1, <2>2 DEF Sent
    <3>2. QED  BY <2>2, <3>1, SentBehind
  <2>5. /\ addressMap \in [Addr -> Pages \cup {NoPage}]
        /\ addressMap' \in [Addr -> Pages \cup {NoPage}]
        /\ Gives(addressMap, addressMap', a, p)
        BY <1>1, <2>1 DEF MapType, Gives
  <2>6. ASSUME intact  PROVE HoldInv'
    <3>1. MappedHold(stored, ctrlQueue, addressMap) /\ ReadsHold(stored, ctrlQueue)
          BY <2>6 DEF HoldInv
    <3>2. InjectiveMap(addressMap')  BY <2>6
    <3>3. MappedHold(stored, ctrlQueue', addressMap') /\ ReadsHold(stored, ctrlQueue')
      <4> HIDE DEF a
      <4>1. a \in Addr /\ p \in Pages  BY <1>1, <2>1
      <4>2. QED  BY <2>2, <2>3, <2>4, <2>5, <3>1, <3>2, <4>1, WriteSentHolds
    <3>4. QED  BY <3>3 DEF HoldInv
  <2>7. PlacesInv'
    <3>1. Home(ctrlQueue')
          BY <2>2, <2>3, <2>4, WriteSentHome DEF PlacesInv
    <3>2. QED  BY <3>1 DEF PlacesInv
  <2>8. QED  BY <2>6, <2>7
<1>5. QED  BY <1>2, <1>3, <1>4 DEF handle_write, WriteFaked

LEMMA PopHoldInv ==
    ASSUME MapType, FlagInv, PlacesInv, intact => HoldInv,
           NEW d \in Dies, CtrlPop(d), PlaneWrites(d), UNCHANGED intact
    PROVE  PlacesInv' /\ (intact' => HoldInv')
<1> DEFINE q == ctrlQueue[d]
<1>1. /\ ctrlQueue' = [ctrlQueue EXCEPT ![d] = Tail(@)] /\ q # <<>>
      /\ UNCHANGED addressMap
      BY DEF CtrlPop, mapVars
<1>2. q \in Seq(Packets) /\ ctrlQueue \in [Dies -> Seq(Packets)]  BY DEF FlagInv
<1>3. Head(q) = q[1]  BY <1>1, <1>2, HeadTailProperties
<1>4. stored' = Made(stored, q[1])  BY <1>3 DEF PlaneWrites, Made
<1>5. addressMap \in [Addr -> Pages \cup {NoPage}]  BY DEF MapType
<1>6. StoredType(stored) /\ Home(ctrlQueue)  BY DEF PlacesInv
<1>7. /\ StoredType(stored') /\ Home(ctrlQueue')
      /\ MappedHold(stored, ctrlQueue, addressMap) =>
            MappedHold(stored', ctrlQueue', addressMap)
      /\ ReadsHold(stored, ctrlQueue) => ReadsHold(stored', ctrlQueue')
  <2>1. Popped(ctrlQueue, ctrlQueue', d)  BY <1>1, <1>2 DEF Popped
  <2>2. QED  BY <1>1, <1>2, <1>4, <1>5, <1>6, <2>1, PopHolds
<1>8. QED  BY <1>1, <1>7 DEF PlacesInv, HoldInv

(* The planes of a new process hold what the file says they hold.          *)
LEMMA RestartHolds ==
    ASSUME NvInv, Restart
    PROVE  FlagInv' /\ PlacesInv' /\ (intact' => HoldInv')
<1> DEFINE map == saveFile.addressMap
<1>1. /\ ctrlQueue' = [d \in Dies |-> <<>>]
      /\ ~read_queues_full' /\ ~write_queues_full'
      /\ read_queues_full' \in BOOLEAN /\ write_queues_full' \in BOOLEAN
      BY DEF Restart, NewProcess
<1>2. FlagInv'
  <2>1. ctrlQueue' \in [Dies -> Seq(Packets)]  BY <1>1, EmptySeq
  <2>2. QED  BY <1>1, <2>1 DEF FlagInv, NoLostWakeup
<1>3. \A d \in Dies : ctrlQueue'[d] = <<>>  BY <1>1
<1>4. /\ map \in [Addr -> Pages \cup {NoPage}]
      /\ intact => InjectiveMap(map)
      BY DEF Restart, loadNVState, NvInv, FileType, InjectiveFile
<1>5. PICK owner \in [saveFile.used -> Addr \cup {Addr0}] :
         /\ \A p \in saveFile.used : owner[p] \in tempMap(p)
         /\ stored' = [p \in Pages |-> IF p \in saveFile.used THEN owner[p] ELSE Nobody]
      BY DEF Restart, loadNVState
<1>6. PlacesInv'
  <2>1. StoredType(stored')  BY <1>5 DEF StoredType
  <2>2. QED  BY <1>3, <2>1, EmptyHome DEF PlacesInv
<1>7. ASSUME intact'  PROVE HoldInv'
  <2>1. intact /\ FileIntact /\ addressMap' = map
        BY <1>7 DEF Restart, loadNVState
  <2>2. ASSUME NEW a \in Addr, map[a] # NoPage  PROVE stored'[map[a]] = a
    <3>1. map[a] \in saveFile.used /\ map[a] \in Pages
          BY <1>4, <2>1, <2>2 DEF FileIntact
    <3>2. {b \in Addr : map[b] = map[a]} = {a}
          BY <1>4, <2>1, <2>2 DEF InjectiveMap
    <3>3. tempMap(map[a]) = {a}  BY <3>2 DEF tempMap
    <3>4. QED  BY <1>5, <3>1, <3>3
  <2>3. MappedHold(stored', ctrlQueue', map) /\ ReadsHold(stored', ctrlQueue')
    <3> HIDE DEF map
    <3>1. QED  BY <1>3, <1>4, <2>2, EmptyHolds
  <2>4. QED  BY <2>1, <2>3 DEF HoldInv
<1>8. QED  BY <1>2, <1>6, <1>7

LEMMA DataNext ==
    ASSUME RefusalsKept, ~PERFECT_SCHEDULE, ~DISK_READ
    PROVE  DataInv /\ [NvNext]_<<vars, nvVars, planeVars>> => DataInv'
<1> SUFFICES ASSUME DataInv, [NvNext]_<<vars, nvVars, planeVars>> PROVE DataInv'
    OBVIOUS
<1>1. NvInv'  BY NvInvNext DEF DataInv
<1>2. QueueInv /\ MapType  BY DEF DataInv, NvInv, FtlInv
<1>3. CASE /\ Next /\ UNCHANGED <<saveFile, intact>>
           /\ \/ HostSteps
              \/ Update /\ FastWrites
              \/ \E d \in Dies : Pop(d) /\ PlaneWrites(d)
  <2>1. FlagInv'  BY <1>2, <1>3, FlagNext DEF DataInv
  <2>2. CASE HostSteps
    <3>1. UNCHANGED <<stored, ctrlQueue, addressMap>>
          BY <2>2 DEF HostSteps, HostRead, HostWrite, HostUnchanged, mapVars
    <3>2. QED  BY <1>1, <1>3, <2>1, <3>1, SameHolds DEF DataInv
  <2>3. CASE Update /\ FastWrites
    <3>1. CASE Schedule \/ Lookup
      <4>1. UNCHANGED <<ctrlQueue, addressMap>>
            BY <3>1 DEF Schedule, Lookup, mapVars
      <4>2. UNCHANGED stored  BY <2>3, <4>1 DEF FastWrites
      <4>3. QED  BY <1>1, <1>3, <2>1, <4>1, <4>2, SameHolds DEF DataInv
    <3>2. CASE handle_read
      <4>1. UNCHANGED addressMap
            BY <3>2 DEF handle_read, FoundInWriteQueue, AccessWriteQueue, ReadMapped,
                        ReadUnmapped, DiskRead, DiskReadNoPage, mapVars
      <4>2. UNCHANGED stored  BY <2>3, <4>1 DEF FastWrites
      <4>3. QED  BY <1>1, <1>2, <1>3, <2>1, <3>2, <4>2, ReadHolds DEF DataInv
    <3>3. CASE handle_write
      <4>1. UNCHANGED stored
            BY <2>3, <3>3 DEF FastWrites, handle_write, Dispatching
      <4>2. intact => InjectiveMap(addressMap')
        <5>1. intact => MapInjective'  BY <1>1, <1>3 DEF NvInv, MapInv
        <5>2. QED  BY <5>1 DEF MapInjective, InjectiveMap, Mapped
      <4>3. QED  BY <1>1, <1>2, <1>3, <2>1, <3>3, <4>1, <4>2, WriteHolds DEF DataInv
    <3>4. QED  BY <2>3, <3>1, <3>2, <3>3 DEF Update
  <2>4. CASE \E d \in Dies : Pop(d) /\ PlaneWrites(d)
        BY <1>1, <1>2, <1>3, <2>1, <2>4, PopHoldInv DEF DataInv, Pop
  <2>5. QED  BY <1>3, <2>2, <2>3, <2>4
<1>4. CASE saveNVState
  <2>1. UNCHANGED <<stored, ctrlQueue, addressMap, intact>> /\ UNCHANGED vars
        BY <1>4 DEF saveNVState, planeVars, vars, mapVars
  <2>2. FlagInv'  BY <1>2, <2>1, FlagNext DEF DataInv
  <2>3. QED  BY <1>1, <2>1, <2>2, SameHolds DEF DataInv
<1>5. CASE Restart  BY <1>1, <1>5, RestartHolds DEF DataInv
<1>6. CASE UNCHANGED <<vars, nvVars, planeVars>>
  <2>1. UNCHANGED <<stored, ctrlQueue, addressMap, intact>> /\ UNCHANGED vars
        BY <1>6 DEF planeVars, vars, mapVars
  <2>2. FlagInv'  BY <1>2, <2>1, FlagNext DEF DataInv
  <2>3. QED  BY <1>1, <2>1, <2>2, SameHolds DEF DataInv
<1>7. QED  BY <1>3, <1>4, <1>5, <1>6, NvCases

LEMMA DataHolds == DataInv => MappedPageHoldsData /\ ReadsFindData
<1> SUFFICES ASSUME DataInv, intact PROVE MappedPageHoldsData /\ ReadsFindData
    BY DEF MappedPageHoldsData, ReadsFindData
<1>1. MappedHold(stored, ctrlQueue, addressMap) /\ ReadsHold(stored, ctrlQueue)
      BY DEF DataInv, HoldInv
<1>2. MappedPageHoldsData
      BY <1>1, HoldsIsHolds DEF MappedPageHoldsData, MappedHold, Mapped
<1>3. ReadsFindData
  <2> SUFFICES ASSUME NEW d \in Dies, NEW n \in DOMAIN ctrlQueue[d],
                      ctrlQueue[d][n].type = "READ"
               PROVE  HoldsAfter(ctrlQueue[d], n - 1, ctrlQueue[d][n].page,
                                 ctrlQueue[d][n].address)
      BY DEF ReadsFindData
  <2>1. ctrlQueue[d] \in Seq(Packets)  BY DEF DataInv, FlagInv
  <2>2. n \in 1 .. Len(ctrlQueue[d])  BY <2>1
  <2>3. Holds(stored, ctrlQueue[d], n - 1, ctrlQueue[d][n].page, ctrlQueue[d][n].address)
        BY <1>1, <2>2 DEF ReadsHold
  <2>4. QED  BY <2>3, HoldsIsHolds
<1>4. QED  BY <1>2, <1>3

(* The data of a mapped address survives rewriting, refused writes, and    *)
(* any number of saves and restarts from a file that was not written       *)
(* between a refused write and its retry.  Not with PERFECT_SCHEDULE,      *)
(* which writes nothing, nor with DISK_READ.                               *)
THEOREM DataSurvives ==
    RefusalsKept /\ ~PERFECT_SCHEDULE /\ ~DISK_READ => (NvSpec => []MappedPageHoldsData)
<1> SUFFICES ASSUME RefusalsKept, ~PERFECT_SCHEDULE, ~DISK_READ
             PROVE  NvSpec => []MappedPageHoldsData
    OBVIOUS
<1>1. DataInv => MappedPageHoldsData  BY DataHolds
<1>2. DataInv /\ [NvNext]_<<vars, nvVars, planeVars>> => DataInv'  BY DataNext
<1>3. QED  BY <1>1, <1>2, DataInit, PTL DEF NvSpec

(* And a READ that waits in the controller, however long, finds the data   *)
(* of its address in its page when it gets there.                          *)
THEOREM ReadsFindTheirData ==
    RefusalsKept /\ ~PERFECT_SCHEDULE /\ ~DISK_READ => (NvSpec => []ReadsFindData)
<1> SUFFICES ASSUME RefusalsKept, ~PERFECT_SCHEDULE, ~DISK_READ
             PROVE  NvSpec => []ReadsFindData
    OBVIOUS
<1>1. DataInv => ReadsFindData  BY DataHolds
<1>2. DataInv /\ [NvNext]_<<vars, nvVars, planeVars>> => DataInv'  BY DataNext
<1>3. QED  BY <1>1, <1>2, DataInit, PTL DEF NvSpec
=============================================================================
