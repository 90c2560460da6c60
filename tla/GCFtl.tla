------------------------------- MODULE GCFtl -------------------------------
(***************************************************************************)
(* The flash translation layer with garbage collection (GCFtl.cpp).  The   *)
(* host side, the queues and the scheduling are those of Ftl; a rewritten  *)
(* page becomes dirty instead of free, and a collection reads the live     *)
(* pages of the dirtiest block (of every plane in panic mode), erases the  *)
(* block and writes the pages somewhere else, through a queue of its own.  *)
(*                                                                         *)
(* The controller is again one FIFO per die.  A packet that leaves it is   *)
(* done at once, except a GC_READ, whose end calls GCReadDone later: no    *)
(* command of that plane leaves in between.                                *)
(***************************************************************************)
EXTENDS Ftl

CONSTANTS
    VirtualPages,           \* VIRTUAL_TOTAL_SIZE / NV_PAGE_SIZE
    ForcePages, IdlePages,  \* the two thresholds, in pages
    CounterRange,           \* the counters are unsigned: 2^64
    MaxDirtyCount           \* bound: no write starts at this dirty_page_count

ASSUME CollectAssumption ==
    /\ {VirtualPages, ForcePages, IdlePages} \subseteq Nat
    /\ MaxDirtyCount \in Nat /\ CounterRange \in Nat
    /\ MaxDirtyCount < CounterRange /\ NumPages < CounterRange

VARIABLES
    gcQueue, gc_pending_erase,
    dirty, dirty_page_count, used_page_count,
    gc_status, panic_mode,
    erases,                 \* numErases - start_erase
    erase_pointer,
    gcReading               \* the GC_READ packets the dies work on

countVars == <<dirty, dirty_page_count, used_page_count>>
collectVars == <<gcQueue, gc_pending_erase, erase_pointer>>
statusVars == <<gc_status, panic_mode, erases>>
gcVars == <<countVars, collectVars, statusVars, gcReading>>
allVars == <<vars, gcVars>>

-----------------------------------------------------------------------------
Blocks == 0 .. NumBlocks - 1
GcRead(a) == [type |-> "GC_DATA_READ", address |-> a]
GcWrite(a) == [type |-> "GC_DATA_WRITE", address |-> a]
(* The address of a BLOCK_ERASE is physical; a block number stands for it. *)
BlockErase(b) == [type |-> "BLOCK_ERASE", address |-> b]
GcTransactions ==
    [type : {"GC_DATA_READ", "GC_DATA_WRITE"}, address : Addr]
        \cup [type : {"BLOCK_ERASE"}, address : Blocks]

Plus(count, n) == (count + n) % CounterRange

GcInit ==
    /\ Init
    /\ gcQueue = <<>> /\ gc_pending_erase = <<>>
    /\ dirty = {} /\ dirty_page_count = 0 /\ used_page_count = 0
    /\ gc_status = FALSE /\ panic_mode = FALSE
    /\ erases = 0 /\ erase_pointer = 0
    /\ gcReading = {}

-----------------------------------------------------------------------------
(* GCFtl::addTransaction: in panic mode every transaction is taken for one *)
(* that is out of bounds and the process exits.                            *)
HostAdds(a) ==
    /\ ~panic_mode
    /\ HostRead(a) \/ HostWrite(a)
    /\ UNCHANGED gcVars

HostExits ==
    /\ panic_mode
    /\ halted' = "out_of_bounds"
    /\ UNCHANGED <<queueVars, currentVars, fullVars, timerVars, mapVars,
                   ctrlQueue, owed, gcVars>>

-----------------------------------------------------------------------------
(* GCFtl::runGC.  The first block with the most dirty pages; block 0 if no *)
(* block of the range has any, whichever range that is.                    *)
DirtyCount(b) == Cardinality({p \in dirty : BlockOf(p) = b})
Dirtiest(range) ==
    LET most == {b \in range : \A c \in range : DirtyCount(c) <= DirtyCount(b)}
    IN  IF \A b \in range : DirtyCount(b) = 0 THEN 0 ELSE Least(most)

PlaneBlocks(i) == i * BLOCKS_PER_PLANE .. (i + 1) * BLOCKS_PER_PLANE - 1
NumPlanes == NUM_PACKAGES * DIES_PER_PACKAGE * PLANES_PER_DIE

(* addGC: the live pages of the block are to be moved.  The address of a   *)
(* page is looked up backwards; "assert(found)" is ReverseLookupFinds.     *)
Live(b) == {p \in used \ dirty : BlockOf(p) = b}
Owners(ps) == {f \in [ps -> Addr] : \A p \in ps : addressMap[f[p]] = p}

InOrder(ps) ==
    [i \in 1 .. Cardinality(ps) |-> CHOOSE p \in ps : Cardinality({q \in ps : q <= p}) = i]

Work(b, owner) ==
    LET pages == InOrder(Live(b))
    IN  IF pages = <<>> THEN <<BlockErase(b)>>
        ELSE [i \in DOMAIN pages |-> GcRead(owner[pages[i]])]

Pending(b, owner) ==
    IF Live(b) = {} THEN <<>>
    ELSE <<[erase_block |-> b, pending_reads |-> {owner[p] : p \in Live(b)}]>>

(* A transaction in the gcQueue also clears write_queues_full.             *)
addGC(blocks) ==
    \E owner \in Owners(UNION {Live(blocks[i]) : i \in DOMAIN blocks}) :
        /\ gcQueue' = gcQueue \o FlattenSeq([i \in DOMAIN blocks |-> Work(blocks[i], owner)])
        /\ gc_pending_erase' =
              Reverse(FlattenSeq([i \in DOMAIN blocks |-> Pending(blocks[i], owner)]))
                  \o gc_pending_erase
        /\ write_queues_full' = FALSE

(* Mutant: start_erase is not set anew.                                    *)
CollectionStartsUncounted(panic) ==
    gc_status' = TRUE /\ panic_mode' = panic /\ UNCHANGED erases

CollectionStarts(panic) == gc_status' = TRUE /\ panic_mode' = panic /\ erases' = 0

runGC ==
    LET b == Dirtiest(erase_pointer .. NumBlocks - 1)
    IN  /\ erase_pointer' = (b + 1) % NumBlocks
        /\ addGC(<<b>>)
        /\ CollectionStarts(FALSE)

runPanicGC ==
    /\ addGC([i \in 1 .. NumPlanes |-> Dirtiest(PlaneBlocks(i - 1))])
    /\ CollectionStarts(TRUE)
    /\ UNCHANGED erase_pointer

-----------------------------------------------------------------------------
(* GCFtl::update: first, is the collection over?  Only the exact number of *)
(* erases ends it.                                                         *)
Target == IF panic_mode THEN NumPlanes ELSE 1
Collecting == gc_status /\ erases # Target
(* Mutant: panic mode outlives the collection.                             *)
CollectionMayEndInPanic ==
    /\ gc_status' = Collecting
    /\ UNCHANGED <<panic_mode, erases>>

CollectionMayEnd ==
    /\ gc_status' = Collecting
    /\ panic_mode' = (panic_mode /\ Collecting)
    /\ UNCHANGED erases

(* Then, must one be forced?  Whatever the FTL works on is dropped for it. *)
TooFull == ~Collecting /\ used_page_count >= ForcePages

NothingDirty ==
    /\ TooFull /\ dirty_page_count = 0 /\ used_page_count >= VirtualPages
    /\ halted' = "nothing_dirty"
    /\ UNCHANGED <<queueVars, currentVars, fullVars, timerVars, mapVars,
                   ctrlQueue, owed, gcVars>>

Panic ==
    /\ TooFull /\ dirty_page_count # 0
    /\ runPanicGC
    /\ Start(Head(gcQueue'))
    /\ UNCHANGED <<queueVars, read_queues_full, timerVars, mapVars, ctrlQueue,
                   halted, owed, countVars, gcReading>>

Normal == TooFull => dirty_page_count = 0 /\ used_page_count < VirtualPages

-----------------------------------------------------------------------------
(* Not busy: take from the gcQueue while collecting, schedule the host's   *)
(* transactions otherwise, and with nothing taken see whether to collect.  *)
NothingToSchedule ==
    /\ readQueue = <<>>
    /\ TwoQueues => ~MustWrite /\ (IDLE_WRITE => writeQueue = <<>>)
    /\ UNCHANGED <<currentVars, write_wait_count, halted>>

(* Mutant: back() for front().                                             *)
TakeGcBack ==
    /\ Collecting /\ gcQueue # <<>>
    /\ Start(Last(gcQueue))
    /\ UNCHANGED <<write_wait_count, halted, collectVars, write_queues_full>>
    /\ CollectionMayEnd

TakeGc ==
    /\ Collecting /\ gcQueue # <<>>
    /\ Start(Head(gcQueue))
    /\ UNCHANGED <<write_wait_count, halted, collectVars, write_queues_full>>
    /\ CollectionMayEnd

checkGC == used_page_count > IdlePages

TakeHost ==
    /\ ~Collecting
    /\ scheduleCurrentTransaction \/ TakeFront \/ NothingToSchedule
    /\ IF lookupCounter' # LOOKUP_CYCLES /\ checkGC /\ dirty_page_count # 0
       THEN runGC
       ELSE UNCHANGED <<collectVars, write_queues_full>> /\ CollectionMayEnd

Take ==
    /\ ~busy /\ Normal
    /\ TakeGc \/ TakeHost
    /\ UNCHANGED <<queueVars, read_queues_full, queue_access_counter, reading_write,
                   mapVars, ctrlQueue, owed, countVars, gcReading>>

-----------------------------------------------------------------------------
(* Busy: what differs from Ftl.                                            *)
Idle == busy' = FALSE /\ UNCHANGED <<currentTransaction, lookupCounter>>

HostReads ==
    /\ Lookup \/ handle_read
    /\ used_page_count' = Plus(used_page_count, IF used' = used THEN 0 ELSE 1)
    /\ UNCHANGED <<dirty, dirty_page_count, collectVars>>

(* handle_read(true): of a page that is always mapped, the program ends    *)
(* otherwise.  A refused read moves the pointer of the host's reads.       *)
GcReads ==
    LET a == currentTransaction.address
        d == DieOf(addressMap[a])
    IN  /\ Dispatching("GC_DATA_READ")
        /\ Assert(Mapped(a), "GC tried to move data that wasn't there.")
        /\ \/ /\ Accepts(d)
              /\ ctrlQueue' = [ctrlQueue EXCEPT ![d] =
                                  Append(@, Packet("GC_READ", a, addressMap[a]))]
              /\ gcQueue' = Tail(gcQueue)
              /\ read_iterator_counter' = 0
              /\ Idle
              /\ UNCHANGED <<readQueue, writeQueue, read_pointer, fullVars>>
           \/ /\ ~Accepts(d)
              /\ IF SCHEDULE THEN TryNextRead ELSE ReadWaits
              /\ UNCHANGED <<ctrlQueue, gcQueue>>
        /\ UNCHANGED <<timerVars, mapVars, halted, owed, countVars,
                       gc_pending_erase, erase_pointer>>

(* write_used_handler: the old page becomes dirty, once for every attempt. *)
MarkOld(a) ==
    /\ dirty' = IF Mapped(a) THEN dirty \cup {addressMap[a]} ELSE dirty
    /\ dirty_page_count' = Plus(dirty_page_count, IF Mapped(a) THEN 1 ELSE 0)

(* write_success pops a WRITE, also for a GC_WRITE: the transaction that   *)
(* leaves is the host's next one, and there may be none.                   *)
PopWrite ==
    LET q == IF TwoQueues THEN writeQueue ELSE readQueue
    IN  /\ IF q = <<>> THEN UNCHANGED <<readQueue, writeQueue>>
           ELSE IF TwoQueues THEN writeQueue' = Tail(q) /\ UNCHANGED readQueue
           ELSE readQueue' = Tail(q) /\ UNCHANGED writeQueue
        /\ halted' = IF q = <<>> THEN "empty_pop" ELSE halted

GcWriteSuccess(a, p) ==
    /\ used' = used \cup {p}
    /\ used_page_count' = Plus(used_page_count, 1)
    /\ addressMap' = [addressMap EXCEPT ![a] = p]
    /\ writePointer' = Advance(writePointer)
    /\ deadlock_counter' = 0
    /\ PopWrite /\ Idle
    /\ UNCHANGED <<read_pointer, read_iterator_counter, fullVars>>

WriteType == IF currentTransaction.type = "DATA_WRITE" THEN "WRITE" ELSE "GC_WRITE"

(* PERFECT_SCHEDULE sends nothing and answers the host, who may not have   *)
(* asked: the write of a collection is answered, too.                      *)
GcWriteSent(a, p) ==
    /\ IF PERFECT_SCHEDULE
       THEN Answer("DATA_WRITE", a) /\ UNCHANGED ctrlQueue
       ELSE /\ checkQueueWrite(DieOf(p))
            /\ ctrlQueue' = [ctrlQueue EXCEPT ![DieOf(p)] =
                                @ \o <<Packet("DATA", a, p), Packet(WriteType, a, p)>>]
            /\ UNCHANGED owed
    /\ GcWriteSuccess(a, p)

GcWriteBlocked(a, p) ==
    /\ ~PERFECT_SCHEDULE /\ ~checkQueueWrite(DieOf(p))
    /\ deadlock_counter' = 0
    /\ write_queues_full' = TRUE
    /\ busy' = ~SCHEDULE
    /\ UNCHANGED <<queueVars, currentTransaction, lookupCounter, read_queues_full,
                   writePointer, used, addressMap, ctrlQueue, halted, owed,
                   used_page_count>>

GcWriteNoPage ==
    /\ deadlock_counter' = DEADLOCK_TIME
    /\ halted' = "full"
    /\ UNCHANGED <<queueVars, currentVars, fullVars, writePointer, used,
                   addressMap, ctrlQueue, owed, used_page_count>>

Writes ==
    LET a == currentTransaction.address
        p == FindFree(used, writePointer)
    IN  /\ Dispatching("DATA_WRITE") \/ Dispatching("GC_DATA_WRITE")
        /\ dirty_page_count # MaxDirtyCount
        /\ MarkOld(a)
        /\ \/ p # NoPage /\ (GcWriteSent(a, p) \/ GcWriteBlocked(a, p))
           \/ p = NoPage /\ GcWriteNoPage
        /\ UNCHANGED <<timerVars, collectVars>>

(* BLOCK_ERASE: the bits of the block are cleared when its packet leaves.  *)
(* With the collection over the pop is one of the read queue.              *)
PopErase ==
    IF Collecting THEN gcQueue' = Tail(gcQueue) /\ UNCHANGED readQueue
    ELSE readQueue' = RemoveAt(readQueue, read_pointer) /\ UNCHANGED gcQueue

(* Mutant: the erased pages stay counted.                                  *)
ClearUncounted(b) ==
    LET pages == {p \in Pages : BlockOf(p) = b}
    IN  /\ dirty' = dirty \ pages
        /\ dirty_page_count' = Plus(dirty_page_count, -Cardinality(dirty \cap pages))
        /\ used' = used \ pages
        /\ UNCHANGED used_page_count

Clear(b) ==
    LET pages == {p \in Pages : BlockOf(p) = b}
    IN  /\ dirty' = dirty \ pages
        /\ dirty_page_count' = Plus(dirty_page_count, -Cardinality(dirty \cap pages))
        /\ used' = used \ pages
        /\ used_page_count' = Plus(used_page_count, -Cardinality(used \cap pages))

Erases ==
    LET b == currentTransaction.address
        p == b * PAGES_PER_BLOCK
        d == DieOf(p)
    IN  /\ Dispatching("BLOCK_ERASE")
        /\ \/ /\ Accepts(d)
              /\ ctrlQueue' = [ctrlQueue EXCEPT ![d] = Append(@, Packet("ERASE", b, p))]
              /\ Clear(b) /\ PopErase /\ Idle
              /\ UNCHANGED fullVars
           \/ /\ ~Accepts(d)
              /\ write_queues_full' = TRUE
              /\ UNCHANGED <<readQueue, currentVars, read_queues_full, used,
                             ctrlQueue, gcQueue, countVars>>
        /\ UNCHANGED <<writeQueue, read_pointer, read_iterator_counter, timerVars,
                       writePointer, addressMap, deadlock_counter, halted, owed,
                       gc_pending_erase, erase_pointer>>

Works ==
    /\ Normal
    /\ HostReads \/ GcReads \/ Writes \/ Erases
    /\ CollectionMayEnd
    /\ UNCHANGED gcReading

-----------------------------------------------------------------------------
(* Below the FTL.  A die counts an erase when it starts.                   *)
PlaneBusy(p) == \E r \in gcReading : PlaneNumber(r.page) = PlaneNumber(p)

Leaves(d) ==
    LET pkt == Head(ctrlQueue[d])
    IN  /\ ctrlQueue[d] # <<>>
        /\ pkt.type # "DATA" => ~PlaneBusy(pkt.page)
        /\ ctrlQueue' = [ctrlQueue EXCEPT ![d] = Tail(@)]
        /\ queuesNotFull
        /\ IF pkt.type = "READ" THEN Answer("DATA_READ", pkt.address)
           ELSE IF pkt.type = "WRITE" THEN Answer("DATA_WRITE", pkt.address)
           ELSE UNCHANGED owed
        /\ gcReading' = IF pkt.type = "GC_READ" THEN gcReading \cup {pkt} ELSE gcReading
        /\ erases' = IF pkt.type = "ERASE" THEN erases + 1 ELSE erases
        /\ UNCHANGED <<queueVars, currentVars, timerVars, mapVars, halted,
                       countVars, collectVars, gc_status, panic_mode>>

(* GCReadDone: the page is struck off the pending erases up to the first   *)
(* that has no other; its erase is queued before the page is written.      *)
Completed(a) == {i \in DOMAIN gc_pending_erase :
                    gc_pending_erase[i].pending_reads = {a}}

(* Mutant: only the erase that is completed is looked at.                  *)
StillPendingUnstruck(a) ==
    IF Completed(a) = {} THEN gc_pending_erase
    ELSE RemoveAt(gc_pending_erase, Least(Completed(a)))

StillPending(a) ==
    LET Strike(e) == [e EXCEPT !.pending_reads = @ \ {a}]
        first == IF Completed(a) = {} THEN Len(gc_pending_erase) + 1
                 ELSE Least(Completed(a))
    IN  [i \in 1 .. first - 1 |-> Strike(gc_pending_erase[i])]
            \o SubSeq(gc_pending_erase, first + 1, Len(gc_pending_erase))

(* Mutant: the read that completes an erase is not followed by its write.  *)
ReadFollowersNoWrite(a) ==
    IF Completed(a) = {} THEN <<GcWrite(a)>>
    ELSE <<BlockErase(gc_pending_erase[Least(Completed(a))].erase_block)>>

ReadFollowers(a) ==
    IF Completed(a) = {} THEN <<GcWrite(a)>>
    ELSE <<BlockErase(gc_pending_erase[Least(Completed(a))].erase_block), GcWrite(a)>>

GCReadDone(r) ==
    /\ gc_pending_erase' = StillPending(r.address)
    /\ gcQueue' = gcQueue \o ReadFollowers(r.address)
    /\ write_queues_full' = FALSE
    /\ gcReading' = gcReading \ {r}
    /\ UNCHANGED <<queueVars, currentVars, read_queues_full, timerVars, mapVars,
                   ctrlQueue, halted, owed, countVars, statusVars, erase_pointer>>

-----------------------------------------------------------------------------
GcUpdate == Running /\ (NothingDirty \/ Panic \/ Take \/ Works)
GcPop(d) == Running /\ Leaves(d)

GcNext ==
    \/ Running /\ (HostExits \/ \E a \in Addr : HostAdds(a))
    \/ GcUpdate
    \/ \E d \in Dies : GcPop(d)
    \/ Running /\ \E r \in gcReading : GCReadDone(r)

GcSpec == GcInit /\ [][GcNext]_allVars

-----------------------------------------------------------------------------
(* Type invariant.                                                         *)
GcTypeOK ==
    /\ gcQueue \in Seq(GcTransactions)
    /\ currentTransaction \in Transactions \cup EmptyTransactions \cup GcTransactions
    /\ \A i \in DOMAIN gc_pending_erase :
          /\ gc_pending_erase[i].erase_block \in Blocks
          /\ gc_pending_erase[i].pending_reads \in (SUBSET Addr) \ {{}}
    /\ used \in SUBSET Pages /\ dirty \in SUBSET Pages
    /\ {dirty_page_count, used_page_count} \subseteq 0 .. CounterRange - 1
    /\ gc_status \in BOOLEAN /\ panic_mode \in BOOLEAN /\ (panic_mode => gc_status)
    /\ erases \in Nat /\ erase_pointer \in Blocks

(* "assert(found)" (GCFtl.cpp:371): whenever a collection could start,     *)
(* every live page belongs to some address, although an erase takes pages  *)
(* from under the map and rewrites are marked before they happen.          *)
ReverseLookupFinds ==
    \A p \in used \ dirty : \E a \in Addr : addressMap[a] = p

(* The counters that decide whether to collect follow the tables: pages in *)
(* use are counted exactly, and a dirty page never less than once, so that *)
(* an erase does not take a counter below 0 (GCFtl.cpp:168-177, 280-284).  *)
CountsSound ==
    /\ used_page_count = Cardinality(used)
    /\ dirty_page_count >= Cardinality(dirty)

(* A collection ends at an exact number of erases (GCFtl.cpp:106-111): the *)
(* erases done and those on their way always add up to it, so the counter  *)
(* neither stops short of it nor runs past it.                             *)
ErasesToCome ==
    Cardinality({i \in DOMAIN gcQueue : gcQueue[i].type = "BLOCK_ERASE"}) + Len(gc_pending_erase)
      + Cardinality(UNION {{d} \X {i \in DOMAIN ctrlQueue[d] :
                                ctrlQueue[d][i].type = "ERASE"} : d \in Dies})
EraseCountMeets == gc_status => erases + ErasesToCome = Target

(* A pending erase waits only for reads that are on their way, although    *)
(* GCReadDone stops at the first erase it completes and one block may be   *)
(* pending twice (GCFtl.cpp:604-617).                                      *)
InGcQueue(t) == \E i \in DOMAIN gcQueue : gcQueue[i] = t
ReadUnderWay(a) ==
    \/ InGcQueue(GcRead(a)) \/ \E r \in gcReading : r.address = a
    \/ \E d \in Dies : \E i \in DOMAIN ctrlQueue[d] :
          ctrlQueue[d][i].type = "GC_READ" /\ ctrlQueue[d][i].address = a
PendingReadsUnderWay ==
    \A i \in DOMAIN gc_pending_erase :
        \A a \in gc_pending_erase[i].pending_reads : ReadUnderWay(a)

(* "they must be moved elsewhere" (GCFtl.cpp:350): the erase is queued     *)
(* before the last page of its block is written again, but while an        *)
(* address points into an erased block its GC_DATA_WRITE is still queued.  *)
ErasedPagesCopied ==
    \A a \in Addr : Mapped(a) /\ addressMap[a] \notin used => InGcQueue(GcWrite(a))

(* What the FTL works on is at the front of its queue, the collector's in  *)
(* the gcQueue, the host's in its own, also when panic mode has dropped    *)
(* one for the other (GCFtl.cpp:113-125).                                  *)
WorkIsQueued ==
    busy => IF currentTransaction \in GcTransactions
            THEN gcQueue # <<>> /\ currentTransaction = Head(gcQueue)
            ELSE QueuedCurrent
=============================================================================
