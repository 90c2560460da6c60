-------------------------------- MODULE Ftl --------------------------------
(***************************************************************************)
(* The flash translation layer without garbage collection (Ftl.cpp): the   *)
(* transaction queues the host fills between clock ticks, the one          *)
(* transaction the FTL works on, the scheduling policies, the logical to   *)
(* physical map with its used pages, and the back-pressure flags that      *)
(* Controller::update clears through queuesNotFull.                        *)
(*                                                                         *)
(* The controller below is reduced to what the FTL sees of it when         *)
(* CTRL_SCHEDULE is off: one bounded FIFO of packets per die, which takes  *)
(* packets through addPacket and loses its head now and then (CtrlPop).    *)
(* A call of Ftl::update that changes nothing but the locked_counter of    *)
(* the log is a stuttering step.                                           *)
(***************************************************************************)
EXTENDS FlashGeometry, Sequences, FiniteSets, SequencesExt

CONSTANTS
    Addr,                       \* host addresses
    SCHEDULE, PERFECT_SCHEDULE, WRITE_ON_QUEUE_SIZE, IDLE_WRITE,
    DELAY_WRITE, DISK_READ,     \* BOOLEAN options of the ini file
    FTL_READ_QUEUE_LENGTH, FTL_WRITE_QUEUE_LENGTH, WRITE_QUEUE_LIMIT,
    CTRL_READ_QUEUE_LENGTH,     \* lengths, 0 means unbounded
    LOOKUP_CYCLES, QUEUE_ACCESS_CYCLES, DELAY_WRITE_CYCLES, DEADLOCK_TIME

ASSUME OptionAssumption ==
    /\ {SCHEDULE, PERFECT_SCHEDULE, WRITE_ON_QUEUE_SIZE,
        IDLE_WRITE, DELAY_WRITE, DISK_READ} \subseteq BOOLEAN
    /\ FTL_READ_QUEUE_LENGTH \in Nat
    /\ FTL_WRITE_QUEUE_LENGTH \in Nat
    /\ WRITE_QUEUE_LIMIT \in Nat
    /\ CTRL_READ_QUEUE_LENGTH \in Nat
    /\ LOOKUP_CYCLES \in Nat
    /\ QUEUE_ACCESS_CYCLES \in Nat \ {0}    \* divide_params_64b is never 0
    /\ DELAY_WRITE_CYCLES \in Nat
    /\ DEADLOCK_TIME \in Nat \ {0}

(* A queue of one slot can never take the DATA and WRITE pair of a write.  *)
ASSUME CtrlQueueAssumption == CTRL_READ_QUEUE_LENGTH # 1

VARIABLES
    readQueue, writeQueue,          \* of host transactions
    read_pointer,                   \* index in readQueue, 1 is begin()
    read_iterator_counter,
    busy, currentTransaction, lookupCounter,
    read_queues_full, write_queues_full,
    queue_access_counter, write_wait_count, deadlock_counter,
    reading_write,                  \* place in writeQueue, or End
    writePointer,                   \* members channel, die and plane
    used, addressMap,
    ctrlQueue,                      \* Controller::readQueues
    halted,                         \* why the process exited, if it did
    owed                            \* history: callbacks the host still waits for

queueVars == <<readQueue, writeQueue, read_pointer, read_iterator_counter>>
currentVars == <<busy, currentTransaction, lookupCounter>>
fullVars == <<read_queues_full, write_queues_full>>
timerVars == <<queue_access_counter, write_wait_count, reading_write>>
mapVars == <<writePointer, used, addressMap, deadlock_counter>>
vars == <<queueVars, currentVars, fullVars, timerVars, mapVars,
          ctrlQueue, halted, owed>>

-----------------------------------------------------------------------------
Read(a) == [type |-> "DATA_READ", address |-> a]
Write(a) == [type |-> "DATA_WRITE", address |-> a]
Transactions == [type : {"DATA_READ", "DATA_WRITE"}, address : Addr]
EmptyTransactions == [type : {"EMPTY"}, address : Addr]

Packet(type, a, p) == [type |-> type, address |-> a, page |-> p]
Packets == [type : {"READ", "DATA", "WRITE"}, address : Addr, page : Pages]

(* writeQueue.end(), which no insertion and no erasure changes.            *)
End == 0

TwoQueues == SCHEDULE \/ PERFECT_SCHEDULE
Mapped(a) == addressMap[a] # NoPage

(* addScheduledTransaction reads currentTransaction before the first       *)
(* transaction is scheduled, when its address is whatever its constructor  *)
(* left there.  reading_write is set before it is read.                    *)
Init ==
    /\ readQueue = <<>> /\ writeQueue = <<>>
    /\ read_pointer = 1 /\ read_iterator_counter = 0
    /\ busy = FALSE /\ lookupCounter = 0
    /\ currentTransaction \in EmptyTransactions
    /\ read_queues_full = FALSE /\ write_queues_full = FALSE
    /\ queue_access_counter = 0 /\ write_wait_count = DELAY_WRITE_CYCLES
    /\ deadlock_counter = 0 /\ reading_write = End
    /\ writePointer = [channel |-> 0, die |-> 0, plane |-> 0]
    /\ used = {} /\ addressMap = [a \in Addr |-> NoPage]
    /\ ctrlQueue = [d \in Dies |-> <<>>]
    /\ halted = "no"
    /\ owed = [k \in {"DATA_READ", "DATA_WRITE"} |-> [a \in Addr |-> 0]]

-----------------------------------------------------------------------------
(* Ftl::addTransaction and the two queueing policies behind it.  A refused *)
(* transaction leaves everything as it was and is not a step.              *)
HasRoom(q, limit) == limit = 0 \/ Len(q) < limit

AddToReadQueue(t) ==
    /\ HasRoom(readQueue, FTL_READ_QUEUE_LENGTH)
    /\ readQueue' = Append(readQueue, t)
    /\ read_pointer' = IF TwoQueues /\ readQueue = <<>> THEN 1 ELSE read_pointer
    /\ owed' = [owed EXCEPT ![t.type][t.address] = @ + 1]
    /\ UNCHANGED writeQueue

(* Mutant: the write being worked on is replaced too.                      *)
ReplaceableWithCurrent(a) == {i \in DOMAIN writeQueue : writeQueue[i].address = a}

(* The queued writes a new write to address a takes the place of.          *)
Replaceable(a) ==
    {i \in DOMAIN writeQueue :
        writeQueue[i].address = a /\ currentTransaction.address # a}

(* addScheduledTransaction: the first replaceable write is answered and    *)
(* erased, then the new one is queued if there is room.                    *)
AddScheduledWrite(a) ==
    LET old == Replaceable(a)
        kept == IF old = {} THEN writeQueue ELSE RemoveAt(writeQueue, Least(old))
        answered == IF old = {} THEN 0 ELSE 1
        room == HasRoom(kept, FTL_WRITE_QUEUE_LENGTH)
    IN  /\ room \/ old # {}
        /\ writeQueue' = IF room THEN Append(kept, Write(a)) ELSE kept
        /\ owed' = [owed EXCEPT !["DATA_WRITE"][a] =
                                   @ + (IF room THEN 1 ELSE 0) - answered]
        /\ UNCHANGED <<readQueue, read_pointer>>

AddPerfectWrite(a) ==
    /\ HasRoom(writeQueue, FTL_WRITE_QUEUE_LENGTH)
    /\ writeQueue' = Append(writeQueue, Write(a))
    /\ owed' = [owed EXCEPT !["DATA_WRITE"][a] = @ + 1]
    /\ UNCHANGED <<readQueue, read_pointer>>

HostUnchanged == UNCHANGED <<read_iterator_counter, currentVars, fullVars,
                             timerVars, mapVars, ctrlQueue, halted>>

HostRead(a) == AddToReadQueue(Read(a)) /\ HostUnchanged

HostWrite(a) ==
    /\ \/ SCHEDULE /\ AddScheduledWrite(a)
       \/ ~SCHEDULE /\ PERFECT_SCHEDULE /\ AddPerfectWrite(a)
       \/ ~TwoQueues /\ AddToReadQueue(Write(a))
    /\ HostUnchanged

-----------------------------------------------------------------------------
(* Ftl::update while not busy: choose the next transaction.                *)
Start(t) ==
    /\ busy' = TRUE
    /\ currentTransaction' = t
    /\ lookupCounter' = LOOKUP_CYCLES

MustWrite ==
    Len(writeQueue) >= IF WRITE_ON_QUEUE_SIZE THEN WRITE_QUEUE_LIMIT
                       ELSE FTL_WRITE_QUEUE_LENGTH

ScheduleWrite ==
    /\ MustWrite /\ writeQueue # <<>>
    /\ Start(Head(writeQueue))
    /\ UNCHANGED <<write_wait_count, halted>>

(* With a limit of 0 front() is taken of an empty list: no state the       *)
(* program promises follows, the run ends here.                            *)
ScheduleFromEmptyQueue ==
    /\ MustWrite /\ writeQueue = <<>>
    /\ halted' = "empty_front"
    /\ UNCHANGED <<currentVars, write_wait_count>>

ScheduleRead ==
    /\ ~MustWrite /\ readQueue # <<>>
    /\ Start(readQueue[read_pointer])
    /\ UNCHANGED <<write_wait_count, halted>>

ScheduleIdleWrite ==
    /\ ~MustWrite /\ readQueue = <<>>
    /\ IDLE_WRITE /\ writeQueue # <<>>
    /\ IF write_wait_count # 0 /\ DELAY_WRITE
       THEN /\ write_wait_count' = write_wait_count - 1
            /\ UNCHANGED currentVars
       ELSE /\ Start(Head(writeQueue))
            /\ write_wait_count' = DELAY_WRITE_CYCLES
    /\ UNCHANGED halted

scheduleCurrentTransaction ==
    /\ TwoQueues
    /\ ScheduleWrite \/ ScheduleFromEmptyQueue \/ ScheduleRead \/ ScheduleIdleWrite

TakeFront ==
    /\ ~TwoQueues /\ readQueue # <<>>
    /\ Start(Head(readQueue))
    /\ UNCHANGED <<write_wait_count, halted>>

Schedule ==
    /\ ~busy
    /\ scheduleCurrentTransaction \/ TakeFront
    /\ UNCHANGED <<queueVars, fullVars, queue_access_counter, reading_write,
                   mapVars, ctrlQueue, owed>>

Lookup ==
    /\ busy /\ lookupCounter > 0
    /\ lookupCounter' = lookupCounter - 1
    /\ UNCHANGED <<queueVars, busy, currentTransaction, fullVars, timerVars,
                   mapVars, ctrlQueue, halted, owed>>

-----------------------------------------------------------------------------
(* What the controller does with a packet when CTRL_SCHEDULE is off:       *)
(* addPacket, checkQueueWrite, and the pop in Controller::update, which    *)
(* calls queuesNotFull.                                                    *)
Accepts(d) ==
    CTRL_READ_QUEUE_LENGTH = 0 \/ Len(ctrlQueue[d]) < CTRL_READ_QUEUE_LENGTH
checkQueueWrite(d) ==
    CTRL_READ_QUEUE_LENGTH = 0 \/ Len(ctrlQueue[d]) + 1 < CTRL_READ_QUEUE_LENGTH

Answer(kind, a) == owed' = [owed EXCEPT ![kind][a] = @ - 1]

(* Mutants: one of the two flags is forgotten.                             *)
queuesNotFullForgetsWrites ==
    read_queues_full' = FALSE /\ UNCHANGED write_queues_full
queuesNotFullForgetsReads ==
    write_queues_full' = FALSE /\ UNCHANGED read_queues_full
queuesNotFull == read_queues_full' = FALSE /\ write_queues_full' = FALSE

CtrlPop(d) ==
    /\ ctrlQueue[d] # <<>>
    /\ ctrlQueue' = [ctrlQueue EXCEPT ![d] = Tail(@)]
    /\ queuesNotFull
    /\ LET p == Head(ctrlQueue[d])
       IN  \/ p.type = "DATA" /\ UNCHANGED owed
           \/ p.type = "READ" /\ Answer("DATA_READ", p.address)
           \/ p.type = "WRITE" /\ Answer("DATA_WRITE", p.address)
    /\ UNCHANGED <<queueVars, currentVars, timerVars, mapVars, halted>>

-----------------------------------------------------------------------------
(* Ftl::handle_read.                                                       *)
Dispatching(kind) ==
    /\ busy /\ lookupCounter = 0 /\ ~write_queues_full
    /\ currentTransaction.type = kind

(* Mutant: the count of refused reads survives the read that got through.  *)
ReadLeavesCountingOn ==
    /\ readQueue' = IF TwoQueues THEN RemoveAt(readQueue, read_pointer)
                    ELSE Tail(readQueue)
    /\ read_pointer' = IF TwoQueues THEN 1 ELSE read_pointer
    /\ busy' = FALSE
    /\ UNCHANGED <<writeQueue, read_iterator_counter, currentTransaction,
                   lookupCounter, fullVars>>

(* popFront(READ), then the FTL is idle again.                             *)
ReadLeaves ==
    /\ readQueue' = IF TwoQueues THEN RemoveAt(readQueue, read_pointer)
                    ELSE Tail(readQueue)
    /\ read_pointer' = IF TwoQueues THEN 1 ELSE read_pointer
    /\ read_iterator_counter' = 0
    /\ busy' = FALSE
    /\ UNCHANGED <<writeQueue, currentTransaction, lookupCounter, fullVars>>

(* A scheduled read that finds its controller queue full gives way to the  *)
(* next one; when every read has been tried the FTL waits for a pop.       *)
TryNextRead ==
    LET allTried == read_iterator_counter + 1 >= Len(readQueue)
    IN  /\ read_pointer' = IF allTried \/ read_pointer = Len(readQueue) THEN 1
                           ELSE read_pointer + 1
        /\ read_iterator_counter' = IF allTried THEN 0
                                    ELSE read_iterator_counter + 1
        /\ read_queues_full' = (read_queues_full \/ allTried)
        /\ busy' = FALSE
        /\ UNCHANGED <<readQueue, writeQueue, currentTransaction,
                       lookupCounter, write_queues_full>>

ReadWaits ==
    /\ write_queues_full' = TRUE
    /\ UNCHANGED <<queueVars, currentVars, read_queues_full>>

SendRead(a, p) ==
    LET d == DieOf(p)
    IN  \/ /\ Accepts(d)
           /\ ctrlQueue' = [ctrlQueue EXCEPT ![d] = Append(@, Packet("READ", a, p))]
           /\ ReadLeaves
        \/ /\ ~Accepts(d)
           /\ UNCHANGED ctrlQueue
           /\ IF SCHEDULE THEN TryNextRead ELSE ReadWaits

InWriteQueue(a) == \E i \in DOMAIN writeQueue : writeQueue[i].address = a

(* Only a scheduled FTL looks for the read's data among the queued writes. *)
(* The loop does not stop at the write it finds: reading_write has gone    *)
(* on to the end when the wait of QUEUE_ACCESS_CYCLES begins, and it is    *)
(* from there that AccessWriteQueue takes what it answers.                 *)
search ==
    reading_write' = IF SCHEDULE /\ queue_access_counter = 0 THEN End
                     ELSE reading_write

FoundInWriteQueue(a) ==
    /\ SCHEDULE /\ queue_access_counter = 0 /\ InWriteQueue(a)
    /\ queue_access_counter' = QUEUE_ACCESS_CYCLES
    /\ UNCHANGED <<queueVars, currentVars, fullVars, mapVars, ctrlQueue, owed,
                   halted>>

AccessWriteQueue(a) ==
    /\ SCHEDULE /\ queue_access_counter > 0
    /\ queue_access_counter' = queue_access_counter - 1
    /\ IF queue_access_counter = 1
       THEN ReadLeaves /\ Answer("DATA_READ", a)
       ELSE UNCHANGED <<queueVars, currentVars, fullVars, owed>>
    /\ UNCHANGED <<mapVars, ctrlQueue, halted>>

NotInWriteQueue(a) ==
    SCHEDULE => queue_access_counter = 0 /\ ~InWriteQueue(a)

ReadMapped(a) ==
    /\ NotInWriteQueue(a) /\ Mapped(a)
    /\ SendRead(a, addressMap[a])
    /\ UNCHANGED <<queue_access_counter, mapVars, halted, owed>>

ReadUnmapped(a) ==
    /\ NotInWriteQueue(a) /\ ~Mapped(a) /\ ~DISK_READ
    /\ ReadLeaves /\ Answer("DATA_READ", a)
    /\ UNCHANGED <<queue_access_counter, mapVars, ctrlQueue, halted>>

(* Mutant: the page written for the read is not marked used.               *)
DiskReadUnmarked(a) ==
    LET p == FindFree(used, writePointer)
    IN  /\ NotInWriteQueue(a) /\ ~Mapped(a) /\ DISK_READ /\ p # NoPage
        /\ deadlock_counter' = 0
        /\ addressMap' = [addressMap EXCEPT ![a] = p]
        /\ writePointer' = Advance(writePointer)
        /\ SendRead(a, p)
        /\ UNCHANGED <<used, queue_access_counter, halted, owed>>

(* handle_disk_read: the missing page is written past the controller and   *)
(* mapped, then read like any other page.                                  *)
DiskRead(a) ==
    LET p == FindFree(used, writePointer)
    IN  /\ NotInWriteQueue(a) /\ ~Mapped(a) /\ DISK_READ /\ p # NoPage
        /\ deadlock_counter' = 0
        /\ used' = used \cup {p}
        /\ addressMap' = [addressMap EXCEPT ![a] = p]
        /\ writePointer' = Advance(writePointer)
        /\ SendRead(a, p)
        /\ UNCHANGED <<queue_access_counter, halted, owed>>

DiskReadNoPage(a) ==
    /\ NotInWriteQueue(a) /\ ~Mapped(a) /\ DISK_READ
    /\ FindFree(used, writePointer) = NoPage
    /\ deadlock_counter' = deadlock_counter + 1
    /\ halted' = IF deadlock_counter + 1 = DEADLOCK_TIME THEN "full" ELSE halted
    /\ UNCHANGED <<queueVars, currentVars, fullVars, queue_access_counter,
                   writePointer, used, addressMap, ctrlQueue, owed>>

handle_read ==
    /\ Dispatching("DATA_READ") /\ ~read_queues_full
    /\ LET a == currentTransaction.address
       IN  \/ FoundInWriteQueue(a) \/ AccessWriteQueue(a)
           \/ ReadMapped(a) \/ ReadUnmapped(a)
           \/ DiskRead(a) \/ DiskReadNoPage(a)
    /\ search
    /\ UNCHANGED write_wait_count

-----------------------------------------------------------------------------
(* Mutant: the old page is kept.                                           *)
UsedStill(a) == used

(* Ftl::handle_write.  write_used_handler gives the old page up before a   *)
(* new one is looked for, whether or not the write then gets through.      *)
UsedWithout(a) == IF Mapped(a) THEN used \ {addressMap[a]} ELSE used

(* Mutant: the write stays queued.                                         *)
WriteStays ==
    /\ busy' = FALSE
    /\ UNCHANGED <<queueVars, currentTransaction, lookupCounter, fullVars>>

(* popFront(WRITE), then the FTL is idle again.                            *)
WriteLeaves ==
    /\ IF TwoQueues THEN writeQueue' = Tail(writeQueue) /\ UNCHANGED readQueue
       ELSE readQueue' = Tail(readQueue) /\ UNCHANGED writeQueue
    /\ busy' = FALSE
    /\ UNCHANGED <<read_pointer, read_iterator_counter, currentTransaction,
                   lookupCounter, fullVars>>

(* Mutant: the new page is not marked used.                                *)
write_success_unmarked(a, p) ==
    /\ used' = UsedWithout(a)
    /\ addressMap' = [addressMap EXCEPT ![a] = p]
    /\ writePointer' = Advance(writePointer)
    /\ deadlock_counter' = 0
    /\ WriteLeaves

write_success(a, p) ==
    /\ used' = UsedWithout(a) \cup {p}
    /\ addressMap' = [addressMap EXCEPT ![a] = p]
    /\ writePointer' = Advance(writePointer)
    /\ deadlock_counter' = 0
    /\ WriteLeaves

(* PERFECT_SCHEDULE answers the write without sending it anywhere.         *)
WriteFaked(a, p) ==
    /\ PERFECT_SCHEDULE
    /\ write_success(a, p)
    /\ Answer("DATA_WRITE", a)
    /\ UNCHANGED ctrlQueue

WriteSent(a, p) ==
    LET d == DieOf(p)
    IN  /\ ~PERFECT_SCHEDULE /\ checkQueueWrite(d)
        /\ ctrlQueue' = [ctrlQueue EXCEPT ![d] =
                            @ \o <<Packet("DATA", a, p), Packet("WRITE", a, p)>>]
        /\ write_success(a, p)
        /\ UNCHANGED owed

(* No room.  A scheduled FTL goes round its retry loop before it gives up, *)
(* but "done" and pAddr keep their values from the first round, so every   *)
(* round asks the same controller queue again.                             *)
WriteBlocked(a, p) ==
    /\ ~PERFECT_SCHEDULE /\ ~checkQueueWrite(DieOf(p))
    /\ used' = UsedWithout(a)
    /\ deadlock_counter' = 0
    /\ write_queues_full' = TRUE
    /\ busy' = ~SCHEDULE
    /\ UNCHANGED <<queueVars, currentTransaction, lookupCounter,
                   read_queues_full, writePointer, addressMap, ctrlQueue, owed>>

(* No free page: the search repeats inside the same call until the         *)
(* deadlock counter runs out and the process exits.                        *)
WriteNoPage(a) ==
    /\ used' = UsedWithout(a)
    /\ deadlock_counter' = DEADLOCK_TIME
    /\ halted' = "full"
    /\ UNCHANGED <<queueVars, currentVars, fullVars, writePointer, addressMap,
                   ctrlQueue, owed>>

handle_write ==
    /\ Dispatching("DATA_WRITE")
    /\ LET a == currentTransaction.address
           p == FindFree(UsedWithout(a), writePointer)
       IN  \/ /\ p # NoPage
              /\ WriteFaked(a, p) \/ WriteSent(a, p) \/ WriteBlocked(a, p)
              /\ UNCHANGED halted
           \/ p = NoPage /\ WriteNoPage(a)
    /\ UNCHANGED timerVars

-----------------------------------------------------------------------------
Running == halted = "no"
Update == Running /\ (Schedule \/ Lookup \/ handle_read \/ handle_write)
Pop(d) == Running /\ CtrlPop(d)

Next ==
    \/ Running /\ \E a \in Addr : HostRead(a) \/ HostWrite(a)
    \/ Update
    \/ \E d \in Dies : Pop(d)

Spec == Init /\ [][Next]_vars

(* NVDIMM::update calls Ftl::update on every cycle, and the controller     *)
(* serves its dies round robin; the host may fall silent at any time.      *)
Fairness == WF_vars(Update) /\ \A d \in Dies : WF_vars(Pop(d))
FairSpec == Spec /\ Fairness

-----------------------------------------------------------------------------
(* Type invariant.                                                         *)
TypeOK ==
    /\ readQueue \in Seq(Transactions)
    /\ writeQueue \in Seq([type : {"DATA_WRITE"}, address : Addr])
    /\ read_pointer \in Nat \ {0} /\ read_iterator_counter \in Nat
    /\ busy \in BOOLEAN
    /\ currentTransaction \in Transactions \cup EmptyTransactions
    /\ lookupCounter \in Nat
    /\ read_queues_full \in BOOLEAN /\ write_queues_full \in BOOLEAN
    /\ queue_access_counter \in Nat /\ write_wait_count \in Nat
    /\ deadlock_counter \in Nat /\ reading_write \in Nat
    /\ writePointer \in Pointers
    /\ used \in SUBSET Pages
    /\ addressMap \in [Addr -> Pages \cup {NoPage}]
    /\ ctrlQueue \in [Dies -> Seq(Packets)]
    /\ halted \in {"no", "full", "empty_front"}

(* Where the transaction the FTL works on sits in its queue.               *)
QueuedCurrent ==
    IF ~TwoQueues THEN readQueue # <<>> /\ Head(readQueue) = currentTransaction
    ELSE IF currentTransaction.type = "DATA_READ"
    THEN /\ read_pointer \in DOMAIN readQueue
         /\ readQueue[read_pointer] = currentTransaction
    ELSE writeQueue # <<>> /\ Head(writeQueue) = currentTransaction

(* currentTransaction is a copy: popFront erases whatever is at the read   *)
(* pointer or at the front of the write queue by then.  It is always the   *)
(* transaction being finished, although the host replaces queued writes    *)
(* and the read pointer moves on in between (Ftl.cpp:202, 1029-1064).      *)
CurrentIsQueued == busy => QueuedCurrent

(* Nobody sleeps forever: a "queues full" flag is only cleared by a pop of *)
(* the controller, so whenever one is set some die still has a packet      *)
(* whose pop will clear it (Ftl.cpp:362-374, 1225-1231).                   *)
NoLostWakeup ==
    read_queues_full \/ write_queues_full => \E d \in Dies : ctrlQueue[d] # <<>>

Occurrences(s, e) == Cardinality({i \in DOMAIN s : s[i] = e})
InController(type, a) ==
    LET On(d) == {i \in DOMAIN ctrlQueue[d] :
                    ctrlQueue[d][i].type = type /\ ctrlQueue[d][i].address = a}
    IN  Cardinality(UNION {{d} \X On(d) : d \in Dies})

(* Every accepted transaction is answered exactly once and none is lost:   *)
(* the callbacks the host still waits for are exactly the transactions in  *)
(* the FTL queues and the commands in the controller queues, through       *)
(* replaced writes, reads served from the write queue and refused packets. *)
EveryRequestAccounted ==
    \A a \in Addr :
        /\ owed["DATA_READ"][a] =
              Occurrences(readQueue, Read(a)) + InController("READ", a)
        /\ owed["DATA_WRITE"][a] =
              Occurrences(readQueue, Write(a)) + Occurrences(writeQueue, Write(a))
              + InController("WRITE", a)

(* No two logical pages share a physical page, although a write gives the  *)
(* old page up before it knows whether the new one will be written         *)
(* (Ftl.cpp:833, 876-889, 937-981).                                        *)
MapInjective ==
    \A a, b \in Addr : Mapped(a) /\ addressMap[a] = addressMap[b] => a = b

(* The page of a mapped address is marked used, except between a refused   *)
(* write to that very address and its retry: then that write is still the  *)
(* next one to be written.                                                 *)
MappedPagesUsed ==
    \A a \in Addr : Mapped(a) /\ addressMap[a] \notin used =>
        currentTransaction = Write(a) /\ QueuedCurrent

(* "we found a write the satisfy the read, now we're waiitng to get the    *)
(* data out of the queue" (Ftl.cpp:569): while a read waits, reading_write *)
(* is at a queued write of its address, for Ftl.cpp:583 to take the data.  *)
ReadWaitsForItsWrite ==
    queue_access_counter > 0 =>
        /\ reading_write \in DOMAIN writeQueue
        /\ writeQueue[reading_write].address = currentTransaction.address

(* A read that gave way has not been forgotten: while reads are retried    *)
(* the read pointer is where the number of refusals says, and no more      *)
(* reads were refused in a row than are queued (Ftl.cpp:670-689).          *)
RetriesInStep ==
    /\ read_iterator_counter > 0 => read_iterator_counter < Len(readQueue)
    /\ read_pointer = read_iterator_counter + 1

-----------------------------------------------------------------------------
(* Liveness, under FairSpec.                                               *)

(* Without scheduling the one queue is a FIFO whose head always leaves     *)
(* some time, so every accepted transaction gets to the controller.        *)
ReadQueueMoves ==
    []<>(readQueue = <<>>) \/ []<><<Len(readQueue') < Len(readQueue)>>_vars

(* With two queues the FTL as a whole keeps finishing transactions while a *)
(* read waits or the write queue is at its limit.                          *)
SomethingMoves ==
    \/ []<>(readQueue = <<>> /\ ~MustWrite)
    \/ []<><<Len(readQueue') + Len(writeQueue') < Len(readQueue) + Len(writeQueue)>>_vars
=============================================================================
