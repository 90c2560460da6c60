# NVDIMMSim: specifications and proofs

NVDIMMSim simulates a DIMM of flash memory cycle by cycle: a host (a trace
driver or a memory-system simulator) hands it read and write transactions, a
flash translation layer (FTL) maps them to pages, a controller queues the page
commands per die and moves them over one channel per package, and the dies run
them and send pages back. This directory holds TLA+ models of that code, their
TLC configurations and proofs about them. Paths below are relative to the
directory `src/` of the repository.

## The system

`NVDIMM::update` is called once per host clock and calls, for every flash cycle
that has passed, `Ftl::update`, `Controller::update` and then, package by
package, `Channel::update`, `Buffer::update` and `Die::update` of every die.
There are no threads: concurrency is the interleaving of host calls with cycles,
and of the state machines of FTL, controller, channel and dies, each of which
spreads one operation over many cycles. Calls go downward (`addTransaction`,
`addPacket`, `sendToBuffer`), results and wake-ups upward (`receiveFromChannel`,
`queuesNotFull`, `GCReadDone` and the host's callbacks).

| Part | State | Operations | What makes it correct |
|---|---|---|---|
| Ftl | read and write queue, read pointer and retry count, current transaction, lookup and queue-access counters, two "queues full" flags, write pointer, used pages, address map | addTransaction (three policies), update with its schedulers, handle_read, handle_disk_read, handle_write, popFront, queuesNotFull, save and restore | every accepted request is answered once; the transaction popped is the one finished; a sleeping FTL is woken; two addresses never share a page; mapped pages stay used |
| GCFtl | the above, dirty pages, GC queue, pending erases, panic mode | runGC, addGC, GCReadDone, BLOCK_ERASE, threshold checks in update | moved pages keep their data; a block is erased only when nothing in it is needed; GC ends |
| Controller | queues per die, die pointer, outgoing packet and beats per package, pending packets (BUFFERED), returned transactions | addPacket, checkQueueWrite, update, dataReady, receiveFromChannel, bufferDone | packets of a die keep their order; room promised by checkQueueWrite is there; every die is served |
| Channel | owner (sType, sender), busy flag and piece in flight (BUFFERED) | obtainChannel, hasChannel, releaseChannel, sendPiece, update | one owner at a time; a packet is accepted only if it can be taken when it arrives |
| Die, Plane, Block | command and cycles per plane, data and cache register per plane, pages to return, contents | receiveFromBuffer, isDieBusy, update; read, write, writeDone, storeInData, readFromData, dataGone; read, write, erase | no register is overwritten or read while empty; commands of a plane take effect in order; pages come back in order |
| Buffer | in and out data per die, in bits (BUFFERED) | sendPiece, isFull, update, processInData, processOutData, dataReady | never over its size; pieces of different packets do not mix |
| FrontBuffer | request, response and command queues, in bits | addTransaction, update, findTransaction, sendToFTL, sendToHybrid | transactions leave complete and once; room is accounted for |
| NVDIMM | clock counters of three domains, counts of reads, writes, erases | update, add and addTransaction, callbacks, save and load | the domains run at their ratio |
| Loggers | per-access records, histograms, power sums | access_start, access_process, access_stop, reports | every access that starts stops once |
| Save and restore | a text file with the map, the used and the dirty bits | saveNVState, loadNVState | a restored page holds the data of its address; no page is lost |
| Init, Util | parameters | reading an ini file, divide_params | rounding up |
| Write script | the next scripted write | handle_scripted_write, scriptCurrentTransaction | writes go where and when the script says |
| TraceBasedSim, `tools/`, `Ftl2.cpp` | | drivers, sweeps, plots, an unused older FTL | |

The hard behaviours are: state copied or tested in one cycle and used in a later
one (`currentTransaction`, `read_pointer`, `isDieBusy`); wake-ups that are only
sent by a pop; retries of refused reads and writes; a register and a channel
shared by two directions; the full flash and the full queue; and garbage
collection, whose commands take paths of their own through all of this. The
list, with the line where each bites, is under `hazards` in `PROJECT.json`.

## Modules

| Module | Content |
|---|---|
| `FlashGeometry` | The constants of the device, `Ftl::translate`, the write pointer and the search for a free page. A page number stands for pAddr / NV_PAGE_SIZE. |
| `Ftl` | The FTL without garbage collection, all three queueing policies, disk reads and back pressure. |
| `NvState` | The file of the NV state and what a new process starts with, whichever FTL it runs. |
| `FtlRestart` | `Ftl` with that file, a save and a restart at any moment, and whose data the pages of the planes hold. |
| `GCFtl` | The FTL with garbage collection. |
| `GcRestart` | `GCFtl` with that file. |
| `FlashStore` | Abstract specification: every plane is a memory that takes its commands in their order. |
| `FlashDies` | What the two packages share: the controller's queues, the channel's owner, dies, planes and blocks. |
| `Package` | Controller, channel and dies without a buffer. |
| `BufferedPackage` | The same with the buffer between channel and dies; it implements `FlashStore`. |
| `HostChannel` | Abstract specification: requests reach the FTL once and in order, reads are answered. |
| `FrontBuffer` | The host channel with its request, response and command queues; it implements `HostChannel`. |
| `AccessLog` | The access records of the loggers, as operators. |
| `EpochLog` | The four loggers and the epochs. |
| `CountingFacts` | Lemmas that the proofs share: least elements, remainders, the ends of a sequence and the rest of it, how many elements of a kind a sequence or a family of sequences holds, and what `FlattenSeq` does to both. |
| `FtlProofs` | Proofs about `FlashGeometry`, `Ftl` and `FtlRestart`. |
| `GcProofs` | Proofs about `GCFtl` and `GcRestart`, from `FtlProofs`. |
| `FlashDiesProofs` | Lemmas about `FlashDies`: types, the pages a die fetches, the packets of a plane picked out of a queue, the ownership of the registers, what a packet that reaches its die and an update of a die change. |
| `PackageProofs` | Proofs about `Package`, with the refinement of `FlashStore`. |
| `BufferedPackageProofs` | Proofs about `BufferedPackage`, with the refinement of `FlashStore`. |
| `FrontBufferProofs` | Proofs about `FrontBuffer`, with the refinement of `HostChannel`. |
| `EpochLogProofs` | Proofs about `EpochLog` and the lists of `AccessLog`. |
| `MCFtl`, `MCGcRestart` | Symmetry of the host addresses. |
| `MCFtlRestart` | `FtlRestart` as it is; its run checks liveness, so it has no symmetry. |
| `MCTwoQueues` | `Ftl` with the two ways of keeping two queues in one run: SCHEDULE, and PERFECT_SCHEDULE with IDLE_WRITE and DELAY_WRITE. The step relations are instances of `Ftl`; the choice is made before the first step. |
| `MCGcPolicies` | `GcRestart` in the same way: under SCHEDULE and under PERFECT_SCHEDULE. |
| `MCPackage`, `MCBufferedPackage` | Symmetry of the page contents. |
| `MCEpochLog` | Which logger runs with which operations, the currents, symmetry of the addresses. |
| `MCFrontBuffer` | `FrontBuffer` as it is; its run checks liveness, so it has no symmetry. |

`Package` and `BufferedPackage` extend `FlashDies` and compose controller,
channel, (buffer,) dies and planes into one system; each instantiates
`FlashStore` with a refinement mapping. `FrontBuffer` composes the front buffer
with the FTL's queue and the controller's returned reads, and instantiates
`HostChannel`. `Ftl` composes the FTL with the queues it sees of the controller;
`GCFtl` extends it, and the two restart modules add the file to either.

### Ftl

The variables carry the names of the members of `class Ftl`; `writePointer`
gathers `channel`, `die` and `plane`; `used` is the set of page numbers whose bit
is set; `addressMap` maps an address to a page or to `NoPage`. `read_pointer` is
an index, 1 for `begin()`. The actions are

* `HostRead`, `HostWrite`: `addTransaction` with the policy that SCHEDULE and
  PERFECT_SCHEDULE select. A refused call changes nothing and is no step. Under
  SCHEDULE a write replaces a queued write of its address, which is answered in
  the same step, except while a transaction of that address is being worked on.
* `Schedule`, `Lookup`, `handle_read`, `handle_write`: one call of `Ftl::update`
  each, by the state the call finds. `handle_read` is split by where the page is
  (write queue, map, nowhere, disk) and `handle_write` by its outcome (answered
  at once, sent, refused, no page). Each includes `popFront`, the map, the write
  pointer and the flags, in one step as in the code.
* `Pop`: the pop of a controller queue, with `queuesNotFull`. The controller is
  one bounded FIFO per die here, which is what the FTL sees of it when
  CTRL_SCHEDULE is off; the answer to the host is given at the pop.

`owed` is a history variable that counts the callbacks the host still waits for.
`reading_write` is the member of that name: the place in `writeQueue` where the search
for a queued write of a read's address has ended. The loop of that search does not stop
at the write it finds (`Ftl.cpp:551-567`), so the search (`search`) leaves
`reading_write` at `End` whether it has found one or not, and it is from there that
`AccessWriteQueue` answers after its wait. The model has the answer and no data;
`FtlSchedQueueRead` is the run about the place.

`halted` records that the process would exit. The member `deadlock_time` is the
constant `DEADLOCK_TIME`. A call that only counts `locked_counter` up is a
stuttering step. The address `currentTransaction` has before the first
transaction is arbitrary, since its constructor does not set it.

### NvState and FtlRestart

`saveNVState` writes map and used bits once in the life of a process, at any
moment between two calls; `Restart` ends the process at any moment and starts the
next one from the file. Queues, counters, the write pointer and the transaction
being worked on start anew (`NewProcess` of `NvState`), and so does the host.
`loadNVState` writes the used pages into the planes with FAST_WRITE, each under the
address that `tempMap` has for it, which is 0 for a page that no address is mapped to.

The simulator moves no contents, so what a page of a plane holds is whose write was
last made in it: `stored`. It changes where the planes change. A WRITE is made when its
packet leaves the controller's queue (`PlaneWrites`); a package makes the commands of a
plane in the order in which they leave, which is what `PackageIsStore` says. The
FAST_WRITE of a disk read is made at once (`FastWrites`), and so are those of
`loadNVState`. A write that is only faked (PERFECT_SCHEDULE, `Ftl.cpp:921-950`) sends
nothing to a plane and changes the map alone. `MappedPageHoldsData` and `ReadsFindData`
therefore look through the queue of the die: what a page will hold when the writes
queued before a point are made (`HoldsAfter`).

Two options and one moment make these two properties false, and they are claimed
without them:

* PERFECT_SCHEDULE stores nothing at all.
* DISK_READ: the FAST_WRITE overtakes the writes that wait in the controller. An address
  is written, and written again, so that its first page is free; a disk read of another
  address is given that page while the WRITE of it still waits, and the WRITE is made
  over the data of the disk.
* A file written between a refused write and its retry has an address mapped to a page
  that is not marked used. The retry is not in the file, so the next process can give
  the page to another address. The history variable `intact` says that no such file has
  been loaded, and the two properties are claimed while it holds. The file and its
  consequences are in the run: `UsedPagesAreMapped` says what is true even then, that
  every page in use belongs to an address.

The text format, and a load that the host calls in the middle of a simulation, are left
out.

### GCFtl and GcRestart

The variables are those of `Ftl` and the members that `GCFtl` adds. A call of
`GCFtl::update` is `GcUpdate`: `NothingDirty` (the exit when the flash is full of
live pages), `Panic` (a forced collection of every plane, which drops what the
FTL works on), `Take` (an idle FTL takes a transaction from the collector's queue
or the host's, and may begin a collection), or `Works`, which are `HostReads`
(those of `Ftl`, with the counter), `GcReads`, `Writes` (both kinds) and
`Erases`. Every call first asks whether the collection is over
(`CollectionMayEnd`). `HostExits` is what becomes of a host transaction in panic
mode.

A packet that leaves the controller is done at once, except a GC_READ, whose end
is the action `GCReadDone`: it strikes the page off the pending erases, queues the
erase if it was the last one, and then the write. In between no command of that
plane leaves, which is what the plane's register guarantees. What these commands
do to the registers is in `FlashDies`.

With PERFECT_SCHEDULE a write of the host or of the collector sends no packets, never
asks whether there is room, and answers the host at once (`GcWriteSent`). The collector's
writes are answered like the host's, who has not asked, so `owed` can go below 0;
`MaxUnasked` of `MCGcPolicies` bounds by how much.

`dirty_page_count` and `used_page_count` are unsigned: `CounterRange` stands for
2^64 and `Plus` wraps. `MaxDirtyCount` bounds how often a refused write may be
counted again. The policies of the host's queues are those of `Ftl`; GCFtl's
addTransaction differs in panic mode only.

The file of `GcRestart` holds map, dirty and used bits. `GcLoadNVState` counts the
used pages without the dirty ones and no dirty page at all, so after a restart
the counters do not follow the tables, and a save in the middle of a collection
loses the pages that were read but not yet written: `CountsSoundAtFirst` and
`ErasedPagesCopiedAtFirst` are stated for the first process. The second also
assumes that a collection is not forced while a write waits to be tried again
(`ForcePages >= VirtualPages`, and not idle writes under SCHEDULE): see below.

### FlashDies and Package

One package with FRONT_BUFFER and CTRL_SCHEDULE off. `turn` follows the calls of
`NVDIMM::update`. In `Package` (BUFFERED off) these are `FtlUpdate` (the FTL may
add one command or a DATA and WRITE pair), `ControllerUpdate` (place a packet,
one beat on the channel, answer the reads that came back) and `DieUpdate(d)` for
every die (end commands, then the return path). Beats and cycles are small
constants. A packet carries the data it would have as a pointer. The aborts and
exits of `Plane.cpp`, `Die.cpp`, `Block.cpp` and `Channel.cpp` set `failed`, after
which nothing moves. The blocks of a plane are reduced to one.

A GC_READ moves its page to a cache register it has not asked for: with the page
of an earlier READ still waiting for the channel, `Plane::storeInData` aborts.
The models have it (`NeverAborts` is checked without garbage collection); the
shipped `ini/samsung_K9XXG08UXM_gc_test.ini` selects the mode.

The mapping to `FlashStore`: `mem` is the contents of the blocks; `pending` of a
plane is its running WRITE, then its command on the channel, then its commands
in the die's queue; `fetched` is the reads that were answered by the array but
not to the host, that is those with the controller, those waiting for the
channel, and the running READ. A READ takes effect when it reaches the plane,
because `Plane::read` reads the block at that moment, a WRITE when `writeDone`
stores the page. An ERASE, too, takes effect when it reaches the plane.
`ImplementsStore` says that every step of the package is a step of the store or a
stutter. A step of the store may answer several reads of one plane, the oldest first:
`Package` never does that (its die gives one page away per cycle), but behind a buffer
the pages [q, a, b] of planes 1, 0 and 0 can be waiting when a cycle of many channel
updates sends all three before the controller answers. An instance with one die, two
planes and `CHANNEL_UPDATES` {0, 1, 7} reaches that state.

### BufferedPackage

With BUFFERED a cycle is `FtlUpdate`, some number of `ControllerUpdate`, then as
often `ChannelUpdate` with one `BufferUpdate(d)` per die (the loop of
`Buffer::update`), then `DieUpdate(d)`. The number is chosen in every cycle from
`CHANNEL_UPDATES`, which is all that the clock counters of `NVDIMM::update` let
the rest of the system see. CUT_THROUGH is a variable that never changes, so that
one run can take both values.

The controller sends a packet in pieces of CHANNEL_WIDTH bits; `Pause` gives the
channel up when the buffer is full. `inData` and `outData` hold, as in the code,
only the type, the plane and the number of bits of each packet. The packet itself
waits in `pendingPackets` or `pendingDataPackets`; what the buffer counts and what
is handed over are tied together by nothing but their order, which is what
`BufferMatchesController` and `BufferMatchesDie` are about.

`BufferedPackageAssumption` names what the parameters must satisfy and the code
does not check: a device beat outlasts the channel updates of a cycle (else a
packet is reported before the controller has filed it), a buffer holds a page,
the widths divide the lengths, and a page takes more than one device beat.

The refinement mapping adds the packets in `pendingPackets` to `pending` and the
pages in `pendingDataPackets` to `fetched`.

### HostChannel and FrontBuffer

`turn` again follows `NVDIMM::update`, here with FRONT_BUFFER on and BUFFERED off:
`FtlUpdate`, then `updates` times `ResponseUpdate`, `RequestUpdate` and
`CommandUpdate` (the latter two only with their channels), then
`ControllerUpdate`. `updates` is chosen in every cycle from `CHANNEL_UPDATES`, and
is at least one since CHANNEL_CYCLE is below CYCLE_TIME in
`ini/samsung_K9XXG08UXM_gc_test.ini`, which has this mode. With
BUFFERED `NVDIMM::update` (`NVDIMM.cpp:363-416`) never calls `frontBuffer->update`,
so nothing would leave the front buffer; the model has no such mode.

ENABLE_REQUEST_CHANNEL and ENABLE_COMMAND_CHANNEL are variables that never
change, so one run takes all four modes. A request is held by reference in the
code and is a record here; its two halves are its entries in `requests` and
`commands`. `findTransaction` is the operator of that name. A transfer that the
full FTL refuses stays on its channel and is repeated from its start. The FTL is a
queue with a limit (SCHEDULE off), whose first transaction is done or not in every
cycle. A read it gives to the controller comes back in any order; a read of a page
never written is answered past the channel, and so is a write. The controller
offers its finished reads from the newest on until one is refused, so a particular
read may wait for good while others pass it: `HostIsServed` only says that some
read is answered.

Two facts of the sizes are in `SizesSound` and the comments: a read that leaves
gives back the bits of a page it never counted, so the request buffer can hold
more than its size; and the room of a buffer that is smaller than one request
wraps, so it takes any number.

`divide_params_64b` and `subtract_params` are those of `Util.cpp`. The code reads
the quotient back from a text of six digits, so from 10000 on it is rounded, and
from a million on only the first digit counts; the model's quotients are far
smaller.

The mapping to `HostChannel`: `accepted` is what waits on the data side, that is
the data that waits for its command, the request on the channel and the queue;
`reads` counts the reads of every address in the FTL, below it, and on their way
back.

### AccessLog and EpochLog

`AccessLog` has `access_start`, `access_process` and `access_stop` as operators on
a record of `access_queue` and `access_map`, including the conditions under which
they abort. `EpochLog` drives them in any order that does not abort (whether the
callers keep to such an order is a question about them, and `FtlSchedQueueRead`
shows where the FTL does not): arrivals from
the host and from the collector, processing, the end of an access, an unmapped
read that is processed and stopped at once, and `Tick`, the end of
`NVDIMM::update` with the idle energy, the sampled queue lengths and the epoch.
`save_epoch` and `write_epoch` are given per class by the fields they take down
and print. GCLogger forgets the erase energy when it takes an epoch down
(`GCLogger.cpp:447-451`) but prints it: it is 0 in every epoch, and
`EpochsAddUp` leaves that one field of that class out. The test in
`NVDIMM::update` makes an epoch one cycle longer than EPOCH_CYCLES. A second
`save` without RUNTIME_WRITE appends all epochs again; `EpochFile` says so.

Left out: rates and averages, which are printed from the sums that are modelled,
the logs of single events, and the writes per page. The controller's queue lengths
are treated like the FTL's and one package stands for all.

## Runs

All instances are small because the state machines are regular: two addresses
are enough for every conflict between two requests; controller queues of two and
four slots reach "room for one", "room for a pair" and "room for neither"; three
pages are one more than the addresses, so that a page that was given up is taken by
another address and comes back, and the flash fills up while a write is refused. The
FTL's passing runs have one die, so that a pop of one die that wakes an FTL waiting for
another is not in them; the theorems are for any number of dies, and the failing runs of
the FTL have two.

| Run | Instance | Shows |
|---|---|---|
| `FtlFifo` | one queue, one die of three pages, a controller queue of two DATA and WRITE pairs, one save and one restart | `TypeOK`, `NoLostWakeup`, `MappedPageHoldsData`, `ReadsFindData`, `UsedPagesAreMapped`; live: `ReadQueueMoves` |
| `FtlSched` | DISK_READ, one die of three pages, writes forced out at one, under SCHEDULE and under PERFECT_SCHEDULE with idle and delayed writes | `CurrentIsQueued`, `EveryRequestAccounted`, `MappedPagesUsed`, `RetriesInStep`, `MapInjective`; live: `SomethingMoves` |
| `GcRestart` | SCHEDULE and PERFECT_SCHEDULE, one plane of two blocks of two pages, collections forced at two pages in use, one restart | `GcTypeOK`, `ReverseLookupFinds`, `CountsSoundAtFirst`, `EraseCountMeets`, `PendingReadsUnderWay`, `ErasedPagesCopiedAtFirst`, `WorkIsQueued` |
| `PackageDies` | two dies of one plane, with erases | `NeverAborts`, `ChannelOwned`, `CacheRegOwned`, `ImplementsStore`; live: `EveryCommandAnswered` |
| `BufferedPlanes` | one die of two planes, buffers of one page, cut through | `BufferMatchesDie`, `ChannelOwned`; live: `EveryCommandAnswered` |
| `BufferedClocks` | one plane, no or two channel updates per cycle (with the shipped CHANNEL_CYCLE and CYCLE_TIME there is none in most cycles), looked-up commands, both values of CUT_THROUGH | `TypeOK`, `NeverAborts`, `SizesExact`, `BufferMatchesController`, `ImplementsStore` |
| `FrontChannels` | all four modes, two addresses, a request buffer of a write and a read, a response buffer of one page, an FTL of one transaction, one or two updates per cycle | `SidesAgree`, `SizesSound`, `ImplementsHostChannel`; live: `HostIsServed` |
| `EpochLog` | the four loggers with different operations, RUNTIME_WRITE on and off, two accesses, six cycles, two saves | `MaxIsMaxOfEpochs`, `EpochFile`, `LittlesLaw`, `EpochsAddUp` |
| `FtlSchedIdleAlias` | SCHEDULE and IDLE_WRITE | `MapInjective` fails |
| `FtlSchedQueueRead` | SCHEDULE, two dies of two pages | `ReadWaitsForItsWrite` fails |
| `PackageGcWrite` | GC_WRITE and READ on one plane | `ReadFindsRegister` fails |
| `GcLosesRequest` | a collection next to host writes, one queue, one process | `EveryRequestAccounted` fails |

Deadlock is checked except where the system really stops: in the runs with garbage
collection, where the program's own exits and aborts end behaviours, and in
`EpochLog`, which ends at its last cycle.

### What the failing runs show

* **`FtlSchedIdleAlias`.** `handle_write` frees the old page of its address before
  it knows whether the write will be accepted. If it is refused under SCHEDULE
  the FTL goes idle with the address still mapped to a free page. With IDLE_WRITE
  a read can become current, the host's next write replaces the refused one
  (whose address is no longer current), a write of another address comes first
  and takes the page. Two addresses then share a page. The theorems below exclude
  it for all other values of the options: it takes SCHEDULE and IDLE_WRITE together,
  and writes that can be refused.
* **`FtlSchedQueueRead`.** The comment at `Ftl.cpp:569` says of a read that finds a
  write of its address queued "we found a write the satisfy the read, now we're waiitng
  to get the data out of the queue", and `Ftl.cpp:583` takes the data from
  `reading_write`. The loop that looks for the write has no `break`, so `reading_write`
  is at the end of the queue by then, with one queued write or several. The loop also
  tells the logger about the read once for every write it passes (`Ftl.cpp:564`). Two
  writes of one address can be queued, since a write is not replaced while its address
  is being worked on (`Ftl.cpp:203`), and the second call finds the access no longer in
  the logger's queue and aborts (`Logger.cpp:200-205`). `EveryRequestAccounted` holds
  beside this: it counts the answers and does not look at what they carry.
* **`PackageGcWrite`.** Nothing empties the data register after a GC_WRITE.
* **`GcLosesRequest`.** `Ftl::write_success` calls `popFront(WRITE)` for every
  write it sends (`Ftl.cpp:713`). `GCFtl::popFront` would take a GC_WRITE from the
  collector's queue (`GCFtl.cpp:392`), but is not told that it is one: the host's
  transaction at the front of its queue is erased and never answered, and the
  collector writes the page again. With no host transaction queued the process
  pops an empty queue (`halted = "empty_pop"`).

Three more facts have no run of their own. A refused write loses a page when a
collection comes between it and its retry. `write_used_handler` has marked the old
page of its address dirty (`GCFtl.cpp:276-280`), which makes `dirty_page_count`
positive; if FORCE_GC_THRESHOLD is reached, `GCFtl::update` starts panic mode and drops
the write (`GCFtl.cpp:113-125`), and a collection of that block erases the page without
reading it, although the address is still mapped to it and is read before the write
comes to its turn. The comment at `GCFtl.cpp:350` says of used pages "they must be
moved elsewhere". With a plane of two blocks of two pages, `VirtualPages` = 4,
`ForcePages` = 2 and no SCHEDULE TLC finds this in the first process. The shipped ini
files but `samsung_K9XXG08UXM_pcm.ini` (0.7) set the threshold to 1.01, where it cannot
happen, and that is the hypothesis of `ErasedPagesCopiedAtFirst`. The second half of the search for a free
page ends at `start / BLOCK_SIZE` with `start` a block number (`Ftl.cpp:876`), so
the process can exit with "full" while pages are free; `FindFree` models the
search as it is. And the abort of a GC_READ is described above.

### Bounds and fairness

For the FTL and the packages the bounds are the queue lengths of the
configurations. A page of two pieces and two device beats is the smallest that is
neither whole at once nor reported in its first beat; a buffer of one page is the
smallest that a page fits and the one that fills soonest, and one of a page and a
command has a partial fill. Store-first buffers are checked for safety only.

* `MaxDirtyCount` = 3 with `CounterRange` = 16: every block can be full of dirty
  pages and one counted again, and both wraps around 0 after a restart are seen.
* `MaxRestarts` = 1. The state after a restart is a state of a process like any other, and
  the theorems about the data and the pages take any number.
* `MaxUnasked` = 2: PERFECT_SCHEDULE answers each of the two addresses twice more than
  the host has asked.
* `MaxOutstanding` = 3: one request more than the request buffer holds, or two
  halves apart with a third behind them. Four give 1.7 million states, too many
  for the liveness check; the theorems do not use the bound.
* `MaxCycles` = 6, `MaxAccesses` = 2, `SaveCycles`: three epochs, so that the
  second difference of totals is seen, and a save before and after the last.

Fairness of `Ftl` is weak fairness of `Update`, which the clock calls every cycle,
and of the pop of every die's queue, which the rotation of `Controller::update`
serves in turn. The host owes nothing. Fairness of `Package` and `BufferedPackage`
is weak fairness of the whole next step: the clock goes on.
`EveryCommandAnswered` is checked for one channel update per cycle only. With two,
the controller can give the channel up and take it again before the buffer is
asked, and writes that come as fast as the channel takes them keep a page from
leaving; the hazard list has it.

Fairness of `FrontBuffer` is weak fairness of `Update`, the calls of
`NVDIMM::update`, and strong fairness of `FtlUpdate(TRUE)` and
`ControllerUpdate(TRUE)`: the FTL finishes what heads its queue and the packages
the reads they have begun, which the runs of `Ftl` and `Package` show for the real
parts. It is strong because the turn goes away and comes back. The loggers and the
collecting FTL have no liveness property: a collection need not end, as
`GcLosesRequest` and the abort of a GC_READ show.

## Proofs

`FtlProofs` proves, for every geometry, address set, queue length and scheduling
option (under the named assumptions on the constants, of which
`CtrlQueueAssumption` matters: a controller queue of one slot can never take a
write),

* `CurrentQueued`: the transaction being worked on is the one `popFront` erases;
* `RetriesCorrect`: the retry count and the read pointer agree;
* `NoWakeupIsLost`: a set flag has a packet whose pop will clear it;
* `RequestsAccounted`: what the host waits for is what the FTL and the controller hold;
* `TypeCorrect`;
* `MapStaysInjective` and `MappedPagesStayUsed`, under `RefusalsKept`: PERFECT_SCHEDULE is
  on, or SCHEDULE and IDLE_WRITE are not both. `FtlSchedIdleAlias` shows that with the
  remaining values of the options both are false.

The inductive invariant is a conjunction proved in layers. `QueueInv` types the
queues and says where the current transaction is; it stands alone. `MapType` types
the map and write pointer and uses `QueueInv` for the current address. `MapInv`
says that a page used by nobody is mapped by at most the current write, and that no
other transaction can be tried before it: only this
makes injectivity inductive, because it is what the refused write breaks and the
retry restores. Without SCHEDULE the FTL stays busy with the refused write. With it
the FTL is idle and visits both queues again; what is needed then (`DueInv`) is that a
write is only ever taken with the write queue at its limit, and that the queue does
not get shorter until the write leaves. The second is not obvious, since the host erases
a queued write to put a newer one in its place: the queue must never be longer than
its limit, or there would be no room for the newer one, and what is erased is never the
current transaction (`AddedWriteFits`, `ScheduledWriteKeepsHead`). So the limit still
holds, no read is taken, and the refused write is at the front. `FlagInv` types the controller queues and ties the flags to them:
a refused packet means a queue at its limit, which is not empty since the limit
is not one. `TimerInv` types the counters of waiting.
`FindFreeSound` supplies what the search returns; `RemoveAtProperties` and its
neighbours supply what the list operations do.

`RequestsAccounted` counts. `AccountInv` says for each kind and address that `owed` is
the number of such transactions in the queues plus the number of such packets in the
controller's queues. It does not stand alone: that the transaction
which leaves is the one being answered needs `QueueInv`, that a packet of the right
kind and address is what a pop takes needs `FlagInv`, and the two halves of a write
must not both be counted. The counts are cardinalities of sets of places, which do not
add up by themselves; `CountConcat`, `CountRemoveAt` and `CountAmongStep` say how they
change when a sequence, or one sequence of a family, grows or loses an element.

It also proves for `FtlRestart`, for every geometry, set of addresses, queue length and
number of restarts, under `RefusalsKept`,

* `DataSurvives`: once the writes queued in the controller are made, the page an address
  is mapped to holds that address's data;
* `ReadsFindTheirData`: a READ that waits in the controller finds the data of its address
  when it gets to its page, although the address may have been written again since and
  the page given away;
* `NoPageIsLost`: a page in use belongs to an address, and until a file from between a
  refused write and its retry is loaded, a mapped page is in use (`MappedPagesUsed`).

The first two assume, besides, that PERFECT_SCHEDULE and DISK_READ are off: with them they
are false, see above. Refused writes, a save and a restart between any two steps, and
files that are not intact are all in.

`NvInv` is what is true of the map in every process. That the used pages are mapped, that
a write is only taken when it is due and that the queue fits its limit (`FtlInv`) holds
whatever file was loaded; that the map is injective (`MapInv`) holds while `intact`, and a
file then describes an injective map, which is what the next process needs to start from.
`DataInv` adds the data: `HoldInv` says of every mapped page (`MappedHold`) and of every
READ in a queue (`ReadsHold`) that the right write is the last one before it, and
`PlacesInv` that every packet is in the queue of its page's die (`Home`), so that one queue
holds all that will happen to a page. Three kinds of steps disturb it. Packets are added
behind the others (`Added`): a READ finds what its mapped page will hold by then
(`ReadSentHolds`), and a write goes behind everything that is queued for its page, so that
the READs of the page's old address are still before it (`WriteSentHolds`, `Behind`). It
takes a page that no other address is mapped to, which is where injectivity comes in. A pop
moves the first packet from the queue into the page and changes nothing of what is said
(`PopHolds`). And after a restart the queues are empty and the pages hold what `loadNVState`
has put there (`RestartHolds`).

`GcProofs` proves for `GcRestart`, that is for the collecting FTL and any number of
saves and restarts, for every geometry, set of addresses, queue length, threshold and
policy,

* `GcTypes`: panic mode never outlasts its collection, no pending erase is stored
  without a page to wait for;
* `WorkStaysQueued`: the transaction worked on is the one that will be popped;
* `LookupFinds`: the `assert(found)` of the reverse lookup holds;
* `CollectorFindsData`: the exit "GC tried to move data that wasn't there." is not taken;
* `CountsFollowTables`: in the first process, what the counters of used and dirty pages
  are worth;
* `EraseCountIsMet`: a collection has as many erases to come as it waits for;
* `PendingReadsComing`: a pending erase waits for no read that is over;
* `ErasedPagesAreCopied`: in the first process, under the hypothesis of
  `ErasedPagesCopiedAtFirst`, an address that points into an erased block has its copy
  still to be written, so a collection loses no page.

Every policy includes PERFECT_SCHEDULE: a write then sends nothing and is never refused, and
the parts of the invariant about commands with the controller are not touched by it.

The inductive invariant `GcInv` has three parts, each of which needs another. `GcQueueInv`
types the queues and ties `currentTransaction` to the front of one of them. An erase is
popped without a test, so this part must know that it is the collection's own, which is
the count of erases. `TableInv` says that every used page which is not dirty is mapped,
in the tables and in the saved file, and bounds the counters; marking, erasing and
moving a page change map, used and dirty bits in an order that must not leave a live page
without an address. `CollectorInv` counts. `EraseInv` adds the BLOCK_ERASEs in the queue,
the pending erases and the ERASEs with the controller to those done; it is 0 outside a
collection, which is why a new one starts from its own number. `PendingInv` compares, per
address, how many pending erases wait for it with how many reads of it are queued, with
the controller or running. It must count: one block can be pending twice, and
`GCReadDone` takes an address off every erase up to the first it completes.
`ReadsMapped` says that every read still to come is of a mapped address. Collections
add what `addGC` makes of each block, flattened over the planes; `FlattenSeqSteps`
unrolls `FlattenSeq`, and `UpToInduction`, which is about a set, does the induction that
the library's theorems cannot be used for. `CountsFollowTables` uses `CounterRange` >
`MaxDirtyCount`, the model's stand-in for a counter of 64 bits that is not counted up
that often.

The counts forget the order of the queue, and `ErasedPagesAreCopied` is about order, since
one block can be pending in two erases. Its invariant `CopyInv` adds four facts. A
GC_DATA_WRITE never leaves `gcQueue`, since a transaction of the host's is popped for it
(`popFront` with `PopWrite`). So once one
heads the queue nothing behind it is reached, and the erases that matter are those queued
before the first of them (`ErasesCopied`); until one is queued there is nothing to copy
and no used page but the mapped ones and the old page of a refused write
(`NothingCopied`). That refused write is what the hypothesis is about: it is tried again
before a collection can start, and nothing of the host's is worked on during one
(`HostWorks`), so a collection sees every live page with its address, and
queues the erase of a block at once only if no address points into it; every other erase
waits for the reads of all of them (`PagesCopied`).

`PackageProofs` proves for `Package`, for any number of dies, planes and pages, all
queue lengths and all numbers of beats and cycles,

* `PackageTypes` and `ChannelHasOneOwner`, whatever commands the FTL gives;
* `NoAbort` and `CacheRegistersOwned`, when it gives only READ, WRITE and ERASE and
  garbage collection is off. With it they are false: `PackageGcWrite` shows an abort;
* `PackageIsStore`: `Spec => ImplementsStore`, the whole refinement of `FlashStore`,
  under the same hypotheses.

The registers need the longest argument. `RegisterInv` has one part for each stage of
a packet. In a queue every DATA is directly followed by its WRITE (`QueuesSound`). On
the channel a DATA has its WRITE at the head of the queue it left (`DataArrives`), and
what the die answered when it was asked still holds (`ArrivalSound`). From the arrival
of the data on, the WRITE is the next command of that die (`DataAwaitsWrite`), so no
READ can start in between and end into the register. The data register is full exactly
while a READ or WRITE runs (`RegistersSound`), and the pages waiting to be returned are
those in the cache registers, one for each (`PagesSound`). The parts on packets take
the packet on the channel as a parameter, because one update of the controller may
place a packet and deliver it: `PlaceSound` and `ArriveSound` are its two halves. Pages
that end together join the list in the order of their planes; that the numbering of a
finite set of planes is one to one is `RankIsBijective`.

The refinement adds `StoreInv` to these: a running command has in the data register what
it will return or store (`CommandsKept`), only reads are waiting to be returned
(`PagesRead`), and between two updates of the controller each die returns at most one
page (`ReturnsSound`). The last part is what makes an update of the controller one step
of the store: it answers all returned reads at once, and these are reads of different
planes. `pending` and `fetched` of a plane are concatenations of the packets of that
plane in several queues; `PickedConcat`, `PickedHead` and `PickedAppend` say how a
queue's packets of a plane change with the queue, and `Effect` restates a step of the
store in terms of packets (`EffectMaps`). Then every action is one case. The FTL
appends to `pending` (`JoinMaps`). A packet that is placed stays where it was
(`PlaceKeeps`). A READ that arrives moves from `pending` to `fetched` with the page its
block holds, an ERASE leaves, a WRITE becomes the running one and stays, a DATA is not
seen (`ArrivalMaps`, `NothingArrivesMaps`). A die stores the writes that end
(`DiePending`, `DieBlocks`), and a page that moves from the data register to the list,
and from there to the controller, keeps its place (`DieReading`, `DiePages`).

`BufferedPackageProofs` proves for `BufferedPackage`, for any number of dies and planes,
all lengths, widths and buffer sizes that its assumption allows and both modes,

* `BufferChannelOwned`: one owner of the channel, and a paused controller is none;
* `PagesMatchBuffer`: the complete pages of the buffer are the packets the die gave away;
* `BufferMatchesSent`: the packets of the buffer are those the controller keeps or sends;
* `BufferSizesExact`: the sizes that decide whether a buffer is full are the bits in it;
* `BufferedTypes`: the types, with sizes that are never negative;
* `BufferedNoAbort`, when the FTL gives only READ, WRITE and ERASE and garbage collection
  is off (the theorems above hold whatever it gives);
* `BufferedIsStore`: `Spec => ImplementsStore`, the whole refinement of `FlashStore`,
  under the same hypotheses.

Towards the controller two parts are enough. `OutMatches` says how many bits of the page
that a die is sending have arrived, which is what makes it complete with its last device
beat and not before, and `SendSound` that no more of a page is sent than has arrived.
Towards the die, `InInv` has four parts for each die, of which none is inductive alone.
`DieMatches` sets the packets of the buffer beside those of the controller and counts the
pieces that are `Missing` from the newest one, on the wire or still to be sent: a new
packet is placed only when the last piece of the one before has left, so only the newest
can be incomplete. `RoomFor` keeps room for the piece on the wire, and for the rest of a
packet that has begun when packets are stored first: a piece that arrives in a full buffer
finds `Buffer::sendPiece` returning false, on which `Channel::update` aborts, and the count
of missing pieces would be wrong. `LatchFor` bounds what has been handed to the die by what
arrived. `TimeFor` is about the one update between the last piece and `pendingPackets`: a
packet that is complete in the buffer but not yet filed cannot end before the controller's
next update, since the device beat it needs takes more cycles than the channel has updates
left (`Updates`). This is where `channelUpdates` < `DEVICE_CYCLES` of the assumption is
used; the proof fails without it, which is the hazard at `Controller.cpp:619`. The exact
sizes then follow from how each step changes the sum of the parts of a queue
(`BitsAdded` and its neighbours, over the partial sums of a recursive function), and
`BufferInv` puts all of it together.

For the registers the theory of `Package` serves again: `FlashDiesProofs` states
`QueuesSound`, `DataArrives`, `DataAwaitsWrite`, `RegistersSound` and `PagesSound` about
any queues and any packet on the channel, and each package says what they are. Behind a
buffer the packets that a die has not received are those the controller keeps or sends
for it and then its queue (`OnTheirWay`), and nothing is on the channel as far as the die
can tell. A placed packet only moves within this (`ControllerKeepsWay`). It leaves when
the buffer has handed over its last bit, and that it is the first packet of `OnTheirWay`
which leaves is `BufferMatchesSent`: `bufferDone` picks it by type and plane
(`AcceptedSound`). That `Buffer::sendPiece` is never refused is part of `BufferInv`.

The refinement follows that of `Package`, with the same lemmas about a die. `pending` of a
plane is the write it runs and then its commands in `OnTheirWay` (`PendingIs`): that is
what makes the pieces, the pauses and `pendingPackets` steps in which nothing happens
(`ControllerUpdateMaps`, `ChannelUpdateMaps`). `fetched` has a list more,
`pendingDataPackets`; a page that goes from the die to the buffer, or from there to the
controller, keeps its place (`DiePages`, `BackPages`), since a page leaves one list at the
front and joins the next at the end. As several channel updates may pass between two of
the controller, it may answer several reads of one plane at once: `Effect` says of every
plane which reads are answered and which stay. `StoreInv` needs no bound on the returned
pages for that, only that all of them are reads and that a die gives away none but its
own. One update of the buffer may both start a command and bring a page to the controller,
of the same plane even; the first changes the end of `fetched` and the second nothing, so
that `ArrivalMaps` can treat them in turn.

`FrontBufferProofs` proves, for every set of addresses, all
lengths, widths and buffer sizes, every queue limit, every choice of channels and
any number of updates per cycle,

* `HalvesAgree`: command side and data side hold the same requests in the same
  order, so matching by address never joins two different requests;
* `RequestsInOrder`: the FTL is given nothing but the oldest request;
* `SizesAreSound`: a size is never more than what its queue holds, and the pages for
  the host are counted exactly;
* `TypeCorrect`: the types of all variables;
* `ChannelImplementsHost`: `Spec => ImplementsHostChannel`, the whole refinement.

The inductive invariant `FrontInv` adds to `SidesAgree` which steps may use which
channel at which turn, the types of what is on it, and `OneListEmpty`: of the two
lists of halves that wait for the other half one is always empty. That is the
point of the argument. As the non-empty list is a prefix of what the other side
still has, the half that arrives can only match the first entry of the list, and
the lemma `Arrival` says of one call of `findTransaction` what it does to both
sides. For the reads `HostInv` adds the types of what is below the front buffer.
`readsBelow` is a sum of cardinalities; the lemmas on reads in a concatenation, in
a tail and in a reversed list (the controller's newest-first offer) move a read
from one place to the next.

`EpochLogProofs` proves for `EpochLog`, for every set of addresses and pages, any
number of accesses, cycles, epochs and saves, all four classes of loggers, both values
of RUNTIME_WRITE and any currents (integers, as READ_I - STANDBY_I may be negative),

* `LittlesLawHolds`: what the logger counts as latency is what accesses really waited;
* `EpochsAddUpHolds`: the epochs add up to the totals and cover every cycle;
* `MaxIsMaxOfEpochsHolds`: the longest queue is the longest of the epochs;
* `EpochFileHolds`: the order of the epochs in the file.

Little's law states a latency as a number of cells: a pair of an access and a cycle for
every cycle since its start. So the sums over lists of unbounded length become
cardinalities, and a step adds or removes a row of cells (`CellsAppend`,
`CellsRemoveAt`), moves a row from one list to another (`CellsAmongStep`), or adds one
cell to every row when the clock goes on (`CellsTick`). The inductive invariant `LawInv`
adds that nothing has started later than now and that the accesses in the map are
finitely many. `StartSound`, `ProcessSound` and `StopSound` say what the three calls of
the logger do to both lists; which of two accesses of one address is taken does not
matter, since its start goes with it.

For the epochs `EpochInv` says that the saved epochs add up to `last_epoch`, field by
field, so that the difference `save_epoch` takes makes them add up to the totals of the
moment (`EpochsSum`). The sum is a fold, which the library defines by a CHOOSE over a
recursive function on sets; `TotalSteps` shows that there is such a function, and
`TotalAppend` and `TotalCons` what one more number does at either end, since the file
grows at its end and `epoch_queue` at its front. Only the fields that a class takes down
(`Captured`) are in the file, so the sums are over those. `LongestStep` compares the
longest queue so far with the longest since the last epoch: the second may be reset only
because `PastGrows` puts it among the saved lengths in the same step. `SavedFile` has one
fact that `EpochFile` has not: the last epoch in the file is epoch 0, which is why the
next save may start again from the newest.

Only model-checked:

* all liveness, which is out of the prover's reach. That of the FTL is checked with one
  die, and with the options of its two runs.

## Not modelled

* **The arbitration of CTRL_SCHEDULE** (`Controller.cpp:186-560` with the option
  on). A READ that heads its queue beside a write queue of that die without its
  address takes a branch that changes nothing (`Controller.cpp:386`), and the
  loop over the dies never ends: the simulator stops inside one call as soon as
  reads and writes meet. Its `queue_access_counter` is never initialised, and
  `erase(it, it++)` at line 238 leaves open what it erases, though the replaced
  write has been answered. No ini file of the repository turns it on.
* CRIT_LINE_FIRST (`critData`, the critical-line callbacks).
* The write script, which replays transactions from a file at fixed cycles: the
  host actions may come at any time in any order.
* Ini parsing (`Init.cpp`): its results are the constants.
* The text of the NV file and of the reports, rates and averages, the logs of
  single events.
* `TraceBasedSim`, `tools/`, `Ftl2.cpp`: drivers, scripts and an unused older FTL.
* The clock-domain counters, except for how many updates a cycle may have.

`PROJECT.json` lists every component with its state and reason.

## Plan

Done: `FlashGeometry`, `Ftl` and their proofs; the two packages against
`FlashStore`; garbage collection with save and restart, proved;
save and restart of the plain FTL, proved; the host channel, with its refinement proved; the
registers, the channel and the refinement of a package, proved; the bits, packets,
channel, registers and refinement of a buffered package, proved; the loggers, proved.

1. CRIT_LINE_FIRST in the two packages.
2. The composition of `Ftl` and `Package`, which justifies the FIFO that `Ftl`
   takes for the controller.
