------------------------------ MODULE EpochLog ------------------------------
(***************************************************************************)
(* The four loggers (Logger, GCLogger, P8PLogger, P8PGCLogger) and the     *)
(* part of NVDIMM::update that drives them: totals since the start, the    *)
(* longest queues, and every so many cycles an epoch that holds what was   *)
(* added since the last one.  Epochs go to the file at once with           *)
(* RUNTIME_WRITE and are kept for save() otherwise.                        *)
(*                                                                         *)
(* FTL and dies are whoever makes the calls, in any order that the calls   *)
(* allow; the controller's queues are sampled like the FTL's and one       *)
(* package stands for all.  Averages and rates are printed from the sums   *)
(* that stand for them; the logs of single events and the write counts of  *)
(* each page are left out.                                                 *)
(***************************************************************************)
EXTENDS AccessLog, SequencesExt

CONSTANTS
    Configurations,         \* class of the logger, RUNTIME_WRITE and the operations
    EPOCH_CYCLES,
    OpCurrent,              \* (READ_I - STANDBY_I) * READ_TIME / 2 and so on
    Stale,                  \* what an earlier simulation left in the file
    SaveCycles,             \* bound: the host asks for statistics in these cycles
    MaxCycles, MaxAccesses  \* bounds

ASSUME EpochAssumption ==
    /\ Configurations \subseteq
           [kind : {"Logger", "GCLogger", "P8PLogger", "P8PGCLogger"},
            runtime_write : BOOLEAN,
            ops : SUBSET {"READ", "WRITE", "ERASE", "GC_READ", "GC_WRITE"}]
    /\ OpCurrent \in [{"READ", "WRITE", "ERASE", "GC_READ", "GC_WRITE"} -> Int]
    /\ EPOCH_CYCLES \in Nat \ {0}       \* USE_EPOCHS

VARIABLES
    config,
    clock,                  \* currentClockCycle
    log,                    \* access_queue and access_map
    totals,                 \* the counters, sums of latencies and energies
    queue_length, max_queue_length,
    last_epoch, epoch_queue, file,
    epoch_count, epoch_cycles,
    gc_waiting,             \* how many of the waiting accesses are the collector's
    started, saved,         \* for the bounds
    residence               \* history: cycles spent by accesses, in all and waiting

countVars == <<totals, queue_length, max_queue_length>>
epochVars == <<last_epoch, epoch_queue, file, epoch_count, epoch_cycles>>
vars == <<config, clock, log, countVars, epochVars, gc_waiting,
          started, saved, residence>>

-----------------------------------------------------------------------------
(* What save_epoch of each class takes down.  GCLogger::save_epoch forgets *)
(* the erase energy.                                                       *)
Energies == {"idle_energy", "access_energy", "erase_energy",
             "vpp_idle_energy", "vpp_access_energy", "vpp_erase_energy"}
LoggerFields ==
    {"num_accesses", "num_reads", "num_writes", "num_mapped", "num_unmapped",
     "num_read_mapped", "num_read_unmapped", "num_write_mapped", "num_write_unmapped",
     "average_read_latency", "average_write_latency", "average_queue_latency",
     "idle_energy", "access_energy"}
GCLoggerFields ==
    LoggerFields \cup {"num_erases", "num_gcreads", "num_gcwrites", "average_erase_latency",
                      "average_gcread_latency", "average_gcwrite_latency"}
P8PLoggerFields == LoggerFields \cup {"vpp_idle_energy", "vpp_access_energy"}
P8PGCLoggerFields == GCLoggerFields \cup Energies
Fields == P8PGCLoggerFields
Queues == {"ftl", "gc"}

kind == config.kind
runtime_write == config.runtime_write
CountsGc == kind \in {"GCLogger", "P8PGCLogger"}
HasVpp == kind \in {"P8PLogger", "P8PGCLogger"}
GcOps == {"ERASE", "GC_READ", "GC_WRITE"}
Ops == config.ops \ IF CountsGc THEN {} ELSE GcOps

NoTotals == [f \in Fields |-> 0]
Plus(t, amounts) ==
    [f \in Fields |-> t[f] + IF f \in DOMAIN amounts THEN amounts[f] ELSE 0]
Ones(fs) == [f \in fs |-> 1]

-----------------------------------------------------------------------------
(* An epoch entry of the file and of epoch_queue.                          *)
NoEpoch == [epoch |-> 0, cycle |-> 0, totals |-> NoTotals, lengths |-> [q \in Queues |-> 0]]

Init ==
    /\ config \in Configurations
    /\ clock = 0 /\ log = EmptyLog
    /\ totals = NoTotals
    /\ queue_length = [q \in Queues |-> 0] /\ max_queue_length = [q \in Queues |-> 0]
    /\ last_epoch = NoEpoch /\ epoch_queue = <<>> /\ file = <<Stale>>
    /\ epoch_count = 0 /\ epoch_cycles = 0
    /\ gc_waiting = 0 /\ started = 0 /\ saved = {}
    /\ residence = [all |-> 0, waiting |-> 0]

-----------------------------------------------------------------------------
(* What an access counts when it stops.  GC reads and writes are no        *)
(* accesses.                                                               *)
Counted(op) ==
    Ones(CASE op = "READ" -> {"num_accesses", "num_reads"}
           [] op = "WRITE" -> {"num_accesses", "num_writes"}
           [] op = "ERASE" -> {"num_accesses", "num_erases"}
           [] op = "GC_READ" -> {"num_gcreads"}
           [] op = "GC_WRITE" -> {"num_gcwrites"})

LatencyOf ==
    [READ |-> "average_read_latency", WRITE |-> "average_write_latency",
     ERASE |-> "average_erase_latency", GC_READ |-> "average_gcread_latency",
     GC_WRITE |-> "average_gcwrite_latency"]

(* The energy it takes in each class; the currents of the VPP rail follow  *)
(* the same rule.  The P8P logger charges a write as an erase.             *)
LoggerCharge(op) == [access_energy |-> OpCurrent[op]]
GCLoggerCharge(op) ==
    IF op = "ERASE" THEN [erase_energy |-> OpCurrent[op]] ELSE LoggerCharge(op)
P8PLoggerCharge(op) ==
    LET current == OpCurrent[IF op = "WRITE" THEN "ERASE" ELSE op]
    IN  [access_energy |-> current, vpp_access_energy |-> current]
P8PGCLoggerCharge(op) ==
    IF op = "ERASE" THEN [erase_energy |-> OpCurrent[op], vpp_erase_energy |-> OpCurrent[op]]
    ELSE [access_energy |-> OpCurrent[op], vpp_access_energy |-> OpCurrent[op]]

Charge(op) ==
    CASE kind = "Logger" -> LoggerCharge(op)
      [] kind = "GCLogger" -> GCLoggerCharge(op)
      [] kind = "P8PLogger" -> P8PLoggerCharge(op)
      [] kind = "P8PGCLogger" -> P8PGCLoggerCharge(op)

WithStopped(t, op, latency) ==
    Plus(Plus(Plus(t, Counted(op)), Charge(op)), [f \in {LatencyOf[op]} |-> latency])

Longest(lengths, sample) ==
    [q \in Queues |-> IF q \in DOMAIN sample /\ sample[q] > lengths[q] THEN sample[q]
                      ELSE lengths[q]]
Sampled(sample) ==
    /\ queue_length' = Longest(queue_length, sample)
    /\ max_queue_length' = Longest(max_queue_length, sample)

-----------------------------------------------------------------------------
(* Ftl::attemptAdd and addGcTransaction, which samples nothing.            *)
Arrive(addr, gc) ==
    /\ started < MaxAccesses /\ started' = started + 1
    /\ gc => CountsGc
    /\ log' = access_start(log, addr, clock)
    /\ IF gc THEN gc_waiting' = gc_waiting + 1 /\ UNCHANGED <<queue_length, max_queue_length>>
       ELSE Sampled([ftl |-> Len(log'.queue) - gc_waiting]) /\ UNCHANGED gc_waiting
    /\ UNCHANGED <<config, clock, totals, epochVars, saved, residence>>

(* Mutant: access_process leaves the access in the access_queue.           *)
ProcessedTwice(addr, paddr, op) ==
    [access_process(log, addr, paddr, op) EXCEPT !.queue = log.queue]

Processed(addr, paddr, op) == access_process(log, addr, paddr, op)
QueueLatency(addr) == clock - log.queue[FirstWaiting(log, addr)].start

(* A die takes the command; the FTL has said before whether the page of a  *)
(* host access was mapped.  A step is one the logger lives through: that   *)
(* its callers keep to MayProcess is not checked here, and the search of   *)
(* the write queue (Ftl.cpp:551-567), which logs a read once for every     *)
(* queued write of its address, does not.                                  *)
MappedOrNot(op) ==
    CASE op = "READ" -> {{"num_mapped", "num_read_mapped"}}
      [] op = "WRITE" -> {{"num_mapped", "num_write_mapped"}, {"num_unmapped", "num_write_unmapped"}}
      [] OTHER -> {{}}

Process(addr, paddr, op) ==
    /\ MayProcess(log, addr, paddr, op)
    /\ IF op \in GcOps THEN gc_waiting > 0 /\ gc_waiting' = gc_waiting - 1
       ELSE gc_waiting < Len(log.queue) /\ UNCHANGED gc_waiting
    /\ log' = Processed(addr, paddr, op)
    /\ \E fs \in MappedOrNot(op) :
          totals' = Plus(Plus(totals, Ones(fs)), [average_queue_latency |-> QueueLatency(addr)])
    /\ UNCHANGED <<config, clock, queue_length, max_queue_length, epochVars,
                   started, saved, residence>>

(* A read of an unmapped page is processed and stopped by the FTL at once. *)
ReadUnmapped(addr, paddr) ==
    /\ MayProcess(log, addr, paddr, "READ") /\ ~MayStop(log, addr, paddr)
    /\ "READ" \in Ops /\ gc_waiting < Len(log.queue)
    /\ log' = access_stop(Processed(addr, paddr, "READ"), addr, paddr)
    /\ totals' = WithStopped(Plus(Plus(totals, Ones({"num_unmapped", "num_read_unmapped"})),
                                  [average_queue_latency |-> QueueLatency(addr)]),
                             "READ", QueueLatency(addr))
    /\ UNCHANGED <<config, clock, queue_length, max_queue_length, epochVars,
                   gc_waiting, started, saved, residence>>

Stop(addr, paddr) ==
    /\ MayStop(log, addr, paddr)
    /\ LET entry == Head(log.map[<<addr, paddr>>])
       IN  totals' = WithStopped(totals, entry.op, clock - entry.start)
    /\ log' = access_stop(log, addr, paddr)
    /\ UNCHANGED <<config, clock, queue_length, max_queue_length, epochVars,
                   gc_waiting, started, saved, residence>>

-----------------------------------------------------------------------------
(* save_epoch: what has been counted since the last one.                   *)
Captured ==
    CASE kind = "Logger" -> LoggerFields
      [] kind = "GCLogger" -> GCLoggerFields
      [] kind = "P8PLogger" -> P8PLoggerFields
      [] kind = "P8PGCLogger" -> P8PGCLoggerFields

Snapshot(lengths) ==
    [epoch |-> epoch_count, cycle |-> clock',
     totals |-> [f \in Fields |-> IF f \in Captured THEN totals'[f] ELSE 0],
     lengths |-> lengths]

SinceLast(e) ==
    IF e.epoch = 0 THEN e
    ELSE [e EXCEPT !.cycle = @ - last_epoch.cycle,
                   !.totals = [f \in Fields |-> @[f] - last_epoch.totals[f]]]

(* write_epoch: what each class prints of an epoch, and where.             *)
Report(e, fields, queues) ==
    [e EXCEPT !.totals = [f \in fields |-> @[f]], !.lengths = [q \in queues |-> @[q]]]
LoggerReport(e) == Report(e, LoggerFields, {"ftl"})
GCLoggerReport(e) == Report(e, GCLoggerFields \cup {"erase_energy"}, Queues)
P8PLoggerReport(e) == Report(e, P8PLoggerFields, {"ftl"})
P8PGCLoggerReport(e) == Report(e, P8PGCLoggerFields, Queues)

Reported(e) ==
    CASE kind = "Logger" -> LoggerReport(e)
      [] kind = "GCLogger" -> GCLoggerReport(e)
      [] kind = "P8PLogger" -> P8PLoggerReport(e)
      [] kind = "P8PGCLogger" -> P8PGCLoggerReport(e)

(* Mutant: every epoch truncates the file, not epoch 0 alone.              *)
write_epoch_truncating(f, e) ==
    IF runtime_write THEN <<Reported(e)>> ELSE Append(f, Reported(e))

write_epoch(f, e) ==
    IF e.epoch = 0 /\ runtime_write THEN <<Reported(e)>> ELSE Append(f, Reported(e))

(* Mutant: the epoch is remembered, not the totals.                        *)
save_epoch_of_epoch(lengths) ==
    LET this == SinceLast(Snapshot(lengths))
    IN  /\ IF runtime_write THEN file' = write_epoch(file, this) /\ UNCHANGED epoch_queue
           ELSE epoch_queue' = <<this>> \o epoch_queue /\ UNCHANGED file
        /\ last_epoch' = this

save_epoch(lengths) ==
    LET this == SinceLast(Snapshot(lengths))
    IN  /\ IF runtime_write THEN file' = write_epoch(file, this) /\ UNCHANGED epoch_queue
           ELSE epoch_queue' = <<this>> \o epoch_queue /\ UNCHANGED file
        /\ last_epoch' = Snapshot(lengths)

UnderWay == Len(log.queue) + Cardinality(UNION {{k} \X DOMAIN log.map[k] : k \in Keys})

(* The end of NVDIMM::update: idle energy and clock, the queue lengths,    *)
(* and the epoch once epoch_cycles has reached EPOCH_CYCLES, so that an    *)
(* epoch is one cycle longer than that.                                    *)
Sample == [ftl |-> Len(log.queue) - gc_waiting, gc |-> gc_waiting]

(* Mutant: the lengths are reset first.                                    *)
EpochEndsResetFirst(lengths) ==
    /\ queue_length' = [q \in Queues |-> 0]
    /\ save_epoch(queue_length')
    /\ epoch_count' = epoch_count + 1 /\ epoch_cycles' = 0

EpochEnds(lengths) ==
    /\ save_epoch(lengths)
    /\ queue_length' = [q \in Queues |-> 0]
    /\ epoch_count' = epoch_count + 1 /\ epoch_cycles' = 0

EpochGoesOn(lengths) ==
    /\ queue_length' = lengths
    /\ epoch_cycles' = epoch_cycles + 1
    /\ UNCHANGED <<last_epoch, epoch_queue, file, epoch_count>>

(* Mutant: "later than" for "not before".                                  *)
EpochOverLate == epoch_cycles > EPOCH_CYCLES
EpochOver == epoch_cycles >= EPOCH_CYCLES

IdleEnergy == Ones({"idle_energy"} \cup IF HasVpp THEN {"vpp_idle_energy"} ELSE {})

Tick ==
    /\ clock < MaxCycles /\ clock' = clock + 1
    /\ totals' = Plus(totals, IdleEnergy)
    /\ max_queue_length' = Longest(max_queue_length, Sample)
    /\ IF EpochOver THEN EpochEnds(Longest(queue_length, Sample))
       ELSE EpochGoesOn(Longest(queue_length, Sample))
    /\ residence' = [all |-> residence.all + UnderWay,
                     waiting |-> residence.waiting + Len(log.queue)]
    /\ UNCHANGED <<config, log, gc_waiting, started, saved>>

(* save(): whenever the host asks for the statistics.  With RUNTIME_WRITE  *)
(* it adds nothing to this file; without, write_epoch appends each epoch.  *)
Save ==
    /\ ~runtime_write
    /\ clock \in SaveCycles \ saved /\ saved' = saved \cup {clock}
    /\ file' = file \o [i \in DOMAIN epoch_queue |-> Reported(epoch_queue[i])]
    /\ UNCHANGED <<config, clock, log, countVars, last_epoch, epoch_queue,
                   epoch_count, epoch_cycles, gc_waiting, started, residence>>

Next ==
    \/ \E addr \in LogAddr, gc \in BOOLEAN : Arrive(addr, gc)
    \/ \E addr \in LogAddr, paddr \in LogPage : \E op \in Ops : Process(addr, paddr, op)
    \/ \E addr \in LogAddr, paddr \in LogPage : ReadUnmapped(addr, paddr)
    \/ \E addr \in LogAddr, paddr \in LogPage : Stop(addr, paddr)
    \/ Tick
    \/ Save

Spec == Init /\ [][Next]_vars

-----------------------------------------------------------------------------
Lengths == [Queues -> 0 .. MaxAccesses]
Epochs == [epoch : Nat, cycle : Nat, totals : [Fields -> Nat], lengths : Lengths]
Written == IF epoch_count = 0 THEN <<>> ELSE file
Saved == IF runtime_write THEN Written ELSE epoch_queue
Total(numbers) == FoldLeft(LAMBDA sum, n : sum + n, 0, numbers)

(* Type invariant; an epoch never runs past EPOCH_CYCLES.                  *)
TypeOK ==
    /\ config \in Configurations
    /\ totals \in [Fields -> Nat]
    /\ queue_length \in Lengths /\ max_queue_length \in Lengths
    /\ {last_epoch} \cup {epoch_queue[i] : i \in DOMAIN epoch_queue} \subseteq Epochs
    /\ epoch_count \in Nat /\ epoch_cycles \in 0 .. EPOCH_CYCLES
    /\ gc_waiting \in 0 .. Len(log.queue) /\ ~log.aborted

(* "compute this epoch" from the last one (Logger.h:259-260): when an      *)
(* epoch is saved, all of them together report what has been counted since *)
(* the start, the erase energy of a GCLogger excepted, and all cycles.     *)
EpochsAddUp ==
    [][epoch_count' # epoch_count =>
          /\ \A f \in Captured : Total([i \in DOMAIN Saved |-> Saved[i].totals[f]])' = totals'[f]
          /\ Total([i \in DOMAIN Saved |-> Saved[i].cycle])' = clock']_vars

(* The longest queue of the simulation is the longest of its epochs        *)
(* (NVDIMM.cpp:489-491, Logger.cpp:617-636).                               *)
MaxIsMaxOfEpochs ==
    \A q \in {"ftl"} \cup IF CountsGc THEN {"gc"} ELSE {} :
        LET lengths == {queue_length[q]} \cup {Saved[i].lengths[q] : i \in DOMAIN Saved}
        IN  max_queue_length[q] \in lengths /\ \A n \in lengths : n <= max_queue_length[q]

(* The file of a simulation with RUNTIME_WRITE holds its epochs in order   *)
(* and nothing else; without, every save adds all epochs so far, the       *)
(* newest first, and what was in the file stays (Logger.cpp:761-768,       *)
(* 890-926).                                                               *)
EpochFile ==
    IF runtime_write
    THEN \/ epoch_count = 0 /\ file = <<Stale>>
         \/ [i \in DOMAIN file |-> file[i].epoch] = [i \in 1 .. epoch_count |-> i - 1]
    ELSE /\ Head(file) = Stale
         /\ \A i \in 2 .. Len(file) :
               /\ file[i] \in {Reported(epoch_queue[j]) : j \in DOMAIN epoch_queue}
               /\ (i < Len(file) /\ file[i].epoch # 0 => file[i + 1].epoch = file[i].epoch - 1)

(* Little's law, although accesses are matched by address only             *)
(* (Logger.cpp:191-203, 245-283): the latencies counted and the cycles of  *)
(* the accesses still under way, each since its start, add up to the       *)
(* cycles that accesses really spent.                                      *)
CyclesOf(accesses) ==
    UNION {{i} \X (accesses[i].start .. clock - 1) : i \in DOMAIN accesses}

LittlesLaw ==
    LET waiting == Cardinality(CyclesOf(log.queue))
        processed == Cardinality(UNION {{k} \X CyclesOf(log.map[k]) : k \in Keys})
    IN  /\ residence.waiting = totals["average_queue_latency"] + waiting
        /\ residence.all = totals["average_read_latency"] + totals["average_write_latency"]
                               + totals["average_erase_latency"] + totals["average_gcread_latency"]
                               + totals["average_gcwrite_latency"] + waiting + processed
=============================================================================
