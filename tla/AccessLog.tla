----------------------------- MODULE AccessLog -----------------------------
(***************************************************************************)
(* The access records of the Logger (Logger.cpp, access_start to           *)
(* access_stop).  An access waits in access_queue under its address until  *)
(* it is processed, then in access_map under its address and its page      *)
(* until it stops.  Nothing but the address says which access is meant, so *)
(* accesses of one address are matched first come, first served.           *)
(* A call that finds no access, or one in its way, aborts the process.     *)
(***************************************************************************)
EXTENDS Integers, Sequences, FiniteSets

CONSTANTS
    LogAddr,                \* the addresses of accesses
    LogPage                 \* the second key of access_map

Keys == LogAddr \X LogPage
EmptyLog == [queue |-> <<>>, map |-> [k \in Keys |-> <<>>], aborted |-> FALSE]
Reads == {"READ", "GC_READ"}

access_start(log, addr, now) ==
    [log EXCEPT !.queue = Append(@, [addr |-> addr, start |-> now])]

Waiting(log, addr) == {i \in DOMAIN log.queue : log.queue[i].addr = addr}
FirstWaiting(log, addr) ==
    CHOOSE i \in Waiting(log, addr) : \A j \in Waiting(log, addr) : i <= j

(* Up to three reads of a page may be under way, one of anything else.     *)
MayProcess(log, addr, paddr, op) ==
    /\ Waiting(log, addr) # {}
    /\ Len(log.map[<<addr, paddr>>]) <= IF op \in Reads THEN 2 ELSE 0

WithoutWaiting(log, i) ==
    SubSeq(log.queue, 1, i - 1) \o SubSeq(log.queue, i + 1, Len(log.queue))

access_process(log, addr, paddr, op) ==
    IF ~MayProcess(log, addr, paddr, op) THEN [log EXCEPT !.aborted = TRUE]
    ELSE LET i == FirstWaiting(log, addr)
             entry == [start |-> log.queue[i].start, op |-> op]
         IN  [log EXCEPT !.queue = WithoutWaiting(log, i),
                         !.map[<<addr, paddr>>] = Append(@, entry)]

MayStop(log, addr, paddr) == log.map[<<addr, paddr>>] # <<>>

access_stop(log, addr, paddr) ==
    IF ~MayStop(log, addr, paddr) THEN [log EXCEPT !.aborted = TRUE]
    ELSE [log EXCEPT !.map[<<addr, paddr>>] = Tail(@)]
=============================================================================
