------------------------------- MODULE NvState -------------------------------
(***************************************************************************)
(* What the two FTLs have in common when their state is saved and          *)
(* restored: the file, and a new process, whose queues, write pointer and  *)
(* transaction start empty whatever the file holds.                        *)
(***************************************************************************)
EXTENDS Ftl

CONSTANTS
    MaxRestarts,            \* bound
    NoSave

VARIABLES saveFile, restarts

nvVars == <<saveFile, restarts>>

NewProcess ==
    /\ readQueue' = <<>> /\ writeQueue' = <<>>
    /\ read_pointer' = 1 /\ read_iterator_counter' = 0
    /\ busy' = FALSE /\ lookupCounter' = 0 /\ currentTransaction' \in EmptyTransactions
    /\ read_queues_full' = FALSE /\ write_queues_full' = FALSE
    /\ queue_access_counter' = 0 /\ write_wait_count' = DELAY_WRITE_CYCLES
    /\ deadlock_counter' = 0 /\ reading_write' = End
    /\ writePointer' = [channel |-> 0, die |-> 0, plane |-> 0]
    /\ ctrlQueue' = [d \in Dies |-> <<>>]
    /\ halted' = "no"
    /\ owed' = [k \in {"DATA_READ", "DATA_WRITE"} |-> [a \in Addr |-> 0]]
=============================================================================
