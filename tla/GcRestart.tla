------------------------------ MODULE GcRestart ------------------------------
(***************************************************************************)
(* Saving and restoring the state of the garbage-collecting FTL: the file  *)
(* holds the address map, the dirty and the used table.  The process can   *)
(* end at any time; the next one starts from the file.  Queues, counters,  *)
(* pointers and a collection that is going on are not saved.               *)
(***************************************************************************)
EXTENDS GCFtl, NvState

GcNvInit == GcInit /\ saveFile = NoSave /\ restarts = 0

(* saveNVState of the GC FTL writes the file once in the life of a process.*)
GcSaveNVState ==
    /\ Running /\ restarts < MaxRestarts
    /\ saveFile = NoSave
    /\ saveFile' = [addressMap |-> addressMap, dirty |-> dirty, used |-> used]
    /\ UNCHANGED <<allVars, restarts>>

(* Mutant: the dirty table is not restored.                                *)
GcLoadNVStateWithoutDirty ==
    /\ saveFile # NoSave
    /\ addressMap' = saveFile.addressMap
    /\ dirty' = {} /\ dirty_page_count' = 0
    /\ used' = saveFile.used
    /\ used_page_count' = Cardinality(saveFile.used \ saveFile.dirty)

(* Its loadNVState counts the used pages that are not dirty; the dirty     *)
(* pages are not counted at all.  The host starts anew, too.               *)
GcLoadNVState ==
    /\ saveFile # NoSave
    /\ addressMap' = saveFile.addressMap
    /\ dirty' = saveFile.dirty /\ dirty_page_count' = 0
    /\ used' = saveFile.used
    /\ used_page_count' = Cardinality(saveFile.used \ saveFile.dirty)

RestartGc ==
    /\ restarts < MaxRestarts /\ restarts' = restarts + 1
    /\ NewProcess /\ GcLoadNVState
    /\ saveFile' = NoSave
    /\ gcQueue' = <<>> /\ gc_pending_erase' = <<>>
    /\ gc_status' = FALSE /\ panic_mode' = FALSE
    /\ erases' = 0 /\ erase_pointer' = 0 /\ gcReading' = {}

GcNvNext == (GcNext /\ UNCHANGED nvVars) \/ GcSaveNVState \/ RestartGc
GcNvSpec == GcNvInit /\ [][GcNvNext]_<<allVars, nvVars>>

-----------------------------------------------------------------------------
(* In the life of the first process the counters follow the tables.  It is *)
(* not true of the next one: the file has no dirty count (GCFtl.cpp:455-   *)
(* 500, 541-551).                                                          *)
CountsSoundAtFirst == restarts = 0 => CountsSound

(* Nor is an erased page lost by the first process, where no write can be  *)
(* refused and a collection start before it is tried again: the refused    *)
(* one has made its old page dirty (GCFtl.cpp:279), which is then erased   *)
(* without being read.  With the thresholds this way round a collection is *)
(* not forced while a write waits, and none starts while one must be done. *)
(* The next process does not know what a collection has read and erased.   *)
ErasedPagesCopiedAtFirst ==
    restarts = 0 /\ ForcePages >= VirtualPages /\ ~(SCHEDULE /\ IDLE_WRITE)
        => ErasedPagesCopied
=============================================================================
