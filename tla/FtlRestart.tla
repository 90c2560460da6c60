------------------------------ MODULE FtlRestart ------------------------------
(***************************************************************************)
(* Saving and restoring the state of the FTL without garbage collection,   *)
(* and what the pages of the planes hold.  The file holds the address map  *)
(* and the used table; the process can end at any time and the next one    *)
(* starts from the file.  The restored pages are written straight into the *)
(* planes; the queues, the write pointer and the transaction being worked  *)
(* on are not saved.                                                       *)
(*                                                                         *)
(* The simulator moves no contents about: what a page holds is the address *)
(* of the write that was last made in it.                                  *)
(***************************************************************************)
EXTENDS NvState

CONSTANTS
    Nobody,
    Addr0                   \* the address 0

VARIABLES
    stored,                 \* whose write was last made in a page of a plane
    intact                  \* history: no file was loaded with a page that is
                            \* mapped and not marked used

planeVars == <<stored, intact>>

NvInit ==
    /\ Init
    /\ saveFile = NoSave /\ restarts = 0
    /\ stored = [p \in Pages |-> Nobody]
    /\ intact = TRUE

-----------------------------------------------------------------------------
(* The planes.  The FAST_WRITE of handle_disk_read is made at once, and a  *)
(* WRITE when its packet leaves the controller: a plane takes up its       *)
(* commands in the order in which they leave (PackageIsStore).             *)
PlaneWrites(d) ==
    LET p == Head(ctrlQueue[d])
    IN  stored' = IF p.type = "WRITE" THEN [stored EXCEPT ![p.page] = p.address]
                  ELSE stored

FastWrites ==
    LET a == currentTransaction.address
    IN  stored' = IF currentTransaction.type = "DATA_READ" /\ addressMap'[a] # addressMap[a]
                  THEN [stored EXCEPT ![addressMap'[a]] = a]
                  ELSE stored

-----------------------------------------------------------------------------
(* saveNVState writes the file once in the life of a process, whatever the *)
(* FTL is doing.                                                           *)
saveNVState ==
    /\ Running /\ restarts < MaxRestarts /\ saveFile = NoSave
    /\ saveFile' = [addressMap |-> addressMap, used |-> used]
    /\ UNCHANGED <<vars, restarts, planeVars>>

(* tempMap[p]: the address the file maps to p, 0 when it maps none, the    *)
(* last one of the file when it maps two.                                  *)
tempMap(p) ==
    LET owners == {a \in Addr : saveFile.addressMap[a] = p}
    IN  IF owners = {} THEN {Addr0} ELSE owners

(* Mutant: the used table is not restored.                                 *)
loadNVStateWithoutUsed ==
    /\ saveFile # NoSave
    /\ addressMap' = saveFile.addressMap
    /\ used' = {}
    /\ \E owner \in [saveFile.used -> Addr \cup {Addr0}] :
          /\ \A p \in saveFile.used : owner[p] \in tempMap(p)
          /\ stored' = [p \in Pages |-> IF p \in saveFile.used THEN owner[p] ELSE Nobody]

(* Every used page is written with a FAST_WRITE of the address it belongs  *)
(* to; the planes of a new process are empty.                              *)
loadNVState ==
    /\ saveFile # NoSave
    /\ addressMap' = saveFile.addressMap
    /\ used' = saveFile.used
    /\ \E owner \in [saveFile.used -> Addr \cup {Addr0}] :
          /\ \A p \in saveFile.used : owner[p] \in tempMap(p)
          /\ stored' = [p \in Pages |-> IF p \in saveFile.used THEN owner[p] ELSE Nobody]

(* A file written between a refused write and its retry maps the address   *)
(* to a page that it does not have in use.                                 *)
FileIntact ==
    \A a \in Addr : saveFile.addressMap[a] \in saveFile.used \cup {NoPage}

Restart ==
    /\ restarts < MaxRestarts /\ restarts' = restarts + 1
    /\ NewProcess /\ loadNVState
    /\ intact' = (intact /\ FileIntact)
    /\ saveFile' = NoSave

-----------------------------------------------------------------------------
HostSteps ==
    Running /\ (\E a \in Addr : HostRead(a) \/ HostWrite(a)) /\ UNCHANGED stored

NvNext ==
    \/ /\ HostSteps \/ (Update /\ FastWrites) \/ \E d \in Dies : Pop(d) /\ PlaneWrites(d)
       /\ UNCHANGED <<nvVars, intact>>
    \/ saveNVState
    \/ Restart

NvSpec == NvInit /\ [][NvNext]_<<vars, nvVars, planeVars>>

(* The clock and the controller go on in every process.                    *)
FairNvSpec == NvSpec /\ Fairness

-----------------------------------------------------------------------------
(* What page p holds when the first n packets of a die's queue are done is *)
(* of address a.                                                           *)
HoldsAfter(q, n, p, a) ==
    LET Writes(i) == q[i].type = "WRITE" /\ q[i].page = p
    IN  \/ \E i \in 1 .. n : /\ Writes(i) /\ q[i].address = a
                             /\ \A j \in i + 1 .. n : ~Writes(j)
        \/ stored[p] = a /\ \A i \in 1 .. n : ~Writes(i)

(* Once the writes that are queued have been made, the page of an address  *)
(* holds that address's write and nobody else's: through rewritten and     *)
(* refused pages, pages that go from one address to another while writes   *)
(* and reads of them wait in the controller, and restarts, as long as no   *)
(* file was written between a refused write and its retry                  *)
(* (Ftl.cpp:697-733, 833-889, 1138-1223).                                  *)
MappedPageHoldsData ==
    intact => \A a \in Addr : Mapped(a) =>
        LET q == ctrlQueue[DieOf(addressMap[a])]
        IN  HoldsAfter(q, Len(q), addressMap[a], a)

(* A READ that waits in the controller finds its address's write in the    *)
(* page when it gets there, although the address may have been written     *)
(* again and the page given to another since (Ftl.cpp:641-648, 979-985).   *)
ReadsFindData ==
    intact => \A d \in Dies : \A n \in DOMAIN ctrlQueue[d] :
        ctrlQueue[d][n].type = "READ" =>
            HoldsAfter(ctrlQueue[d], n - 1, ctrlQueue[d][n].page, ctrlQueue[d][n].address)

(* No page is lost to a flash that is filled over several processes: one   *)
(* that is in use belongs to an address, whatever was saved.  And a mapped *)
(* page stays in use after a restart, too, from a file that has it in use. *)
UsedPagesAreMapped ==
    /\ used \subseteq {addressMap[a] : a \in {b \in Addr : Mapped(b)}}
    /\ intact => MappedPagesUsed
=============================================================================
