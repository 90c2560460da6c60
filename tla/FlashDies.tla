------------------------------ MODULE FlashDies ------------------------------
(***************************************************************************)
(* What the two ways of connecting a package share, with FRONT_BUFFER and  *)
(* CTRL_SCHEDULE off: the controller's queues, the owner of the channel,   *)
(* and the dies with the two registers of every plane (Controller.cpp,     *)
(* Channel.cpp, Die.cpp, Plane.cpp, Block.cpp).  Package moves whole       *)
(* packets between controller and dies; BufferedPackage moves them in      *)
(* pieces through a buffer.  Packages share nothing but the list of        *)
(* returned transactions, which every controller update empties.           *)
(*                                                                         *)
(* NVDIMM::update calls the FTL, the controller and the dies one after the *)
(* other on every cycle; turn says whose call is next.  The FTL is         *)
(* reduced to what it may hand the controller in one update: nothing, one  *)
(* command, or a DATA and WRITE pair.                                      *)
(***************************************************************************)
EXTENDS Integers, Sequences, FiniteSets, SequencesExt

CONSTANTS
    DIES_PER_PACKAGE, PLANES_PER_DIE,
    PageNums,               \* the pages of a plane, all in one block
    Data, NoData,           \* contents of a page; NoData of an erased one
    CTRL_READ_QUEUE_LENGTH,
    READ_CYCLES, WRITE_CYCLES, ERASE_CYCLES,
    GARBAGE_COLLECT,
    Commands                \* the commands the FTL gives

ASSUME FlashDiesAssumption ==
    /\ DIES_PER_PACKAGE \in Nat \ {0} /\ PLANES_PER_DIE \in Nat \ {0}
    /\ NoData \notin Data
    /\ CTRL_READ_QUEUE_LENGTH \in Nat
    /\ READ_CYCLES \in Nat /\ WRITE_CYCLES \in Nat /\ ERASE_CYCLES \in Nat
    /\ GARBAGE_COLLECT \in BOOLEAN
    /\ Commands \subseteq {"READ", "WRITE", "GC_READ", "GC_WRITE", "ERASE"}

Dies == 0 .. DIES_PER_PACKAGE - 1
Planes == 0 .. PLANES_PER_DIE - 1
Units == Dies \X Planes

VARIABLES
    turn,
    readQueues, die_pointer,            \* Controller
    outgoing, channelBeatsLeft, returnTransaction,
    sType, sender,                      \* Channel
    currentCommands, controlCyclesLeft, \* Die
    returnDataPackets,
    dataReg, cacheReg,                  \* Plane
    blocks,                             \* Block
    failed,                             \* why the process aborted, if it did
    answers                             \* the callbacks of the last step

controllerVars == <<readQueues, die_pointer, outgoing, channelBeatsLeft>>
channelVars == <<sType, sender>>
commandVars == <<currentCommands, controlCyclesLeft>>
planeVars == <<dataReg, cacheReg, blocks>>
diesVars == <<turn, controllerVars, returnTransaction, channelVars, commandVars,
              returnDataPackets, planeVars, failed, answers>>

-----------------------------------------------------------------------------
(* A ChannelPacket.  The data of a WRITE command is that of the DATA       *)
(* packet before it, kept for the properties only.                         *)
Packet(type, u, p, data) ==
    [type |-> type, die |-> u[1], plane |-> u[2], page |-> p, data |-> data]
Packets ==
    [type : {"DATA", "READ", "WRITE", "GC_READ", "GC_WRITE", "ERASE"},
     die : Dies, plane : Planes, page : PageNums, data : Data \cup {NoData}]
NoPacket == [type |-> "none"]
MaybePacket == Packets \cup {NoPacket}

UnitOf(pkt) == <<pkt.die, pkt.plane>>

FtlTurn == <<"ftl">>
ControllerTurn == <<"controller">>
DieTurn(d) == <<"die", d>>

(* Channel::sender while nobody holds the channel.                         *)
Nobody == -1

DiesInit ==
    /\ turn = FtlTurn
    /\ readQueues = [d \in Dies |-> <<>>] /\ die_pointer = 0
    /\ outgoing = NoPacket /\ channelBeatsLeft = 0
    /\ returnTransaction = <<>>
    /\ sType = "BUFFER" /\ sender = Nobody
    /\ currentCommands = [u \in Units |-> NoPacket]
    /\ controlCyclesLeft = [u \in Units |-> 0]
    /\ returnDataPackets = [d \in Dies |-> <<>>]
    /\ dataReg = [u \in Units |-> NoPacket]
    /\ cacheReg = [u \in Units |-> NoPacket]
    /\ blocks = [u \in Units |-> [p \in PageNums |-> NoData]]
    /\ failed = "no" /\ answers = {}

DiesTypeOK ==
    /\ readQueues \in [Dies -> Seq(Packets)] /\ die_pointer \in Dies
    /\ outgoing \in MaybePacket /\ channelBeatsLeft \in Nat
    /\ returnTransaction \in Seq(Packets)
    /\ sType \in {"CONTROLLER", "BUFFER"} /\ sender \in Dies \cup {Nobody}
    /\ currentCommands \in [Units -> MaybePacket]
    /\ controlCyclesLeft \in [Units -> Nat]
    /\ returnDataPackets \in [Dies -> Seq(Packets)]
    /\ dataReg \in [Units -> MaybePacket] /\ cacheReg \in [Units -> MaybePacket]
    /\ blocks \in [Units -> [PageNums -> Data \cup {NoData}]]

-----------------------------------------------------------------------------
(* What the FTL hands the controller: addPacket and checkQueueWrite.       *)
addPacket(pkt) ==
    /\ CTRL_READ_QUEUE_LENGTH = 0
         \/ Len(readQueues[pkt.die]) < CTRL_READ_QUEUE_LENGTH
    /\ readQueues' = [readQueues EXCEPT ![pkt.die] = Append(@, pkt)]

checkQueueWrite(d) ==
    CTRL_READ_QUEUE_LENGTH = 0 \/ Len(readQueues[d]) + 1 < CTRL_READ_QUEUE_LENGTH

addWrite(type, u, p, x) ==
    /\ checkQueueWrite(u[1])
    /\ readQueues' = [readQueues EXCEPT ![u[1]] =
                        @ \o <<Packet("DATA", u, p, x), Packet(type, u, p, x)>>]

FtlGives ==
    /\ \/ \E u \in Units, p \in PageNums :
            \/ \E type \in Commands \cap {"READ", "GC_READ", "ERASE"} :
                 addPacket(Packet(type, u, p, NoData))
            \/ \E type \in Commands \cap {"WRITE", "GC_WRITE"}, x \in Data :
                 addWrite(type, u, p, x)
       \/ UNCHANGED readQueues
    /\ answers' = {}
    /\ UNCHANGED <<die_pointer, outgoing, channelBeatsLeft, returnTransaction,
                   channelVars, commandVars, returnDataPackets, planeVars, failed>>

-----------------------------------------------------------------------------
(* The channel knows who holds it.  A die says 0 when the plane is idle,   *)
(* 2 when it is writing and can take data, 3 when it is idle and its cache *)
(* register is loaded, 1 when it can take nothing.                         *)
hasChannel(type, s) == sType = type /\ sender = s

isDieBusy(u) ==
    LET free == cacheReg[u] = NoPacket
    IN  IF currentCommands[u] = NoPacket THEN IF free THEN 0 ELSE 3
        ELSE IF currentCommands[u].type = "WRITE" /\ free THEN 2
        ELSE 1

-----------------------------------------------------------------------------
(* Die::receiveFromBuffer, with the plane's part of it.                    *)
Abort(why) ==
    failed' = why /\ UNCHANGED <<commandVars, planeVars>>

storeInData(pkt) ==
    LET u == UnitOf(pkt)
    IN  IF cacheReg[u] = NoPacket
        THEN /\ cacheReg' = [cacheReg EXCEPT ![u] = pkt]
             /\ UNCHANGED <<commandVars, dataReg, blocks, failed>>
        ELSE Abort("no register for write data")

StartCommand(pkt, cycles) ==
    /\ currentCommands' = [currentCommands EXCEPT ![UnitOf(pkt)] = pkt]
    /\ controlCyclesLeft' = [controlCyclesLeft EXCEPT ![UnitOf(pkt)] = cycles]

read(pkt) ==
    LET u == UnitOf(pkt)
        result == [pkt EXCEPT !.data = blocks[u][pkt.page]]
    IN  IF dataReg[u] = NoPacket
        THEN /\ StartCommand(result, READ_CYCLES)
             /\ dataReg' = [dataReg EXCEPT ![u] = result]
             /\ UNCHANGED <<cacheReg, blocks, failed>>
        ELSE Abort("no register for read data")

write(pkt) ==
    LET u == UnitOf(pkt)
    IN  IF cacheReg[u] # NoPacket
        THEN /\ StartCommand(pkt, WRITE_CYCLES)
             /\ dataReg' = [dataReg EXCEPT ![u] = cacheReg[u]]
             /\ cacheReg' = [cacheReg EXCEPT ![u] = NoPacket]
             /\ UNCHANGED <<blocks, failed>>
        ELSE Abort("write without data")

erase(pkt) ==
    /\ StartCommand(pkt, ERASE_CYCLES)
    /\ blocks' = [blocks EXCEPT ![UnitOf(pkt)] = [p \in PageNums |-> NoData]]
    /\ UNCHANGED <<dataReg, cacheReg, failed>>

receiveFromBuffer(pkt) ==
    IF pkt.type = "DATA" THEN storeInData(pkt)
    ELSE IF currentCommands[UnitOf(pkt)] # NoPacket THEN Abort("die is busy")
    ELSE \/ pkt.type \in {"READ", "GC_READ"} /\ read(pkt)
         \/ pkt.type \in {"WRITE", "GC_WRITE"} /\ write(pkt)
         \/ pkt.type = "ERASE" /\ erase(pkt)

-----------------------------------------------------------------------------
(* The first half of Controller::update looks for a packet from            *)
(* die_pointer on: placeable is the set of dies whose head can be placed.  *)
RotatedDie(k) == (die_pointer + k) % DIES_PER_PACKAGE

DiesWaiting == {d \in Dies : outgoing = NoPacket /\ readQueues[d] # <<>>}

FirstDie(placeable) ==
    LET turns == {k \in Dies : RotatedDie(k) \in placeable}
    IN  RotatedDie(CHOOSE k \in turns : \A j \in turns : k <= j)

(* Mutant: the pointer is not wrapped.                                     *)
PlacePacketWithoutWrap(placeable) ==
    IF placeable = {} THEN UNCHANGED <<readQueues, die_pointer>>
    ELSE /\ readQueues' = [readQueues EXCEPT ![FirstDie(placeable)] = Tail(@)]
         /\ die_pointer' = FirstDie(placeable) + 1

PlacePacket(placeable) ==
    IF placeable = {} THEN UNCHANGED <<readQueues, die_pointer>>
    ELSE /\ readQueues' = [readQueues EXCEPT ![FirstDie(placeable)] = Tail(@)]
         /\ die_pointer' = (FirstDie(placeable) + 1) % DIES_PER_PACKAGE

(* Its last act is to answer the reads that came back.                     *)
Answer(pkt) ==
    IF pkt.type = "READ"
    THEN [type |-> "READ", unit |-> UnitOf(pkt), page |-> pkt.page, data |-> pkt.data]
    ELSE [type |-> "WRITE", unit |-> UnitOf(pkt), page |-> pkt.page]

AnswerReads ==
    /\ answers' = {Answer(returnTransaction[i]) : i \in DOMAIN returnTransaction}
    /\ returnTransaction' = <<>>

(* Controller::receiveFromChannel forgets the page of a GC_READ.           *)
receiveFromChannel(pkt) ==
    returnTransaction' = IF pkt.type = "READ" THEN Append(returnTransaction, pkt)
                         ELSE returnTransaction

-----------------------------------------------------------------------------
(* The first half of Die::update: every plane whose command has run its    *)
(* cycles ends it; a READ stays while the cache register still holds an    *)
(* earlier one.                                                            *)
Expired(u) == currentCommands[u] # NoPacket /\ controlCyclesLeft[u] = 0
ExpiredIs(u, type) == Expired(u) /\ currentCommands[u].type = type

ReadEnds(u) == ExpiredIs(u, "READ") /\ cacheReg[u] = NoPacket
(* The queue of a die never holds more packets than the die has planes.    *)
GCReadEnds(u) ==
    ExpiredIs(u, "GC_READ") /\ Len(returnDataPackets[u[1]]) <= PLANES_PER_DIE

(* readFromData has no register to move the page to, or no page.           *)
NoPageToMove(u) ==
    GCReadEnds(u) /\ ~(cacheReg[u] = NoPacket /\ dataReg[u] # NoPacket)
(* Block::write refuses to write a page twice.                             *)
WrittenTwice(u) ==
    /\ ExpiredIs(u, "WRITE") /\ GARBAGE_COLLECT
    /\ blocks[u][currentCommands[u].page] # NoData

(* Mutant: a READ ends although the cache register is taken.               *)
EndsWithoutRoom(u) == Expired(u)

Ends(u) == Expired(u) /\ (currentCommands[u].type = "READ" => ReadEnds(u))
Fetches(u) == ReadEnds(u) \/ GCReadEnds(u)

On(d, u) == u[1] = d

CommandAfter(d, u) ==
    IF On(d, u) /\ Ends(u) THEN NoPacket ELSE currentCommands[u]

DataRegAfter(d, u) ==
    IF On(d, u) /\ (Fetches(u) \/ ExpiredIs(u, "WRITE")) THEN NoPacket ELSE dataReg[u]

CacheRegAfter(d, u) == IF On(d, u) /\ Fetches(u) THEN dataReg[u] ELSE cacheReg[u]

(* Mutant: the page is stored before its cycles have run.                  *)
BlockAfterAtOnce(d, u) ==
    IF On(d, u) /\ currentCommands[u] # NoPacket /\ currentCommands[u].type = "WRITE"
    THEN [blocks[u] EXCEPT ![currentCommands[u].page] = dataReg[u].data]
    ELSE blocks[u]

BlockAfter(d, u) ==
    IF On(d, u) /\ ExpiredIs(u, "WRITE")
    THEN [blocks[u] EXCEPT ![currentCommands[u].page] = dataReg[u].data]
    ELSE blocks[u]

(* The pages that join returnDataPackets, in the order of their planes.    *)
PlanesFetching(d) == {p \in Planes : Fetches(<<d, p>>)}
Fetched(d) ==
    LET Nth(i) == CHOOSE p \in PlanesFetching(d) :
                    Cardinality({q \in PlanesFetching(d) : q <= p}) = i
    IN  [i \in 1 .. Cardinality(PlanesFetching(d)) |-> dataReg[<<d, Nth(i)>>]]

ToReturn(d) == returnDataPackets[d] \o Fetched(d)

EndCommands(d) ==
    /\ failed' = IF \E u \in Units : On(d, u) /\ NoPageToMove(u)
                 THEN "no page to move to the cache register"
                 ELSE IF \E u \in Units : On(d, u) /\ WrittenTwice(u)
                 THEN "page written twice"
                 ELSE "no"
    /\ currentCommands' = [u \in Units |-> CommandAfter(d, u)]
    /\ controlCyclesLeft' =
         [u \in Units |-> IF On(d, u) /\ controlCyclesLeft[u] > 0
                          THEN controlCyclesLeft[u] - 1 ELSE controlCyclesLeft[u]]
    /\ dataReg' = [u \in Units |-> DataRegAfter(d, u)]
    /\ blocks' = [u \in Units |-> BlockAfter(d, u)]
    /\ answers' = {Answer(currentCommands[u]) :
                     u \in {v \in Units : On(d, v) /\ ExpiredIs(v, "WRITE")}}

(* The second half returns pages: none leaves the die, or the first one    *)
(* does and its register is free again (Plane::dataGone).                  *)
KeepPages(d) ==
    /\ returnDataPackets' = [returnDataPackets EXCEPT ![d] = ToReturn(d)]
    /\ cacheReg' = [u \in Units |-> CacheRegAfter(d, u)]

(* Mutant: dataGone is forgotten.                                          *)
ReleaseFirstPageKeepingRegister(d) ==
    /\ returnDataPackets' = [returnDataPackets EXCEPT ![d] = Tail(ToReturn(d))]
    /\ cacheReg' = [u \in Units |-> CacheRegAfter(d, u)]

ReleaseFirstPage(d) ==
    /\ returnDataPackets' = [returnDataPackets EXCEPT ![d] = Tail(ToReturn(d))]
    /\ cacheReg' = [u \in Units |-> IF u = UnitOf(Head(ToReturn(d))) THEN NoPacket
                                    ELSE CacheRegAfter(d, u)]

-----------------------------------------------------------------------------
(* What the properties of both modules need of a package.                  *)

(* None of the aborts and exits of Plane.cpp, Die.cpp, Block.cpp and, with *)
(* a buffer, Channel.cpp is reached: what was asked of the die or of the   *)
(* buffer before a packet is sent still holds when it arrives              *)
(* (Channel.cpp:63-70, 126-132, Buffer.cpp:372-376, Die.cpp:134-138,       *)
(* Plane.cpp:56-65, 79-88, 109-118, 123-130, Block.cpp:62-67).             *)
NeverAborts == failed = "no"

If(condition, pkt) == IF condition THEN <<pkt>> ELSE <<>>
FromPlane(u, s) == FlattenSeq([i \in DOMAIN s |-> If(UnitOf(s[i]) = u, s[i])])
CommandOf(u, pkt) == UnitOf(pkt) = u /\ pkt.type \in {"READ", "WRITE", "ERASE"}
CommandsOf(u, s) == FlattenSeq([i \in DOMAIN s |-> If(CommandOf(u, s[i]), s[i])])
Op(pkt) ==
    CASE pkt.type = "READ" -> [type |-> "READ", page |-> pkt.page]
      [] pkt.type = "WRITE" -> [type |-> "WRITE", page |-> pkt.page, data |-> pkt.data]
      [] pkt.type = "ERASE" -> [type |-> "ERASE"]
Page(pkt) == [page |-> pkt.page, data |-> pkt.data]
Map(F(_), s) == [i \in DOMAIN s |-> F(s[i])]
Running(u, type) == currentCommands[u] # NoPacket /\ currentCommands[u].type = type
OnTheWay(u) == If(outgoing # NoPacket /\ CommandOf(u, outgoing), outgoing)

Answered(u, type) == \E a \in answers : a.unit = u /\ a.type = type
=============================================================================
