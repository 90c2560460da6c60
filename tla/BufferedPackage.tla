--------------------------- MODULE BufferedPackage ---------------------------
(***************************************************************************)
(* A package with a buffer between channel and dies (BUFFERED on).  The    *)
(* controller sends a packet in pieces of CHANNEL_WIDTH bits, the buffer   *)
(* latches it into the die in pieces of DEVICE_WIDTH; pages come back the  *)
(* same way.  The buffer never sees a packet, only its type, plane and     *)
(* bits: the packet itself waits in the controller's pendingPackets or the *)
(* die's pendingDataPackets until the buffer reports its last bit.         *)
(*                                                                         *)
(* The clock domains of NVDIMM::update make some number of controller      *)
(* updates and then as many channel and buffer updates in every cycle.     *)
(***************************************************************************)
EXTENDS FlashDies

CONSTANTS
    CHANNEL_WIDTH, DEVICE_WIDTH,
    COMMAND_LENGTH, PAGE_LENGTH,        \* in bits; PAGE_LENGTH is NV_PAGE_SIZE * 8
    IN_BUFFER_SIZE, OUT_BUFFER_SIZE,    \* in bits; 0 for no limit
    BUFFER_LOOKUP_CYCLES,
    DEVICE_CYCLES,      \* updates of the buffer, or of the die, per device beat
    CHANNEL_UPDATES,    \* how many channel updates a cycle may make
    CutThroughModes     \* the values of CUT_THROUGH to be considered

BeatsOf(bits, width) == (bits + width - 1) \div width

(* The code checks none of these.  A device beat must outlast the channel  *)
(* updates of a cycle, or the buffer ends a packet before the controller   *)
(* has put it in pendingPackets.  A buffer must hold a page, or a page     *)
(* that is stored before it is forwarded never fits (and IN_BUFFER_SIZE    *)
(* minus its size wraps).  A page takes more than one device beat, or the  *)
(* die is never told that it is loaded: Buffer::sendPiece reports only a   *)
(* beat that joins an earlier one.  Cut-through bookkeeping loses the bits *)
(* by which the pieces exceed a packet.                                    *)
ASSUME BufferedPackageAssumption ==
    /\ CHANNEL_WIDTH \in Nat \ {0} /\ DEVICE_WIDTH \in Nat \ {0}
    /\ COMMAND_LENGTH \in Nat \ {0} /\ PAGE_LENGTH \in Nat \ {0}
    /\ IN_BUFFER_SIZE \in Nat /\ OUT_BUFFER_SIZE \in Nat
    /\ \A length \in {COMMAND_LENGTH, PAGE_LENGTH} :
         IN_BUFFER_SIZE = 0
           \/ IN_BUFFER_SIZE >= CHANNEL_WIDTH * BeatsOf(length, CHANNEL_WIDTH)
    /\ OUT_BUFFER_SIZE = 0
         \/ OUT_BUFFER_SIZE >= DEVICE_WIDTH * BeatsOf(PAGE_LENGTH, DEVICE_WIDTH)
    /\ BUFFER_LOOKUP_CYCLES \in Nat
    /\ DEVICE_CYCLES \in Nat \ {0}
    /\ \A n \in CHANNEL_UPDATES : n \in Nat /\ n < DEVICE_CYCLES
    /\ CutThroughModes \subseteq BOOLEAN
    /\ \A width \in {CHANNEL_WIDTH, DEVICE_WIDTH} : PAGE_LENGTH % width = 0
    /\ PAGE_LENGTH > DEVICE_WIDTH
    /\ TRUE \in CutThroughModes => COMMAND_LENGTH % CHANNEL_WIDTH = 0

VARIABLES
    CUT_THROUGH,                            \* a parameter of the run
    controllerUpdates, channelUpdates,      \* NVDIMM: left in this cycle
    paused, pendingPackets,                 \* Controller
    piece,                                  \* Channel
    inData, inDataSize, inDataLeft,         \* Buffer, towards the dies
    cyclesLeft, waiting, lookup,
    outData, outDataSize, outDataLeft,      \* Buffer, towards the controller
    sendingUnit,
    pendingDataPackets,                     \* Die
    dataCyclesLeft, deviceBeatsLeft

clockVars == <<controllerUpdates, channelUpdates>>
sendVars == <<paused, pendingPackets>>
latchVars == <<inDataLeft, cyclesLeft, waiting, lookup>>
inVars == <<inData, inDataSize, latchVars>>
outVars == <<outData, outDataSize>>
driveVars == <<outDataLeft, sendingUnit>>
returnVars == <<pendingDataPackets, dataCyclesLeft, deviceBeatsLeft>>
vars == <<diesVars, CUT_THROUGH, clockVars, sendVars, piece, inVars, outVars,
          driveVars, returnVars>>

ChannelTurn == <<"channel">>
BufferTurn(d) == <<"buffer", d>>
Turns == {FtlTurn, ControllerTurn, ChannelTurn}
           \cup {BufferTurn(d) : d \in Dies} \cup {DieTurn(d) : d \in Dies}

(* The bits a packet has; a piece on the channel, which is busy until the  *)
(* channel's next update; the die whose command is looked up.              *)
Length(type) == IF type = "DATA" THEN PAGE_LENGTH ELSE COMMAND_LENGTH
Piece(type, u) == [type |-> type, unit |-> u]
NoPiece == [type |-> "none"]
busy == piece # NoPiece
NoLookup == [die |-> -1, left |-> 0]
NoUnit == <<-1, -1>>

Init ==
    /\ DiesInit
    /\ CUT_THROUGH \in CutThroughModes
    /\ controllerUpdates = 0 /\ channelUpdates = 0
    /\ paused = FALSE /\ pendingPackets = <<>>
    /\ piece = NoPiece
    /\ inData = [d \in Dies |-> <<>>] /\ inDataSize = [d \in Dies |-> 0]
    /\ inDataLeft = [d \in Dies |-> 0] /\ cyclesLeft = [d \in Dies |-> 0]
    /\ waiting = [d \in Dies |-> FALSE] /\ lookup = NoLookup
    /\ outData = [d \in Dies |-> <<>>] /\ outDataSize = [d \in Dies |-> 0]
    /\ outDataLeft = [d \in Dies |-> 0] /\ sendingUnit = NoUnit
    /\ pendingDataPackets = [d \in Dies |-> <<>>]
    /\ dataCyclesLeft = [d \in Dies |-> 0] /\ deviceBeatsLeft = [d \in Dies |-> 0]

-----------------------------------------------------------------------------
(* A cycle starts with the FTL; n is what the clock counters allow.        *)
FtlUpdate ==
    /\ turn = FtlTurn /\ failed = "no"
    /\ \E n \in CHANNEL_UPDATES :
         /\ controllerUpdates' = n /\ channelUpdates' = n
         /\ turn' = IF n = 0 THEN DieTurn(0) ELSE ControllerTurn
    /\ FtlGives
    /\ UNCHANGED <<CUT_THROUGH, sendVars, piece, inVars, outVars, driveVars, returnVars>>

-----------------------------------------------------------------------------
(* The pieces a side holds for one die: the bits join the last packet if   *)
(* it is of the same type and plane and not complete.                      *)
(* Mutant: bits join a complete packet, too.                               *)
AddBitsToLast(s, type, plane, bits) ==
    LET last == s[Len(s)]
    IN  IF s # <<>> /\ last.type = type /\ last.plane = plane
        THEN [s EXCEPT ![Len(s)].number = @ + bits]
        ELSE Append(s, [type |-> type, plane |-> plane, number |-> bits])

AddBits(s, type, plane, bits) ==
    LET last == s[Len(s)]
    IN  IF s # <<>> /\ last.type = type /\ last.plane = plane /\ last.number < Length(type)
        THEN [s EXCEPT ![Len(s)].number = @ + bits]
        ELSE Append(s, [type |-> type, plane |-> plane, number |-> bits])

InHasRoom(d) == IN_BUFFER_SIZE = 0 \/ inDataSize[d] <= IN_BUFFER_SIZE - CHANNEL_WIDTH
OutHasRoom(d) == OUT_BUFFER_SIZE = 0 \/ outDataSize[d] <= OUT_BUFFER_SIZE - DEVICE_WIDTH

PacketSize(type) == CHANNEL_WIDTH * BeatsOf(Length(type), CHANNEL_WIDTH)

(* Mutant: a die that cannot take its command yet does not hold back more. *)
isFullUnlessRoom(type, d) ==
    IF CUT_THROUGH THEN ~InHasRoom(d)
    ELSE IN_BUFFER_SIZE # 0 /\ inDataSize[d] > IN_BUFFER_SIZE - CHANNEL_WIDTH

isFull(type, d) ==
    /\ IN_BUFFER_SIZE # 0
    /\ IF CUT_THROUGH THEN ~InHasRoom(d) \/ waiting[d]
       ELSE inDataSize[d] > IN_BUFFER_SIZE - PacketSize(type)

-----------------------------------------------------------------------------
(* Controller::update.  Any packet can be placed once the channel is free: *)
(* the buffer, not the controller, waits for the die.                      *)
ChannelFree == sender = Nobody /\ ~busy
Placeable == IF ChannelFree THEN DiesWaiting ELSE {}

OnChannel ==
    IF Placeable = {} THEN outgoing ELSE Head(readQueues[FirstDie(Placeable)])
AllBeats == BeatsOf(Length(OnChannel.type), CHANNEL_WIDTH)
BeatsLeft == IF Placeable = {} THEN channelBeatsLeft ELSE AllBeats

(* A packet the buffer had no room for has given the channel up; it gets   *)
(* it back when there is room.                                             *)
Resumes == paused /\ ~isFull(OnChannel.type, OnChannel.die) /\ ChannelFree
HasChannelNow == Placeable # {} \/ Resumes \/ (~paused /\ hasChannel("CONTROLLER", 0))
MustAsk == CUT_THROUGH \/ BeatsLeft = AllBeats

NothingMoves ==
    /\ OnChannel = NoPacket \/ ~HasChannelNow
    /\ UNCHANGED <<outgoing, channelBeatsLeft, channelVars, sendVars, piece>>

LastPieceSent ==
    /\ BeatsLeft = 0
    /\ sType' = "CONTROLLER" /\ sender' = Nobody
    /\ pendingPackets' = Append(pendingPackets, OnChannel)
    /\ outgoing' = NoPacket
    /\ UNCHANGED <<channelBeatsLeft, paused, piece>>

PieceWaits ==
    /\ BeatsLeft > 0 /\ busy
    /\ UNCHANGED <<outgoing, channelBeatsLeft, channelVars, sendVars, piece>>

(* Mutant: a paused controller keeps the channel.                          *)
PauseKeepingChannel ==
    /\ BeatsLeft > 0 /\ ~busy
    /\ MustAsk /\ isFull(OnChannel.type, OnChannel.die)
    /\ sType' = "CONTROLLER" /\ sender' = 0
    /\ paused' = TRUE /\ outgoing' = OnChannel /\ channelBeatsLeft' = BeatsLeft
    /\ UNCHANGED <<pendingPackets, piece>>

Pause ==
    /\ BeatsLeft > 0 /\ ~busy
    /\ MustAsk /\ isFull(OnChannel.type, OnChannel.die)
    /\ sType' = "CONTROLLER" /\ sender' = Nobody
    /\ paused' = TRUE /\ outgoing' = OnChannel /\ channelBeatsLeft' = BeatsLeft
    /\ UNCHANGED <<pendingPackets, piece>>

SendPiece ==
    /\ BeatsLeft > 0 /\ ~busy
    /\ ~(MustAsk /\ isFull(OnChannel.type, OnChannel.die))
    /\ sType' = "CONTROLLER" /\ sender' = 0
    /\ piece' = Piece(OnChannel.type, UnitOf(OnChannel))
    /\ paused' = FALSE /\ outgoing' = OnChannel /\ channelBeatsLeft' = BeatsLeft - 1
    /\ UNCHANGED pendingPackets

ControllerUpdate ==
    /\ turn = ControllerTurn /\ failed = "no"
    /\ controllerUpdates' = controllerUpdates - 1
    /\ turn' = IF controllerUpdates = 1 THEN ChannelTurn ELSE ControllerTurn
    /\ PlacePacket(Placeable)
    /\ \/ NothingMoves
       \/ /\ OnChannel # NoPacket /\ HasChannelNow
          /\ LastPieceSent \/ PieceWaits \/ Pause \/ SendPiece
    /\ AnswerReads
    /\ UNCHANGED <<CUT_THROUGH, channelUpdates, inVars, outVars, driveVars, returnVars,
                   commandVars, planeVars, returnDataPackets, failed>>

-----------------------------------------------------------------------------
(* Channel::update: a piece of the controller reaches the buffer.          *)
ChannelUpdate ==
    /\ turn = ChannelTurn /\ failed = "no"
    /\ turn' = BufferTurn(0)
    /\ piece' = NoPiece
    /\ answers' = {}
    /\ IF busy /\ sType = "CONTROLLER"
       THEN LET d == piece.unit[1]
            IN  IF InHasRoom(d)
                THEN /\ inData' = [inData EXCEPT ![d] =
                                     AddBits(@, piece.type, piece.unit[2], CHANNEL_WIDTH)]
                     /\ inDataSize' = [inDataSize EXCEPT ![d] = @ + CHANNEL_WIDTH]
                     /\ UNCHANGED failed
                ELSE /\ failed' = "data pushed into a full buffer"
                     /\ UNCHANGED <<inData, inDataSize>>
       ELSE UNCHANGED <<inData, inDataSize, failed>>
    /\ UNCHANGED <<CUT_THROUGH, clockVars, sendVars, latchVars, outVars, driveVars, returnVars,
                   controllerVars, returnTransaction, channelVars, commandVars,
                   planeVars, returnDataPackets>>

-----------------------------------------------------------------------------
(* Buffer::update, towards the die.  A packet is latched once enough of it *)
(* is there: a command when it is complete and, with                       *)
(* BUFFER_LOOKUP_CYCLES, looked up, one die at a time; a page when its     *)
(* first beat is there if it may cut through, else when it is complete.    *)
InFront(d) == Head(inData[d])
Unstarted(d) == inDataLeft[d] = 0 /\ ~waiting[d]
IsData(d) == InFront(d).type = "DATA"
FrontLength(d) == Length(InFront(d).type)

EnoughIn(d) ==
    IF Unstarted(d)
    THEN InFront(d).number >= IF IsData(d) /\ CUT_THROUGH THEN DEVICE_WIDTH
                              ELSE FrontLength(d)
    ELSE \/ InFront(d).number >= FrontLength(d) - inDataLeft[d] + DEVICE_WIDTH
         \/ InFront(d).number >= FrontLength(d)

(* Controller::bufferDone looks for the packet that has arrived; a type    *)
(* and its data are known to the controller only.                          *)
(* Mutant: the last match is taken, not the first.                         *)
bufferDoneLast(u) ==
    LET matching == {i \in DOMAIN pendingPackets : UnitOf(pendingPackets[i]) = u}
    IN  IF matching = {}
        THEN UNCHANGED <<pendingPackets, commandVars, planeVars, failed>>
        ELSE LET i == CHOOSE j \in matching : \A k \in matching : j >= k
             IN  /\ pendingPackets' = SubSeq(pendingPackets, 1, i - 1)
                        \o SubSeq(pendingPackets, i + 1, Len(pendingPackets))
                 /\ receiveFromBuffer(pendingPackets[i])

bufferDone(u) ==
    LET matching == {i \in DOMAIN pendingPackets : UnitOf(pendingPackets[i]) = u}
    IN  IF matching = {}
        THEN UNCHANGED <<pendingPackets, commandVars, planeVars, failed>>
        ELSE LET i == CHOOSE j \in matching : \A k \in matching : j <= k
             IN  /\ pendingPackets' = SubSeq(pendingPackets, 1, i - 1)
                        \o SubSeq(pendingPackets, i + 1, Len(pendingPackets))
                 /\ receiveFromBuffer(pendingPackets[i])

(* A die that sends a page to the buffer takes nothing for an idle plane.  *)
sending(d) == deviceBeatsLeft[d] > 0
busyCode(u) ==
    IF currentCommands[u] = NoPacket /\ sending(u[1]) THEN 1 ELSE isDieBusy(u)

(* Mutant: data does not wait for the cache register.                      *)
AcceptsAnyData(d) ==
    LET code == busyCode(<<d, InFront(d).plane>>)
    IN  code = 0 \/ (IsData(d) /\ code \in {2, 3}) \/ (~IsData(d) /\ code = 3)

Accepts(d) ==
    LET code == busyCode(<<d, InFront(d).plane>>)
    IN  code = 0 \/ (IsData(d) /\ code = 2) \/ (~IsData(d) /\ code = 3)

(* Mutant: the last packet is not taken off.                               *)
TakeOffUnlessAll(size, bits) == IF size > bits THEN size - bits ELSE size

TakeOff(size, bits) == IF size >= bits THEN size - bits ELSE 0

(* processInData, for a packet with left bits to latch and cycles to the   *)
(* end of its device beat.  (cyclesLeft of a packet that is latched        *)
(* completely is never read; it is 0 here.)                                *)
processInData(d, left, cycles) ==
    LET beatEnds == cycles <= 1
        bits == IF ~beatEnds THEN 0
                ELSE IF left >= DEVICE_WIDTH THEN DEVICE_WIDTH ELSE left
        complete == left = bits
        sizeNow == IF CUT_THROUGH THEN inDataSize[d] - bits ELSE inDataSize[d]
    IN  /\ inDataLeft' = [inDataLeft EXCEPT ![d] = left - bits]
        /\ cyclesLeft' = [cyclesLeft EXCEPT ![d] =
                            IF complete THEN 0
                            ELSE IF beatEnds THEN DEVICE_CYCLES ELSE cycles - 1]
        /\ waiting' = [waiting EXCEPT ![d] = complete /\ ~Accepts(d)]
        /\ IF complete /\ Accepts(d)
           THEN /\ inData' = [inData EXCEPT ![d] = Tail(@)]
                /\ inDataSize' = [inDataSize EXCEPT ![d] =
                     IF CUT_THROUGH THEN sizeNow
                     ELSE TakeOff(sizeNow, PacketSize(InFront(d).type))]
                /\ bufferDone(<<d, InFront(d).plane>>)
           ELSE /\ inDataSize' = [inDataSize EXCEPT ![d] = sizeNow]
                /\ UNCHANGED <<inData, pendingPackets, commandVars, planeVars, failed>>

MayLatch(d) == inData[d] # <<>> /\ EnoughIn(d)
NeedsLookup(d) == Unstarted(d) /\ ~IsData(d) /\ BUFFER_LOOKUP_CYCLES # 0
LookupEnds(d) == lookup.die = d /\ lookup.left = 1

InputWaits(d) ==
    /\ ~MayLatch(d)
    /\ UNCHANGED <<inVars, pendingPackets, commandVars, planeVars, failed>>

LookUp(d) ==
    /\ MayLatch(d) /\ NeedsLookup(d) /\ ~LookupEnds(d)
    /\ lookup' = IF lookup = NoLookup THEN [die |-> d, left |-> BUFFER_LOOKUP_CYCLES]
                 ELSE IF lookup.die = d THEN [lookup EXCEPT !.left = @ - 1]
                 ELSE lookup
    /\ UNCHANGED <<inData, inDataSize, inDataLeft, cyclesLeft, waiting,
                   pendingPackets, commandVars, planeVars, failed>>

StartPacket(d) ==
    /\ MayLatch(d) /\ Unstarted(d)
    /\ NeedsLookup(d) => LookupEnds(d)
    /\ lookup' = IF NeedsLookup(d) THEN NoLookup ELSE lookup
    /\ processInData(d, FrontLength(d), DEVICE_CYCLES)

ContinuePacket(d) ==
    /\ MayLatch(d) /\ ~Unstarted(d)
    /\ processInData(d, inDataLeft[d], cyclesLeft[d])
    /\ UNCHANGED lookup

TowardsDie(d) == InputWaits(d) \/ LookUp(d) \/ StartPacket(d) \/ ContinuePacket(d)

-----------------------------------------------------------------------------
(* Buffer::update, towards the controller: take the channel for the first  *)
(* page of the die, send its pieces, and give the channel up one update    *)
(* after the last.  (sendingDie and sendingPlane are not read when the     *)
(* buffer does not hold the channel; they are NoUnit here.)                *)
OutFront(d) == Head(outData[d])
OutUnit(d) == <<d, OutFront(d).plane>>
OutReady(d) ==
    /\ outData[d] # <<>>
    /\ OutFront(d).number >= IF CUT_THROUGH THEN CHANNEL_WIDTH ELSE PAGE_LENGTH
Sends(d) == hasChannel("BUFFER", 0) /\ sendingUnit = OutUnit(d)
BitsToSend(d) == IF Sends(d) THEN outDataLeft[d] ELSE PAGE_LENGTH

EnoughOut(d) ==
    \/ OutFront(d).number >= PAGE_LENGTH - BitsToSend(d) + CHANNEL_WIDTH
    \/ OutFront(d).number >= PAGE_LENGTH

MayDrive(d) == OutReady(d) /\ ~busy /\ (sender = Nobody \/ Sends(d)) /\ EnoughOut(d)

OutputWaits(d) ==
    /\ ~MayDrive(d)
    /\ UNCHANGED <<outVars, driveVars, channelVars, piece, pendingDataPackets,
                   returnTransaction>>

SendPageBits(d) ==
    LET bits == IF BitsToSend(d) >= CHANNEL_WIDTH THEN CHANNEL_WIDTH ELSE BitsToSend(d)
    IN  /\ MayDrive(d) /\ BitsToSend(d) > 0
        /\ sType' = "BUFFER" /\ sender' = 0 /\ sendingUnit' = OutUnit(d)
        /\ piece' = Piece("READ", OutUnit(d))
        /\ outDataLeft' = [outDataLeft EXCEPT ![d] = BitsToSend(d) - bits]
        /\ outDataSize' = [outDataSize EXCEPT ![d] = IF CUT_THROUGH THEN @ - bits ELSE @]
        /\ UNCHANGED <<outData, pendingDataPackets, returnTransaction>>

(* Die::bufferDone hands the controller the page if it is of this plane.   *)
PageArrived(d) ==
    LET arrives == pendingDataPackets[d] # <<>>
                     /\ Head(pendingDataPackets[d]).plane = OutFront(d).plane
    IN  /\ MayDrive(d) /\ BitsToSend(d) = 0
        /\ IF arrives
           THEN /\ receiveFromChannel(Head(pendingDataPackets[d]))
                /\ pendingDataPackets' = [pendingDataPackets EXCEPT ![d] = Tail(@)]
           ELSE UNCHANGED <<returnTransaction, pendingDataPackets>>
        /\ outData' = [outData EXCEPT ![d] = Tail(@)]
        /\ outDataSize' = [outDataSize EXCEPT ![d] =
             IF CUT_THROUGH THEN @
             ELSE TakeOff(@, CHANNEL_WIDTH * BeatsOf(PAGE_LENGTH, CHANNEL_WIDTH))]
        /\ sender' = Nobody /\ sendingUnit' = NoUnit
        /\ UNCHANGED <<sType, piece, outDataLeft>>

TowardsController(d) == OutputWaits(d) \/ SendPageBits(d) \/ PageArrived(d)

(* One round of the loop of Buffer::update over the dies.                  *)
BufferUpdate(d) ==
    /\ turn = BufferTurn(d) /\ failed = "no"
    /\ IF d < DIES_PER_PACKAGE - 1
       THEN turn' = BufferTurn(d + 1) /\ UNCHANGED channelUpdates
       ELSE /\ channelUpdates' = channelUpdates - 1
            /\ turn' = IF channelUpdates = 1 THEN DieTurn(0) ELSE ChannelTurn
    /\ TowardsDie(d)
    /\ TowardsController(d)
    /\ answers' = {}
    /\ UNCHANGED <<CUT_THROUGH, controllerUpdates, paused, controllerVars,
                   returnDataPackets, dataCyclesLeft, deviceBeatsLeft>>

-----------------------------------------------------------------------------
(* Die::update moves the first page to the buffer, beat by beat.  It waits *)
(* with a page of a plane that could start a command while the buffer      *)
(* still holds an earlier page of that plane.                              *)
dataReady(d, plane) == outData[d] # <<>> /\ OutFront(d).plane = plane

(* The cycles to the next beat, and the beats left, of the page to return. *)
PageStarts(d) ==
    /\ ToReturn(d) # <<>> /\ ~sending(d)
    /\ LET page == Head(ToReturn(d))
       IN  ~dataReady(d, page.plane) \/ CommandAfter(d, UnitOf(page)) # NoPacket
CyclesToBeat(d) == IF PageStarts(d) THEN DEVICE_CYCLES ELSE dataCyclesLeft[d]
BeatsToSend(d) ==
    IF PageStarts(d) THEN BeatsOf(PAGE_LENGTH, DEVICE_WIDTH) ELSE deviceBeatsLeft[d]

PageWaits(d) ==
    /\ \/ ToReturn(d) = <<>>
       \/ BeatsToSend(d) = 0
       \/ CyclesToBeat(d) = 0 /\ ~OutHasRoom(d)
    /\ KeepPages(d)
    /\ UNCHANGED <<outVars, returnVars>>

BeatRuns(d) ==
    /\ ToReturn(d) # <<>> /\ BeatsToSend(d) > 0 /\ CyclesToBeat(d) > 0
    /\ dataCyclesLeft' = [dataCyclesLeft EXCEPT ![d] = CyclesToBeat(d) - 1]
    /\ deviceBeatsLeft' = [deviceBeatsLeft EXCEPT ![d] = BeatsToSend(d)]
    /\ KeepPages(d)
    /\ UNCHANGED <<outVars, pendingDataPackets>>

(* Mutant: one bit too many is waited for.                                 *)
LoadedPast(part) == part.number > PAGE_LENGTH

Loaded(part) == part.number >= PAGE_LENGTH

(* The beat that completes the page frees the register (bufferLoaded).     *)
BeatEnds(d) ==
    LET page == Head(ToReturn(d))
        data == AddBits(outData[d], "DATA", page.plane, DEVICE_WIDTH)
        loaded == Loaded(data[Len(data)])
    IN  /\ ToReturn(d) # <<>> /\ BeatsToSend(d) > 0 /\ CyclesToBeat(d) = 0
        /\ OutHasRoom(d)
        /\ outData' = [outData EXCEPT ![d] = data]
        /\ outDataSize' = [outDataSize EXCEPT ![d] = @ + DEVICE_WIDTH]
        /\ deviceBeatsLeft' = [deviceBeatsLeft EXCEPT ![d] = @ - 1]
        /\ dataCyclesLeft' = [dataCyclesLeft EXCEPT ![d] =
                                IF loaded THEN 0 ELSE DEVICE_CYCLES - 1]
        /\ IF loaded
           THEN /\ pendingDataPackets' = [pendingDataPackets EXCEPT ![d] = Append(@, page)]
                /\ ReleaseFirstPage(d)
           ELSE KeepPages(d) /\ UNCHANGED pendingDataPackets

DieUpdate(d) ==
    /\ turn = DieTurn(d) /\ failed = "no"
    /\ turn' = IF d = DIES_PER_PACKAGE - 1 THEN FtlTurn ELSE DieTurn(d + 1)
    /\ EndCommands(d)
    /\ PageWaits(d) \/ BeatRuns(d) \/ BeatEnds(d)
    /\ UNCHANGED <<CUT_THROUGH, clockVars, controllerVars, returnTransaction, channelVars,
                   sendVars, piece, inVars, driveVars>>

Next ==
    \/ FtlUpdate \/ ControllerUpdate \/ ChannelUpdate
    \/ \E d \in Dies : BufferUpdate(d) \/ DieUpdate(d)

Spec == Init /\ [][Next]_vars

(* NVDIMM::update makes all the calls of a cycle, cycle after cycle.       *)
FairSpec == Spec /\ WF_vars(Next)

-----------------------------------------------------------------------------
(* Type invariant.                                                         *)
Parts == [type : {"DATA", "READ", "WRITE", "GC_READ", "GC_WRITE", "ERASE"},
          plane : Planes, number : Nat]
TypeOK ==
    /\ DiesTypeOK /\ turn \in Turns /\ CUT_THROUGH \in CutThroughModes
    /\ controllerUpdates \in Nat /\ channelUpdates \in Nat
    /\ paused \in BOOLEAN /\ pendingPackets \in Seq(Packets)
    /\ piece \in [type : {"DATA", "READ", "WRITE", "GC_READ", "GC_WRITE", "ERASE"},
                  unit : Units] \cup {NoPiece}
    /\ inData \in [Dies -> Seq(Parts)] /\ outData \in [Dies -> Seq(Parts)]
    /\ \A f \in {inDataSize, inDataLeft, cyclesLeft, outDataSize, outDataLeft,
                 dataCyclesLeft, deviceBeatsLeft} : f \in [Dies -> Nat]
    /\ waiting \in [Dies -> BOOLEAN]
    /\ lookup \in [die : Dies, left : 1 .. BUFFER_LOOKUP_CYCLES] \cup {NoLookup}
    /\ sendingUnit \in Units \cup {NoUnit}
    /\ pendingDataPackets \in [Dies -> Seq(Packets)]

(* The buffer knows the packets only by type, plane and bits.  For every   *)
(* die it has them in the order in which the controller keeps or sends     *)
(* them, and no more than the newest is missing or incomplete: so the      *)
(* packet that bufferDone picks by its plane is the one the buffer means   *)
(* (Buffer.cpp:376, Controller.cpp:745-757).                               *)
OfDie(d, s) == FlattenSeq([i \in DOMAIN s |-> If(s[i].die = d, s[i])])
ControllerHas(d) ==
    OfDie(d, pendingPackets) \o If(outgoing # NoPacket /\ outgoing.die = d, outgoing)
BufferMatchesController ==
    \A d \in Dies :
        /\ Len(inData[d]) <= Len(ControllerHas(d))
        /\ Len(inData[d]) >= Len(ControllerHas(d)) - 1
        /\ \A i \in DOMAIN inData[d] :
             /\ inData[d][i].type = ControllerHas(d)[i].type
             /\ inData[d][i].plane = ControllerHas(d)[i].plane
             /\ i < Len(inData[d]) => inData[d][i].number >= Length(inData[d][i].type)

(* The same towards the controller: the pages the die has given away are   *)
(* the complete pages of the buffer, in their order, so that no page is    *)
(* "for the wrong plane"; behind them is at most the page that the die is  *)
(* sending (Die.cpp:321-345, Buffer.cpp:456).                              *)
BufferMatchesDie ==
    \A d \in Dies :
        LET whole == Len(pendingDataPackets[d])
        IN  /\ Len(outData[d]) \in {whole, whole + 1}
            /\ \A i \in 1 .. whole :
                 /\ outData[d][i].number >= PAGE_LENGTH
                 /\ outData[d][i].plane = pendingDataPackets[d][i].plane
            /\ Len(outData[d]) = whole + 1 =>
                 /\ sending(d)
                 /\ outData[d][whole + 1].number < PAGE_LENGTH
                 /\ outData[d][whole + 1].plane = Head(returnDataPackets[d]).plane

(* The sizes that decide whether a buffer is full are those of what it     *)
(* holds: nothing leaks, and nothing is taken off twice (Buffer.cpp:95-118,*)
(* 130-148, 345-363, 377-401, 423-438, 445-455).                           *)
BitsIn(s) ==
    LET sum[i \in 0 .. Len(s)] == IF i = 0 THEN 0 ELSE sum[i - 1] + s[i].number
    IN  sum[Len(s)]
LatchedBits(d) ==
    IF inData[d] = <<>> \/ Unstarted(d) THEN 0 ELSE FrontLength(d) - inDataLeft[d]
SentBits(d) == IF outData[d] # <<>> /\ Sends(d) THEN PAGE_LENGTH - outDataLeft[d] ELSE 0
SizesExact ==
    \A d \in Dies :
        /\ inDataSize[d] = BitsIn(inData[d]) - (IF CUT_THROUGH THEN LatchedBits(d) ELSE 0)
        /\ outDataSize[d] = BitsIn(outData[d]) - (IF CUT_THROUGH THEN SentBits(d) ELSE 0)

(* The channel has one owner: the controller while a packet of its own is  *)
(* on it and not paused, the buffer while it sends the first page of a     *)
(* die.  A paused controller has given it up, so that pages can leave and  *)
(* make room for what it wants to send (Controller.cpp:608-652,            *)
(* Buffer.cpp:308-326, 457).                                               *)
ChannelOwned ==
    /\ (outgoing # NoPacket /\ ~paused) <=> hasChannel("CONTROLLER", 0)
    /\ hasChannel("BUFFER", 0) <=> sendingUnit # NoUnit
    /\ hasChannel("BUFFER", 0) =>
         outData[sendingUnit[1]] # <<>> /\ OutUnit(sendingUnit[1]) = sendingUnit

-----------------------------------------------------------------------------
(* With the buffer, too, the package implements a store of planes: in      *)
(* pieces, with pauses and with pages and packets kept apart from their    *)
(* bits, the commands of a plane take effect in their order.               *)
pendingOps(u) ==
    If(Running(u, "WRITE"), currentCommands[u]) \o CommandsOf(u, pendingPackets)
    \o OnTheWay(u) \o CommandsOf(u, readQueues[u[1]])
fetchedPages(u) ==
    FromPlane(u, returnTransaction) \o FromPlane(u, pendingDataPackets[u[1]])
    \o FromPlane(u, returnDataPackets[u[1]])
    \o If(Running(u, "READ"), currentCommands[u])

Store == INSTANCE FlashStore WITH
    mem <- blocks,
    pending <- [u \in Units |-> Map(Op, pendingOps(u))],
    fetched <- [u \in Units |-> Map(Page, fetchedPages(u))]
ImplementsStore == Store!Spec

(* Liveness, under FairSpec: the controller, which waits for room in the   *)
(* buffer, the buffer, which waits for registers, and the pages, which     *)
(* wait for the channel, never wait for each other for good.               *)
Waits(u, type) ==
    \/ \E i \in DOMAIN pendingOps(u) : pendingOps(u)[i].type = type
    \/ type = "READ" /\ fetchedPages(u) # <<>>
EveryCommandAnswered ==
    \A u \in Units : \A type \in {"READ", "WRITE"} :
        Waits(u, type) ~> Answered(u, type)
=============================================================================
