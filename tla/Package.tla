------------------------------- MODULE Package -------------------------------
(***************************************************************************)
(* A package without a buffer (BUFFERED off): the controller asks the die, *)
(* takes the channel, counts the beats of the packet and hands it to the   *)
(* die; a die with a page to return takes the channel and counts its beats.*)
(***************************************************************************)
EXTENDS FlashDies

CONSTANTS
    COMMAND_BEATS, DATA_BEATS,      \* beats on the channel
    RETURN_CYCLES           \* cycles a page takes from a die to the controller

ASSUME PackageAssumption ==
    /\ COMMAND_BEATS \in Nat \ {0} /\ DATA_BEATS \in Nat \ {0}
    /\ RETURN_CYCLES \in Nat

VARIABLE dataCyclesLeft     \* Die

vars == <<diesVars, dataCyclesLeft>>

Turns == {FtlTurn, ControllerTurn} \cup {DieTurn(d) : d \in Dies}

Init == DiesInit /\ dataCyclesLeft = [d \in Dies |-> 0]

-----------------------------------------------------------------------------
FtlUpdate ==
    /\ turn = FtlTurn /\ turn' = ControllerTurn /\ failed = "no"
    /\ FtlGives
    /\ UNCHANGED dataCyclesLeft

-----------------------------------------------------------------------------
(* The controller holds the channel as sender 0, a die as its own number.  *)
(* Before the controller gets it the die is asked.                         *)

(* Mutant: data goes to a die whose cache register is loaded.              *)
obtainChannelIgnoringCache(pkt) ==
    /\ sender = Nobody
    /\ isDieBusy(UnitOf(pkt)) # 1
    /\ pkt.type # "DATA" => isDieBusy(UnitOf(pkt)) # 2

obtainChannel(pkt) ==
    /\ sender = Nobody
    /\ isDieBusy(UnitOf(pkt)) # 1
    /\ pkt.type # "DATA" => isDieBusy(UnitOf(pkt)) # 2
    /\ pkt.type = "DATA" => isDieBusy(UnitOf(pkt)) # 3

-----------------------------------------------------------------------------
(* Controller::update: place the head of the first queue from die_pointer  *)
(* on whose die can take it, advance the packet on the channel, and answer *)
(* the reads that came back.                                               *)
Placeable == {d \in DiesWaiting : obtainChannel(Head(readQueues[d]))}

Beats(pkt) == IF pkt.type = "DATA" THEN DATA_BEATS ELSE COMMAND_BEATS

(* The packet on the channel after the first half of the update.           *)
OnChannel ==
    IF Placeable = {} THEN outgoing ELSE Head(readQueues[FirstDie(Placeable)])
BeatsLeft == IF Placeable = {} THEN channelBeatsLeft ELSE Beats(OnChannel)

TransferBeat ==
    \/ /\ OnChannel = NoPacket
       /\ UNCHANGED <<outgoing, channelBeatsLeft, channelVars, commandVars,
                      planeVars, failed>>
    \/ /\ OnChannel # NoPacket
       /\ channelBeatsLeft' = BeatsLeft - 1
       /\ sType' = "CONTROLLER"
       /\ IF BeatsLeft = 1
          THEN outgoing' = NoPacket /\ sender' = Nobody /\ receiveFromBuffer(OnChannel)
          ELSE /\ outgoing' = OnChannel /\ sender' = 0
               /\ UNCHANGED <<commandVars, planeVars, failed>>

ControllerUpdate ==
    /\ turn = ControllerTurn /\ turn' = DieTurn(0) /\ failed = "no"
    /\ PlacePacket(Placeable)
    /\ TransferBeat
    /\ AnswerReads
    /\ UNCHANGED <<returnDataPackets, dataCyclesLeft>>

-----------------------------------------------------------------------------
(* Die::update returns the first page cycle by cycle.  A die does not ask  *)
(* for the channel while the next command in its queue is a READ that its  *)
(* idle plane can start meanwhile.                                         *)
dataReady(d, plane) ==
    /\ readQueues[d] # <<>>
    /\ Head(readQueues[d]).type = "READ" /\ Head(readQueues[d]).plane = plane

(* Mutant: the plane is not asked whether it could start that READ.        *)
MaySendUnlessNextRead(d, pkt) == ~dataReady(d, pkt.plane)

MaySend(d, pkt) ==
    ~dataReady(d, pkt.plane) \/ CommandAfter(d, UnitOf(pkt)) # NoPacket

(* Mutant: releaseChannel is forgotten.                                    *)
PageSentKeepingChannel(d) ==
    /\ receiveFromChannel(Head(ToReturn(d)))
    /\ ReleaseFirstPage(d)
    /\ UNCHANGED <<channelVars, dataCyclesLeft>>

PageSent(d) ==
    /\ receiveFromChannel(Head(ToReturn(d)))
    /\ ReleaseFirstPage(d)
    /\ sender' = Nobody
    /\ UNCHANGED <<sType, dataCyclesLeft>>

NothingSent(d) == KeepPages(d) /\ UNCHANGED returnTransaction

ReturnData(d) ==
    \/ /\ ToReturn(d) = <<>>
       /\ NothingSent(d) /\ UNCHANGED <<channelVars, dataCyclesLeft>>
    \/ /\ ToReturn(d) # <<>> /\ hasChannel("BUFFER", d) /\ dataCyclesLeft[d] = 0
       /\ PageSent(d)
    \/ /\ ToReturn(d) # <<>> /\ hasChannel("BUFFER", d) /\ dataCyclesLeft[d] > 0
       /\ dataCyclesLeft' = [dataCyclesLeft EXCEPT ![d] = @ - 1]
       /\ NothingSent(d) /\ UNCHANGED channelVars
    \/ /\ ToReturn(d) # <<>> /\ ~hasChannel("BUFFER", d)
       /\ IF sender = Nobody /\ MaySend(d, Head(ToReturn(d)))
          THEN /\ sType' = "BUFFER" /\ sender' = d
               /\ dataCyclesLeft' = [dataCyclesLeft EXCEPT ![d] = RETURN_CYCLES]
          ELSE UNCHANGED <<channelVars, dataCyclesLeft>>
       /\ NothingSent(d)

DieUpdate(d) ==
    /\ turn = DieTurn(d) /\ failed = "no"
    /\ turn' = IF d = DIES_PER_PACKAGE - 1 THEN FtlTurn ELSE DieTurn(d + 1)
    /\ EndCommands(d)
    /\ ReturnData(d)
    /\ UNCHANGED controllerVars

Next == FtlUpdate \/ ControllerUpdate \/ \E d \in Dies : DieUpdate(d)

Spec == Init /\ [][Next]_vars

(* NVDIMM::update makes all the calls of a cycle, cycle after cycle.       *)
FairSpec == Spec /\ WF_vars(Next)

-----------------------------------------------------------------------------
(* Type invariant.                                                         *)
TypeOK == DiesTypeOK /\ turn \in Turns /\ dataCyclesLeft \in [Dies -> Nat]

(* The channel has one owner: the controller exactly while a packet of its *)
(* own is on it, a die only while it has a page to send.  The ids of the   *)
(* controller and of die 0 are the same, only sType tells them apart       *)
(* (Channel.cpp:82-94, Controller.cpp:674, Die.cpp:285).                   *)
ChannelOwned ==
    /\ outgoing # NoPacket <=> hasChannel("CONTROLLER", 0)
    /\ \A d \in Dies : hasChannel("BUFFER", d) => returnDataPackets[d] # <<>>

(* The cache register is shared by the two directions: what is in it is    *)
(* either the first page the plane waits to return, or data whose WRITE is *)
(* the very next command of the die (Die.cpp:146-165, Plane.cpp:77-82).    *)
NextCommand(d) ==
    IF outgoing # NoPacket /\ outgoing.die = d THEN outgoing
    ELSE IF readQueues[d] # <<>> THEN Head(readQueues[d]) ELSE NoPacket
WaitingAt(u) == {i \in DOMAIN returnDataPackets[u[1]] :
                   UnitOf(returnDataPackets[u[1]][i]) = u}
CacheRegOwned ==
    \A u \in Units :
        IF cacheReg[u] = NoPacket THEN WaitingAt(u) = {}
        ELSE IF cacheReg[u].type = "DATA"
        THEN /\ WaitingAt(u) = {}
             /\ NextCommand(u[1]) = [cacheReg[u] EXCEPT !.type = "WRITE"]
        ELSE \E i \in WaitingAt(u) :
                /\ WaitingAt(u) = {i}
                /\ returnDataPackets[u[1]][i] = cacheReg[u]

(* "tried to add read data to plane ... but both of its registers were     *)
(* full" (Plane.cpp:62-63): a plane that is asked to read has a register.  *)
ReadFindsRegister == failed # "no register for read data"

(* "should never get here" (Plane.cpp:129): a read that has ended finds    *)
(* its page and an empty cache register to move it to.                     *)
MoveFindsRegister == failed # "no page to move to the cache register"

-----------------------------------------------------------------------------
(* The package implements a store of planes: commands of one plane take    *)
(* effect in their order, whichever way die rotation, transfers and        *)
(* overlapping reads interleave them.                                      *)
pendingPackets(u) ==
    If(Running(u, "WRITE"), currentCommands[u])
    \o OnTheWay(u) \o CommandsOf(u, readQueues[u[1]])
fetchedPackets(u) ==
    FromPlane(u, returnTransaction) \o FromPlane(u, returnDataPackets[u[1]])
    \o If(Running(u, "READ"), currentCommands[u])

Store == INSTANCE FlashStore WITH
    mem <- blocks,
    pending <- [u \in Units |-> Map(Op, pendingPackets(u))],
    fetched <- [u \in Units |-> Map(Page, fetchedPackets(u))]
ImplementsStore == Store!Spec

-----------------------------------------------------------------------------
(* Liveness, under FairSpec: every plane that has commands keeps being     *)
(* answered, although controller and dies compete for one channel and a    *)
(* die lets a READ go before the page it could return (Die.cpp:307-310).   *)
Waits(u, type) ==
    \/ \E i \in DOMAIN pendingPackets(u) : pendingPackets(u)[i].type = type
    \/ type = "READ" /\ fetchedPackets(u) # <<>>
EveryCommandAnswered ==
    \A u \in Units : \A type \in {"READ", "WRITE"} :
        Waits(u, type) ~> Answered(u, type)
=============================================================================
