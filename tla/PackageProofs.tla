---------------------------- MODULE PackageProofs ----------------------------
(***************************************************************************)
(* Proofs about Package, for every number of dies, planes and pages, every *)
(* queue length and all numbers of beats and cycles.                       *)
(***************************************************************************)
EXTENDS Package, FlashDiesProofs

-----------------------------------------------------------------------------
(* Types.  A command that needs the data register has it, and a packet on  *)
(* the channel has beats left.                                             *)
BeatsRemain == outgoing # NoPacket => channelBeatsLeft > 0

TypeInv == TypeOK /\ RegistersFilled /\ BeatsRemain

LEMMA TypeInvDies == TypeInv => DiesInv
BY DEF TypeInv, TypeOK, DiesInv

LEMMA InitType == Init => TypeInv
<1> SUFFICES ASSUME Init PROVE TypeInv  OBVIOUS
<1>1. DiesTypeOK
  <2>1. readQueues \in [Dies -> Seq(Packets)] /\ returnDataPackets \in [Dies -> Seq(Packets)]
        BY DEF Init, DiesInit
  <2>2. blocks \in [Units -> [PageNums -> Data \cup {NoData}]]  BY DEF Init, DiesInit
  <2>3. QED  BY <2>1, <2>2, DieTypes DEF Init, DiesInit, DiesTypeOK, MaybePacket
<1>2. TypeOK  BY <1>1, DieTypes DEF Init, DiesInit, TypeOK, Turns
<1>3. RegistersFilled /\ BeatsRemain  BY DEF Init, DiesInit, RegistersFilled, BeatsRemain
<1>4. QED  BY <1>2, <1>3 DEF TypeInv

LEMMA Placed ==
    ASSUME TypeInv, Placeable # {}, NEW d, d = FirstDie(Placeable)
    PROVE  /\ d \in Dies /\ outgoing = NoPacket /\ readQueues[d] # <<>>
           /\ Head(readQueues[d]) \in Packets
           /\ OnChannel = Head(readQueues[d])
           /\ obtainChannel(OnChannel)
<1>1. d \in Placeable
  <2>1. Placeable \in SUBSET Dies  BY DEF Placeable, DiesWaiting
  <2>2. QED  BY <2>1, FirstDieIn DEF TypeInv, TypeOK, DiesTypeOK
<1>2. /\ d \in Dies /\ outgoing = NoPacket /\ readQueues[d] # <<>>
      /\ obtainChannel(Head(readQueues[d]))
      BY <1>1 DEF Placeable, DiesWaiting
<1>3. Head(readQueues[d]) \in Packets
      BY <1>2, HeadTailProperties DEF TypeInv, TypeOK, DiesTypeOK
<1>4. QED  BY <1>2, <1>3 DEF OnChannel

LEMMA PlaceType ==
    ASSUME TypeInv, PlacePacket(Placeable)
    PROVE  /\ readQueues' \in [Dies -> Seq(Packets)] /\ die_pointer' \in Dies
           /\ OnChannel \in MaybePacket
           /\ OnChannel # NoPacket => BeatsLeft \in Nat \ {0}
<1>0. /\ readQueues \in [Dies -> Seq(Packets)] /\ die_pointer \in Dies
      /\ outgoing \in MaybePacket /\ channelBeatsLeft \in Nat
      BY DEF TypeInv, TypeOK, DiesTypeOK
<1>1. CASE Placeable = {}
      BY <1>0, <1>1 DEF PlacePacket, OnChannel, BeatsLeft, TypeInv, BeatsRemain
<1>2. CASE Placeable # {}
  <2> DEFINE d == FirstDie(Placeable)
  <2>1. /\ readQueues' = [readQueues EXCEPT ![d] = Tail(@)]
        /\ die_pointer' = (d + 1) % DIES_PER_PACKAGE
        BY <1>2 DEF PlacePacket
  <2>2. d \in Dies /\ readQueues[d] # <<>> /\ OnChannel \in Packets
        BY <1>2, Placed
  <2> HIDE DEF d
  <2>3. readQueues' \in [Dies -> Seq(Packets)]
        BY <1>0, <2>1, <2>2, HeadTailProperties
  <2>4. die_pointer' \in Dies
    <3>1. d + 1 \in Nat /\ DIES_PER_PACKAGE \in Nat \ {0}
          BY <2>2, DieTypes, FlashDiesAssumption
    <3>2. QED  BY <2>1, <3>1, RemainderType DEF Dies
  <2>5. BeatsLeft \in Nat \ {0}  BY <1>2, PackageAssumption DEF BeatsLeft, Beats
  <2>6. QED  BY <2>2, <2>3, <2>4, <2>5 DEF MaybePacket
<1>3. QED  BY <1>1, <1>2

(* The pages a die returns or keeps.                                       *)
LEMMA ReturnedType ==
    ASSUME TypeInv, NEW d \in Dies, ReturnData(d),
           \A u \in Units : CacheRegAfter(d, u) \in MaybePacket
    PROVE  /\ returnDataPackets' \in [Dies -> Seq(Packets)]
           /\ cacheReg' \in [Units -> MaybePacket]
           /\ returnTransaction' \in Seq(Packets)
           /\ sType' \in {"CONTROLLER", "BUFFER"} /\ sender' \in Dies \cup {Nobody}
           /\ dataCyclesLeft' \in [Dies -> Nat]
<1>0. /\ returnDataPackets \in [Dies -> Seq(Packets)]
      /\ returnTransaction \in Seq(Packets)
      /\ sType \in {"CONTROLLER", "BUFFER"} /\ sender \in Dies \cup {Nobody}
      /\ dataCyclesLeft \in [Dies -> Nat] /\ NoPacket \in MaybePacket
      BY DEF TypeInv, TypeOK, DiesTypeOK, MaybePacket
<1>1. ToReturn(d) \in Seq(Packets)  BY ToReturnType, TypeInvDies
<1>2. ASSUME KeepPages(d)
      PROVE  /\ returnDataPackets' \in [Dies -> Seq(Packets)]
             /\ cacheReg' \in [Units -> MaybePacket]
      BY <1>0, <1>1, <1>2 DEF KeepPages
<1>3. ASSUME ToReturn(d) # <<>>, PageSent(d)
      PROVE  /\ returnDataPackets' \in [Dies -> Seq(Packets)]
             /\ cacheReg' \in [Units -> MaybePacket]
             /\ returnTransaction' \in Seq(Packets)
  <2> DEFINE s == ToReturn(d)
  <2>1. /\ returnDataPackets' = [returnDataPackets EXCEPT ![d] = Tail(s)]
        /\ cacheReg' = [u \in Units |-> IF u = UnitOf(Head(s)) THEN NoPacket
                                        ELSE CacheRegAfter(d, u)]
        /\ returnTransaction' = returnTransaction
             \/ returnTransaction' = Append(returnTransaction, Head(s))
        BY <1>3 DEF PageSent, ReleaseFirstPage, receiveFromChannel
  <2>2. s \in Seq(Packets) /\ s # <<>>  BY <1>1, <1>3
  <2> HIDE DEF s
  <2>3. Head(s) \in Packets /\ Tail(s) \in Seq(Packets)
        BY <2>2, HeadTailProperties
  <2>4. cacheReg' \in [Units -> MaybePacket]  BY <1>0, <2>1
  <2>5. returnDataPackets' \in [Dies -> Seq(Packets)]  BY <1>0, <2>1, <2>3
  <2>6. Append(returnTransaction, Head(s)) \in Seq(Packets)
        BY <1>0, <2>3, AppendProperties
  <2>7. QED  BY <1>0, <2>1, <2>4, <2>5, <2>6
<1>4. CASE ToReturn(d) = <<>> /\ NothingSent(d) /\ UNCHANGED <<channelVars, dataCyclesLeft>>
      BY <1>0, <1>2, <1>4 DEF NothingSent, channelVars
<1>5. CASE ToReturn(d) # <<>> /\ PageSent(d)
      BY <1>0, <1>3, <1>5 DEF PageSent
<1>6. CASE /\ dataCyclesLeft[d] > 0
           /\ dataCyclesLeft' = [dataCyclesLeft EXCEPT ![d] = @ - 1]
           /\ NothingSent(d) /\ UNCHANGED channelVars
      BY <1>0, <1>2, <1>6 DEF NothingSent, channelVars
<1>7. CASE /\ NothingSent(d)
           /\ \/ /\ sType' = "BUFFER" /\ sender' = d
                 /\ dataCyclesLeft' = [dataCyclesLeft EXCEPT ![d] = RETURN_CYCLES]
              \/ UNCHANGED <<channelVars, dataCyclesLeft>>
      BY <1>0, <1>2, <1>7, PackageAssumption DEF NothingSent, channelVars
<1>8. QED  BY <1>4, <1>5, <1>6, <1>7 DEF ReturnData

LEMMA FtlUpdateType == ASSUME TypeInv, FtlUpdate PROVE TypeInv'
<1>1. readQueues' \in [Dies -> Seq(Packets)]  BY AddedType, TypeInvDies DEF FtlUpdate
<1>2. /\ turn' = ControllerTurn /\ UNCHANGED dataCyclesLeft
      /\ UNCHANGED <<die_pointer, outgoing, channelBeatsLeft, returnTransaction,
                     channelVars, commandVars, returnDataPackets, planeVars>>
      BY DEF FtlUpdate, FtlGives
<1>3. QED
      BY <1>1, <1>2 DEF TypeInv, TypeOK, DiesTypeOK, Turns, channelVars, commandVars,
                        planeVars, RegistersFilled, BeatsRemain

LEMMA ControllerUpdateType == ASSUME TypeInv, ControllerUpdate PROVE TypeInv'
<1>1. /\ PlacePacket(Placeable) /\ TransferBeat /\ AnswerReads
      /\ turn' = DieTurn(0) /\ UNCHANGED <<returnDataPackets, dataCyclesLeft>>
      BY DEF ControllerUpdate
<1>2. /\ readQueues' \in [Dies -> Seq(Packets)] /\ die_pointer' \in Dies
      /\ OnChannel \in MaybePacket
      /\ OnChannel # NoPacket => BeatsLeft \in Nat \ {0}
      BY <1>1, PlaceType
<1>3. returnTransaction' \in Seq(Packets)  BY <1>1 DEF AnswerReads
<1>4. turn' \in Turns  BY <1>1, DieTypes DEF Turns
<1>5. CASE UNCHANGED <<outgoing, channelBeatsLeft, channelVars, commandVars, planeVars>>
  <2>1. /\ UNCHANGED <<outgoing, channelBeatsLeft, sType, sender, currentCommands>>
        /\ UNCHANGED <<controlCyclesLeft, dataReg, cacheReg, blocks>>
        /\ UNCHANGED <<returnDataPackets, dataCyclesLeft>>
        BY <1>1, <1>5 DEF channelVars, commandVars, planeVars
  <2>2. RegistersFilled' /\ BeatsRemain'
        BY <2>1 DEF TypeInv, RegistersFilled, BeatsRemain
  <2>3. QED  BY <1>2, <1>3, <1>4, <2>1, <2>2 DEF TypeInv, TypeOK, DiesTypeOK
<1>6. CASE /\ OnChannel # NoPacket /\ channelBeatsLeft' = BeatsLeft - 1
           /\ sType' = "CONTROLLER" /\ BeatsLeft = 1
           /\ outgoing' = NoPacket /\ sender' = Nobody /\ receiveFromBuffer(OnChannel)
  <2>1. OnChannel \in Packets  BY <1>2, <1>6 DEF MaybePacket
  <2>2. /\ currentCommands' \in [Units -> MaybePacket]
        /\ controlCyclesLeft' \in [Units -> Nat]
        /\ dataReg' \in [Units -> MaybePacket] /\ cacheReg' \in [Units -> MaybePacket]
        /\ blocks' \in [Units -> [PageNums -> Data \cup {NoData}]]
        /\ RegistersFilled'
        BY <1>6, <2>1, ReceivedType, TypeInvDies
  <2>3. /\ outgoing' \in MaybePacket /\ sType' \in {"CONTROLLER", "BUFFER"}
        /\ sender' \in Dies \cup {Nobody}
        BY <1>6 DEF MaybePacket
  <2>4. channelBeatsLeft' = 0 /\ BeatsRemain'
        BY <1>2, <1>6 DEF BeatsRemain
  <2>5. /\ returnDataPackets' = returnDataPackets /\ dataCyclesLeft' = dataCyclesLeft
        BY <1>1
  <2>6. QED
        BY <1>2, <1>3, <1>4, <2>2, <2>3, <2>4, <2>5
        DEF TypeInv, TypeOK, DiesTypeOK
<1>7. CASE /\ OnChannel # NoPacket /\ channelBeatsLeft' = BeatsLeft - 1
           /\ sType' = "CONTROLLER" /\ BeatsLeft # 1
           /\ outgoing' = OnChannel /\ sender' = 0
           /\ UNCHANGED <<commandVars, planeVars>>
  <2>1. UNCHANGED <<currentCommands, controlCyclesLeft, dataReg, cacheReg, blocks>>
        BY <1>7 DEF commandVars, planeVars
  <2>2. RegistersFilled'  BY <2>1 DEF TypeInv, RegistersFilled
  <2>3. channelBeatsLeft' \in Nat \ {0}  BY <1>2, <1>7
  <2>4. sender' \in Dies  BY <1>7, DieTypes
  <2>5. BeatsRemain'  BY <2>3 DEF BeatsRemain
  <2>6. DiesTypeOK'
    <3>1. outgoing' \in MaybePacket /\ sType' = "CONTROLLER" /\ channelBeatsLeft' \in Nat
          BY <1>2, <1>7, <2>3
    <3>2. returnDataPackets' = returnDataPackets  BY <1>1
    <3>3. DiesTypeOK  BY DEF TypeInv, TypeOK
    <3>4. QED
          BY <1>2, <1>3, <2>1, <2>4, <3>1, <3>2, <3>3, Zenon DEF DiesTypeOK
  <2>7. dataCyclesLeft' \in [Dies -> Nat]  BY <1>1 DEF TypeInv, TypeOK
  <2>8. QED  BY <1>4, <2>2, <2>5, <2>6, <2>7 DEF TypeInv, TypeOK
<1>8. QED  BY <1>1, <1>5, <1>6, <1>7 DEF TransferBeat

LEMMA DieUpdateType == ASSUME TypeInv, NEW d \in Dies, DieUpdate(d) PROVE TypeInv'
<1>1. /\ EndCommands(d) /\ ReturnData(d) /\ UNCHANGED controllerVars
      /\ turn' = IF d = DIES_PER_PACKAGE - 1 THEN FtlTurn ELSE DieTurn(d + 1)
      BY DEF DieUpdate
<1>2. turn' \in Turns
  <2>1. d # DIES_PER_PACKAGE - 1 => d + 1 \in Dies  BY FlashDiesAssumption DEF Dies
  <2>2. QED  BY <1>1, <2>1 DEF Turns
<1>3. QED
      BY <1>1, <1>2, EndedType, TypeInvDies, ReturnedType
      DEF TypeInv, TypeOK, DiesTypeOK, controllerVars, BeatsRemain

LEMMA TypeNext == TypeInv /\ [Next]_vars => TypeInv'
<1> SUFFICES ASSUME TypeInv, [Next]_vars PROVE TypeInv'  OBVIOUS
<1>1. CASE FtlUpdate  BY <1>1, FtlUpdateType
<1>2. CASE ControllerUpdate  BY <1>2, ControllerUpdateType
<1>3. ASSUME NEW d \in Dies, DieUpdate(d) PROVE TypeInv'  BY <1>3, DieUpdateType
<1>4. CASE UNCHANGED vars
      BY <1>4 DEF vars, diesVars, controllerVars, channelVars, commandVars, planeVars,
                  TypeInv, TypeOK, DiesTypeOK, RegistersFilled, BeatsRemain
<1>5. QED  BY <1>1, <1>2, <1>3, <1>4 DEF Next

(* Every queue, register and counter keeps its type, whatever commands the *)
(* FTL gives.                                                              *)
THEOREM PackageTypes == Spec => []TypeOK
<1>1. TypeInv => TypeOK  BY DEF TypeInv
<1>2. QED  BY <1>1, InitType, TypeNext, PTL DEF Spec

-----------------------------------------------------------------------------
(* The channel.                                                            *)
LEMMA ChannelInit == Init => ChannelOwned
BY DieTypes DEF Init, DiesInit, ChannelOwned, hasChannel, Nobody

LEMMA ChannelControllerUpdate ==
    ASSUME TypeInv, ChannelOwned, ControllerUpdate  PROVE ChannelOwned'
<1>1. PlacePacket(Placeable) /\ TransferBeat /\ UNCHANGED returnDataPackets
      BY DEF ControllerUpdate
<1>2. OnChannel # NoPacket => OnChannel = outgoing \/ sender = Nobody
  <2>1. CASE Placeable = {}  BY <2>1 DEF OnChannel
  <2>2. CASE Placeable # {}  BY <2>2, Placed DEF obtainChannel
  <2>3. QED  BY <2>1, <2>2
<1>3. CASE OnChannel = NoPacket /\ UNCHANGED <<outgoing, channelVars>>
      BY <1>1, <1>3 DEF ChannelOwned, hasChannel, channelVars
<1>4. CASE /\ OnChannel # NoPacket /\ sType' = "CONTROLLER"
           /\ \/ outgoing' = NoPacket /\ sender' = Nobody
              \/ outgoing' = OnChannel /\ sender' = 0
  <2>1. 0 # Nobody  BY DieTypes
  <2>2. QED  BY <1>4, <2>1 DEF ChannelOwned, hasChannel
<1>5. QED  BY <1>1, <1>3, <1>4 DEF TransferBeat

LEMMA ChannelDieUpdate ==
    ASSUME TypeInv, ChannelOwned, NEW d \in Dies, DieUpdate(d)  PROVE ChannelOwned'
<1>0. /\ returnDataPackets \in [Dies -> Seq(Packets)]
      /\ returnDataPackets[d] # <<>> => ToReturn(d) # <<>>
      BY ToReturnType, TypeInvDies DEF TypeInv, TypeOK, DiesTypeOK
<1>1. ReturnData(d) /\ UNCHANGED outgoing  BY DEF DieUpdate, controllerVars
<1>2. ASSUME NothingSent(d)
      PROVE  returnDataPackets' = [returnDataPackets EXCEPT ![d] = ToReturn(d)]
      BY <1>2 DEF NothingSent, KeepPages
<1>3. CASE NothingSent(d) /\ UNCHANGED channelVars
      BY <1>0, <1>1, <1>2, <1>3 DEF ChannelOwned, hasChannel, channelVars
<1>4. CASE hasChannel("BUFFER", d) /\ PageSent(d)
  <2>1. sType' = "BUFFER" /\ sender' = Nobody  BY <1>4 DEF PageSent, hasChannel
  <2>2. outgoing = NoPacket  BY <1>4 DEF ChannelOwned, hasChannel
  <2>3. QED  BY <1>1, <2>1, <2>2, DieTypes DEF ChannelOwned, hasChannel
<1>5. CASE /\ ToReturn(d) # <<>> /\ NothingSent(d) /\ sender = Nobody
           /\ sType' = "BUFFER" /\ sender' = d
  <2>1. outgoing = NoPacket  BY <1>5, DieTypes DEF ChannelOwned, hasChannel
  <2>2. returnDataPackets'[d] # <<>>  BY <1>0, <1>2, <1>5
  <2>3. QED  BY <1>1, <1>5, <2>1, <2>2 DEF ChannelOwned, hasChannel
<1>6. QED  BY <1>1, <1>3, <1>4, <1>5 DEF ReturnData

LEMMA ChannelNext == TypeInv /\ ChannelOwned /\ [Next]_vars => ChannelOwned'
<1> SUFFICES ASSUME TypeInv, ChannelOwned, [Next]_vars PROVE ChannelOwned'  OBVIOUS
<1>1. CASE FtlUpdate
      BY <1>1 DEF FtlUpdate, FtlGives, ChannelOwned, hasChannel, channelVars
<1>2. CASE ControllerUpdate  BY <1>2, ChannelControllerUpdate
<1>3. ASSUME NEW d \in Dies, DieUpdate(d) PROVE ChannelOwned'
      BY <1>3, ChannelDieUpdate
<1>4. CASE UNCHANGED vars
      BY <1>4 DEF vars, diesVars, controllerVars, channelVars, ChannelOwned, hasChannel
<1>5. QED  BY <1>1, <1>2, <1>3, <1>4 DEF Next

(* One owner of the channel at a time, whatever commands the FTL gives.    *)
THEOREM ChannelHasOneOwner == Spec => []ChannelOwned
<1>1. QED  BY InitType, TypeNext, ChannelInit, ChannelNext, PTL DEF Spec
-----------------------------------------------------------------------------
(* The registers, with the packets where this package keeps them.          *)
RegisterInv ==
    /\ PacketsSound(readQueues, outgoing, currentCommands, cacheReg)
    /\ RegistersSound(currentCommands, dataReg)
    /\ \A d \in Dies : PagesSound(returnDataPackets[d], d, cacheReg)
    /\ failed = "no"

LEMMA RegisterInit == Init => RegisterInv
BY DEF Init, DiesInit, RegisterInv, PacketsSound, QueuesSound, Paired, DataArrives,
       DataAwaitsWrite, NextOf, Holds, ArrivalSound, RegistersSound, PagesSound, NoPacket

LEMMA FtlUpdateRegisters ==
    ASSUME HostCommands, TypeInv, RegisterInv, FtlUpdate  PROVE RegisterInv'
<1>1. /\ UNCHANGED <<outgoing, returnDataPackets, currentCommands, dataReg, cacheReg, failed>>
      /\ FtlGives
      BY DEF FtlUpdate, FtlGives, commandVars, planeVars
<1>2. PacketsSound(readQueues', outgoing, currentCommands, cacheReg)
  <2>1. CASE UNCHANGED readQueues  BY <2>1 DEF RegisterInv
  <2>2. ASSUME NEW d \in Dies, NEW t \in Seq(Packets), Batch(d, t),
               readQueues' = [readQueues EXCEPT ![d] = @ \o t]
        PROVE  PacketsSound(readQueues', outgoing, currentCommands, cacheReg)
    <3>1. /\ readQueues \in [Dies -> Seq(Packets)] /\ outgoing \in MaybePacket /\ DiesInv
          /\ PacketsSound(readQueues, outgoing, currentCommands, cacheReg)
          BY TypeInvDies DEF TypeInv, TypeOK, DiesTypeOK, RegisterInv
    <3>2. QED  BY <2>2, <3>1, JoinSound
  <2>3. QED  BY <1>1, <2>1, <2>2, GivenBatch, TypeInvDies
<1>3. QED  BY <1>1, <1>2 DEF RegisterInv

(* The head of a queue takes the channel.                                  *)
LEMMA PlaceSound ==
    ASSUME TypeInv, RegisterInv, PlacePacket(Placeable)
    PROVE  PacketsSound(readQueues', OnChannel, currentCommands, cacheReg)
<1>1. CASE Placeable = {}
      BY <1>1 DEF PlacePacket, OnChannel, RegisterInv
<1>2. CASE Placeable # {}
  <2> DEFINE d == FirstDie(Placeable)
             out == OnChannel
  <2>1. /\ d \in Dies /\ outgoing = NoPacket /\ readQueues[d] # <<>>
        /\ out \in Packets /\ out = Head(readQueues[d]) /\ obtainChannel(out)
        BY <1>2, Placed
  <2>2. readQueues' = [readQueues EXCEPT ![d] = Tail(@)]  BY <1>2 DEF PlacePacket
  <2>3. /\ readQueues \in [Dies -> Seq(Packets)]
        /\ PacketsSound(readQueues, NoPacket, currentCommands, cacheReg)
        BY <2>1 DEF TypeInv, TypeOK, DiesTypeOK, RegisterInv
  <2> HIDE DEF d, out
  <2>4. ArrivalSound(out, currentCommands, cacheReg)
    <3>1. UnitOf(out) \in Units /\ out # NoPacket  BY <2>1, PacketTypes
    <3>2. out.type \in {"DATA", "READ", "WRITE", "ERASE"}
          BY <2>1, <2>3, HeadSound DEF PacketsSound
    <3>3. QED  BY <2>1, <3>1, <3>2 DEF ArrivalSound, obtainChannel, isDieBusy
  <2>5. PacketsSound(readQueues', out, currentCommands, cacheReg)
        BY <2>1, <2>2, <2>3, <2>4, HeadTaken
  <2>6. QED  BY <2>5 DEF out
<1>3. QED  BY <1>1, <1>2

LEMMA ControllerUpdateRegisters ==
    ASSUME TypeInv, RegisterInv, ControllerUpdate  PROVE RegisterInv'
<1>1. /\ PlacePacket(Placeable) /\ TransferBeat /\ failed = "no"
      /\ UNCHANGED returnDataPackets
      BY DEF ControllerUpdate
<1>2. /\ PacketsSound(readQueues', OnChannel, currentCommands, cacheReg)
      /\ RegistersSound(currentCommands, dataReg)
      /\ \A d \in Dies : PagesSound(returnDataPackets[d], d, cacheReg)
      BY <1>1, PlaceSound DEF RegisterInv
<1>3. readQueues' \in [Dies -> Seq(Packets)] /\ OnChannel \in MaybePacket
      BY <1>1, PlaceType
<1>4. CASE /\ outgoing' = OnChannel
           /\ UNCHANGED <<commandVars, planeVars, failed>>
      BY <1>1, <1>2, <1>4 DEF RegisterInv, commandVars, planeVars
<1>5. CASE OnChannel # NoPacket /\ outgoing' = NoPacket /\ receiveFromBuffer(OnChannel)
  <2>1. OnChannel \in Packets  BY <1>3, <1>5 DEF MaybePacket
  <2>2. /\ PacketsSound(readQueues', NoPacket, currentCommands', cacheReg')
        /\ RegistersSound(currentCommands', dataReg')
        /\ \A d \in Dies : PagesSound(returnDataPackets[d], d, cacheReg')
        /\ UNCHANGED failed
        BY <1>2, <1>3, <1>5, <2>1, ArriveSound, TypeInvDies
  <2>3. QED  BY <1>1, <1>5, <2>2 DEF RegisterInv
<1>6. CASE OnChannel = NoPacket /\ UNCHANGED <<outgoing, commandVars, planeVars, failed>>
  <2>1. outgoing = NoPacket  BY <1>6, Placed DEF OnChannel
  <2>2. QED  BY <1>4, <1>6, <2>1
<1>7. QED  BY <1>1, <1>4, <1>5, <1>6 DEF TransferBeat

LEMMA DieUpdateRegisters ==
    ASSUME ~GARBAGE_COLLECT, TypeInv, RegisterInv, NEW d \in Dies, DieUpdate(d)
    PROVE  RegisterInv'
<1>1. /\ EndCommands(d) /\ UNCHANGED <<readQueues, outgoing>>
      /\ KeepPages(d) \/ (ToReturn(d) # <<>> /\ ReleaseFirstPage(d))
      BY DEF DieUpdate, controllerVars, ReturnData, NothingSent, PageSent
<1>2. /\ readQueues \in [Dies -> Seq(Packets)] /\ outgoing \in MaybePacket /\ DiesInv
      BY TypeInvDies DEF TypeInv, TypeOK, DiesTypeOK
<1>3. /\ PacketsSound(readQueues, outgoing, currentCommands, cacheReg)
      /\ RegistersSound(currentCommands, dataReg)
      /\ \A e \in Dies : PagesSound(returnDataPackets[e], e, cacheReg)
      BY DEF RegisterInv
<1>4. /\ PacketsSound(readQueues, outgoing, currentCommands', cacheReg')
      /\ RegistersSound(currentCommands', dataReg')
      /\ \A e \in Dies : PagesSound(returnDataPackets'[e], e, cacheReg')
      /\ failed' = "no"
      BY <1>1, <1>2, <1>3, DieSound
<1>5. QED  BY <1>1, <1>4 DEF RegisterInv

LEMMA RegisterNext ==
    ASSUME HostCommands, ~GARBAGE_COLLECT, TypeInv, RegisterInv, [Next]_vars
    PROVE  RegisterInv'
<1>1. CASE FtlUpdate  BY <1>1, FtlUpdateRegisters
<1>2. CASE ControllerUpdate  BY <1>2, ControllerUpdateRegisters
<1>3. ASSUME NEW d \in Dies, DieUpdate(d) PROVE RegisterInv'
      BY <1>3, DieUpdateRegisters
<1>4. CASE UNCHANGED vars
  <2>1. UNCHANGED <<readQueues, outgoing, currentCommands, cacheReg, dataReg,
                    returnDataPackets, failed>>
        BY <1>4 DEF vars, diesVars, controllerVars, commandVars, planeVars
  <2>2. QED  BY <2>1 DEF RegisterInv
<1>5. QED  BY <1>1, <1>2, <1>3, <1>4 DEF Next

(* Without garbage collection no packet finds its die other than it was    *)
(* when the die was asked, and no abort of Plane, Die or Block is reached. *)
THEOREM NoAbort == HostCommands /\ ~GARBAGE_COLLECT => (Spec => []NeverAborts)
<1> SUFFICES ASSUME HostCommands, ~GARBAGE_COLLECT  PROVE Spec => []NeverAborts
    OBVIOUS
<1>1. TypeInv /\ RegisterInv /\ [Next]_vars => TypeInv' /\ RegisterInv'
      BY TypeNext, RegisterNext
<1>2. RegisterInv => NeverAborts  BY DEF RegisterInv, NeverAborts
<1>3. QED  BY <1>1, <1>2, InitType, RegisterInit, PTL DEF Spec

(* And the two directions never share a cache register: it holds the one   *)
(* page the plane waits to return, or data whose WRITE comes next.         *)
THEOREM CacheRegistersOwned ==
    HostCommands /\ ~GARBAGE_COLLECT => (Spec => []CacheRegOwned)
<1> SUFFICES ASSUME HostCommands, ~GARBAGE_COLLECT  PROVE Spec => []CacheRegOwned
    OBVIOUS
<1>1. TypeInv /\ RegisterInv /\ [Next]_vars => TypeInv' /\ RegisterInv'
      BY TypeNext, RegisterNext
<1>2. ASSUME TypeInv, RegisterInv  PROVE CacheRegOwned
  <2> SUFFICES ASSUME NEW u \in Units
               PROVE  IF cacheReg[u] = NoPacket THEN WaitingAt(u) = {}
                      ELSE IF cacheReg[u].type = "DATA"
                      THEN /\ WaitingAt(u) = {}
                           /\ NextCommand(u[1]) = [cacheReg[u] EXCEPT !.type = "WRITE"]
                      ELSE \E i \in WaitingAt(u) :
                              /\ WaitingAt(u) = {i}
                              /\ returnDataPackets[u[1]][i] = cacheReg[u]
      BY DEF CacheRegOwned
  <2> DEFINE s == returnDataPackets[u[1]]
  <2>1. u[1] \in Dies /\ s \in Seq(Packets)
        BY <1>2, UnitTypes DEF TypeInv, TypeOK, DiesTypeOK
  <2>2. PagesSound(s, u[1], cacheReg)  BY <1>2, <2>1 DEF RegisterInv
  <2>3. WaitingAt(u) = {i \in 1 .. Len(s) : UnitOf(s[i]) = u}
    <3>1. DOMAIN s = 1 .. Len(s)  BY <2>1
    <3>2. QED  BY <3>1 DEF WaitingAt
  <2>4. \A i \in WaitingAt(u) : /\ cacheReg[u] = s[i] /\ s[i].type # "DATA"
                                /\ s[i] # NoPacket
    <3>1. \A i \in 1 .. Len(s) : s[i] \in Packets  BY <2>1
    <3>2. QED  BY <2>2, <2>3, <3>1, PacketTypes DEF PagesSound
  <2>5. CASE cacheReg[u] = NoPacket  BY <2>4, <2>5
  <2>6. CASE Holds(cacheReg, u, "DATA")
    <3>1. WaitingAt(u) = {}  BY <2>4, <2>6 DEF Holds
    <3>2. NextOf(readQueues, outgoing, u[1]) = WriteOf(cacheReg[u])
          BY <1>2, <2>6 DEF RegisterInv, PacketsSound, DataAwaitsWrite
    <3>3. NextCommand(u[1]) = [cacheReg[u] EXCEPT !.type = "WRITE"]
          BY <3>2 DEF NextCommand, NextOf, WriteOf
    <3>4. QED  BY <2>6, <3>1, <3>3 DEF Holds
  <2>7. CASE cacheReg[u] # NoPacket /\ cacheReg[u].type # "DATA"
    <3>1. PICK i \in 1 .. Len(s) : UnitOf(s[i]) = u
          BY <2>2, <2>7 DEF PagesSound, Holds
    <3>2. \A j \in 1 .. Len(s) : UnitOf(s[j]) = u => j = i
          BY <2>2, <3>1 DEF PagesSound
    <3>3. WaitingAt(u) = {i} /\ i \in WaitingAt(u)  BY <2>3, <3>1, <3>2
    <3>4. returnDataPackets[u[1]][i] = cacheReg[u]  BY <2>4, <3>3
    <3>5. QED  BY <2>7, <3>3, <3>4
  <2>8. QED  BY <2>5, <2>6, <2>7 DEF Holds
<1>3. QED  BY <1>1, <1>2, InitType, RegisterInit, PTL DEF Spec

-----------------------------------------------------------------------------
(* The store.  Beside the registers, a command that runs has what it needs *)
(* in the data register, only pages of reads are returned, and between two *)
(* updates of the controller every die returns at most one.                *)
ReturnsSound ==
    /\ \A i \in 1 .. Len(returnTransaction) : returnTransaction[i].type = "READ"
    /\ \A i, j \in 1 .. Len(returnTransaction) :
         returnTransaction[i].die = returnTransaction[j].die => i = j
    /\ \A d \in Dies : turn = DieTurn(d) =>
         \A i \in 1 .. Len(returnTransaction) : returnTransaction[i].die < d

StoreInv == CommandsKept(currentCommands, dataReg) /\ PagesRead /\ ReturnsSound

LEMMA StoreInvDies == TypeInv /\ RegisterInv /\ StoreInv => DiesKept
BY TypeInvDies DEF RegisterInv, StoreInv, DiesKept

LEMMA TurnsDiffer ==
    /\ \A d \in Dies : FtlTurn # DieTurn(d) /\ ControllerTurn # DieTurn(d)
    /\ \A d, e \in Dies : DieTurn(d) = DieTurn(e) => d = e
BY DEF FtlTurn, ControllerTurn, DieTurn

LEMMA NoReturnsSound == ASSUME returnTransaction = <<>>  PROVE ReturnsSound
<1>1. Len(returnTransaction) = 0  BY EmptySeq
<1>2. QED  BY <1>1 DEF ReturnsSound

LEMMA StoreInvInit == Init => StoreInv
<1> SUFFICES ASSUME Init PROVE StoreInv  OBVIOUS
<1>1. CommandsKept(currentCommands, dataReg)
      BY DEF Init, DiesInit, CommandsKept, Holds
<1>2. PagesRead  BY EmptySeq DEF Init, DiesInit, PagesRead
<1>3. ReturnsSound  BY NoReturnsSound DEF Init, DiesInit
<1>4. QED  BY <1>1, <1>2, <1>3 DEF StoreInv

LEMMA FtlUpdateStoreInv == ASSUME StoreInv, FtlUpdate PROVE StoreInv'
<1>1. /\ UNCHANGED <<currentCommands, dataReg, returnDataPackets, returnTransaction>>
      /\ turn' = ControllerTurn
      BY DEF FtlUpdate, FtlGives, commandVars, planeVars
<1>2. QED  BY <1>1, TurnsDiffer DEF StoreInv, CommandsKept, PagesRead, ReturnsSound

LEMMA ControllerUpdateStoreInv ==
    ASSUME TypeInv, RegisterInv, StoreInv, ControllerUpdate  PROVE StoreInv'
<1>1. /\ PlacePacket(Placeable) /\ TransferBeat
      /\ UNCHANGED returnDataPackets /\ returnTransaction' = <<>>
      BY DEF ControllerUpdate, AnswerReads
<1>2. ReturnsSound'
  <2>1. Len(returnTransaction') = 0  BY <1>1, EmptySeq
  <2>2. QED  BY <2>1 DEF ReturnsSound
<1>3. PagesRead'  BY <1>1 DEF StoreInv, PagesRead
<1>4. CommandsKept(currentCommands', dataReg')
  <2>1. CASE UNCHANGED <<commandVars, planeVars>>
        BY <2>1 DEF StoreInv, commandVars, planeVars
  <2>2. CASE OnChannel # NoPacket /\ receiveFromBuffer(OnChannel)
    <3>1. OnChannel \in Packets  BY <1>1, <2>2, PlaceType DEF MaybePacket
    <3>2. PacketsSound(readQueues', OnChannel, currentCommands, cacheReg)
          BY <1>1, PlaceSound
    <3>3. RegistersSound(currentCommands, dataReg) /\ CommandsKept(currentCommands, dataReg)
          BY DEF RegisterInv, StoreInv
    <3>4. QED  BY <2>2, <3>1, <3>2, <3>3, ArriveKept, TypeInvDies
  <2>3. QED  BY <1>1, <2>1, <2>2 DEF TransferBeat
<1>5. QED  BY <1>2, <1>3, <1>4 DEF StoreInv

(* A page of a die stays with it, or the first one goes to the controller. *)
Returned(d) ==
    \/ /\ returnDataPackets' = [returnDataPackets EXCEPT ![d] = ToReturn(d)]
       /\ returnTransaction' = returnTransaction
    \/ /\ ToReturn(d) # <<>>
       /\ returnDataPackets' = [returnDataPackets EXCEPT ![d] = Tail(ToReturn(d))]
       /\ returnTransaction' = Append(returnTransaction, Head(ToReturn(d)))

LEMMA DieReturns ==
    ASSUME TypeInv, RegisterInv, StoreInv, NEW d \in Dies, DieUpdate(d)
    PROVE  Returned(d)
<1>1. ReturnData(d)  BY DEF DieUpdate
<1>2. CASE NothingSent(d)  BY <1>2 DEF NothingSent, KeepPages, Returned
<1>3. CASE ToReturn(d) # <<>> /\ PageSent(d)
  <2> DEFINE r == ToReturn(d)
  <2>1. r \in Seq(Packets)  BY ToReturnType, TypeInvDies
  <2>2. 1 \in 1 .. Len(r) /\ Head(r) = r[1]
    <3> HIDE DEF r
    <3>1. r # <<>>  BY <1>3 DEF r
    <3>2. QED  BY <2>1, <3>1, EmptySeq, LenProperties
  <2>3. Head(r).type = "READ"  BY <2>2, ToReturnRead, StoreInvDies
  <2>4. QED  BY <1>3, <2>3 DEF PageSent, receiveFromChannel, ReleaseFirstPage, Returned
<1>4. QED  BY <1>1, <1>2, <1>3 DEF ReturnData

LEMMA DieUpdateStoreInv ==
    ASSUME TypeInv, RegisterInv, StoreInv, NEW d \in Dies, DieUpdate(d)
    PROVE  StoreInv'
<1> DEFINE r == ToReturn(d)
           x == returnTransaction
<1>0. /\ returnDataPackets \in [Dies -> Seq(Packets)] /\ x \in Seq(Packets)
      /\ r \in Seq(Packets)
      BY ToReturnType, TypeInvDies DEF TypeInv, TypeOK, DiesTypeOK
<1>1. turn = DieTurn(d) /\ turn' = IF d = DIES_PER_PACKAGE - 1 THEN FtlTurn ELSE DieTurn(d + 1)
      BY DEF DieUpdate
<1>2. Returned(d)  BY DieReturns
<1>3. CommandsKept(currentCommands', dataReg')  BY EndsKept, StoreInvDies DEF DieUpdate
<1>4. r # <<>> => /\ Head(r) \in Packets /\ Head(r).type = "READ" /\ Head(r).die = d
      BY ToReturnPages, StoreInvDies
<1>5. PagesRead'  BY <1>2, PagesStayReads, StoreInvDies DEF Returned
<1> HIDE DEF r, x
<1>6. /\ \A i \in 1 .. Len(x) : x[i].type = "READ" /\ x[i].die < d /\ x[i].die \in Nat
      /\ \A i, j \in 1 .. Len(x) : x[i].die = x[j].die => i = j
  <2>1. \A i \in 1 .. Len(x) : x[i].die \in Nat
    <3>1. \A i \in 1 .. Len(x) : x[i] \in Packets  BY <1>0
    <3>2. QED  BY <3>1, PacketTypes, DieTypes
  <2>2. /\ \A i \in 1 .. Len(x) : x[i].type = "READ" /\ x[i].die < d
        /\ \A i, j \in 1 .. Len(x) : x[i].die = x[j].die => i = j
        BY <1>1 DEF StoreInv, ReturnsSound, x
  <2>3. QED  BY <2>1, <2>2
<1> DEFINE y == returnTransaction'
<1>7. /\ \A i \in 1 .. Len(y) : y[i].type = "READ" /\ y[i].die < d + 1
      /\ \A i, j \in 1 .. Len(y) : y[i].die = y[j].die => i = j
  <2>0. d \in Nat  BY DieTypes
  <2>1. CASE y = x  BY <1>6, <2>0, <2>1
  <2>2. CASE r # <<>> /\ y = Append(x, Head(r))
    <3>1. /\ Len(y) = Len(x) + 1 /\ Len(x) \in Nat /\ y[Len(x) + 1] = Head(r)
          /\ \A i \in 1 .. Len(x) : y[i] = x[i]
          BY <1>0, <1>4, <2>2, AppendProperties, LenProperties
    <3> DEFINE n == Len(x)
    <3> HIDE DEF n, y
    <3>2. \A i \in 1 .. n + 1 : i \in 1 .. n \/ i = n + 1  BY <3>1 DEF n
    <3>3. Len(y) = n + 1 /\ n + 1 \notin 1 .. n /\ n \in Nat  BY <3>1 DEF n
    <3>4. \A i \in 1 .. n : y[i].type = "READ" /\ y[i].die < d /\ y[i].die \in Nat
          BY <1>6, <3>1 DEF n
    <3>5. y[n + 1].type = "READ" /\ y[n + 1].die = d  BY <1>4, <2>2, <3>1 DEF n
    <3>6. \A i \in 1 .. n + 1 : y[i].type = "READ" /\ y[i].die < d + 1
          BY <2>0, <3>2, <3>4, <3>5
    <3>7. ASSUME NEW i \in 1 .. n + 1, NEW j \in 1 .. n + 1, y[i].die = y[j].die
          PROVE  i = j
      <4>1. CASE i \in 1 .. n /\ j \in 1 .. n
        <5>1. x[i].die = x[j].die  BY <3>1, <3>7, <4>1 DEF n
        <5>2. QED  BY <1>6, <4>1, <5>1 DEF n
      <4>2. CASE i = n + 1 /\ j = n + 1  BY <4>2
      <4>3. CASE i \in 1 .. n /\ j = n + 1  BY <2>0, <3>4, <3>5, <3>7, <4>3
      <4>4. CASE i = n + 1 /\ j \in 1 .. n  BY <2>0, <3>4, <3>5, <3>7, <4>4
      <4>5. QED  BY <3>2, <4>1, <4>2, <4>3, <4>4
    <3>8. QED  BY <3>3, <3>6, <3>7
  <2>3. QED  BY <1>2, <2>1, <2>2 DEF Returned, x, r
<1>8. ReturnsSound'
  <2>1. ASSUME NEW e \in Dies, turn' = DieTurn(e)  PROVE e = d + 1
    <3>1. turn' = DieTurn(d + 1) /\ d # DIES_PER_PACKAGE - 1  BY <1>1, <2>1, TurnsDiffer
    <3>2. d + 1 \in Dies  BY <3>1, FlashDiesAssumption DEF Dies
    <3>3. QED  BY <2>1, <3>1, <3>2, TurnsDiffer
  <2>2. QED  BY <1>7, <2>1 DEF ReturnsSound
<1>9. QED  BY <1>3, <1>5, <1>8 DEF StoreInv

LEMMA StoreInvNext ==
    ASSUME TypeInv, RegisterInv, StoreInv, [Next]_vars  PROVE StoreInv'
<1>1. CASE FtlUpdate  BY <1>1, FtlUpdateStoreInv
<1>2. CASE ControllerUpdate  BY <1>2, ControllerUpdateStoreInv
<1>3. ASSUME NEW d \in Dies, DieUpdate(d) PROVE StoreInv'  BY <1>3, DieUpdateStoreInv
<1>4. CASE UNCHANGED vars
      BY <1>4 DEF vars, diesVars, commandVars, planeVars, StoreInv, CommandsKept,
                  PagesRead, ReturnsSound
<1>5. QED  BY <1>1, <1>2, <1>3, <1>4 DEF Next

-----------------------------------------------------------------------------
(* Steps of the store, in terms of the packets they are seen through.      *)
LEMMA QueueTypes ==
    ASSUME TypeInv, NEW u \in Units
    PROVE  /\ OnTheWay(u) \in Seq(Packets)
           /\ CommandsOf(u, readQueues[u[1]]) \in Seq(Packets)
           /\ FromPlane(u, returnTransaction) \in Seq(Packets)
           /\ FromPlane(u, returnDataPackets[u[1]]) \in Seq(Packets)
           /\ \A type : If(Running(u, type), currentCommands[u]) \in Seq(Packets)
           /\ pendingPackets(u) \in Seq(Packets) /\ fetchedPackets(u) \in Seq(Packets)
<1>1. /\ u[1] \in Dies /\ readQueues[u[1]] \in Seq(Packets)
      /\ returnDataPackets[u[1]] \in Seq(Packets) /\ returnTransaction \in Seq(Packets)
      /\ outgoing \in MaybePacket /\ currentCommands[u] \in MaybePacket
      BY UnitTypes DEF TypeInv, TypeOK, DiesTypeOK
<1>2. OnTheWay(u) \in Seq(Packets)
      BY <1>1, SingletonSeq, EmptySeq DEF OnTheWay, If, MaybePacket
<1>3. ASSUME NEW type  PROVE If(Running(u, type), currentCommands[u]) \in Seq(Packets)
      BY <1>1, SingletonSeq, EmptySeq DEF Running, If, MaybePacket
<1>4. /\ CommandsOf(u, readQueues[u[1]]) \in Seq(Packets)
      /\ FromPlane(u, returnTransaction) \in Seq(Packets)
      /\ FromPlane(u, returnDataPackets[u[1]]) \in Seq(Packets)
  <2>1. ASSUME NEW s \in Seq(Packets)
        PROVE  CommandsOf(u, s) \in Seq(Packets) /\ FromPlane(u, s) \in Seq(Packets)
    <3>1. /\ FromPlane(u, s) = Picked(s, OfPlane(u))
          /\ CommandsOf(u, s) = Picked(s, CommandsFor(u))
          BY PlaneIsPicked
    <3>2. Picked(s, OfPlane(u)) \in Seq(Packets) /\ Picked(s, CommandsFor(u)) \in Seq(Packets)
          BY PickedType
    <3>3. QED  BY <3>1, <3>2, Zenon
  <2>2. QED  BY <1>1, <2>1, Zenon
<1> DEFINE w == If(Running(u, "WRITE"), currentCommands[u])
           r == If(Running(u, "READ"), currentCommands[u])
           c == CommandsOf(u, readQueues[u[1]])
           x == FromPlane(u, returnTransaction)
           y == FromPlane(u, returnDataPackets[u[1]])
           o == OnTheWay(u)
<1>5. pendingPackets(u) = w \o o \o c /\ fetchedPackets(u) = x \o y \o r
      BY DEF pendingPackets, fetchedPackets
<1>6. /\ w \in Seq(Packets) /\ r \in Seq(Packets) /\ c \in Seq(Packets)
      /\ x \in Seq(Packets) /\ y \in Seq(Packets) /\ o \in Seq(Packets)
      BY <1>2, <1>3, <1>4
<1> HIDE DEF w, r, c, x, y, o
<1>7. w \o o \in Seq(Packets) /\ x \o y \in Seq(Packets)  BY <1>6, ConcatProperties
<1>8. (w \o o) \o c \in Seq(Packets) /\ (x \o y) \o r \in Seq(Packets)
      BY <1>6, <1>7, ConcatProperties
<1>9. QED  BY <1>2, <1>3, <1>4, <1>5, <1>8

LEMMA AcceptMaps ==
    ASSUME TypeInv, NEW u \in Units, NEW pkt \in Packets,
           pkt.type \in {"READ", "WRITE", "ERASE"}, pkt.type = "WRITE" => pkt.data \in Data,
           \A v \in Units : /\ pendingPackets(v)' = IF v = u THEN Append(pendingPackets(v), pkt)
                                                    ELSE pendingPackets(v)
                            /\ fetchedPackets(v)' = fetchedPackets(v),
           blocks' = blocks, answers' = {}
    PROVE  Store!Next
<1> DEFINE P == [v \in Units |-> Map(Op, pendingPackets(v))]
           Q == [v \in Units |-> Map(Page, fetchedPackets(v))]
<1>1. Op(pkt) \in Store!Ops
  <2>1. pkt.page \in PageNums  BY PacketTypes
  <2>2. QED  BY <2>1 DEF Op, Store!Ops
<1>2. P' = [P EXCEPT ![u] = Append(@, Op(pkt))]
  <2>1. \A v \in Units : Map(Op, pendingPackets(v)') =
            IF v = u THEN Append(Map(Op, pendingPackets(v)), Op(pkt)) ELSE Map(Op, pendingPackets(v))
        BY QueueTypes, MapAppend
  <2>2. P' = [v \in Units |-> Map(Op, pendingPackets(v)')]  OBVIOUS
  <2>3. QED  BY <2>1, <2>2
<1>3. Q' = Q  OBVIOUS
<1>4. Store!Accept(u, Op(pkt))  BY <1>2, <1>3 DEF Store!Accept
<1>5. QED  BY <1>1, <1>4 DEF Store!Next

LEMMA OpIs ==
    ASSUME NEW pkt, pkt.type \in {"READ", "WRITE", "ERASE"}
    PROVE  /\ Op(pkt).type = pkt.type
           /\ pkt.type \in {"READ", "WRITE"} => Op(pkt).page = pkt.page
           /\ pkt.type = "WRITE" => Op(pkt).data = pkt.data
BY DEF Op

Remaining(R, u) == IF u \in R THEN Tail(fetchedPackets(u)) ELSE fetchedPackets(u)

Effect(F, W, E, R) ==
    /\ \A u \in Units :
         /\ u \in F \cup W \cup E =>
              /\ pendingPackets(u) # <<>>
              /\ u \in F => Head(pendingPackets(u)).type = "READ"
              /\ u \in W => Head(pendingPackets(u)).type = "WRITE"
              /\ u \in E => Head(pendingPackets(u)).type = "ERASE"
              /\ UnitOf(Head(pendingPackets(u))) = u
         /\ u \in R => /\ fetchedPackets(u) # <<>>
                       /\ Head(fetchedPackets(u)).type = "READ"
                       /\ UnitOf(Head(fetchedPackets(u))) = u
         /\ pendingPackets(u)' = IF u \in F \cup W \cup E THEN Tail(pendingPackets(u))
                                 ELSE pendingPackets(u)
         /\ u \notin F => fetchedPackets(u)' = Remaining(R, u)
         /\ u \in F => \E pkt \in Packets :
              /\ pkt.page = Head(pendingPackets(u)).page
              /\ pkt.data = blocks[u][Head(pendingPackets(u)).page]
              /\ fetchedPackets(u)' = Append(Remaining(R, u), pkt)
    /\ blocks' = [u \in Units |->
         IF u \in W
         THEN [blocks[u] EXCEPT ![Head(pendingPackets(u)).page] = Head(pendingPackets(u)).data]
         ELSE IF u \in E THEN [p \in PageNums |-> NoData] ELSE blocks[u]]
    /\ answers' = {Answer(Head(fetchedPackets(u))) : u \in R}
                    \cup {Answer(Head(pendingPackets(u))) : u \in W}

LEMMA OldestRead ==
    ASSUME NEW T, NEW s \in Seq(T)
    PROVE  /\ SubSeq(s, 0 + 1, Len(s)) = s
           /\ s # <<>> => SubSeq(s, 1 + 1, Len(s)) = Tail(s) /\ Len(s) \in Nat \ {0} /\ s[1] = Head(s)
<1>1. SubSeq(s, 1, Len(s)) = s  BY SubSeqFull
<1>2. ASSUME s # <<>>
      PROVE  SubSeq(s, 2, Len(s)) = Tail(s) /\ Len(s) \in Nat \ {0} /\ s[1] = Head(s)
      BY <1>2
<1>3. 0 + 1 = 1 /\ 1 + 1 = 2  OBVIOUS
<1>4. QED  BY <1>1, <1>2, <1>3

LEMMA EffectMaps ==
    ASSUME TypeInv, NEW F \in SUBSET Units, NEW W \in SUBSET Units, NEW E \in SUBSET Units,
           NEW R \in SUBSET Units, Effect(F, W, E, R)
    PROVE  Store!Next
<1> DEFINE P == [u \in Units |-> Map(Op, pendingPackets(u))]
           Q == [u \in Units |-> Map(Page, fetchedPackets(u))]
           Moves == F \cup W \cup E
<1>1. ASSUME NEW u \in Moves
      PROVE  LET pkt == Head(pendingPackets(u))
             IN  /\ u \in Units /\ pkt \in Packets /\ UnitOf(pkt) = u
                 /\ pkt.type \in {"READ", "WRITE", "ERASE"}
                 /\ u \in F => pkt.type = "READ"
                 /\ u \in W => pkt.type = "WRITE"
                 /\ u \in E => pkt.type = "ERASE"
                 /\ P[u] # <<>> /\ Head(P[u]) = Op(pkt)
                 /\ Tail(P[u]) = Map(Op, Tail(pendingPackets(u)))
  <2>1. u \in Units /\ pendingPackets(u) \in Seq(Packets) /\ pendingPackets(u) # <<>>
        BY QueueTypes DEF Effect
  <2>2. Head(pendingPackets(u)) \in Packets  BY <2>1, HeadTailProperties
  <2>3. P[u] = Map(Op, pendingPackets(u))  BY <2>1
  <2>4. QED  BY <2>1, <2>2, <2>3, MapHeadTail DEF Effect
<1>2. ASSUME NEW u \in R
      PROVE  LET pkt == Head(fetchedPackets(u))
             IN  /\ u \in Units /\ UnitOf(pkt) = u /\ pkt.type = "READ"
                 /\ Q[u] # <<>> /\ Head(Q[u]) = Page(pkt)
                 /\ Tail(Q[u]) = Map(Page, Tail(fetchedPackets(u)))
  <2>1. u \in Units /\ fetchedPackets(u) \in Seq(Packets) /\ fetchedPackets(u) # <<>>
        BY QueueTypes DEF Effect
  <2>2. Q[u] = Map(Page, fetchedPackets(u))  BY <2>1
  <2>3. QED  BY <2>1, <2>2, MapHeadTail DEF Effect
<1>3. P' = [u \in Units |-> IF u \in Moves THEN Tail(P[u]) ELSE P[u]]
  <2>1. ASSUME NEW u \in Units
        PROVE  Map(Op, pendingPackets(u)') = IF u \in Moves THEN Tail(P[u]) ELSE P[u]
    <3>1. P[u] = Map(Op, pendingPackets(u))  OBVIOUS
    <3>2. pendingPackets(u)' = IF u \in Moves THEN Tail(pendingPackets(u)) ELSE pendingPackets(u)
          BY DEF Effect
    <3>3. QED  BY <1>1, <3>1, <3>2
  <2>2. P' = [u \in Units |-> Map(Op, pendingPackets(u)')]  OBVIOUS
  <2> HIDE DEF P
  <2>3. QED  BY <2>1, <2>2
<1>4. ASSUME NEW u \in Units
      PROVE  /\ Remaining(R, u) \in Seq(Packets)
             /\ Map(Page, Remaining(R, u)) = IF u \in R THEN Tail(Q[u]) ELSE Q[u]
             /\ Map(Page, Remaining(R, u)) \o <<>> = Map(Page, Remaining(R, u))
  <2>1. fetchedPackets(u) \in Seq(Packets)  BY QueueTypes
  <2>2. u \in R => Tail(fetchedPackets(u)) \in Seq(Packets)
        BY <2>1, HeadTailProperties DEF Effect
  <2>3. Remaining(R, u) \in Seq(Packets)  BY <2>1, <2>2 DEF Remaining
  <2>4. Q[u] = Map(Page, fetchedPackets(u))  OBVIOUS
  <2>5. Map(Page, Remaining(R, u)) \in Seq({PageOf[pkt] : pkt \in Packets})
        BY <2>3, MapIsMapped, MappedSeq
  <2>6. Map(Page, Remaining(R, u)) \o <<>> = Map(Page, Remaining(R, u))
        BY <2>5, ConcatEmptySeq
  <2>7. Map(Page, Remaining(R, u)) = IF u \in R THEN Tail(Q[u]) ELSE Q[u]
        BY <1>2, <2>4 DEF Remaining
  <2>8. QED  BY <2>3, <2>6, <2>7
<1>5. Q' = [u \in Units |->
              (IF u \in R THEN Tail(Q[u]) ELSE Q[u])
              \o (IF u \in F THEN <<[page |-> Head(P[u]).page,
                                     data |-> blocks[u][Head(P[u]).page]]>>
                  ELSE <<>>)]
  <2>1. ASSUME NEW u \in Units
        PROVE  Map(Page, fetchedPackets(u)') =
                  (IF u \in R THEN Tail(Q[u]) ELSE Q[u])
                  \o (IF u \in F THEN <<[page |-> Head(P[u]).page,
                                         data |-> blocks[u][Head(P[u]).page]]>>
                      ELSE <<>>)
    <3> DEFINE m == Map(Page, Remaining(R, u))
    <3>1. m = IF u \in R THEN Tail(Q[u]) ELSE Q[u]  BY <1>4
    <3>2. CASE u \notin F
      <4>1. fetchedPackets(u)' = Remaining(R, u)  BY <3>2 DEF Effect
      <4>2. m \o <<>> = m  BY <1>4
      <4> HIDE DEF Q, P
      <4>3. QED  BY <3>1, <3>2, <4>1, <4>2
    <3>3. CASE u \in F
      <4> DEFINE c == Head(pendingPackets(u))
      <4>1. PICK pkt \in Packets : /\ pkt.page = c.page /\ pkt.data = blocks[u][c.page]
                                   /\ fetchedPackets(u)' = Append(Remaining(R, u), pkt)
            BY <3>3 DEF Effect
      <4>2. Map(Page, Append(Remaining(R, u), pkt)) = Append(m, Page(pkt))
            BY <1>4, MapAppend
      <4>3. Head(P[u]) = Op(c) /\ c.type = "READ"  BY <1>1, <3>3
      <4>4. Head(P[u]).page = c.page
        <5> HIDE DEF c, P
        <5>1. QED  BY <4>3, OpIs
      <4>5. m \in Seq({PageOf[p] : p \in Packets})
        <5> DEFINE s == Remaining(R, u)
        <5>1. s \in Seq(Packets)  BY <1>4
        <5> HIDE DEF s
        <5>2. Map(Page, s) \in Seq({PageOf[p] : p \in Packets})
              BY <5>1, MapIsMapped, MappedSeq
        <5>3. QED  BY <5>2 DEF s
      <4>6. Append(m, Page(pkt)) = m \o <<Page(pkt)>>
        <5>1. PageOf[pkt] = Page(pkt)  BY DEF PageOf
        <5>2. Page(pkt) \in {PageOf[p] : p \in Packets}
          <6> HIDE DEF PageOf
          <6>1. QED  BY <5>1
        <5> HIDE DEF m
        <5>3. QED  BY <4>5, <5>2, AppendIsConcat
      <4>7. Page(pkt) = [page |-> Head(P[u]).page, data |-> blocks[u][Head(P[u]).page]]
            BY <4>1, <4>4 DEF Page
      <4> HIDE DEF m, P, Q, c
      <4>8. QED  BY <3>1, <3>3, <4>1, <4>2, <4>6, <4>7
    <3>4. QED  BY <3>2, <3>3
  <2>2. Q' = [u \in Units |-> Map(Page, fetchedPackets(u)')]  OBVIOUS
  <2> HIDE DEF P, Q
  <2>3. QED  BY <2>1, <2>2
<1>6. blocks' = [u \in Units |->
                   IF u \in W THEN [blocks[u] EXCEPT ![Head(P[u]).page] = Head(P[u]).data]
                   ELSE IF u \in E THEN [p \in PageNums |-> NoData] ELSE blocks[u]]
  <2>1. ASSUME NEW u \in W
        PROVE  /\ Head(P[u]).page = Head(pendingPackets(u)).page
               /\ Head(P[u]).data = Head(pendingPackets(u)).data
    <3> DEFINE c == Head(pendingPackets(u))
    <3>1. c.type = "WRITE" /\ Head(P[u]) = Op(c)  BY <1>1
    <3> HIDE DEF c, P
    <3>2. QED  BY <3>1, OpIs DEF c
  <2> HIDE DEF P
  <2>2. QED  BY <2>1 DEF Effect
<1>7. answers' = {Store!ReadAnswer(u, Head(Q[u])) : u \in R}
                   \cup {Store!WriteAnswer(u, Head(P[u]).page) : u \in W}
  <2>1. ASSUME NEW u \in R
        PROVE  Answer(Head(fetchedPackets(u))) = Store!ReadAnswer(u, Head(Q[u]))
    <3> DEFINE c == Head(fetchedPackets(u))
    <3>1. UnitOf(c) = u /\ c.type = "READ" /\ Head(Q[u]) = Page(c)  BY <1>2
    <3> HIDE DEF c
    <3>2. Answer(c) = Store!ReadAnswer(u, Page(c))
          BY <3>1 DEF Answer, Page, Store!ReadAnswer
    <3>3. QED  BY <3>1, <3>2 DEF c
  <2>2. ASSUME NEW u \in W
        PROVE  Answer(Head(pendingPackets(u))) = Store!WriteAnswer(u, Head(P[u]).page)
    <3> DEFINE c == Head(pendingPackets(u))
    <3>1. UnitOf(c) = u /\ c.type = "WRITE" /\ Head(P[u]) = Op(c)  BY <1>1
    <3> HIDE DEF c
    <3>2. Answer(c) = Store!WriteAnswer(u, Op(c).page)
          BY <3>1 DEF Answer, Op, Store!WriteAnswer
    <3>3. QED  BY <3>1, <3>2 DEF c
  <2> HIDE DEF P, Q
  <2>3. QED  BY <2>1, <2>2 DEF Effect
<1>8. /\ F \in SUBSET Store!NextIs("READ") /\ W \in SUBSET Store!NextIs("WRITE")
      /\ E \in SUBSET Store!NextIs("ERASE")
      /\ R \in SUBSET {u \in Units : Q[u] # <<>>}
  <2>1. ASSUME NEW u \in Moves  PROVE Head(P[u]).type = Head(pendingPackets(u)).type
    <3> DEFINE c == Head(pendingPackets(u))
    <3>1. c.type \in {"READ", "WRITE", "ERASE"} /\ Head(P[u]) = Op(c)  BY <1>1
    <3> HIDE DEF c, P
    <3>2. QED  BY <3>1, OpIs DEF c
  <2>2. Store!NextIs("READ") = {u \in Units : P[u] # <<>> /\ Head(P[u]).type = "READ"}
        BY DEF Store!NextIs
  <2>3. Store!NextIs("WRITE") = {u \in Units : P[u] # <<>> /\ Head(P[u]).type = "WRITE"}
        BY DEF Store!NextIs
  <2>4. Store!NextIs("ERASE") = {u \in Units : P[u] # <<>> /\ Head(P[u]).type = "ERASE"}
        BY DEF Store!NextIs
  <2> HIDE DEF P, Q
  <2>5. QED  BY <1>1, <1>2, <2>1, <2>2, <2>3, <2>4
<1> DEFINE n == [u \in Units |-> IF u \in R THEN 1 ELSE 0]
<1>9. ASSUME NEW u \in Units
      PROVE  /\ SubSeq(Q[u], n[u] + 1, Len(Q[u])) = IF u \in R THEN Tail(Q[u]) ELSE Q[u]
             /\ n[u] \in 0 .. Len(Q[u])
             /\ {Store!ReadAnswer(u, Q[u][i]) : i \in 1 .. n[u]} =
                  {Store!ReadAnswer(v, Head(Q[v])) : v \in R \cap {u}}
  <2>1. Q[u] \in Seq({PageOf[p] : p \in Packets})
    <3>1. fetchedPackets(u) \in Seq(Packets)  BY QueueTypes
    <3>2. Map(Page, fetchedPackets(u)) \in Seq({PageOf[p] : p \in Packets})
          BY <3>1, MapIsMapped, MappedSeq
    <3>3. QED  BY <3>2
  <2>2. u \in R => Q[u] # <<>>  BY <1>8
  <2>3. n[u] = IF u \in R THEN 1 ELSE 0  OBVIOUS
  <2> DEFINE q == Q[u]
             T == {PageOf[p] : p \in Packets}
  <2>4. q \in Seq(T) /\ (u \in R => q # <<>>)  BY <2>1, <2>2
  <2>5. Len(q) \in Nat
    <3> HIDE DEF q, T
    <3>1. QED  BY <2>4
  <2>6. /\ SubSeq(q, 0 + 1, Len(q)) = q
        /\ q # <<>> => SubSeq(q, 1 + 1, Len(q)) = Tail(q) /\ Len(q) \in Nat \ {0} /\ q[1] = Head(q)
    <3> HIDE DEF q, T
    <3>1. QED  BY <2>4, OldestRead
  <2> HIDE DEF Q, n
  <2>7. CASE u \in R
    <3>1. n[u] = 1 /\ 1 .. 1 = {1} /\ R \cap {u} = {u}  BY <2>3, <2>7
    <3>2. n[u] \in 0 .. Len(q)
      <4> HIDE DEF q
      <4>1. QED  BY <2>4, <2>6, <2>7, <3>1
    <3>3. {Store!ReadAnswer(u, Q[u][i]) : i \in 1 .. n[u]} = {Store!ReadAnswer(u, Head(Q[u]))}
          BY <2>4, <2>6, <2>7, <3>1
    <3>4. {Store!ReadAnswer(v, Head(Q[v])) : v \in R \cap {u}} = {Store!ReadAnswer(u, Head(Q[u]))}
          BY <3>1
    <3>5. SubSeq(Q[u], n[u] + 1, Len(Q[u])) = Tail(Q[u])  BY <2>4, <2>6, <2>7, <3>1
    <3>6. QED  BY <2>7, <3>2, <3>3, <3>4, <3>5
  <2>8. CASE u \notin R
    <3>1. n[u] = 0 /\ 1 .. 0 = {} /\ R \cap {u} = {}  BY <2>3, <2>8
    <3>2. n[u] \in 0 .. Len(q)  BY <2>5, <3>1
    <3>3. SubSeq(Q[u], n[u] + 1, Len(Q[u])) = Q[u]  BY <2>6, <3>1
    <3>4. QED  BY <2>8, <3>1, <3>2, <3>3
  <2>9. QED  BY <2>7, <2>8
<1>10. n \in Store!ReadCounts
  <2>1. n \in [Units -> UNION {0 .. Len(Q[u]) : u \in Units}]
    <3>1. \A u \in Units : n[u] \in UNION {0 .. Len(Q[v]) : v \in Units}
      <4> HIDE DEF Q, n
      <4>1. QED  BY <1>9
    <3>2. \E f : n = [u \in Units |-> f[u]]
      <4>1. n = [u \in Units |-> n[u]]  OBVIOUS
      <4> HIDE DEF n
      <4>2. QED  BY <4>1
    <3> HIDE DEF Q, n
    <3>3. QED  BY <3>1, <3>2
  <2>2. \A u \in Units : n[u] <= Len(Q[u])
    <3> HIDE DEF Q, n
    <3>1. QED  BY <1>9
  <2>3. Store!ReadCounts = {S \in [Units -> UNION {0 .. Len(Q[u]) : u \in Units}] :
                              \A u \in Units : S[u] <= Len(Q[u])}
        BY DEF Store!ReadCounts
  <2> HIDE DEF Q, n
  <2>4. QED  BY <2>1, <2>2, <2>3
<1>11. Store!Step(F, W, E, n)
  <2>1. [p \in PageNums |-> NoData] = Store!Erased  BY DEF Store!Erased
  <2>2. UNION {{Store!ReadAnswer(u, Q[u][i]) : i \in 1 .. n[u]} : u \in Units} =
          {Store!ReadAnswer(u, Head(Q[u])) : u \in R}
    <3> HIDE DEF Q, n
    <3> DEFINE A(u) == {Store!ReadAnswer(u, Q[u][i]) : i \in 1 .. n[u]}
               H(u) == Store!ReadAnswer(u, Head(Q[u]))
    <3>1. \A u \in Units : A(u) = {H(v) : v \in R \cap {u}}  BY <1>9
    <3> HIDE DEF A, H
    <3>2. UNION {A(u) : u \in Units} = {H(u) : u \in R}  BY <3>1
    <3>3. QED  BY <3>2 DEF A, H
  <2>3. Q' = [u \in Units |->
                SubSeq(Q[u], n[u] + 1, Len(Q[u]))
                \o (IF u \in F THEN <<[page |-> Head(P[u]).page,
                                       data |-> blocks[u][Head(P[u]).page]]>>
                    ELSE <<>>)]
    <3> HIDE DEF Q, P, n
    <3>1. QED  BY <1>5, <1>9
  <2>4. answers' = (UNION {{Store!ReadAnswer(u, Q[u][i]) : i \in 1 .. n[u]} : u \in Units})
                     \cup {Store!WriteAnswer(u, Head(P[u]).page) : u \in W}
    <3> HIDE DEF Q, P, n
    <3>1. QED  BY <1>7, <2>2
  <2>5. QED  BY <1>3, <1>6, <2>1, <2>3, <2>4 DEF Store!Step
<1>12. QED  BY <1>8, <1>10, <1>11 DEF Store!Next

-----------------------------------------------------------------------------
(* The FTL: a command is accepted, or nothing happens.                     *)
LEMMA JoinMaps ==
    ASSUME TypeInv, NEW u \in Units, NEW pkt \in Packets, UnitOf(pkt) = u,
           pkt.type \in {"READ", "WRITE", "ERASE"}, NEW t \in Seq(Packets),
           \/ t = <<pkt>>
           \/ \E data \in Packets : data.type = "DATA" /\ t = <<data, pkt>>,
           readQueues' = [readQueues EXCEPT ![u[1]] = @ \o t],
           UNCHANGED <<outgoing, currentCommands, returnTransaction, returnDataPackets>>,
           NEW v \in Units
    PROVE  /\ pendingPackets(v)' = IF v = u THEN Append(pendingPackets(v), pkt)
                                   ELSE pendingPackets(v)
           /\ fetchedPackets(v)' = fetchedPackets(v)
<1> DEFINE q == readQueues[v[1]]
           w == If(Running(v, "WRITE"), currentCommands[v])
           o == OnTheWay(v)
           c == CommandsOf(v, q)
           new == If(v = u, pkt)
<1>1. /\ u[1] \in Dies /\ v[1] \in Dies /\ readQueues \in [Dies -> Seq(Packets)]
      /\ q \in Seq(Packets) /\ w \in Seq(Packets) /\ o \in Seq(Packets) /\ c \in Seq(Packets)
      BY UnitTypes, QueueTypes DEF TypeInv, TypeOK, DiesTypeOK
<1>2. new \in Seq(Packets)  BY SingletonSeq, EmptySeq DEF If
<1>3. fetchedPackets(v)' = fetchedPackets(v)  BY DEF fetchedPackets, Running
<1>4. pkt \in CommandsFor(v) <=> v = u  BY DEF CommandsFor, CommandOf
<1>5. If(pkt \in CommandsFor(v), pkt) = new  BY <1>4 DEF If
<1>6. Picked(t, CommandsFor(v)) = new
  <2>1. CASE t = <<pkt>>  BY <1>5, <2>1, PickedSingle
  <2>2. ASSUME NEW data \in Packets, data.type = "DATA", t = <<data, pkt>>
        PROVE  Picked(t, CommandsFor(v)) = new
    <3>1. <<data>> \in Seq(Packets) /\ t = Append(<<data>>, pkt)  BY <2>2
    <3>2. Picked(t, CommandsFor(v)) = Picked(<<data>>, CommandsFor(v)) \o new
      <4> DEFINE first == <<data>>
                 T == CommandsFor(v)
      <4>1. first \in Seq(Packets) /\ t = Append(first, pkt) /\ If(pkt \in T, pkt) = new
            BY <1>5, <3>1
      <4> HIDE DEF first, T, new
      <4>2. Picked(Append(first, pkt), T) = Picked(first, T) \o If(pkt \in T, pkt)
            BY <4>1, PickedAppend
      <4>3. QED  BY <4>1, <4>2 DEF first, T
    <3>3. Picked(<<data>>, CommandsFor(v)) = <<>>
          BY <2>2, PickedSingle DEF CommandsFor, CommandOf, If
    <3> HIDE DEF new
    <3>4. QED  BY <1>2, <3>2, <3>3, ConcatEmptySeq
  <2>3. QED  BY <2>1, <2>2
<1>7. CommandsOf(v, readQueues'[v[1]]) = c \o new
  <2>1. CASE v[1] = u[1]
    <3>1. readQueues'[v[1]] = q \o t  BY <1>1, <2>1
    <3> HIDE DEF q
    <3>2. q \o t \in Seq(Packets)  BY <1>1, ConcatProperties
    <3>3. CommandsOf(v, q \o t) = Picked(q \o t, CommandsFor(v))
          BY <3>2, PlaneIsPicked
    <3>4. Picked(q \o t, CommandsFor(v)) = Picked(q, CommandsFor(v)) \o Picked(t, CommandsFor(v))
      <4>1. q \in Seq(Packets) /\ t \in Seq(Packets)  BY <1>1
      <4>2. QED  BY <4>1, PickedConcat
    <3>5. Picked(q, CommandsFor(v)) = c  BY <1>1, PlaneIsPicked
    <3>6. QED  BY <1>6, <3>1, <3>3, <3>4, <3>5
  <2>2. CASE v[1] # u[1]
    <3>1. readQueues'[v[1]] = q  BY <1>1, <2>2
    <3>2. new = <<>>  BY <2>2 DEF If
    <3> HIDE DEF new, c
    <3>3. c \o new = c  BY <1>1, <3>2, ConcatEmptySeq
    <3>4. QED  BY <3>1, <3>3 DEF c
  <2>3. QED  BY <2>1, <2>2
<1>8. pendingPackets(v)' = w \o o \o CommandsOf(v, readQueues'[v[1]])
      BY DEF pendingPackets, Running, OnTheWay
<1>9. pendingPackets(v) = w \o o \o c  BY DEF pendingPackets
<1>10. new = IF v = u THEN <<pkt>> ELSE <<>>  BY DEF If
<1> HIDE DEF w, o, c, new
<1>11. w \o o \in Seq(Packets)  BY <1>1, ConcatProperties
<1>12. (w \o o) \o (c \o new) = ((w \o o) \o c) \o new
  <2> DEFINE a == w \o o
  <2>1. a \in Seq(Packets) /\ c \in Seq(Packets) /\ new \in Seq(Packets)
        BY <1>1, <1>2, <1>11
  <2> HIDE DEF a
  <2>2. (a \o c) \o new = a \o (c \o new)  BY <2>1, ConcatAssociative
  <2>3. QED  BY <2>2 DEF a
<1>13. pendingPackets(v)' = pendingPackets(v) \o new  BY <1>7, <1>8, <1>9, <1>12
<1>14. pendingPackets(v) \in Seq(Packets)  BY QueueTypes
<1>15. Append(pendingPackets(v), pkt) = pendingPackets(v) \o <<pkt>>
       BY <1>14, AppendIsConcat
<1>16. pendingPackets(v) \o <<>> = pendingPackets(v)  BY <1>14, ConcatEmptySeq
<1>17. QED  BY <1>3, <1>10, <1>13, <1>15, <1>16

(* A step in which no plane moves.                                         *)
LEMMA NothingMaps ==
    ASSUME TypeInv,
           \A u \in Units : /\ pendingPackets(u)' = pendingPackets(u)
                            /\ fetchedPackets(u)' = fetchedPackets(u),
           blocks' = blocks, answers' = {}
    PROVE  Store!Next
<1>1. blocks = [u \in Units |-> blocks[u]]  BY DEF TypeInv, TypeOK, DiesTypeOK
<1>2. Effect({}, {}, {}, {})  BY <1>1 DEF Effect, Remaining
<1>3. QED  BY <1>2, EffectMaps

LEMMA FtlUpdateMaps == ASSUME HostCommands, TypeInv, FtlUpdate  PROVE Store!Next
<1>1. /\ UNCHANGED <<outgoing, currentCommands, returnTransaction, returnDataPackets, blocks>>
      /\ answers' = {} /\ FtlGives
      BY DEF FtlUpdate, FtlGives, commandVars, planeVars
<1>2. ASSUME NEW u \in Units, NEW p \in PageNums,
             NEW type \in Commands \cap {"READ", "GC_READ", "ERASE"},
             addPacket(Packet(type, u, p, NoData))
      PROVE  Store!Next
  <2> DEFINE c == Packet(type, u, p, NoData)
             t == <<c>>
  <2>1. /\ c \in Packets /\ c.die = u[1] /\ UnitOf(c) = u
        /\ c.type \in {"READ", "ERASE"}
        BY UnitTypes DEF Packet, Packets, HostCommands, UnitOf
  <2>2. readQueues' = [readQueues EXCEPT ![c.die] = Append(@, c)]  BY <1>2 DEF addPacket
  <2> HIDE DEF c
  <2>3. u[1] \in Dies /\ readQueues \in [Dies -> Seq(Packets)]
        BY UnitTypes DEF TypeInv, TypeOK, DiesTypeOK
  <2>4. t \in Seq(Packets)  BY <2>1
  <2>5. readQueues' = [readQueues EXCEPT ![u[1]] = @ \o t]
    <3> DEFINE d == u[1]
    <3>1. Append(readQueues[d], c) = readQueues[d] \o t  BY <2>1, <2>3, AppendIsConcat
    <3>2. readQueues' = [readQueues EXCEPT ![d] = Append(readQueues[d], c)]  BY <2>1, <2>2
    <3> HIDE DEF d, t
    <3>3. readQueues' = [readQueues EXCEPT ![d] = readQueues[d] \o t]  BY <3>1, <3>2
    <3>4. QED  BY <3>3 DEF d
  <2>6. ASSUME NEW v \in Units
        PROVE  /\ pendingPackets(v)' = IF v = u THEN Append(pendingPackets(v), c)
                                       ELSE pendingPackets(v)
               /\ fetchedPackets(v)' = fetchedPackets(v)
        BY <1>1, <2>1, <2>4, <2>5, JoinMaps
  <2>7. QED  BY <1>1, <2>1, <2>6, AcceptMaps
<1>3. ASSUME NEW u \in Units, NEW p \in PageNums, NEW x \in Data,
             NEW type \in Commands \cap {"WRITE", "GC_WRITE"}, addWrite(type, u, p, x)
      PROVE  Store!Next
  <2> DEFINE data == Packet("DATA", u, p, x)
             c == Packet(type, u, p, x)
             t == <<data, c>>
  <2>1. /\ data \in Packets /\ data.type = "DATA"
        /\ c \in Packets /\ UnitOf(c) = u /\ c.type = "WRITE" /\ c.data = x
        BY UnitTypes DEF Packet, Packets, HostCommands, UnitOf
  <2>2. readQueues' = [readQueues EXCEPT ![u[1]] = @ \o t]  BY <1>3 DEF addWrite
  <2> HIDE DEF data, c
  <2>3. t \in Seq(Packets)  BY <2>1
  <2>4. ASSUME NEW v \in Units
        PROVE  /\ pendingPackets(v)' = IF v = u THEN Append(pendingPackets(v), c)
                                       ELSE pendingPackets(v)
               /\ fetchedPackets(v)' = fetchedPackets(v)
        BY <1>1, <2>1, <2>2, <2>3, JoinMaps
  <2>5. QED  BY <1>1, <2>1, <2>4, AcceptMaps
<1>4. CASE UNCHANGED readQueues
  <2>1. \A u \in Units : /\ pendingPackets(u)' = pendingPackets(u)
                         /\ fetchedPackets(u)' = fetchedPackets(u)
        BY <1>1, <1>4 DEF pendingPackets, fetchedPackets, Running, OnTheWay
  <2>2. QED  BY <1>1, <2>1, NothingMaps
<1>5. QED  BY <1>1, <1>2, <1>3, <1>4 DEF FtlGives

-----------------------------------------------------------------------------
(* The controller.  A packet that is placed stays where it was among the   *)
(* commands of its plane.                                                  *)
Sent(u, out) == If(out # NoPacket /\ CommandOf(u, out), out)

LEMMA PlaceKeeps ==
    ASSUME TypeInv, RegisterInv, PlacePacket(Placeable), NEW u \in Units
    PROVE  /\ Sent(u, OnChannel) \in Seq(Packets)
           /\ CommandsOf(u, readQueues'[u[1]]) \in Seq(Packets)
           /\ Sent(u, OnChannel) \o CommandsOf(u, readQueues'[u[1]])
                = OnTheWay(u) \o CommandsOf(u, readQueues[u[1]])
<1>1. /\ readQueues' \in [Dies -> Seq(Packets)] /\ OnChannel \in MaybePacket
      /\ u[1] \in Dies /\ readQueues \in [Dies -> Seq(Packets)]
      BY PlaceType, UnitTypes DEF TypeInv, TypeOK, DiesTypeOK
<1>2. Sent(u, OnChannel) \in Seq(Packets)
      BY <1>1, SingletonSeq, EmptySeq DEF Sent, If, MaybePacket
<1>3. CommandsOf(u, readQueues'[u[1]]) \in Seq(Packets)
      BY <1>1, PlaneIsPicked, PickedType
<1>4. CASE Placeable = {}
  <2>1. OnChannel = outgoing /\ readQueues' = readQueues  BY <1>4 DEF PlacePacket, OnChannel
  <2>2. QED  BY <1>2, <1>3, <2>1 DEF Sent, OnTheWay
<1>5. CASE Placeable # {}
  <2> DEFINE d == FirstDie(Placeable)
             q == readQueues[d]
  <2>1. /\ d \in Dies /\ outgoing = NoPacket /\ q # <<>>
        /\ OnChannel \in Packets /\ OnChannel = Head(q)
        BY <1>5, Placed
  <2>2. readQueues' = [readQueues EXCEPT ![d] = Tail(q)]  BY <1>5 DEF PlacePacket
  <2> HIDE DEF d
  <2>3. q \in Seq(Packets)  BY <1>1, <2>1
  <2>4. OnChannel.die = d
    <3>1. 1 \in 1 .. Len(q) /\ Head(q) = q[1]  BY <2>1, <2>3, EmptySeq, LenProperties
    <3>2. q[1].die = d
          BY <2>1, <3>1 DEF RegisterInv, PacketsSound, QueuesSound
    <3>3. QED  BY <2>1, <3>1, <3>2
  <2>5. OnTheWay(u) = <<>>  BY <2>1 DEF OnTheWay, If
  <2> DEFINE c == CommandsOf(u, readQueues[u[1]])
             o == Sent(u, OnChannel)
             r == CommandsOf(u, readQueues'[u[1]])
  <2>6. c \in Seq(Packets) /\ o \in Seq(Packets) /\ r \in Seq(Packets)
        BY <1>2, <1>3, QueueTypes
  <2>7. CASE u[1] = d
    <3>1. readQueues'[u[1]] = Tail(q) /\ readQueues[u[1]] = q  BY <1>1, <2>2, <2>7
    <3> HIDE DEF q
    <3>2. Picked(q, CommandsFor(u)) =
            If(Head(q) \in CommandsFor(u), Head(q)) \o Picked(Tail(q), CommandsFor(u))
          BY <2>1, <2>3, PickedHead
    <3>3. c = Picked(q, CommandsFor(u))  BY <2>3, <3>1, PlaneIsPicked
    <3>4. Tail(q) \in Seq(Packets)  BY <2>1, <2>3, HeadTailProperties
    <3>5. r = Picked(Tail(q), CommandsFor(u))  BY <3>1, <3>4, PlaneIsPicked
    <3>6. o = If(Head(q) \in CommandsFor(u), Head(q))
      <4>1. OnChannel # NoPacket  BY <2>1, PacketTypes
      <4>2. OnChannel \in CommandsFor(u) <=> CommandOf(u, OnChannel)
            BY <2>1 DEF CommandsFor
      <4>3. QED  BY <2>1, <4>1, <4>2 DEF Sent, If
    <3>7. c = o \o r  BY <3>2, <3>3, <3>5, <3>6
    <3> HIDE DEF c, o, r
    <3>8. <<>> \o c = c  BY <2>6, ConcatEmptySeq
    <3>9. QED  BY <1>2, <1>3, <2>5, <3>7, <3>8 DEF c, o, r
  <2>8. CASE u[1] # d
    <3>1. readQueues'[u[1]] = readQueues[u[1]]  BY <1>1, <2>2, <2>8
    <3>2. UnitOf(OnChannel)[1] = d  BY <2>4 DEF UnitOf
    <3>3. o = <<>>  BY <2>8, <3>2 DEF Sent, CommandOf, If
    <3>4. QED  BY <1>2, <1>3, <2>5, <3>1, <3>3
  <2>9. QED  BY <2>7, <2>8
<1>6. QED  BY <1>4, <1>5

(* The reads an update of the controller answers: at most one of a plane.  *)
Answering == {u \in Units : FromPlane(u, returnTransaction) # <<>>}

LEMMA ReturnsOnce ==
    ASSUME TypeInv, StoreInv, NEW u \in Units
    PROVE  \/ /\ FromPlane(u, returnTransaction) = <<>>
              /\ \A i \in 1 .. Len(returnTransaction) : UnitOf(returnTransaction[i]) # u
           \/ \E i \in 1 .. Len(returnTransaction) :
                /\ FromPlane(u, returnTransaction) = <<returnTransaction[i]>>
                /\ returnTransaction[i] \in Packets /\ returnTransaction[i].type = "READ"
                /\ UnitOf(returnTransaction[i]) = u
                /\ \A j \in 1 .. Len(returnTransaction) :
                     UnitOf(returnTransaction[j]) = u => j = i
<1> DEFINE x == returnTransaction
<1>0. x \in Seq(Packets) /\ Len(x) \in Nat
      BY LenProperties DEF TypeInv, TypeOK, DiesTypeOK
<1>1. FromPlane(u, x) = Picked(x, OfPlane(u))  BY <1>0, PlaneIsPicked
<1>2. \A i \in 1 .. Len(x) : /\ x[i] \in Packets /\ x[i].type = "READ"
                             /\ x[i] \in OfPlane(u) <=> UnitOf(x[i]) = u
      BY <1>0, ElementOfSeq DEF StoreInv, ReturnsSound, OfPlane
<1>3. \A i, j \in 1 .. Len(x) : UnitOf(x[i]) = UnitOf(x[j]) => i = j
  <2>1. \A i \in 1 .. Len(x) : UnitOf(x[i])[1] = x[i].die  BY DEF UnitOf
  <2>2. QED  BY <2>1 DEF StoreInv, ReturnsSound
<1> HIDE DEF x
<1>4. CASE \A i \in 1 .. Len(x) : UnitOf(x[i]) # u
  <2>1. \A i \in 1 .. Len(x) : x[i] \notin OfPlane(u)  BY <1>2, <1>4
  <2>2. QED  BY <1>0, <1>1, <1>4, <2>1, PickedNone DEF x
<1>5. ASSUME NEW i \in 1 .. Len(x), UnitOf(x[i]) = u
      PROVE  /\ FromPlane(u, x) = <<x[i]>>
             /\ \A j \in 1 .. Len(x) : UnitOf(x[j]) = u => j = i
  <2>1. \A j \in 1 .. Len(x) : UnitOf(x[j]) = u <=> j = i  BY <1>3, <1>5
  <2>2. \A j \in 1 .. Len(x) : x[j] \in OfPlane(u) <=> j = i  BY <1>2, <2>1
  <2>3. i \in 0 .. Len(x) /\ i # 0  BY <1>0
  <2>4. Picked(x, OfPlane(u)) = IF i = 0 THEN <<>> ELSE <<x[i]>>
        BY <1>0, <2>2, <2>3, PickedOnly
  <2>5. QED  BY <1>1, <2>1, <2>3, <2>4
<1>6. QED  BY <1>2, <1>4, <1>5 DEF x

LEMMA AnswersMap ==
    ASSUME TypeInv, StoreInv
    PROVE  /\ {Answer(returnTransaction[i]) : i \in DOMAIN returnTransaction}
                = {Answer(Head(fetchedPackets(u))) : u \in Answering}
           /\ \A u \in Answering : /\ fetchedPackets(u) # <<>>
                                   /\ Head(fetchedPackets(u)).type = "READ"
                                   /\ UnitOf(Head(fetchedPackets(u))) = u
           /\ \A u \in Units :
                Remaining(Answering, u) = FromPlane(u, returnDataPackets[u[1]])
                                            \o If(Running(u, "READ"), currentCommands[u])
<1> DEFINE x == returnTransaction
<1>0. x \in Seq(Packets) /\ DOMAIN x = 1 .. Len(x)
      BY LenProperties DEF TypeInv, TypeOK, DiesTypeOK
<1>1. ASSUME NEW u \in Units
      PROVE  \/ /\ u \notin Answering /\ \A i \in 1 .. Len(x) : UnitOf(x[i]) # u
                /\ fetchedPackets(u) = FromPlane(u, returnDataPackets[u[1]])
                                         \o If(Running(u, "READ"), currentCommands[u])
             \/ /\ u \in Answering
                /\ \E i \in 1 .. Len(x) :
                     /\ x[i] \in Packets /\ x[i].type = "READ" /\ UnitOf(x[i]) = u
                     /\ fetchedPackets(u) # <<>> /\ Head(fetchedPackets(u)) = x[i]
                     /\ \A j \in 1 .. Len(x) : UnitOf(x[j]) = u => j = i
                /\ Tail(fetchedPackets(u)) = FromPlane(u, returnDataPackets[u[1]])
                                               \o If(Running(u, "READ"), currentCommands[u])
  <2> DEFINE y == FromPlane(u, returnDataPackets[u[1]])
             r == If(Running(u, "READ"), currentCommands[u])
             a == FromPlane(u, x)
  <2>1. a \in Seq(Packets) /\ y \in Seq(Packets) /\ r \in Seq(Packets)
        BY QueueTypes
  <2>2. fetchedPackets(u) = a \o y \o r  BY DEF fetchedPackets
  <2>3. u \in Answering <=> a # <<>>  BY DEF Answering
  <2>4. \/ a = <<>> /\ \A i \in 1 .. Len(x) : UnitOf(x[i]) # u
        \/ \E i \in 1 .. Len(x) :
             /\ a = <<x[i]>> /\ x[i] \in Packets /\ x[i].type = "READ" /\ UnitOf(x[i]) = u
             /\ \A j \in 1 .. Len(x) : UnitOf(x[j]) = u => j = i
        BY ReturnsOnce
  <2> HIDE DEF a, y, r, x
  <2>5. (a \o y) \o r = a \o (y \o r) /\ y \o r \in Seq(Packets)
        BY <2>1, ConcatAssociative, ConcatProperties
  <2>6. CASE a = <<>> /\ \A i \in 1 .. Len(x) : UnitOf(x[i]) # u
    <3>1. <<>> \o (y \o r) = y \o r  BY <2>5, ConcatEmptySeq
    <3>2. QED  BY <2>2, <2>3, <2>5, <2>6, <3>1 DEF y, r
  <2>7. ASSUME NEW i \in 1 .. Len(x), a = <<x[i]>>, x[i] \in Packets
        PROVE  /\ u \in Answering /\ fetchedPackets(u) # <<>>
               /\ Head(fetchedPackets(u)) = x[i] /\ Tail(fetchedPackets(u)) = y \o r
    <3> DEFINE e == x[i]
               z == y \o r
    <3>1. e \in Packets /\ z \in Seq(Packets) /\ fetchedPackets(u) = <<e>> \o z
          BY <2>2, <2>5, <2>7
    <3> HIDE DEF e, z
    <3>2. <<e>> \o z # <<>> /\ Head(<<e>> \o z) = e /\ Tail(<<e>> \o z) = z
          BY <3>1, HeadOfConcat
    <3>3. a # <<>>  BY <2>7
    <3>4. QED  BY <2>3, <3>1, <3>2, <3>3 DEF e, z
  <2>8. QED  BY <2>4, <2>6, <2>7 DEF y, r
<1>2. {Answer(x[i]) : i \in DOMAIN x} = {Answer(Head(fetchedPackets(u))) : u \in Answering}
  <2>1. ASSUME NEW i \in 1 .. Len(x)
        PROVE  \E u \in Answering : Head(fetchedPackets(u)) = x[i]
    <3> DEFINE u == UnitOf(x[i])
    <3>1. x[i] \in Packets  BY <1>0, ElementOfSeq
    <3>2. u \in Units  BY <3>1, PacketTypes
    <3> HIDE DEF x
    <3>3. QED  BY <1>1, <3>2
  <2>2. ASSUME NEW u \in Answering
        PROVE  \E i \in 1 .. Len(x) : Head(fetchedPackets(u)) = x[i]
    <3>1. u \in Units  BY DEF Answering
    <3> HIDE DEF x
    <3>2. QED  BY <1>1, <3>1
  <2> HIDE DEF x
  <2>3. QED  BY <1>0, <2>1, <2>2
<1> HIDE DEF x
<1>3. ASSUME NEW u \in Answering
      PROVE  /\ fetchedPackets(u) # <<>> /\ Head(fetchedPackets(u)).type = "READ"
             /\ UnitOf(Head(fetchedPackets(u))) = u
  <2>1. u \in Units  BY DEF Answering
  <2>2. QED  BY <1>1, <2>1
<1>4. QED  BY <1>1, <1>2, <1>3 DEF Remaining, x

(* What an update of the controller leaves a plane.                        *)
LEMMA ControllerPackets ==
    ASSUME TypeInv, RegisterInv, StoreInv, ControllerUpdate, NEW u \in Units
    PROVE  LET rest == CommandsOf(u, readQueues'[u[1]])
           IN  /\ rest \in Seq(Packets) /\ Sent(u, OnChannel) \in Seq(Packets)
               /\ pendingPackets(u) = If(Running(u, "WRITE"), currentCommands[u])
                                        \o (Sent(u, OnChannel) \o rest)
               /\ pendingPackets(u)' = If(Running(u, "WRITE"), currentCommands[u])'
                                         \o OnTheWay(u)' \o rest
               /\ fetchedPackets(u)' = FromPlane(u, returnDataPackets[u[1]])
                                         \o If(Running(u, "READ"), currentCommands[u])'
<1> DEFINE rest == CommandsOf(u, readQueues'[u[1]])
           w == If(Running(u, "WRITE"), currentCommands[u])
           o == OnTheWay(u)
           c == CommandsOf(u, readQueues[u[1]])
           s == Sent(u, OnChannel)
           y == FromPlane(u, returnDataPackets[u[1]])
           w2 == If(Running(u, "WRITE"), currentCommands[u])'
           o2 == OnTheWay(u)'
           r2 == If(Running(u, "READ"), currentCommands[u])'
<1>1. /\ PlacePacket(Placeable) /\ returnDataPackets' = returnDataPackets
      /\ returnTransaction' = <<>>
      BY DEF ControllerUpdate, AnswerReads
<1>2. s \in Seq(Packets) /\ rest \in Seq(Packets) /\ s \o rest = o \o c
      BY <1>1, PlaceKeeps
<1>3. w \in Seq(Packets) /\ o \in Seq(Packets) /\ c \in Seq(Packets) /\ y \in Seq(Packets)
      BY QueueTypes
<1>4. pendingPackets(u) = (w \o o) \o c  BY DEF pendingPackets
<1>5. pendingPackets(u)' = w2 \o o2 \o rest  BY DEF pendingPackets
<1>6. FromPlane(u, returnTransaction)' = <<>>
  <2>1. <<>> \in Seq(Packets)  BY EmptySeq
  <2>2. FromPlane(u, <<>>) = Picked(<<>>, OfPlane(u))  BY <2>1, PlaneIsPicked
  <2>3. Picked(<<>>, OfPlane(u)) = <<>>  BY PickedEmpty
  <2>4. FromPlane(u, returnTransaction)' = FromPlane(u, returnTransaction')  OBVIOUS
  <2>5. QED  BY <1>1, <2>2, <2>3, <2>4
<1>7. FromPlane(u, returnDataPackets[u[1]])' = y  BY <1>1 DEF FromPlane
<1>8. fetchedPackets(u)' = <<>> \o y \o r2  BY <1>6, <1>7 DEF fetchedPackets
<1> HIDE DEF w, o, c, s, rest, y, w2, o2, r2
<1>9. (w \o o) \o c = w \o (o \o c)  BY <1>3, ConcatAssociative
<1>10. <<>> \o y = y  BY <1>3, ConcatEmptySeq
<1>11. QED  BY <1>2, <1>4, <1>5, <1>8, <1>9, <1>10 DEF w, s, rest, y, w2, o2, r2

(* Nothing reaches a die but data.                                         *)
LEMMA NothingArrivesMaps ==
    ASSUME TypeInv, RegisterInv, StoreInv, ControllerUpdate,
           UNCHANGED <<currentCommands, blocks>>,
           \A u \in Units : OnTheWay(u)' = Sent(u, OnChannel)
    PROVE  Store!Next
<1>1. answers' = {Answer(Head(fetchedPackets(u))) : u \in Answering}
      BY AnswersMap DEF ControllerUpdate, AnswerReads
<1>2. ASSUME NEW u \in Units
      PROVE  /\ pendingPackets(u)' = pendingPackets(u)
             /\ fetchedPackets(u)' = Remaining(Answering, u)
  <2> DEFINE w == If(Running(u, "WRITE"), currentCommands[u])
             s == Sent(u, OnChannel)
             rest == CommandsOf(u, readQueues'[u[1]])
  <2>1. w' = w  BY DEF If, Running
  <2>2. If(Running(u, "READ"), currentCommands[u])' = If(Running(u, "READ"), currentCommands[u])
        BY DEF If, Running
  <2>3. /\ rest \in Seq(Packets) /\ s \in Seq(Packets) /\ w \in Seq(Packets)
        /\ pendingPackets(u) = w \o (s \o rest)
        /\ pendingPackets(u)' = w' \o OnTheWay(u)' \o rest
        /\ fetchedPackets(u)' = FromPlane(u, returnDataPackets[u[1]])
                                  \o If(Running(u, "READ"), currentCommands[u])'
        BY ControllerPackets, QueueTypes
  <2>4. OnTheWay(u)' = s  OBVIOUS
  <2>5. fetchedPackets(u)' = Remaining(Answering, u)  BY <2>2, <2>3, AnswersMap
  <2> HIDE DEF w, s, rest
  <2>6. (w \o s) \o rest = w \o (s \o rest)  BY <2>3, ConcatAssociative
  <2>7. QED  BY <2>1, <2>3, <2>4, <2>5, <2>6
<1>3. blocks = [u \in Units |-> blocks[u]]  BY DEF TypeInv, TypeOK, DiesTypeOK
<1>4. Effect({}, {}, {}, Answering)
      BY <1>1, <1>2, <1>3, AnswersMap DEF Effect
<1>5. Answering \in SUBSET Units  BY DEF Answering
<1>6. QED  BY <1>4, <1>5, EffectMaps

(* A command reaches its die: a READ is done, an ERASE is done, a WRITE    *)
(* runs.                                                                   *)
LEMMA ArrivalMaps ==
    ASSUME TypeInv, RegisterInv, StoreInv, ControllerUpdate,
           NEW out \in Packets, out = OnChannel, outgoing' = NoPacket,
           NEW result, CommandArrived(out, result)
    PROVE  Store!Next
<1> DEFINE v == UnitOf(out)
           F == IF out.type = "READ" THEN {v} ELSE {}
           E == IF out.type = "ERASE" THEN {v} ELSE {}
<1>0. /\ v \in Units /\ out \in Packets /\ out # NoPacket /\ result \in Packets
      /\ result # NoPacket
      /\ currentCommands[v] = NoPacket
      /\ currentCommands' = [currentCommands EXCEPT ![v] = result]
      /\ currentCommands \in [Units -> MaybePacket]
      /\ blocks \in [Units -> [PageNums -> Data \cup {NoData}]]
      BY PacketTypes DEF CommandArrived, TypeInv, TypeOK, DiesTypeOK
<1>1. answers' = {Answer(Head(fetchedPackets(u))) : u \in Answering}
      BY AnswersMap DEF ControllerUpdate, AnswerReads
<1>2. ASSUME NEW u \in Units  PROVE OnTheWay(u)' = <<>>
      BY DEF OnTheWay, If
<1>3. \/ /\ out.type = "READ" /\ result.type = "READ" /\ result.page = out.page
         /\ result.data = blocks[v][out.page] /\ blocks' = blocks
      \/ out.type = "WRITE" /\ result = out /\ blocks' = blocks
      \/ /\ out.type = "ERASE" /\ result = out
         /\ blocks' = [blocks EXCEPT ![v] = [p \in PageNums |-> NoData]]
      BY DEF CommandArrived
<1>4. ASSUME NEW u \in Units \ {v}
      PROVE  /\ pendingPackets(u)' = pendingPackets(u)
             /\ fetchedPackets(u)' = Remaining(Answering, u)
  <2> DEFINE w == If(Running(u, "WRITE"), currentCommands[u])
             s == Sent(u, out)
             rest == CommandsOf(u, readQueues'[u[1]])
  <2>0. currentCommands'[u] = currentCommands[u]  BY <1>0
  <2>1. w' = w  BY <2>0 DEF If, Running
  <2>2. If(Running(u, "READ"), currentCommands[u])' = If(Running(u, "READ"), currentCommands[u])
        BY <2>0 DEF If, Running
  <2>3. /\ rest \in Seq(Packets) /\ s \in Seq(Packets) /\ w \in Seq(Packets)
        /\ pendingPackets(u) = w \o (s \o rest)
        /\ pendingPackets(u)' = w' \o OnTheWay(u)' \o rest
        /\ fetchedPackets(u)' = FromPlane(u, returnDataPackets[u[1]])
                                  \o If(Running(u, "READ"), currentCommands[u])'
        BY ControllerPackets, QueueTypes
  <2>4. s = <<>>  BY DEF Sent, CommandOf, If
  <2>5. OnTheWay(u)' = <<>>  BY <1>2
  <2>6. fetchedPackets(u)' = Remaining(Answering, u)  BY <2>2, <2>3, AnswersMap
  <2> HIDE DEF w, s, rest
  <2>7. w \o <<>> = w /\ <<>> \o rest = rest  BY <2>3, ConcatEmptySeq
  <2>8. QED  BY <2>1, <2>3, <2>4, <2>5, <2>6, <2>7
<1>5. /\ pendingPackets(v) # <<>> /\ Head(pendingPackets(v)) = out
      /\ pendingPackets(v)' = IF out.type = "WRITE" THEN pendingPackets(v)
                              ELSE Tail(pendingPackets(v))
      /\ fetchedPackets(v)' = IF out.type = "READ"
                              THEN Append(Remaining(Answering, v), result)
                              ELSE Remaining(Answering, v)
  <2> DEFINE w == If(Running(v, "WRITE"), currentCommands[v])
             r == If(Running(v, "READ"), currentCommands[v])
             w2 == If(Running(v, "WRITE"), currentCommands[v])'
             r2 == If(Running(v, "READ"), currentCommands[v])'
             s == Sent(v, out)
             rest == CommandsOf(v, readQueues'[v[1]])
             y == FromPlane(v, returnDataPackets[v[1]])
  <2>0. currentCommands'[v] = result  BY <1>0
  <2>1. w = <<>> /\ r = <<>>  BY <1>0 DEF Running, If
  <2>2. /\ w2 = IF out.type = "WRITE" THEN <<out>> ELSE <<>>
        /\ r2 = IF out.type = "READ" THEN <<result>> ELSE <<>>
        BY <1>0, <1>3, <2>0 DEF Running, If
  <2>3. /\ rest \in Seq(Packets) /\ y \in Seq(Packets)
        /\ pendingPackets(v) = w \o (s \o rest)
        /\ pendingPackets(v)' = w2 \o OnTheWay(v)' \o rest
        /\ fetchedPackets(v)' = y \o r2
        BY <1>0, ControllerPackets, QueueTypes
  <2>4. s = <<out>>
    <3>1. out.type \in {"READ", "WRITE", "ERASE"}  BY <1>3
    <3>2. QED  BY <1>0, <3>1 DEF Sent, CommandOf, If
  <2>5. OnTheWay(v)' = <<>>  BY <1>0, <1>2
  <2>6. Remaining(Answering, v) = y \o r  BY <1>0, AnswersMap
  <2> HIDE DEF w, s, rest, y, r, w2, r2
  <2>7. /\ <<out>> \o rest # <<>> /\ Head(<<out>> \o rest) = out
        /\ Tail(<<out>> \o rest) = rest /\ <<out>> \o rest \in Seq(Packets)
        BY <1>0, <2>3, HeadOfConcat
  <2>8. /\ <<>> \o (<<out>> \o rest) = <<out>> \o rest /\ <<>> \o rest = rest
        /\ y \o <<>> = y
        BY <2>3, <2>7, ConcatEmptySeq
  <2>9. <<out>> \o <<>> = <<out>> /\ <<>> \o <<>> = <<>>
    <3>1. <<out>> \in Seq(Packets)  BY <1>0, SingletonSeq
    <3>2. <<>> \in Seq(Packets)  BY EmptySeq
    <3>3. QED  BY <3>1, <3>2, ConcatEmptySeq
  <2>10. Append(y, result) = y \o <<result>>  BY <1>0, <2>3, AppendIsConcat
  <2>11. pendingPackets(v) = <<out>> \o rest  BY <2>1, <2>3, <2>4, <2>8
  <2>12. pendingPackets(v)' = IF out.type = "WRITE" THEN <<out>> \o rest ELSE rest
         BY <2>2, <2>3, <2>5, <2>8, <2>9
  <2>13. fetchedPackets(v)' = IF out.type = "READ" THEN Append(y, result) ELSE y
         BY <2>2, <2>3, <2>8, <2>10
  <2>14. Remaining(Answering, v) = y  BY <2>1, <2>6, <2>8
  <2>15. QED  BY <2>7, <2>11, <2>12, <2>13, <2>14
<1>6. F \in SUBSET Units /\ E \in SUBSET Units /\ Answering \in SUBSET Units
      BY <1>0 DEF Answering
<1>7. blocks' = [u \in Units |-> IF u \in E THEN [p \in PageNums |-> NoData] ELSE blocks[u]]
      BY <1>0, <1>3
<1>8. Effect(F, {}, E, Answering)
  <2>1. ASSUME NEW u \in Units
        PROVE  /\ u \in F \cup {} \cup E =>
                    /\ pendingPackets(u) # <<>>
                    /\ u \in F => Head(pendingPackets(u)).type = "READ"
                    /\ u \in E => Head(pendingPackets(u)).type = "ERASE"
                    /\ UnitOf(Head(pendingPackets(u))) = u
               /\ pendingPackets(u)' = IF u \in F \cup {} \cup E THEN Tail(pendingPackets(u))
                                       ELSE pendingPackets(u)
    <3>1. CASE u = v
      <4>1. pendingPackets(u) # <<>> /\ Head(pendingPackets(u)) = out  BY <1>5, <3>1
      <4>2. UnitOf(out) = u  BY <3>1
      <4>3. u \in F <=> out.type = "READ"  BY <3>1
      <4>4. u \in E <=> out.type = "ERASE"  BY <3>1
      <4>5. pendingPackets(u)' = IF out.type = "WRITE" THEN pendingPackets(u)
                                 ELSE Tail(pendingPackets(u))
            BY <1>5, <3>1
      <4> HIDE DEF F, E, v
      <4>6. QED  BY <1>3, <4>1, <4>2, <4>3, <4>4, <4>5
    <3>2. CASE u # v
      <4>1. u \notin F /\ u \notin E  BY <3>2
      <4>2. u \in Units \ {v}  BY <3>2
      <4>3. pendingPackets(u)' = pendingPackets(u)  BY <1>4, <4>2
      <4> HIDE DEF F, E, v
      <4>4. QED  BY <4>1, <4>3
    <3>3. QED  BY <3>1, <3>2
  <2>2. ASSUME NEW u \in Units, u \notin F
        PROVE  fetchedPackets(u)' = Remaining(Answering, u)
    <3>1. CASE u = v
      <4>1. out.type # "READ"  BY <2>2, <3>1
      <4>2. QED  BY <1>5, <3>1, <4>1
    <3>2. CASE u # v
      <4>1. u \in Units \ {v}  BY <3>2
      <4>2. QED  BY <1>4, <4>1
    <3>3. QED  BY <3>1, <3>2
  <2>3. ASSUME NEW u \in F
        PROVE  \E pkt \in Packets :
                  /\ pkt.page = Head(pendingPackets(u)).page
                  /\ pkt.data = blocks[u][Head(pendingPackets(u)).page]
                  /\ fetchedPackets(u)' = Append(Remaining(Answering, u), pkt)
    <3>1. u = v /\ out.type = "READ"  OBVIOUS
    <3>2. Head(pendingPackets(u)) = out  BY <1>5, <3>1
    <3>3. fetchedPackets(u)' = Append(Remaining(Answering, u), result)  BY <1>5, <3>1
    <3>4. result.page = out.page /\ result.data = blocks[u][out.page]  BY <1>3, <3>1
    <3>5. QED  BY <1>0, <3>2, <3>3, <3>4
  <2> HIDE DEF F, E
  <2>4. QED  BY <1>1, <1>7, <2>1, <2>2, <2>3, AnswersMap DEF Effect
<1>9. {} \in SUBSET Units  OBVIOUS
<1> HIDE DEF F, E
<1>10. QED  BY <1>6, <1>8, <1>9, EffectMaps

LEMMA ControllerUpdateMaps ==
    ASSUME TypeInv, RegisterInv, StoreInv, ControllerUpdate  PROVE Store!Next
<1>1. PlacePacket(Placeable) /\ TransferBeat  BY DEF ControllerUpdate
<1>2. OnChannel \in MaybePacket  BY <1>1, PlaceType
<1>3. CASE outgoing' = OnChannel /\ UNCHANGED <<commandVars, planeVars>>
  <2>1. UNCHANGED <<currentCommands, blocks>>  BY <1>3 DEF commandVars, planeVars
  <2>2. ASSUME NEW u \in Units  PROVE OnTheWay(u)' = Sent(u, OnChannel)
        BY <1>3 DEF OnTheWay, Sent, CommandOf
  <2>3. QED  BY <2>1, <2>2, NothingArrivesMaps
<1>4. CASE OnChannel # NoPacket /\ outgoing' = NoPacket /\ receiveFromBuffer(OnChannel)
  <2>1. OnChannel \in Packets  BY <1>2, <1>4 DEF MaybePacket
  <2>2. PacketsSound(readQueues', OnChannel, currentCommands, cacheReg)
        BY <1>1, PlaceSound
  <2>3. \/ OnChannel.type = "DATA" /\ UNCHANGED <<currentCommands, blocks>>
        \/ \E result : CommandArrived(OnChannel, result)
        BY <1>4, <2>1, <2>2, ArriveChanges, TypeInvDies DEF RegisterInv
  <2>4. CASE OnChannel.type = "DATA" /\ UNCHANGED <<currentCommands, blocks>>
    <3>1. ASSUME NEW u \in Units  PROVE OnTheWay(u)' = Sent(u, OnChannel)
          BY <1>4, <2>4 DEF OnTheWay, Sent, CommandOf, If
    <3>2. QED  BY <2>4, <3>1, NothingArrivesMaps
  <2>5. ASSUME NEW out \in Packets, out = OnChannel, NEW result, CommandArrived(out, result)
        PROVE  Store!Next
        BY <1>4, <2>5, ArrivalMaps
  <2>6. QED  BY <2>1, <2>3, <2>4, <2>5
<1>5. CASE OnChannel = NoPacket /\ UNCHANGED <<outgoing, commandVars, planeVars>>
  <2>1. outgoing = NoPacket  BY <1>5, Placed DEF OnChannel
  <2>2. QED  BY <1>3, <1>5, <2>1
<1>6. QED  BY <1>1, <1>3, <1>4, <1>5 DEF TransferBeat

-----------------------------------------------------------------------------
(* A die.  The writes that end are stored; a page on its way through the   *)
(* registers and the list of pages keeps its place among the reads.        *)
LEMMA DiePending ==
    ASSUME TypeInv, StoreInv, NEW d \in Dies, DieUpdate(d), NEW u \in Units
    PROVE  /\ pendingPackets(u)' = IF u \in Stored(d) THEN Tail(pendingPackets(u))
                                   ELSE pendingPackets(u)
           /\ u \in Stored(d) => /\ pendingPackets(u) # <<>>
                                 /\ Head(pendingPackets(u)) = currentCommands[u]
                                 /\ currentCommands[u].type = "WRITE"
                                 /\ UnitOf(currentCommands[u]) = u
<1> DEFINE w == If(Running(u, "WRITE"), currentCommands[u])
           w2 == If(Running(u, "WRITE"), currentCommands[u])'
           o == OnTheWay(u)
           c == CommandsOf(u, readQueues[u[1]])
<1>1. /\ currentCommands' = [v \in Units |-> CommandAfter(d, v)]
      /\ readQueues' = readQueues /\ outgoing' = outgoing
      BY DEF DieUpdate, EndCommands, controllerVars
<1>2. currentCommands'[u] = CommandAfter(d, u)  BY <1>1
<1>3. /\ w \in Seq(Packets) /\ o \in Seq(Packets) /\ c \in Seq(Packets)
      /\ currentCommands[u] \in MaybePacket
      BY QueueTypes DEF TypeInv, TypeOK, DiesTypeOK
<1>4. o' = o /\ c' = c  BY <1>1 DEF OnTheWay, CommandsOf
<1>5. pendingPackets(u) = w \o o \o c /\ pendingPackets(u)' = w2 \o o \o c
      BY <1>4 DEF pendingPackets
<1>6. CASE u \in Stored(d)
  <2>1. /\ On(d, u) /\ Expired(u) /\ currentCommands[u].type = "WRITE"
        /\ currentCommands[u] # NoPacket
        BY <1>6 DEF Stored, ExpiredIs, Expired
  <2>2. UnitOf(currentCommands[u]) = u  BY <2>1 DEF StoreInv, CommandsKept
  <2>3. currentCommands'[u] = NoPacket  BY <1>2, <2>1 DEF CommandAfter, Ends
  <2> DEFINE e == currentCommands[u]
  <2>4. w = <<e>> /\ w2 = <<>> /\ e \in Packets
        BY <1>3, <2>1, <2>3 DEF Running, If, MaybePacket
  <2> HIDE DEF w, w2, o, c, e
  <2>5. o \o c \in Seq(Packets) /\ (<<e>> \o o) \o c = <<e>> \o (o \o c) /\ <<>> \o o = o
    <3>1. <<e>> \in Seq(Packets)  BY <2>4, SingletonSeq
    <3>2. QED  BY <1>3, <3>1, ConcatProperties, ConcatAssociative, ConcatEmptySeq
  <2> DEFINE z == o \o c
  <2>6. /\ z \in Seq(Packets) /\ pendingPackets(u) = <<e>> \o z /\ pendingPackets(u)' = z
        BY <1>5, <2>4, <2>5
  <2> HIDE DEF z
  <2>7. <<e>> \o z # <<>> /\ Head(<<e>> \o z) = e /\ Tail(<<e>> \o z) = z
        BY <2>4, <2>6, HeadOfConcat
  <2>8. QED  BY <1>6, <2>1, <2>2, <2>6, <2>7 DEF e
<1>7. CASE u \notin Stored(d)
  <2>1. ~(On(d, u) /\ ExpiredIs(u, "WRITE"))  BY <1>7 DEF Stored
  <2>2. w2 = w
        BY <1>2, <2>1 DEF Running, If, CommandAfter, Ends, ExpiredIs
  <2>3. QED  BY <1>5, <1>7, <2>2
<1>8. QED  BY <1>6, <1>7

LEMMA DiePages ==
    ASSUME TypeInv, RegisterInv, StoreInv, NEW d \in Dies, DieUpdate(d), NEW u \in Units
    PROVE  LET x == FromPlane(u, returnTransaction)
               y == FromPlane(u, returnDataPackets[u[1]])
           IN  x' \o y' = x \o y \o If(On(d, u) /\ Fetches(u), dataReg[u])
<1> DEFINE x == FromPlane(u, returnTransaction)
           y == FromPlane(u, returnDataPackets[u[1]])
           f == If(On(d, u) /\ Fetches(u), dataReg[u])
           T == OfPlane(u)
           t == ToReturn(d)
           s == returnTransaction
<1>1. /\ u[1] \in Dies /\ returnDataPackets \in [Dies -> Seq(Packets)]
      /\ s \in Seq(Packets) /\ t \in Seq(Packets) /\ Fetched(d) \in Seq(Packets)
      /\ x \in Seq(Packets) /\ y \in Seq(Packets)
      BY UnitTypes, QueueTypes, ToReturnType, TypeInvDies DEF TypeInv, TypeOK, DiesTypeOK
<1>2. f \in Seq(Packets)  BY DieReading, StoreInvDies DEF DieUpdate
<1>3. \/ returnDataPackets' = [returnDataPackets EXCEPT ![d] = t] /\ s' = s
      \/ /\ t # <<>> /\ returnDataPackets' = [returnDataPackets EXCEPT ![d] = Tail(t)]
         /\ s' = Append(s, Head(t))
      BY DieReturns DEF Returned
<1>4. x = Picked(s, T)  BY <1>1, PlaneIsPicked
<1>5. x' = FromPlane(u, s') /\ y' = FromPlane(u, returnDataPackets'[u[1]])  OBVIOUS
<1>6. t # <<>> => /\ Head(t) \in Packets /\ Tail(t) \in Seq(Packets)
                  /\ Picked(t, T) = If(Head(t) \in T, Head(t)) \o Picked(Tail(t), T)
                  /\ Picked(Append(s, Head(t)), T) = x \o If(Head(t) \in T, Head(t))
                  /\ Append(s, Head(t)) \in Seq(Packets)
                  /\ If(Head(t) \in T, Head(t)) \in Seq(Packets)
                  /\ Head(t).die = d
  <2> SUFFICES ASSUME t # <<>>
               PROVE  /\ Head(t) \in Packets /\ Tail(t) \in Seq(Packets)
                      /\ Picked(t, T) = If(Head(t) \in T, Head(t)) \o Picked(Tail(t), T)
                      /\ Picked(Append(s, Head(t)), T) = x \o If(Head(t) \in T, Head(t))
                      /\ Append(s, Head(t)) \in Seq(Packets)
                      /\ If(Head(t) \in T, Head(t)) \in Seq(Packets)
                      /\ Head(t).die = d
      OBVIOUS
  <2>1. Head(t).die = d
    <3>1. \A i \in 1 .. Len(t) : t[i].die = d  BY ToReturnRead, StoreInvDies
    <3> HIDE DEF t
    <3>2. 1 \in 1 .. Len(t) /\ Head(t) = t[1]  BY <1>1, EmptySeq, LenProperties
    <3>3. QED  BY <3>1, <3>2
  <2> DEFINE h == Head(t)
  <2> HIDE DEF t, s, T, x
  <2>2. h \in Packets /\ Tail(t) \in Seq(Packets)  BY <1>1, HeadTailProperties
  <2>3. Picked(t, T) = If(h \in T, h) \o Picked(Tail(t), T)  BY <1>1, PickedHead
  <2> HIDE DEF h
  <2>4. Picked(Append(s, h), T) = Picked(s, T) \o If(h \in T, h)
        BY <1>1, <2>2, PickedAppend
  <2>5. Append(s, h) \in Seq(Packets)  BY <1>1, <2>2, AppendProperties
  <2>6. If(h \in T, h) \in Seq(Packets)  BY <2>2, SingletonSeq, EmptySeq DEF If
  <2>7. QED  BY <1>4, <2>1, <2>2, <2>3, <2>4, <2>5, <2>6 DEF h
<1>7. CASE u[1] = d
  <2>1. y = Picked(returnDataPackets[d], T)  BY <1>1, <1>7, PlaneIsPicked
  <2>2. f = Picked(Fetched(d), T)
    <3>1. FromPlane(u, Fetched(d)) = f  BY FetchedOf, StoreInvDies
    <3>2. QED  BY <1>1, <3>1, PlaneIsPicked
  <2>3. Picked(t, T) = y \o f
    <3>1. Picked(returnDataPackets[d] \o Fetched(d), T)
            = Picked(returnDataPackets[d], T) \o Picked(Fetched(d), T)
      <4> DEFINE e == returnDataPackets[d]
                 g == Fetched(d)
      <4>1. e \in Seq(Packets) /\ g \in Seq(Packets)  BY <1>1
      <4> HIDE DEF T, e, g
      <4>2. Picked(e \o g, T) = Picked(e, T) \o Picked(g, T)  BY <4>1, PickedConcat, Zenon
      <4>3. QED  BY <4>2 DEF e, g
    <3>2. QED  BY <2>1, <2>2, <3>1 DEF ToReturn
  <2> HIDE DEF f, y
  <2>4. CASE returnDataPackets' = [returnDataPackets EXCEPT ![d] = t] /\ s' = s
    <3>1. returnDataPackets'[u[1]] = t  BY <1>1, <1>7, <2>4
    <3>2. FromPlane(u, t) = Picked(t, T)  BY <1>1, PlaneIsPicked
    <3>3. FromPlane(u, s') = x  BY <2>4
    <3> HIDE DEF x, t, T, s
    <3>4. (x \o y) \o f = x \o (y \o f)
      <4>1. x \in Seq(Packets) /\ y \in Seq(Packets) /\ f \in Seq(Packets)  BY <1>1, <1>2
      <4>2. QED  BY <4>1, ConcatAssociative
    <3>5. QED  BY <1>5, <2>3, <3>1, <3>2, <3>3, <3>4 DEF x, y, f
  <2>5. CASE /\ t # <<>> /\ returnDataPackets' = [returnDataPackets EXCEPT ![d] = Tail(t)]
             /\ s' = Append(s, Head(t))
    <3> DEFINE h == If(Head(t) \in T, Head(t))
               z == Picked(Tail(t), T)
    <3>1. returnDataPackets'[u[1]] = Tail(t)  BY <1>1, <1>7, <2>5
    <3>2. /\ FromPlane(u, Tail(t)) = z /\ z \in Seq(Packets)
          BY <1>6, <2>5, PlaneIsPicked, PickedType
    <3>3. FromPlane(u, Append(s, Head(t))) = x \o h  BY <1>6, <2>5, PlaneIsPicked
    <3>4. h \o z = y \o f /\ h \in Seq(Packets)  BY <1>6, <2>3, <2>5
    <3>5. FromPlane(u, s') = x \o h  BY <2>5, <3>3
    <3> HIDE DEF x, t, T, s, h, z
    <3>6. (x \o h) \o z = x \o (h \o z) /\ (x \o y) \o f = x \o (y \o f)
      <4>1. x \in Seq(Packets) /\ y \in Seq(Packets) /\ f \in Seq(Packets)  BY <1>1, <1>2
      <4>2. h \in Seq(Packets) /\ z \in Seq(Packets)  BY <3>2, <3>4
      <4>3. (x \o h) \o z = x \o (h \o z)
        <5>1. x \in Seq(Packets)  BY <4>1
        <5>2. QED  BY <4>2, <5>1, ConcatAssociative
      <4>4. (x \o y) \o f = x \o (y \o f)  BY <4>1, ConcatAssociative
      <4>5. QED  BY <4>3, <4>4
    <3>7. QED  BY <1>5, <3>1, <3>2, <3>4, <3>5, <3>6 DEF x, y, f
  <2>6. QED  BY <1>3, <2>4, <2>5
<1>8. CASE u[1] # d
  <2>1. f = <<>>  BY <1>8 DEF On, If
  <2>2. returnDataPackets'[u[1]] = returnDataPackets[u[1]]  BY <1>1, <1>3, <1>8
  <2>3. y' = y  BY <2>2
  <2>4. x' = x
    <3>1. CASE s' = s  BY <3>1
    <3>2. CASE t # <<>> /\ s' = Append(s, Head(t))
      <4>1. UnitOf(Head(t))[1] = d  BY <1>6, <3>2 DEF UnitOf
      <4>2. If(Head(t) \in T, Head(t)) = <<>>  BY <1>8, <4>1 DEF OfPlane, If
      <4>3. FromPlane(u, Append(s, Head(t))) = x \o <<>>
            BY <1>6, <3>2, <4>2, PlaneIsPicked
      <4>4. FromPlane(u, s') = x \o <<>>  BY <3>2, <4>3
      <4> HIDE DEF x
      <4>5. x \o <<>> = x  BY <1>1, ConcatEmptySeq
      <4>6. QED  BY <1>5, <4>4, <4>5
    <3>3. QED  BY <1>3, <3>1, <3>2
  <2> HIDE DEF x, y, f
  <2>5. x \o y \in Seq(Packets)  BY <1>1, ConcatProperties
  <2>6. (x \o y) \o <<>> = x \o y  BY <2>5, ConcatEmptySeq
  <2>7. QED  BY <2>1, <2>3, <2>4, <2>6 DEF x, y, f
<1>9. QED  BY <1>7, <1>8

LEMMA DieUpdateMaps ==
    ASSUME TypeInv, RegisterInv, StoreInv, NEW d \in Dies, DieUpdate(d)
    PROVE  Store!Next
<1> DEFINE W == Stored(d)
<1>1. ASSUME NEW u \in Units  PROVE fetchedPackets(u)' = fetchedPackets(u)
  <2> DEFINE x == FromPlane(u, returnTransaction)
             y == FromPlane(u, returnDataPackets[u[1]])
             f == If(On(d, u) /\ Fetches(u), dataReg[u])
             r == If(Running(u, "READ"), currentCommands[u])
             r2 == If(Running(u, "READ"), currentCommands[u])'
  <2>1. x \in Seq(Packets) /\ y \in Seq(Packets)  BY QueueTypes
  <2>2. f \in Seq(Packets) /\ r2 \in Seq(Packets) /\ r = f \o r2  BY DieReading, StoreInvDies DEF DieUpdate
  <2>3. x' \o y' = (x \o y) \o f  BY DiePages
  <2>4. fetchedPackets(u) = (x \o y) \o r  BY DEF fetchedPackets
  <2>5. fetchedPackets(u)' = (x' \o y') \o r2  BY DEF fetchedPackets
  <2> HIDE DEF x, y, f, r, r2
  <2>6. x \o y \in Seq(Packets)  BY <2>1, ConcatProperties
  <2> DEFINE a == x \o y
  <2>7. a \in Seq(Packets)  BY <2>6
  <2> HIDE DEF a
  <2>8. (a \o f) \o r2 = a \o (f \o r2)  BY <2>2, <2>7, ConcatAssociative
  <2>9. QED  BY <2>2, <2>3, <2>4, <2>5, <2>8 DEF a
<1>2. answers' = {Answer(Head(pendingPackets(u))) : u \in W}
  <2>1. answers' = {Answer(currentCommands[u]) : u \in W}
        BY DEF DieUpdate, EndCommands, Stored
  <2>2. \A u \in W : Head(pendingPackets(u)) = currentCommands[u]
        BY DiePending DEF Stored
  <2> HIDE DEF W
  <2>3. QED  BY <2>1, <2>2
<1>3. blocks' = [u \in Units |->
         IF u \in W
         THEN [blocks[u] EXCEPT ![Head(pendingPackets(u)).page] = Head(pendingPackets(u)).data]
         ELSE blocks[u]]
  <2>1. blocks' = [u \in Units |-> BlockAfter(d, u)]  BY DEF DieUpdate, EndCommands
  <2>2. \A u \in Units : BlockAfter(d, u) =
           IF u \in W
           THEN [blocks[u] EXCEPT ![Head(pendingPackets(u)).page] = Head(pendingPackets(u)).data]
           ELSE blocks[u]
        BY DiePending, DieBlocks, StoreInvDies
  <2> HIDE DEF W
  <2>3. QED  BY <2>1, <2>2
<1>4. ASSUME NEW u \in Units
      PROVE  /\ pendingPackets(u)' = IF u \in W THEN Tail(pendingPackets(u))
                                     ELSE pendingPackets(u)
             /\ u \in W => /\ pendingPackets(u) # <<>>
                           /\ Head(pendingPackets(u)).type = "WRITE"
                           /\ UnitOf(Head(pendingPackets(u))) = u
      BY DiePending
<1>5. W \in SUBSET Units  BY DEF Stored
<1> HIDE DEF W
<1>6. Effect({}, W, {}, {})  BY <1>1, <1>2, <1>3, <1>4 DEF Effect, Remaining
<1>7. QED  BY <1>5, <1>6, EffectMaps

LEMMA InitMaps == Init => Store!Init
<1> SUFFICES ASSUME Init PROVE Store!Init  OBVIOUS
<1>1. ASSUME NEW u \in Units
      PROVE  pendingPackets(u) = <<>> /\ fetchedPackets(u) = <<>>
  <2>1. /\ u[1] \in Dies /\ readQueues[u[1]] = <<>> /\ returnDataPackets[u[1]] = <<>>
        /\ returnTransaction = <<>> /\ outgoing = NoPacket /\ currentCommands[u] = NoPacket
        BY UnitTypes DEF Init, DiesInit
  <2>2. <<>> \in Seq(Packets)  BY EmptySeq
  <2>3. FromPlane(u, <<>>) = <<>> /\ CommandsOf(u, <<>>) = <<>>
        BY <2>2, PlaneIsPicked, PickedEmpty
  <2>4. OnTheWay(u) = <<>> /\ \A type : If(Running(u, type), currentCommands[u]) = <<>>
        BY <2>1 DEF OnTheWay, Running, If
  <2>5. <<>> \o <<>> = <<>>  BY <2>2, ConcatEmptySeq
  <2>6. QED  BY <2>1, <2>3, <2>4, <2>5 DEF pendingPackets, fetchedPackets
<1>2. \A u \in Units : Map(Op, pendingPackets(u)) = <<>> /\ Map(Page, fetchedPackets(u)) = <<>>
  <2>1. DOMAIN <<>> = {}
        BY EmptySeq, LenProperties
  <2>2. Map(Op, <<>>) = <<>> /\ Map(Page, <<>>) = <<>>  BY <2>1 DEF Map
  <2>3. QED  BY <1>1, <2>2
<1>3. blocks = [u \in Units |-> [p \in PageNums |-> NoData]] /\ answers = {}
      BY DEF Init, DiesInit
<1> HIDE DEF Map
<1>4. QED  BY <1>2, <1>3 DEF Store!Init, Store!Erased

LEMMA StoreNext ==
    ASSUME HostCommands, TypeInv, RegisterInv, StoreInv, [Next]_vars
    PROVE  [Store!Next]_(Store!vars)
<1>1. CASE FtlUpdate  BY <1>1, FtlUpdateMaps
<1>2. CASE ControllerUpdate  BY <1>2, ControllerUpdateMaps
<1>3. ASSUME NEW d \in Dies, DieUpdate(d) PROVE Store!Next  BY <1>3, DieUpdateMaps
<1>4. CASE UNCHANGED vars
  <2>1. UNCHANGED <<readQueues, outgoing, currentCommands, returnTransaction,
                    returnDataPackets, blocks, answers>>
        BY <1>4 DEF vars, diesVars, controllerVars, commandVars, planeVars
  <2>2. \A u \in Units : /\ pendingPackets(u)' = pendingPackets(u)
                         /\ fetchedPackets(u)' = fetchedPackets(u)
        BY <2>1 DEF pendingPackets, fetchedPackets, Running, OnTheWay
  <2>3. UNCHANGED Store!vars
    <3>1. [u \in Units |-> Map(Op, pendingPackets(u))]'
            = [u \in Units |-> Map(Op, pendingPackets(u))]
          BY <2>2
    <3>2. [u \in Units |-> Map(Page, fetchedPackets(u))]'
            = [u \in Units |-> Map(Page, fetchedPackets(u))]
          BY <2>2
    <3>3. QED  BY <2>1, <3>1, <3>2 DEF Store!vars
  <2>4. QED  BY <2>3
<1>5. QED  BY <1>1, <1>2, <1>3, <1>4 DEF Next

(* Without garbage collection a package is a store of planes: whichever    *)
(* way the rotation of the dies, the transfers and the overlapping reads   *)
(* interleave them, the commands of a plane take effect in their order, a  *)
(* read is answered with the page as the commands before it left it, and   *)
(* every answer is that of exactly one command.                            *)
THEOREM PackageIsStore == HostCommands /\ ~GARBAGE_COLLECT => (Spec => ImplementsStore)
<1> SUFFICES ASSUME HostCommands, ~GARBAGE_COLLECT  PROVE Spec => ImplementsStore
    OBVIOUS
<1>1. TypeInv /\ RegisterInv /\ StoreInv /\ [Next]_vars
        => TypeInv' /\ RegisterInv' /\ StoreInv'
      BY TypeNext, RegisterNext, StoreInvNext
<1>2. TypeInv /\ RegisterInv /\ StoreInv /\ [Next]_vars => [Store!Next]_(Store!vars)
      BY StoreNext
<1>3. QED  BY <1>1, <1>2, InitType, RegisterInit, StoreInvInit, InitMaps,
              PTL DEF Spec, ImplementsStore, Store!Spec
=============================================================================
